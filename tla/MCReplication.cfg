SPECIFICATION Spec
CONSTANTS
    Server = {a, b, c}
    Nil = Nil
    Linger = FALSE
    MaxAppend = 1
    MaxTerm = 3
    MaxElections = 4
    MaxLog = 2
    MaxRestarts = 0
    MaxLosses = 0
    MaxCalls = 1
SYMMETRY Symmetry
CHECK_DEADLOCK FALSE
INVARIANTS LogMatching  AppliedChosen

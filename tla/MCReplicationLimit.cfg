SPECIFICATION SpecFaults
CONSTANTS
    Server = {a, b, c}
    Nil = Nil
    Linger = FALSE
    MaxAppend = 1
    MaxTerm = 2
    MaxElections = 9
    MaxLog = 1
    MaxRestarts = 0
    MaxLosses = 0
    MaxCalls = 2
    Faults = {"limit"}
SYMMETRY Symmetry
CHECK_DEADLOCK FALSE
INVARIANT AppliedChosen

SPECIFICATION SpecFaults
CONSTANTS
    Server = {a, b, c}
    Nil = Nil
    Linger = FALSE
    MaxAppend = 1
    MaxTerm = 3
    MaxElections = 9
    MaxLog = 1
    MaxRestarts = 1
    MaxLosses = 0
    MaxCalls = 1
    Faults = {"torn"}
SYMMETRY Symmetry
CHECK_DEADLOCK FALSE
INVARIANT LeaderCompleteness

SPECIFICATION FPSpec
CONSTANTS
    Server = {a, b, c}
    Nil = Nil
    MaxTerm = 3
    MaxFaults = 0
SYMMETRY Symmetry
CHECK_DEADLOCK FALSE
INVARIANT FastPathElectionSafety

SPECIFICATION Spec
CONSTANTS
    Server = {a, b, c}
    Nil = Nil
    MaxTerm = 2
    MaxFaults = 1
SYMMETRY Symmetry
CHECK_DEADLOCK FALSE
INVARIANTS TypeOK VoteOnce ElectionSafety KnownLeader
PROPERTIES DurableForward

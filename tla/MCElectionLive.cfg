SPECIFICATION FairSpec
CONSTANTS
    Server = {a, b}
    Nil = Nil
    MaxTerm = 3
    MaxFaults = 0
CHECK_DEADLOCK FALSE
PROPERTY StaleLeaderStepsDown

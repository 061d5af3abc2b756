SPECIFICATION ClockSpec
CONSTANTS
    g1 = g1
    g2 = g2
    Gen = {g1, g2}
    Thread = {t1, t2}
    Id <- MCId
    TimeSize = 2
    SeqSize = 2
    MachineSize = 4
CHECK_DEADLOCK FALSE
INVARIANT Unique

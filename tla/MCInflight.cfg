SPECIFICATION Spec
CONSTANTS
    Base = 1
    MaxIndex = 4
    MaxAcks = 4
    Needed <- MCNeeded
CHECK_DEADLOCK FALSE
INVARIANTS TypeOK Contiguous InOrder QuorumCounted Prompt NotifyPending ClosedQuiet AnsweredOnce

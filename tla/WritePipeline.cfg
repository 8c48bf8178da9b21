SPECIFICATION FairSpec
CONSTANTS
    User = {u1, u2}
    Write = {"w1", "w2", "w3"}
    kMaxPendingWrites = 2
    First = u1
INVARIANTS
    PipelineInv
    AssertionsHold
    NothingLost
PROPERTIES
    ImplementsQueue
    PipelineDrains
CHECK_DEADLOCK FALSE

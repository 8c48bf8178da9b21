SPECIFICATION GroupSpec
CONSTANTS
    Key = {1, 2}
    kNumLevels = 3
    kMaxMemCompactLevel = 1
    kL0_CompactionTrigger = 2
    kL0_StopWritesTrigger = 2
    MaxFilesOfLevel = 1
    WriteBufferSize = 0
    MaxWriters = 3
    MaxSequence = 3
    MaxRestarts = 1
    MaxReads = 0
    Batches <- OneOrBoth
    PowerFails = FALSE
INVARIANTS
    AckedIsWritten
PROPERTIES
    ImplementsStore
    WritesReturn
CHECK_DEADLOCK FALSE

SPECIFICATION MCSpec
CONSTANTS
    Key = {1, 2, 3}
    kNumLevels = 3
    kMaxMemCompactLevel = 1
    kL0_CompactionTrigger = 1
    kL0_StopWritesTrigger = 2
    MaxFilesOfLevel = 1
    WriteBufferSize = 0
    MaxWriters = 1
    MaxSequence = 5
    MaxRestarts = 2
    MaxReads = 1
    Batches <- AllOfThem
    PowerFails = TRUE
INVARIANTS
    GetFindsLatest
    FilesHoldAll
CHECK_DEADLOCK FALSE

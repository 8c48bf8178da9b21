SPECIFICATION PartsSpec
CONSTANTS
    NumKeys = 4
    MaxHeight = 3
    Files = {1, 2, 3}
    FirstFiles = {1}
    Threads = {t1, t2, t3}
    Capacity = 1
    MaxCrowd = 8
    kBlockSize = 5
    kHeaderSize = 2
    MaxLength = 4
    MaxRecords = 3
SYMMETRY ThreadSymmetry
INVARIANTS
    ListInv
    CacheInv
    CutGivesPrefix
    DamageIsContained
PROPERTIES
    SearchIsExact
    OpenTablesBounded
CHECK_DEADLOCK FALSE

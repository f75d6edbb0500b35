SPECIFICATION Spec
CONSTANTS
    LBA = {l1, l2, l3}
    totalBlockCnt = 3
    PAGE_NUM_PER_BLOCK = 4
    GC_BUCKET_NUM = 3
    gcWL = 1
    gcStallWL = 0
    gcBlockCnt = 2
    maxOccupied = 3
    diskPages = 12
    NULL = NULL
    WRITEABLE = WRITEABLE
    INVALID = INVALID
INVARIANTS BucketsMatchGarbage
PROPERTIES GCTerminates ImplementsPageMap
CHECK_DEADLOCK FALSE

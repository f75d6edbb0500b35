SPECIFICATION Spec
CONSTANTS
    LBA = {l1, l2, l3, l4}
    totalBlockCnt = 5
    PAGE_NUM_PER_BLOCK = 3
    GC_BUCKET_NUM = 3
    gcWL = 2
    gcStallWL = 1
    gcBlockCnt = 2
    maxOccupied = 4
    diskPages = 15
    NULL = NULL
    WRITEABLE = WRITEABLE
    INVALID = INVALID
SYMMETRY AddressSymmetry
INVARIANTS TypeOK IndexMatchesPages BlocksArePartitioned NeverCorrupt CopiesAvoidVictims GCKeepsFreeBlocks GCWritesItsCopies

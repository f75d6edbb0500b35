SPECIFICATION Spec
CONSTANTS
    LBA = {l1, l2}
    tierDownWL = 1
    tierDownCnt = 1
    bypass = TRUE
    NULL = NULL
INVARIANTS TypeOK RankedAreStored DoublesComeFromLateBatches
PROPERTIES OnlyTierDownDrops PendingBatchIsTaken DestroyReturns
CHECK_DEADLOCK FALSE

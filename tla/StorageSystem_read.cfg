SPECIFICATION Spec
CONSTANTS
    LBA = {l1, l2}
    tierDownWL = 1
    tierDownCnt = 1
    bypass = TRUE
    NULL = NULL
INVARIANT ReadFindsIt
CHECK_DEADLOCK FALSE

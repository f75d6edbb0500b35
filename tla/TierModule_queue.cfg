SPECIFICATION Spec
CONSTANTS
    Key = {k1, k2, k3, k4}
    tierDownWL = 3
    tierDownCnt = 2
    MaxFreq = 3
    MaxAge = 2
SYMMETRY PageSymmetry
INVARIANTS TypeOK QueueIsSorted IndexesAgree RankIsUsePlusAge TierDownMakesRoom
PROPERTIES RankNeverFalls ImplementsEvictionOrder
CHECK_DEADLOCK FALSE

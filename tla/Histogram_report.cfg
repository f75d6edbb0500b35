SPECIFICATION Spec
CONSTANTS
    hostConcurrency = 2
    Latency = {0, 1}
    kNumBuckets = 3
    limitCnt = 2
    Infinity = 9
    MaxCount = 2
INVARIANTS TypeOK ReportsAreExact MedianParts

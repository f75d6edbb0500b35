SPECIFICATION Spec
CONSTANTS
    hostConcurrency = 1
    Latency = {1, 2}
    kNumBuckets = 4
    limitCnt = 3
    Infinity = 9
    MaxCount = 2
INVARIANT MinIsTheLeast

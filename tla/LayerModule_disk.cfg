SPECIFICATION Spec
CONSTANTS
    totalBlockCnt = 4
    gcWL = 3
    gcStallWL = 1
    gcBlockCnt = 2
    tierDownWL = 3
    tierDownStallWL = 4
    tierDownCnt = 2
    addressCnt = 5
    MaxRequests = 2
    MaxTierQueue = 1
    requestQueueSize = 2
    hostConcurrency = 2
    backConcurrency = 1
    FLAGS_t0BlockCount = 4
    FLAGS_t1BlockCount = 40
    FLAGS_gcWaterLevel = 75
    FLAGS_gcBlockRatio = 50
    FLAGS_tierdownWaterLevel = 75
    FLGAS_tierdownLimitOffset = 25
    FLAGS_tierdownBlockRatio = 50
    PageNum = 1
INVARIANTS TypeOK OccupancyIsBounded GCBuffersSuffice GCFollowsHostRequests
PROPERTIES ScarceBlocksAreCollected WritesReturn

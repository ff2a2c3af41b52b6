SPECIFICATION FairSpec
CONSTANTS
    AsyncRequests = {}
    PoolThreads = 1
    MaxStarts = 1
    MaxPools = 2
PROPERTIES
    StopEndsThread

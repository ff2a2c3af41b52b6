SPECIFICATION AttendedSpec
CONSTANTS
    AsyncRequests = {r1, r2}
    PoolThreads = 1
    MaxStarts = 1
    MaxPools = 2
PROPERTIES
    EnterStops

SPECIFICATION AttendedSpec
CONSTANTS
    AsyncRequests = {r1, r2}
    PoolThreads = 2
    MaxStarts = 2
    MaxPools = 3
INVARIANTS
    HandlersSeeRouter
    PoolSoundWhileServing
    OneGlobalPool
PROPERTIES
    EofHangsStop
    NoServiceAfterStop
    StopReturns
    AsyncAnswered
    ImplementsAsyncPool

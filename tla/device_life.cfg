CONSTANTS
    DevNames = {"MWS600", "RD3000B"}
    MaxRequests = 1
    MaxPolls = 1
    MaxStarts = 2
    MaxNet = 2
    MaxPending = 2
SPECIFICATION FairSpec
INVARIANTS
    NotSilenced
PROPERTIES
    StopReturns
    DeadAfterStop
    SocketIsDrained
    ImplementsRegistryLife

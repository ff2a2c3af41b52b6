\* Two road-surface types that exclude each other, a weather station and the
\* name initCfg uses for a missing entry.
CONSTANTS
    DevNames = {"MWS600", "RD3000B", "RD3000C", "VD920G", "-1"}
    MaxRequests = 2
    MaxPolls = 1
SPECIFICATION WorkerSpec
INVARIANTS
    TypeOK
    NoExclusiveDevices
    StartedBeforeUse
    NoCommandLeftBehind
PROPERTIES
    PollIsASnapshot
    CloseIsComplete
    ImplementsRegistry

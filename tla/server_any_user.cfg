CONSTANTS
    DevNames = {"MWS600", "RD3000B", "RD3000C", "VD920G", "-1"}
    Configs <- AnyNames
    PatientUser = FALSE
    MaxRequests = 3
    MaxPolls = 2
SPECIFICATION FairSpec
INVARIANTS
    NoGhostDevice
PROPERTIES
    WedgedForever
    ImplementsWorker
    StartupComesOnline
    KeepsPolling
    StartupOrderWins

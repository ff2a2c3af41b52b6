CONSTANTS
    DevNames = {"MWS600", "RD3000B", "RD3000C", "VD920G", "VD930A"}
    MaxRequests = 1
    MaxPolls = 1
SPECIFICATION WorkerSpec
INVARIANT AskedWithListedCommand

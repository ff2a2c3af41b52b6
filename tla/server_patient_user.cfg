CONSTANTS
    DevNames = {"MWS600", "RD3000B", "RD3000C", "VD920G", "-1"}
    Configs <- DistinctNames
    PatientUser = TRUE
    MaxRequests = 3
    MaxPolls = 2
SPECIFICATION Spec
INVARIANT PanelShowsDevice

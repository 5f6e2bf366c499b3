SPECIFICATION FairSpec
CONSTANTS
    Peers = {a, b, c}
    InfectionTarget = 2
    SaturationLimitPercent = 34
    Kinds = {FALSE}
    Connected = {a, b}
    Silent = {a}
    Requesters = {}
    StorageFails = FALSE
    MaxInputs = 1
    MaxReports = 1
PROPERTIES EventuallyFinishes
CHECK_DEADLOCK FALSE

SPECIFICATION FairSpec
CONSTANTS
    Peers = {a, b, c}
    InfectionTarget = 2
    SaturationLimitPercent = 34
    Kinds = {TRUE, FALSE}
    Connected = {c}
    Silent = {a, b}
    Requesters = {}
    StorageFails = FALSE
    MaxInputs = 2
    MaxReports = 2
INVARIANTS HeldItemHasWork UnheldItemHasWork
PROPERTIES EventuallyFinishes
CHECK_DEADLOCK FALSE

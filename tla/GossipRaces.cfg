SPECIFICATION Spec
CONSTANTS
    Peers = {a, b}
    InfectionTarget = 2
    SaturationLimitPercent = 34
    Kinds = {TRUE, FALSE}
    Connected = {a, b}
    Silent = {a, b}
    Requesters = {a, b}
    StorageFails = TRUE
    MaxInputs = 1
    MaxReports = 2
SYMMETRY PeerSymmetry
INVARIANTS TypeOK TableSound OwedWhileGossiping OnlyStoredGossiped
CHECK_DEADLOCK FALSE

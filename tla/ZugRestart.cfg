SPECIFICATION Spec
CONSTANTS
    Validators <- MCValidators
    Us = "us"
    Correct = {"b"}
    Weight <- MCWeight
    Ftt = 1
    Banned = {}
    LastRound = 1
    Leader <- RestartLeader
    MaxFutureRounds = 2
    StartTimestamp = 0
    MinBlockTime = 0
    EndHeight = 1
    EndTimestamp = 0
    ClockTolerance = 0
    Blocks = {"z", "w"}
    NoBlock = "none"
    NeedsValidation = {}
    OwnBlocks = {"z", "w"}
    Network <- RestartNetwork
    EarlierEvidence = {}
    Moments <- AtOne
    Disks <- Failing
    Controls = {"deactivate"}
    MaxRestarts = 1
INVARIANTS NoDoubleSign ReplaySucceeds
PROPERTY SilentOnceFaulty
CHECK_DEADLOCK FALSE

SPECIFICATION Spec
CONSTANTS
    Validators <- MCValidators
    Us = "us"
    Correct = {"us", "b"}
    Weight <- MCWeight
    Ftt = 1
    Banned = {}
    LastRound = 2
    Leader <- ChainLeader
    MaxFutureRounds = 1
    StartTimestamp = 0
    MinBlockTime = 1
    EndHeight = 2
    EndTimestamp = 0
    ClockTolerance = 0
    Blocks = {"x", "y", "xx", "z"}
    NoBlock = "none"
    NeedsValidation = {"xx"}
    OwnBlocks = {"z"}
    Network <- ChainNetwork
    EarlierEvidence = {}
    Moments <- AtZeroOrTwo
    Disks <- Reliable
    Controls = {}
    MaxRestarts = 0
INVARIANTS NoBug RipeRoundsDirty CurrentRoundLowest AcceptedFitsParent FinalizedInOrder
PROPERTY EndedForGood
CHECK_DEADLOCK FALSE

SPECIFICATION FairSpec
CONSTANTS
    Validators <- MCValidators
    Us = "us"
    Correct = {"us", "b"}
    Weight <- MCWeight
    Ftt = 1
    Banned = {}
    LastRound = 0
    Leader <- OneRoundLeader
    MaxFutureRounds = 2
    StartTimestamp = 0
    MinBlockTime = 0
    EndHeight = 1
    EndTimestamp = 0
    ClockTolerance = 0
    Blocks = {"x", "y", "z"}
    NoBlock = "none"
    NeedsValidation = {"x"}
    OwnBlocks = {"z"}
    Network <- OneRoundNetwork
    EarlierEvidence = {"c"}
    Moments <- AtZeroOrOne
    Disks <- Reliable
    Controls = {"pause"}
    MaxRestarts = 0
INVARIANTS TypeOK QuorumsBacked QuorumsNoticed
PROPERTY EventuallyVotes
CHECK_DEADLOCK FALSE

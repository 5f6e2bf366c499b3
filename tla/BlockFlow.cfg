SPECIFICATION FairSpec
CONSTANTS
    us = us
    them = them
    nobody = nobody
    MaxHeight = 2
    Validators = {us, them}
    Signers = {us, them, nobody}
    Weight <- MCWeight
    ExecutionThreshold = 3
    Us = us
    Signatures <- MCSignatures
    SwitchBlocks = {{1}, {}}
    MaxCatchUps = 1
INVARIANTS TypeOK MetaBlocksTruthful ParentExecuted StrictWeightNoticed StreamedOnce
PROPERTY RequestedExecuted
CHECK_DEADLOCK FALSE

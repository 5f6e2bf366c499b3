SPECIFICATION LiveSpec
CONSTANTS
    us = us
    them = them
    nobody = nobody
    MaxHeight = 2
    Validators = {us, them}
    Signers = {us, them, nobody}
    Weight <- MCWeight
    ExecutionThreshold = 3
    Us = us
    Signatures <- MCSignatures
    SwitchBlocks = {{}}
    MaxCatchUps = 0
PROPERTY ExecutingCompleted
CHECK_DEADLOCK FALSE

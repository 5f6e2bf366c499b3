SPECIFICATION Spec
CONSTANTS
    MaxHeight = 5
    MaxRestarts = 3
    SwitchBlocks = {1, 4}
    MaxTtl = 2
INVARIANTS TypeOK CompletedStored RecentBlocksReadIfContiguous
PROPERTIES ImplementsCompletedHeights RestartKeepsIndex
CHECK_DEADLOCK FALSE

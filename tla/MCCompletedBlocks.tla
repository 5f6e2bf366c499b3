------------------------- MODULE MCCompletedBlocks -------------------------
EXTENDS CompletedBlocks
=============================================================================

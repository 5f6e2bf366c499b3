-------------------------- MODULE CompletedBlocks --------------------------
(***************************************************************************)
(* The storage component's index of complete blocks across restarts        *)
(* (node/src/components/storage.rs): blocks are stored in any order and    *)
(* marked complete later, the index is written to the database on every    *)
(* change, and `Storage::new` brings index and block store together again  *)
(* after a crash, an upgrade, a hard reset or a forced resync.             *)
(*                                                                         *)
(* There is one block of each height.  Its timestamp is its height.        *)
(***************************************************************************)
EXTENDS DisjointSequences, FiniteSetsExt

CONSTANTS
    MaxHeight,      \* bound: heights of blocks
    MaxRestarts,    \* bound: number of restarts
    SwitchBlocks,   \* heights of the blocks that end an era
    MaxTtl          \* the longest time to live of a transaction

ASSUME MaxHeightNat == MaxHeight \in Nat
ASSUME OthersNat == MaxRestarts \in Nat /\ MaxTtl \in Nat /\ SwitchBlocks \subseteq 0 .. MaxHeight

VARIABLES
    blocks,     \* protocol version of the stored block of each height, or Absent
    version,    \* the protocol version we run: Old, then New
    activation, \* the height from which blocks belong to the new version
    reset,      \* the new version is a hard reset to its activation point
    marker,     \* the marker file of a forced resync exists
    completed,  \* Storage::completed_blocks
    persisted,  \* the index in the database: none or one list
    restarts

vars == <<blocks, version, activation, reset, marker, completed, persisted, restarts>>

AllHeights == 0 .. MaxHeight
Absent == "Absent"
Legacy == "Legacy"
Old == "Old"
New == "New"

Stored(bs)  == {h \in AllHeights : bs[h] # Absent}
\* The highest stored block, -1 if there is none.
Tip(bs) == Max(Stored(bs) \cup {-1})

-----------------------------------------------------------------------------
(* Storage::new                                                             *)

\* IndexedLmdbBlockStore::new: a hard reset deletes the blocks from the
\* activation point on unless they belong to the version that resets.
Indexed(bs, v, start, hard_reset) ==
    [h \in AllHeights |->
        IF hard_reset /\ v = New /\ h >= start /\ bs[h] # New THEN Absent ELSE bs[h]]

\* Without an index, the blocks up to the highest one of an earlier version are
\* complete.
LegacyIndex(bs, v) ==
    LET earlier == {h \in Stored(bs) : bs[h] # v}
    IN  IF earlier = {} THEN <<>> ELSE <<Sequence(0, Max(earlier))>>

\* Mutant of LoadIndex: blocks above the tip stay in the index.
LoadIndexUntruncated(bs, v, disk) ==
    IF disk = {} THEN LegacyIndex(bs, v) ELSE CHOOSE ds \in disk : TRUE

LoadIndex(bs, v, disk) ==
    IF disk = {} THEN LegacyIndex(bs, v)
    ELSE IF Stored(bs) = {} THEN <<>>
    ELSE Truncate(CHOOSE ds \in disk : TRUE, Tip(bs))

\* The state after Storage::new, which ends by writing the index.  A start that stops
\* after it has made the marker of a forced resync, and before it writes the empty
\* index, is followed by one that finds the marker and does not resync.
StorageNew(bs, v, start, hard_reset, force_resync) ==
    LET kept == Indexed(bs, v, start, hard_reset)
    IN  /\ blocks' = kept
        /\ marker' = (marker \/ force_resync)
        /\ \E resync \in {FALSE, force_resync /\ ~marker} :
               completed' = IF resync THEN <<>> ELSE LoadIndex(kept, v, persisted)
        /\ persisted' = {completed'}

-----------------------------------------------------------------------------
(* Operations                                                               *)

\* A block of the chain is stored, not necessarily in order.
PutBlock(height) ==
    /\ blocks[height] = Absent
    /\ blocks' = [blocks EXCEPT
           ![height] = IF version = New /\ height >= activation THEN New ELSE Old]
    /\ UNCHANGED <<version, activation, reset, marker, completed, persisted, restarts>>

\* Mutant of MarkBlockComplete: the index is not written to the database.
MarkBlockCompleteInMemory(height) ==
    /\ blocks[height] # Absent
    /\ completed' = Insert(completed, height)
    /\ UNCHANGED <<blocks, version, activation, reset, marker, persisted, restarts>>

\* mark_block_complete; its callers have stored the block.  An index that does not
\* change is not written.
MarkBlockComplete(height) ==
    /\ blocks[height] # Absent
    /\ height \notin Heights(completed)
    /\ completed' = Insert(completed, height)
    /\ persisted' = {completed'}
    /\ UNCHANGED <<blocks, version, activation, reset, marker, restarts>>

\* The node stops, at any moment, and starts again.
Restart(force_resync) ==
    /\ restarts < MaxRestarts
    /\ restarts' = restarts + 1
    /\ StorageNew(blocks, version, activation, reset, force_resync)
    /\ UNCHANGED <<version, activation, reset>>

\* The node is upgraded, with the new version active from the start of an era:
\* after the last block of the old version, or as a hard reset to an earlier one.
Upgrade(height, hard_reset, force_resync) ==
    /\ restarts < MaxRestarts
    /\ version = Old
    /\ height - 1 \in SwitchBlocks
    /\ hard_reset \/ height > Tip(blocks)
    /\ restarts' = restarts + 1
    /\ version' = New
    /\ activation' = height
    /\ reset' = hard_reset
    /\ StorageNew(blocks, New, height, hard_reset, force_resync)

\* The component after its first start, on an empty database or on one without an
\* index: all blocks of earlier versions up to some height, and blocks that a run
\* of this version stored before it was aborted.
Init ==
    /\ \E legacy \in -1 .. MaxHeight : \E aborted \in SUBSET (legacy + 1 .. MaxHeight) :
           blocks = [h \in AllHeights |->
                        IF h <= legacy THEN Legacy ELSE IF h \in aborted THEN Old ELSE Absent]
    /\ version = Old
    /\ activation = 0
    /\ reset = FALSE
    /\ marker = FALSE
    /\ completed = LoadIndex(blocks, Old, {})
    /\ persisted = {completed}
    /\ restarts = 0

Next ==
    \/ \E height \in AllHeights : PutBlock(height) \/ MarkBlockComplete(height)
    \/ \E force_resync \in BOOLEAN : Restart(force_resync)
    \/ \E height \in AllHeights, hard_reset, force_resync \in BOOLEAN :
           Upgrade(height, hard_reset, force_resync)

Spec == Init /\ [][Next]_vars

-----------------------------------------------------------------------------
(* read_blocks_for_replay_protection                                        *)

\* Mutant of OldestNeeded: the time to live is not subtracted.
OldestNeededSwitch ==
    LET switches == SwitchBlocks \cap Stored(blocks)
    IN  IF switches = {} THEN MaxHeight + 1 ELSE Max(switches)

\* Blocks older than this need not be read.  Without a switch block the code
\* takes the present, so that every block is older.
OldestNeeded ==
    LET switches == SwitchBlocks \cap Stored(blocks)
    IN  IF switches = {} THEN MaxHeight + 1 ELSE Max(switches) - MaxTtl

\* The loops visit the sequences from the last to the first, each from high to
\* low, up to the first block that is old enough.
ReadBlocksForReplayProtection ==
    LET Before(h, k) ==
            \E i, j \in 1 .. Len(completed) :
                /\ h \in completed[i].low .. completed[i].high
                /\ k \in completed[j].low .. completed[j].high
                /\ i > j \/ (i = j /\ h > k)
        visited == Heights(completed) \cap Stored(blocks)
    IN  {h \in visited : ~\E k \in visited : k < OldestNeeded /\ Before(k, h)}

-----------------------------------------------------------------------------
(* Properties                                                               *)

TypeOK ==
    /\ blocks \in [AllHeights -> {Absent, Legacy, Old, New}]
    /\ version \in {Old, New}
    /\ activation \in AllHeights /\ reset \in BOOLEAN /\ marker \in BOOLEAN
    /\ completed \in Seq([low : AllHeights, high : AllHeights]) /\ Disjoint(completed)
    /\ persisted = {completed}
    /\ restarts \in 0 .. MaxRestarts

\* Every height the index calls complete has a block in the block store, whatever
\* a hard reset deleted and wherever the node stopped.
CompletedStored == Heights(completed) \subseteq Stored(blocks)

\* The list of sequences implements a set of heights (CompletedHeights): `insert`
\* adds one height and loses none whichever sequences it merges, and loading the
\* index in Storage::new drops the heights of deleted blocks and no others.
Abstract ==
    INSTANCE CompletedHeights WITH stored <- Stored(blocks), complete <- Heights(completed)
ImplementsCompletedHeights == Abstract!Spec

\* Without a hard reset or a forced resync a restart keeps every height that was
\* complete, and it never makes one complete.
RestartKeepsIndex ==
    [][restarts' # restarts /\ marker' = marker /\ ~reset'
           => Heights(completed') = Heights(completed)]_vars

\* The heights of a sequence that are recent: a transaction in them may still be
\* alive after the latest switch block we have.
Recent(s) ==
    {h \in s.low .. s.high : \E w \in SwitchBlocks \cap Stored(blocks) :
        /\ \A x \in SwitchBlocks \cap Stored(blocks) : x <= w
        /\ h + MaxTtl >= w}

\* The transaction buffer is given every recent complete block when the complete
\* blocks are contiguous.
RecentBlocksReadIfContiguous ==
    Len(completed) = 1 => Recent(completed[1]) \subseteq ReadBlocksForReplayProtection
=============================================================================

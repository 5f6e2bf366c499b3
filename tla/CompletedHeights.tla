-------------------------- MODULE CompletedHeights --------------------------
(***************************************************************************)
(* What the storage component promises about complete blocks: a set of     *)
(* stored heights and the set of those that are complete.  Heights become  *)
(* complete one by one, and a restart that deletes the blocks from some    *)
(* height on forgets exactly these, or all of them on a forced resync.     *)
(***************************************************************************)
EXTENDS Integers

CONSTANT MaxHeight  \* bound: heights of blocks

VARIABLES
    stored,     \* the heights of the blocks in the block store
    complete    \* the heights of the complete ones

AllHeights == 0 .. MaxHeight

\* A database that predates the index is taken to be complete up to a height.
Init ==
    /\ stored \in SUBSET AllHeights
    /\ complete \in {{}} \cup {0 .. height : height \in AllHeights}
    /\ complete \subseteq stored

Put(height) ==
    /\ stored' = stored \cup {height}
    /\ UNCHANGED complete

Mark(height) ==
    /\ height \in stored
    /\ complete' = complete \cup {height}
    /\ UNCHANGED stored

\* Heights from `end` on are deleted.
Restart(end) ==
    /\ stored' = {height \in stored : height < end}
    /\ complete' \in {complete \cap stored', {}}

Next ==
    \/ \E height \in AllHeights : Put(height) \/ Mark(height)
    \/ \E end \in 0 .. MaxHeight + 1 : Restart(end)

Spec == Init /\ [][Next]_<<stored, complete>>
=============================================================================

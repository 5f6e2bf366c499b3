--------------------------- MODULE BlockAccumulator ---------------------------
(***************************************************************************)
(* The block accumulator (node/src/components/block_accumulator.rs) and    *)
(* its acceptors (block_accumulator/block_acceptor.rs): blocks and         *)
(* finality signatures are collected, from peers, from the contract        *)
(* runtime and from ourselves, until a block has enough of both.           *)
(*                                                                         *)
(* There is one block for every height.  What has been done about a block  *)
(* is the set of flags of its meta block (types/block/meta_block/state.rs); *)
(* a copy travels with the block from component to component, and the      *)
(* accumulator merges the copies it is given.                              *)
(*                                                                         *)
(* Each operation takes the accumulator and returns the one it leaves,     *)
(* with the writes to storage that it asks for.                            *)
(***************************************************************************)
EXTENDS Naturals, FiniteSets, FiniteSetsExt

CONSTANTS
    MaxHeight,          \* bound: blocks above the genesis block
    Validators,         \* validators of every era
    Weight,             \* their weights
    Signers,            \* keys that sign, of validators or not
    ExecutionThreshold  \* attempt_execution_threshold

ASSUME HeightAssumption == MaxHeight \in Nat \ {0}
ASSUME ThresholdAssumption == ExecutionThreshold \in Nat
ASSUME WeightAssumption == Weight \in [Validators -> Nat \ {0}] /\ Validators \subseteq Signers

Heights == 1 .. MaxHeight

-----------------------------------------------------------------------------
(* Meta blocks                                                              *)

\* The flags of a meta block.
Flags ==
    {"stored", "sent_to_transaction_buffer", "updated_validator_matrix", "gossiped", "executed",
     "tried_to_sign", "consensus_notified", "accumulator_notified", "synchronizer_notified",
     "validator_notified", "sufficient_finality", "marked_complete", "all_actions_done"}

\* verify_complete: nothing is left to do but to say that all is done.
VerifyComplete(state) == Flags \ {"all_actions_done"} \subseteq state

-----------------------------------------------------------------------------
(* Acceptors                                                                *)

\* An acceptor knows its block or not, and who has signed it.
Acceptor == [block : BOOLEAN, state : SUBSET Flags, signatures : SUBSET Signers, ours : BOOLEAN]

NewAcceptor == [block |-> FALSE, state |-> {}, signatures |-> {}, ours |-> FALSE]

HasSufficientFinality(acc) == acc.block /\ "sufficient_finality" \in acc.state

\* SignatureWeight::Strict, with the fault tolerance of a third of the weight.
MoreThanTwoThirds(validators) ==
    3 * MapThenSumSet(LAMBDA v : Weight[v], validators)
        > 2 * MapThenSumSet(LAMBDA v : Weight[v], Validators)
Strict(keys) == MoreThanTwoThirds(keys \cap Validators)

\* The block is known and has the signatures it needs, and this is news.
BecomesFinal(acc) == acc.block /\ ~HasSufficientFinality(acc) /\ Strict(acc.signatures)

\* Mutant of BecomesComplete: a block is marked complete whenever it is looked at.
BecomesCompleteAgain(acc) ==
    /\ "executed" \in acc.state
    /\ BecomesFinal(acc) \/ HasSufficientFinality(acc)

\* A block that was executed, and has the signatures, is to be marked complete.
BecomesComplete(acc) ==
    /\ "executed" \in acc.state
    /\ \/ BecomesFinal(acc)
       \/ HasSufficientFinality(acc) /\ "marked_complete" \notin acc.state

\* The acceptor that should_store_block leaves.  Signatures by keys that are not
\* validators go as soon as the weights are needed.
Evaluated(acc) ==
    [acc EXCEPT
        !.signatures = IF acc.block /\ ~HasSufficientFinality(acc) THEN @ \cap Validators ELSE @,
        !.state = @ \cup (IF BecomesFinal(acc) THEN {"sufficient_finality"} ELSE {})
                    \cup (IF BecomesComplete(acc) THEN {"marked_complete"}
                          ELSE IF BecomesFinal(acc) THEN {"stored"} ELSE {})]

\* What should_store_block and then store_block_and_finality_signatures have
\* written for the block at height h: the block, or that it is complete.  Its
\* signatures are written with it, and later ones singly; nothing here reads them.
WritesFor(h, acc) ==
    IF BecomesComplete(acc) THEN {[height |-> h, op |-> "complete", state |-> Evaluated(acc).state]}
    ELSE IF BecomesFinal(acc) THEN {[height |-> h, op |-> "block", state |-> Evaluated(acc).state]}
    ELSE {}

-----------------------------------------------------------------------------
(* The accumulator                                                          *)

\* `children` holds the heights of blocks that are registered as the child of
\* their parent, and local_tip the height of the highest block we are at.
Accumulators ==
    [acceptors : [Heights -> Acceptor], children : SUBSET Heights, local_tip : 0 .. MaxHeight,
     writes : SUBSET [height : Heights, op : {"block", "complete"}, state : SUBSET Flags]]

\* The blocks at the heights hs are looked at again: those that now have enough
\* signatures become the children of their parents, and writes are asked for.  In the
\* operations below `known` are the heights of blocks in eras with known validators.
Evaluate(a, hs) ==
    [a EXCEPT
        !.acceptors = [h \in Heights |-> IF h \in hs THEN Evaluated(@[h]) ELSE @[h]],
        !.children = @ \cup {h \in hs : BecomesFinal(a.acceptors[h])},
        !.writes = @ \cup UNION {WritesFor(h, a.acceptors[h]) : h \in hs}]

\* register_block: the block at height h with what has been done about it.
RegisterBlock(a, h, state, known) ==
    IF h < a.local_tip THEN a
    ELSE Evaluate([a EXCEPT !.acceptors[h].block = TRUE,
                            !.acceptors[h].state = @ \cup state], {h} \cap known)

\* register_finality_signature.  One that comes after enough others is only
\* stored, and does not look at the block again.
RegisterFinalitySignature(a, h, key, ours, known) ==
    Evaluate([a EXCEPT !.acceptors[h].signatures = @ \cup {key},
                       !.acceptors[h].ours = @ \/ ours],
             IF HasSufficientFinality(a.acceptors[h]) /\ key \notin a.acceptors[h].signatures
             THEN {} ELSE {h} \cap known)

\* Mutant of HandleValidators: only acceptors that wait for nothing are looked at.
HandleValidatorsLate(a, known) ==
    Evaluate(a, {h \in known : HasSufficientFinality(a.acceptors[h])})

\* handle_validators: the validators of another era are known.
HandleValidators(a, known) ==
    Evaluate(a, {h \in known : ~HasSufficientFinality(a.acceptors[h])})

\* The acceptors that purge keeps whatever their age: those just below the tip,
\* and those above it that we signed or that have enough signatures.
Kept(a, h) ==
    LET acc == a.acceptors[h]
    IN  /\ acc.block
        /\ \/ h <= a.local_tip /\ h + ExecutionThreshold >= a.local_tip
           \/ h > a.local_tip /\ (acc.ours \/ HasSufficientFinality(acc))

\* purge, of acceptors that have expired
Purge(a, expired) ==
    LET purged == {h \in expired : ~Kept(a, h)}
    IN  [a EXCEPT !.acceptors = [h \in Heights |-> IF h \in purged THEN NewAcceptor ELSE @[h]],
                  !.children = @ \ purged]

\* register_local_tip: acceptors are purged by the old tip.
RegisterLocalTip(a, h, expired) ==
    IF h <= a.local_tip THEN a ELSE [Purge(a, expired) EXCEPT !.local_tip = h]

\* Event::ExecutedBlock
ExecutedBlock(a, h, state, known, expired) ==
    RegisterLocalTip(RegisterBlock(a, h, state, known), h, expired)

\* next_syncable_block_hash, for the child of the block at height h
NextSyncable(a, h) ==
    {c \in a.children : c = h + 1 /\ HasSufficientFinality(a.acceptors[c])}
=============================================================================

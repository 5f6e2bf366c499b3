------------------------------ MODULE BlockFlow ------------------------------
(***************************************************************************)
(* The way of new blocks through one node, from their arrival to the news  *)
(* that they are complete.  Four components share the work:                *)
(*                                                                         *)
(*   - the contract runtime (contract_runtime.rs, its exec_queue.rs and    *)
(*     utils.rs) executes blocks in the order of their heights, in tasks;  *)
(*   - the block accumulator (module BlockAccumulator) collects the blocks *)
(*     and signatures of peers;                                            *)
(*   - the main reactor (main_reactor.rs, handle_meta_block) tells         *)
(*     everybody of a block, as far as its meta block says it has come,    *)
(*     and is in one of the states KeepUp, Validate and CatchUp            *)
(*     (main_reactor/control.rs);                                          *)
(*   - the forward synchronizer (block_synchronizer.rs, driven by          *)
(*     main_reactor/keep_up.rs) has blocks executed that peers signed.     *)
(*                                                                         *)
(* Consensus, which starts in Validate, finalizes the same blocks and has  *)
(* them executed too.  Meta blocks are announced in one queue; requests,   *)
(* tasks and writes to storage end in any order.                           *)
(***************************************************************************)
EXTENDS BlockAccumulator, Sequences, SequencesExt

CONSTANTS
    Us,                 \* our own key
    Signatures,         \* signatures, as heights and keys, that peers may send
    SwitchBlocks,       \* what heights may be those of switch blocks
    MaxCatchUps         \* bound: how often the reactor falls back to CatchUp

ASSUME UsAssumption == Us \in Signers
ASSUME SignaturesAssumption == Signatures \subseteq Heights \X (Signers \ {Us})
ASSUME SwitchAssumption == SwitchBlocks \subseteq SUBSET Heights
ASSUME CatchUpAssumption == MaxCatchUps \in Nat

VARIABLES
    accumulator,    \* the block accumulator, with the writes it waits for
    next,           \* execution_pre_state.next_block_height
    queue,          \* exec_queue: requests for blocks above `next`
    requests,       \* requests to execute a block that are under way
    tasks,          \* execution tasks
    metas,          \* the queue of meta block announcements
    eras,           \* validator_matrix: eras with known validators
    builder,        \* the forward block builder
    stored,         \* heights of blocks in storage
    executed,       \* heights of blocks whose execution results are in storage
    complete,       \* heights of blocks marked complete in storage
    finalized,      \* heights of blocks that consensus has sent for execution
    added,          \* heights of blocks that consensus knows to be executed
    streamed,       \* number of times the event stream was told of each block
    switch,         \* heights of switch blocks; it never changes
    mode,           \* state of the main reactor
    force_catchup,  \* whether it is to fall back to CatchUp
    consensus,      \* whether consensus has been started
    catchUps        \* number of times it was made to fall back

runtimeVars == <<next, queue, requests, tasks>>
storageVars == <<stored, executed, complete>>
consensusVars == <<consensus, finalized, added>>
reactorVars == <<mode, force_catchup, catchUps>>
vars == <<accumulator, runtimeVars, metas, eras, builder, storageVars, consensusVars,
          streamed, switch, reactorVars>>

-----------------------------------------------------------------------------
(* Eras                                                                     *)

\* The era of a block: switch blocks are the last ones of theirs.
EraOf(h) == Cardinality({s \in switch : s < h})

\* The heights of blocks of eras whose validators are known.
KnownIn(es) == {h \in Heights : EraOf(h) \in es}

-----------------------------------------------------------------------------
(* Contract runtime                                                         *)

\* A request comes with the flags of the meta block: none, or "stored" if it is the
\* synchronizer's.
Request(h, state) == [height |-> h, state |-> state]

\* The task that executes a block goes through two phases.
Task(request, phase) == [request |-> request, phase |-> phase]

\* Consensus has finalized a block: those of an era in order, from its first one
\* on even if they were executed before, once it knows the switch block before it.
Finalize(h) ==
    /\ consensus
    /\ h \notin finalized
    /\ \A g \in Heights : g < h /\ EraOf(g) = EraOf(h) => g \in finalized
    /\ \A g \in switch : g < h => g \in added
    /\ finalized' = finalized \cup {h}
    /\ requests' = requests \cup {Request(h, {})}
    /\ UNCHANGED <<accumulator, next, queue, tasks, metas, eras, builder, storageVars,
                   consensus, added, streamed, switch, reactorVars>>

\* Mutant of EnqueueBlockForExecution: a future block does not wait.
EnqueueBlockForExecutionAtOnce(r) ==
    /\ r \in requests
    /\ requests' = requests \ {r}
    /\ \/ /\ r.height < next
          /\ added' = added \cup ({r.height} \cap complete)
          /\ UNCHANGED tasks
       \/ /\ r.height >= next
          /\ tasks' = tasks \cup {Task(r, "executing")}
          /\ UNCHANGED added
    /\ UNCHANGED <<accumulator, next, queue, metas, eras, builder, storageVars, consensus,
                   finalized, streamed, switch, reactorVars>>

\* EnqueueBlockForExecution: an old block is not executed, but consensus is told
\* of it if it is complete; a future one waits in the queue, in place of one that
\* does so already; the next one is executed.
EnqueueBlockForExecution(r) ==
    /\ r \in requests
    /\ requests' = requests \ {r}
    /\ \/ /\ r.height < next
          /\ added' = added \cup ({r.height} \cap complete)
          /\ UNCHANGED <<queue, tasks>>
       \/ /\ r.height > next
          /\ queue' = {q \in queue : q.height # r.height} \cup {r}
          /\ UNCHANGED <<added, tasks>>
       \/ /\ r.height = next
          /\ tasks' = tasks \cup {Task(r, "executing")}
          /\ UNCHANGED <<added, queue>>
    /\ UNCHANGED <<accumulator, next, metas, eras, builder, storageVars, consensus,
                   finalized, streamed, switch, reactorVars>>

\* Mutant of BlockExecuted: the meta block is announced before anything is stored.
BlockExecutedAnnounced(t) ==
    /\ t \in tasks /\ t.phase = "executing"
    /\ next' = Max({next, t.request.height + 1})
    /\ eras' = IF t.request.height \in switch THEN eras \cup {EraOf(t.request.height) + 1} ELSE eras
    /\ tasks' = (tasks \ {t}) \cup {[t EXCEPT !.phase = "executed"]}
    /\ metas' = Append(metas, [height |-> t.request.height,
                               state |-> t.request.state \cup {"stored", "executed"}])
    /\ UNCHANGED <<accumulator, queue, requests, builder, storageVars, consensusVars, streamed,
                   switch, reactorVars>>

\* exec_and_check_next: the block has been executed.  The next height only ever
\* rises here.  A switch block tells the matrix, and nobody else, the validators of
\* the next era (UpcomingEraValidators).
BlockExecuted(t) ==
    /\ t \in tasks /\ t.phase = "executing"
    /\ next' = Max({next, t.request.height + 1})
    /\ eras' = IF t.request.height \in switch THEN eras \cup {EraOf(t.request.height) + 1} ELSE eras
    /\ tasks' = (tasks \ {t}) \cup {[t EXCEPT !.phase = "executed"]}
    /\ UNCHANGED <<accumulator, queue, requests, metas, builder, storageVars, consensusVars,
                   streamed, switch, reactorVars>>

\* There is not enough data to end the era: the block is not executed, and the
\* reactor is to catch up.
BlockAbandoned(t) ==
    /\ t \in tasks /\ t.phase = "executing"
    /\ t.request.height \in switch
    /\ catchUps < MaxCatchUps
    /\ catchUps' = catchUps + 1
    /\ force_catchup' = TRUE
    /\ tasks' = tasks \ {t}
    /\ UNCHANGED <<accumulator, next, queue, requests, metas, eras, builder, storageVars,
                   consensusVars, streamed, switch, mode>>

\* Mutant of BlockStored: the block itself is looked for in the queue, not its child.
BlockStoredChildless(t) ==
    /\ t \in tasks /\ t.phase = "executed"
    /\ tasks' = tasks \ {t}
    /\ stored' = IF "stored" \in t.request.state THEN stored ELSE stored \cup {t.request.height}
    /\ executed' = executed \cup {t.request.height}
    /\ metas' = Append(metas, [height |-> t.request.height,
                               state |-> t.request.state \cup {"stored", "executed"}])
    /\ LET child == {q \in queue : q.height = t.request.height}
       IN  queue' = queue \ child /\ requests' = requests \cup child
    /\ UNCHANGED <<accumulator, next, eras, builder, complete, consensusVars, streamed, switch,
                   reactorVars>>

\* The block, unless it is stored already, and its results are stored, its meta block
\* is announced, and the block that waits for it is taken from the queue and
\* requested again.
BlockStored(t) ==
    /\ t \in tasks /\ t.phase = "executed"
    /\ tasks' = tasks \ {t}
    /\ stored' = IF "stored" \in t.request.state THEN stored ELSE stored \cup {t.request.height}
    /\ executed' = executed \cup {t.request.height}
    /\ metas' = Append(metas, [height |-> t.request.height,
                               state |-> t.request.state \cup {"stored", "executed"}])
    /\ LET child == {q \in queue : q.height = t.request.height + 1}
       IN  queue' = queue \ child /\ requests' = requests \cup child
    /\ UNCHANGED <<accumulator, next, eras, builder, complete, consensusVars, streamed, switch,
                   reactorVars>>

\* Mutant of RefreshContractRuntime: the highest complete block is executed again.
RefreshContractRuntimeAgain ==
    /\ next' = Max(complete)
    /\ queue' = {q \in queue : q.height >= next'}
    /\ UNCHANGED <<requests, tasks>>

\* refresh_contract_runtime: execution goes on from the highest complete block,
\* which may be below what was executed.
RefreshContractRuntime ==
    /\ next' = Max(complete) + 1
    /\ queue' = {q \in queue : q.height >= next'}
    /\ UNCHANGED <<requests, tasks>>

-----------------------------------------------------------------------------
(* Block accumulator                                                        *)

\* Event::ReceivedBlock, from a peer
ReceivedBlock(h) ==
    /\ accumulator' = RegisterBlock(accumulator, h, {}, KnownIn(eras))
    /\ UNCHANGED <<runtimeVars, metas, eras, builder, storageVars, consensusVars,
                   streamed, switch, reactorVars>>

\* Event::ReceivedFinalitySignature, by a validator or anybody else
ReceivedFinalitySignature(h, key) ==
    /\ accumulator' = RegisterFinalitySignature(accumulator, h, key, FALSE, KnownIn(eras))
    /\ UNCHANGED <<runtimeVars, metas, eras, builder, storageVars, consensusVars,
                   streamed, switch, reactorVars>>

\* Storage writes the block, or that it is complete, and Event::Stored has
\* register_stored announce the copy of the meta block.
Write(w) ==
    /\ w \in accumulator.writes
    /\ accumulator' = [accumulator EXCEPT !.writes = @ \ {w}]
    /\ stored' = IF w.op = "block" THEN stored \cup {w.height} ELSE stored
    /\ complete' = IF w.op = "complete" THEN complete \cup {w.height} ELSE complete
    /\ metas' = Append(metas, [height |-> w.height, state |-> w.state])
    /\ UNCHANGED <<runtimeVars, eras, builder, executed, consensusVars, streamed, switch,
                   reactorVars>>

-----------------------------------------------------------------------------
(* Main reactor                                                             *)

\* is_self_validator_in_era, with the validators of `es` known
SelfValidator(h, es) == EraOf(h) \in es /\ Us \in Validators

\* Whether the meta block brings the validators of the next era, and the eras known
\* once it has been handled.
BringsValidators(meta) == "updated_validator_matrix" \notin meta.state /\ meta.height \in switch
ErasAfter(meta) == IF BringsValidators(meta) THEN eras \cup {EraOf(meta.height) + 1} ELSE eras

\* The flags of a meta block after the first part of handle_meta_block, done for
\* every block, and after the second, done for executed ones.
Prepared(meta) ==
    meta.state \cup {"sent_to_transaction_buffer", "updated_validator_matrix"}
               \cup (IF SelfValidator(meta.height, ErasAfter(meta)) THEN {"gossiped"} ELSE {})
Notified(meta) ==
    Prepared(meta) \cup {"tried_to_sign", "validator_notified", "consensus_notified",
                         "accumulator_notified"}

\* The accumulator learns of the validators of a new era, of our own signature
\* and of the executed block, in this order.
WithValidators(meta) ==
    IF BringsValidators(meta) THEN HandleValidators(accumulator, KnownIn(ErasAfter(meta)))
    ELSE accumulator
WithOurSignature(meta) ==
    IF "tried_to_sign" \notin meta.state /\ SelfValidator(meta.height, ErasAfter(meta))
    THEN RegisterFinalitySignature(WithValidators(meta), meta.height, Us, TRUE,
                                   KnownIn(ErasAfter(meta)))
    ELSE WithValidators(meta)

\* A valid block that is not executed yet.
HandleUnexecuted(meta) ==
    /\ "executed" \notin meta.state
    /\ accumulator' = WithValidators(meta)
    /\ UNCHANGED <<added, builder, streamed>>

\* An executed block that the accumulator has not heard of: it must first mark
\* the block complete.
HandleExecuted(meta) ==
    /\ "executed" \in meta.state
    /\ "accumulator_notified" \notin meta.state
    /\ added' = added \cup {meta.height}
    /\ \E expired \in SUBSET Heights :
           accumulator' = ExecutedBlock(WithOurSignature(meta), meta.height, Notified(meta),
                                        KnownIn(ErasAfter(meta)), expired)
    /\ UNCHANGED <<builder, streamed>>

\* A complete block.  The synchronizer is done with it, and the event stream is
\* told unless this was done before.
HandleComplete(meta) ==
    /\ {"executed", "accumulator_notified"} \subseteq meta.state
    /\ accumulator' = WithOurSignature(meta)
    /\ added' = IF "consensus_notified" \in meta.state THEN added ELSE added \cup {meta.height}
    /\ builder' = IF "synchronizer_notified" \notin meta.state /\ builder.height = meta.height
                     /\ builder.phase = "executing"
                  THEN [builder EXCEPT !.phase = "synced"] ELSE builder
    /\ streamed' = [streamed EXCEPT ![meta.height] =
                       IF "all_actions_done" \in meta.state THEN @ ELSE @ + 1]

\* handle_meta_block
HandleMetaBlock ==
    /\ metas # <<>>
    /\ metas' = Tail(metas)
    /\ eras' = ErasAfter(Head(metas))
    /\ \/ HandleUnexecuted(Head(metas))
       \/ HandleExecuted(Head(metas))
       \/ HandleComplete(Head(metas))
    /\ UNCHANGED <<runtimeVars, storageVars, consensus, finalized, switch, reactorVars>>

-----------------------------------------------------------------------------
(* Forward synchronizer and reactor states                                  *)

NoBuilder == [height |-> 0, phase |-> "idle"]

\* register_block_by_hash: a new builder, in place of any other.
RegisterBlockByHash(h) == [height |-> h, phase |-> "acquiring"]

\* Where keep_up_process says we are: at the block that is executing or synced,
\* or at the highest complete one.  A block we still acquire has no place yet.
SyncHeight == IF builder = NoBuilder THEN Max(complete) ELSE builder.height

\* A crank in KeepUp: the accumulator moves its tip and names the next block, whose
\* builder replaces the one there is.  A block that is synced makes way.
CrankKeepUp ==
    /\ mode = "KeepUp" /\ ~force_catchup
    /\ builder.phase # "acquiring"
    /\ \E expired \in SUBSET Heights :
           accumulator' = RegisterLocalTip(accumulator, SyncHeight, expired)
    /\ builder' =
           IF NextSyncable(accumulator', SyncHeight) # {}
           THEN RegisterBlockByHash(SyncHeight + 1)
           ELSE IF builder.phase = "synced" THEN NoBuilder ELSE builder
    /\ UNCHANGED <<runtimeVars, metas, eras, storageVars, consensusVars, streamed, switch,
                   reactorVars>>

\* The builder has fetched all that it takes to execute the block, and stored it.
BlockAcquired ==
    /\ builder.phase = "acquiring"
    /\ builder' = [builder EXCEPT !.phase = "executing"]
    /\ stored' = stored \cup {builder.height}
    /\ requests' = requests \cup {Request(builder.height, {"stored"})}
    /\ UNCHANGED <<accumulator, next, queue, tasks, metas, eras, executed, complete,
                   consensusVars, streamed, switch, reactorVars>>

\* A crank in KeepUp that finds nothing to sync or to execute: a validator starts
\* consensus.
SwitchToValidate ==
    /\ mode = "KeepUp" /\ ~force_catchup
    /\ builder = NoBuilder
    /\ accumulator.local_tip >= Max(complete)
    /\ NextSyncable(accumulator, Max(complete)) = {}
    /\ queue = {}
    /\ SelfValidator(Max(complete), eras)
    /\ mode' = "Validate"
    /\ consensus' = TRUE
    /\ RefreshContractRuntime
    /\ UNCHANGED <<accumulator, metas, eras, builder, storageVars, finalized, added,
                   streamed, switch, force_catchup, catchUps>>

\* A crank in Validate: the accumulator learns how far we are.
CrankValidate ==
    /\ mode = "Validate" /\ ~force_catchup
    /\ queue = {}
    /\ \E expired \in SUBSET Heights :
           accumulator' = RegisterLocalTip(accumulator, Max(complete), expired)
    /\ UNCHANGED <<runtimeVars, metas, eras, builder, storageVars, consensusVars, streamed,
                   switch, reactorVars>>

\* The reactor falls back to CatchUp, because it was told to or because nothing was
\* heard for too long.  It forgets the block that is being synced.
SwitchToCatchUp ==
    /\ mode \in {"KeepUp", "Validate"}
    /\ force_catchup \/ catchUps < MaxCatchUps
    /\ catchUps' = IF force_catchup THEN catchUps ELSE catchUps + 1
    /\ force_catchup' = FALSE
    /\ mode' = "CatchUp"
    /\ builder' = NoBuilder
    /\ UNCHANGED <<accumulator, runtimeVars, metas, eras, storageVars, consensusVars,
                   streamed, switch>>

\* The peers know of no block that follows our highest complete one.
SwitchToKeepUp ==
    /\ mode = "CatchUp"
    /\ \E expired \in SUBSET Heights :
           accumulator' = RegisterLocalTip(accumulator, Max(complete), expired)
    /\ NextSyncable(accumulator', Max(complete)) = {}
    /\ mode' = "KeepUp"
    /\ RefreshContractRuntime
    /\ UNCHANGED <<metas, eras, builder, storageVars, consensusVars, streamed, switch,
                   force_catchup, catchUps>>

-----------------------------------------------------------------------------

\* A node that has nothing but the genesis block, at height 0, after Initialize: in
\* CatchUp, or in KeepUp if it is isolated.
Init ==
    /\ accumulator = [acceptors |-> [h \in Heights |-> NewAcceptor], children |-> {},
                      local_tip |-> 0, writes |-> {}]
    /\ next = 1
    /\ queue = {}
    /\ requests = {}
    /\ tasks = {}
    /\ metas = <<>>
    /\ eras = {0}
    /\ builder = NoBuilder
    /\ stored = {0}
    /\ executed = {0}
    /\ complete = {0}
    /\ consensus = FALSE
    /\ finalized = {}
    /\ added = {}
    /\ streamed = [h \in Heights |-> 0]
    /\ switch \in SwitchBlocks
    /\ mode \in {"CatchUp", "KeepUp"}
    /\ force_catchup = FALSE
    /\ catchUps = 0

Next ==
    \/ \E h \in Heights : Finalize(h)
    \/ \E r \in requests : EnqueueBlockForExecution(r)
    \/ \E t \in tasks : BlockExecuted(t) \/ BlockAbandoned(t) \/ BlockStored(t)
    \/ \E h \in Heights : ReceivedBlock(h)
    \/ \E s \in Signatures : ReceivedFinalitySignature(s[1], s[2])
    \/ \E w \in accumulator.writes : Write(w)
    \/ HandleMetaBlock
    \/ CrankKeepUp \/ BlockAcquired
    \/ SwitchToValidate \/ CrankValidate \/ SwitchToCatchUp \/ SwitchToKeepUp

Spec == Init /\ [][Next]_vars

\* The contract runtime goes on: requests are handled, and tasks end.
Execute ==
    \/ \E r \in requests : EnqueueBlockForExecution(r)
    \/ \E t \in tasks : BlockExecuted(t) \/ BlockStored(t)

FairSpec == Spec /\ WF_vars(Execute)

\* All that is under way ends: blocks are acquired, writes are done, and meta blocks
\* are handled.
LiveSpec ==
    /\ FairSpec
    /\ WF_vars(BlockAcquired)
    /\ WF_vars(\E w \in accumulator.writes : Write(w))
    /\ WF_vars(HandleMetaBlock)

-----------------------------------------------------------------------------
(* Properties                                                               *)

MetaBlocks == [height : Heights, state : SUBSET Flags]

TypeOK ==
    /\ accumulator \in Accumulators
    /\ next \in 1 .. MaxHeight + 1
    /\ requests \subseteq MetaBlocks /\ queue \subseteq MetaBlocks
    /\ tasks \subseteq [request : MetaBlocks, phase : {"executing", "executed"}]
    /\ metas \in Seq(MetaBlocks)
    /\ eras \subseteq Nat
    /\ builder \in [height : 0 .. MaxHeight, phase : {"idle", "acquiring", "executing", "synced"}]
    /\ \A heights \in {stored, executed, complete} : heights \subseteq 0 .. MaxHeight
    /\ finalized \subseteq Heights /\ added \subseteq Heights /\ switch \subseteq Heights
    /\ streamed \in [Heights -> Nat]
    /\ mode \in {"KeepUp", "Validate", "CatchUp"}
    /\ force_catchup \in BOOLEAN /\ consensus \in BOOLEAN /\ catchUps \in 0 .. MaxCatchUps

\* Each announced copy of a meta block says what has been done, although the copies
\* of a block are made, merged and handled independently: a block said to be stored,
\* executed or complete is so in storage, and none makes handle_meta_block stop the
\* node ("block should be stored after execution or accumulation"), fail its
\* assertion verify_complete or report a "duplicate meta block announcement".  The
\* same holds for the flags that come with requests to execute a block.
MetaBlocksTruthful ==
    /\ \A i \in DOMAIN metas :
           LET meta == metas[i]
           IN  /\ "stored" \in meta.state /\ meta.height \in stored
               /\ "executed" \in meta.state => meta.height \in executed
               /\ "marked_complete" \in meta.state => meta.height \in complete
               /\ {"executed", "accumulator_notified"} \subseteq meta.state
                      => /\ VerifyComplete(Notified(meta) \cup {"gossiped", "synchronizer_notified"})
                         /\ "all_actions_done" \notin meta.state
    /\ \A r \in requests \cup queue \cup {t.request : t \in tasks} :
           "stored" \in r.state => r.height \in stored

\* A block is executed on the state that its parent left, and the switch block of the
\* era before is in storage, where exec_and_check_next must find it: in whatever order
\* consensus and the synchronizer ask for blocks, and although the next height is set
\* back to the highest complete block while tasks are running.
ParentExecuted ==
    \A t \in tasks :
        /\ \/ t.request.height - 1 \in executed
           \/ \E p \in tasks : p.request.height = t.request.height - 1 /\ p.phase = "executed"
        /\ {s \in switch : s < t.request.height} \subseteq stored

\* Whether the accumulator is yet to hear of the validators of the era that follows
\* the switch block at height s.
ValidatorsUnderWay(s) ==
    \/ \E t \in tasks : t.request.height = s /\ t.phase = "executed"
    \/ \E i \in DOMAIN metas : metas[i].height = s

\* No block is overlooked that has enough signatures: in whatever order the block, its
\* signatures, the validators of its era and its execution become known, it has
\* sufficient finality, and it is marked complete if it was executed.
StrictWeightNoticed ==
    \A h \in KnownIn(eras) :
        LET acc == accumulator.acceptors[h]
        IN  acc.block /\ Strict(acc.signatures) =>
                \/ /\ HasSufficientFinality(acc)
                   /\ "executed" \in acc.state => "marked_complete" \in acc.state
                \/ \E s \in switch : s < h /\ ValidatorsUnderWay(s)

\* The event stream is told of a block at most once and only when it is complete, even
\* if it is executed again after the reactor fell back, and a complete block is stored
\* with the results of its execution.
StreamedOnce ==
    \A h \in Heights :
        /\ streamed[h] <= 1
        /\ streamed[h] = 1 => h \in complete
        /\ h \in complete => h \in stored \cap executed

\* A block that the contract runtime is asked to execute is executed, though it may come
\* before its parent or while its parent is being executed: it does not stay in the
\* queue.  A reactor that falls back to CatchUp may give it up.
RequestedExecuted ==
    \A h \in Heights :
        (\E r \in requests : r.height = h) ~> (h \in executed \/ catchUps > 0)

\* "If the block is currently being executed, we will not purge the builder and instead
\* wait for it to be executed and marked complete" (block_synchronizer.rs, progress).
ExecutingCompleted ==
    \A h \in Heights :
        builder = [height |-> h, phase |-> "executing"] ~> h \in complete

=============================================================================

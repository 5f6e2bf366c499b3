# Formal models of casper-node

TLA+ models of the core of `casper-node`: the Zug consensus protocol, the
gossiper, the network component's connections, the way of new blocks through
accumulator, contract runtime, reactor and forward synchronizer, and the storage
component's index of complete blocks. TLC checks them on small instances; TLAPS
proves the main results for every value of the constants. Line numbers refer to the files under `src/`.

1. [The system](#1-the-system)
2. [Modules and how they correspond to the code](#2-modules-and-how-they-correspond-to-the-code)
3. [Runs](#3-runs)
4. [Fairness](#4-fairness)
5. [Proofs](#5-proofs)
6. [Where code and documentation disagree](#6-where-code-and-documentation-disagree)
7. [Abstractions and assumptions](#7-abstractions-and-assumptions)
8. [Not modelled](#8-not-modelled)
9. [Plan](#9-plan)

To check a run: `tlc -workers 2 -config ZugChain.cfg MCZug`. To check the
proofs: `tlapm M.tla` for each `M` of `ZugProtocolProofs`, `ZugProofs`,
`GossiperProofs`, `GossiperWorkProofs`, `BoundedSets`, `CompletedBlocksProofs`,
`NetworkProofs` and `BlockFlowProofs`.

## 1. The system

A node is one *reactor* (`node/src/reactor.rs`): a single loop takes events from
weighted queues and hands each to the component it is for. A handler runs to its
end without interruption, changes only its component's state, and returns
*effects*: futures (requests to other components, messages, timeouts) whose
results come back as further events. Within a node the concurrency is therefore
that of events: a handler is atomic, but between a request and its answer
anything else may happen. Between nodes it is that of messages, which may be
lost, late, repeated or reordered, and of validators that break the rules.

### Consensus

**Era supervisor** (`components/consensus/era_supervisor.rs`). Keeps the open
eras, each with a protocol instance. Creates an instance when the switch block
of the era before is known, activates it if we are a validator, passes messages,
timers, proposed blocks and validation answers to it, and carries out the
`ProtocolOutcome`s it returns. Evidence from earlier eras that are still bonded
is passed on to later instances. Hard: an answer belongs to an era that is
gone; the log of the era is read before the evidence of earlier eras is marked.

**Zug** (`protocols/zug.rs`, `zug/round.rs`, `zug/fault.rs`). Rounds have a
leader who proposes a block on top of an accepted parent. Validators echo one
proposal and vote `true` or `false`, once each. A quorum of echoes makes a
proposal acceptable when its parent is accepted and all rounds between them are
skippable (a quorum of `false` votes); a quorum of `true` votes finalizes it
and its ancestors. *State:* rounds (proposal, echoes, votes, memoized quorums,
accepted height), faults, who has been heard from, the current round, the lowest
round to be looked at again (`maybe_dirty_round_id`), proposals waiting for
their parent or for validation, a pending request for a block, timers, and the
write-ahead log. *Correct when:* no two nodes finalize different chains; we never
sign two contradicting messages, through crashes and failed writes; what the
node can conclude from its messages it does conclude; it does not get stuck in a
round. *Hard:* every order of messages, evidence that removes messages and adds
weight to all quorums at once, crashes between logging and sending.

**Highway** (`protocols/highway.rs`, `highway_core/`). The alternative protocol:
a graph of units citing each other, and a finality detector that looks for
summits. The chainspecs under `resources/` select Zug.

**Utilities** (`leader_sequence.rs`, `utils/`): pseudorandom choice of leaders by
weight, the table of validators and weights, and the write-ahead log, which on
opening cuts off an incomplete last entry.

### Spreading and storing data

**Gossiper** (`components/gossiper.rs`, `gossip_table.rs`). One per kind of item.
Tells peers about an item until `infection_target` of them did not know it or
enough have been asked; asks those who told us about an item for its body.
*State:* per item its holders, whom we infected, whom we tried, and the number
of messages in flight; finished items until they expire. *Correct when:* an item
ends up finished and is announced (the transaction buffer depends on it); the
counts stay in order. *Hard:* responses before the report of the message they
answer, timeouts racing late answers, two timeouts for one peer, fewer peers
than wanted.

**Storage** (`components/storage.rs`, `storage/`). Blocks, transactions,
execution results and signatures in LMDB. On top of it, an index of the heights
whose blocks are *complete* (`DisjointSequences`, ranges from high to low),
written to the database on every change. *Correct when:* the index names exactly
the complete heights, across restarts, upgrades that delete blocks, and forced
resyncs; every recent block is read to rebuild the transaction buffer.

**Network** (`components/network.rs`, `network/outgoing.rs`,
`network/symmetry.rs`). Outgoing connections are a state machine per address:
`Connecting`, `Waiting` (with back-off), `Connected`, `Blocked` (for a time),
`Loopback`. *State:* that of each address, the `routes` by which a peer is
reached, and per peer whether connections go one way or both and from where it
connects. *Correct when:* a route leads to a connection with its peer as long as no
other node takes that peer's place; an address
in use has a task that will report its end; a configured address is never given
up and a dead one is. *Hard:* a dial that ends after its address was blocked,
forgotten or connected from elsewhere, or after another node has taken it over (a
node's identity is made anew at every start, `network/identity.rs`), and the writer
of a connection that was given up reporting its end while the next one is up.

**Fetcher** (`components/fetcher.rs`). Joins requests for one item to one peer,
and answers them all on arrival, rejection or timeout.

### Synchronizing

**Block accumulator** (`components/block_accumulator.rs`, `block_acceptor.rs`).
Collects blocks and finality signatures from gossip in `block_acceptors`, knows
`block_children`, the `local_tip` and when peers were last heard from. Stores a
block when it has enough signatures, marks it complete once it was executed too,
and tells the reactor what to sync next. *Correct when:* a block with enough
signatures is noticed, in whatever order the block, its signatures, the weights
of its era and its execution become known. *Hard:* that order; acceptors purged
by age; the tip moving past a block.

**Block synchronizer** (`components/block_synchronizer.rs` and its directory).
A builder for a historical and one for a forward block, each walking
`Initialized`, `HaveBlockHeader`, `HaveWeakFinalitySignatures`, `HaveBlock`,
`HaveGlobalState`, `HaveAllExecutionResults`, `HaveApprovalsHashes`,
`HaveAllTransactions`, `HaveStrictFinalitySignatures`, `HaveExecutableBlock`,
`Complete` or `Failed`. Execution results and tries come in chunks from several
peers (`execution_results_acquisition.rs`, `trie_accumulator.rs`).

**Sync leaper** (`components/sync_leaper.rs`). Asks several peers for a chain of
switch block headers from a trusted block to the tip and takes the best answer.

**Validator matrix** (`types/validator_matrix.rs`). The weights of validators per
era, shared by these components.

**Main reactor** (`reactor/main_reactor/control.rs`). The states `Initialize`,
`CatchUp`, `Upgrading`, `KeepUp`, `Validate`, `ShutdownForUpgrade`,
`ShutdownAfterCatchingUp`; decides from the answers of the components above what
the node does next. `handle_meta_block` (`main_reactor.rs`) takes a block through
its remaining steps by the flags of its `MetaBlock`, of which copies travel with
the block. *Correct when:* no flag claims what was not done, and each step is done
once. *Hard:* copies of one block are merged and handled independently; falling
back to `CatchUp` sets the contract runtime back to the highest complete block
while tasks are running. **Upgrade watcher** and **shutdown trigger** tell it when to
stop.

### Transactions and execution

**Transaction acceptor** checks one transaction in a chain of callbacks.
**Transaction buffer** keeps the transactions that may be proposed (`buffer`,
`hold`, `dead`, prices), and takes out those in proposed or finalized blocks.
**Block validator** fetches the transactions and signatures of a proposed block.
**Contract runtime** executes finalized blocks in the order of their heights from
a queue, on the **global state** (a Merkle trie), by the **execution engine**
and the native **system contracts**. Both consensus and the forward synchronizer
have blocks executed, out of order and more than once.

### Interactions that matter for correctness

- Consensus asks the transaction buffer for a block, the block validator about
  the blocks of others, and announces finalized blocks to the contract runtime
  and the accumulator.
- A transaction reaches the buffer when the gossiper announces that it has
  *finished* gossiping it (`main_reactor.rs:883`): an entry that never finishes
  is a transaction that is never proposed by this node.
- A block is marked complete in storage after execution and enough signatures;
  the historical synchronizer, the sync leaper and the transaction buffer work
  from that index.

`PROJECT.json` lists all components, and under `hazards` the places where
something can go wrong that a test would hardly reach, with the properties that
would notice.

## 2. Modules and how they correspond to the code

| Module | Models | Extends or uses |
|---|---|---|
| `ZugProtocol` | the Zug protocol among all validators and several nodes: the signatures that exist and the conclusions drawn from them | |
| `ZugProtocolProofs` | agreement, for all constants | `ZugProtocol` |
| `Zug` | one node's Zug instance: every handler | |
| `ZugProofs` | the safety properties of the instance, for all constants | `Zug`, `BoundedSets` |
| `GossipTable` | `gossip_table.rs` for one item, as operators from table to table and action | |
| `Gossiper` | `gossiper.rs`, with network, storage and peers | `GossipTable` |
| `GossiperProofs` | the table's accounts and the owed announcement, for all constants | `Gossiper` |
| `GossiperWorkProofs` | that every entry waits for something that will come, for all constants | `GossiperProofs` |
| `DisjointSequences` | `disjoint_sequences.rs`: `insert`, `truncate` | |
| `CompletedHeights` | abstract specification: sets of stored and of complete heights | |
| `CompletedBlocks` | the storage component's index, restarts, upgrades; implements `CompletedHeights` | `DisjointSequences` |
| `BoundedSets` | lemmas: the least and the greatest element of a set of numbers (and that `Min` and `Max` are they), induction, recursive functions and loops | |
| `CompletedBlocksProofs` | the index and its refinement, for all constants | `CompletedBlocks`, `BoundedSets` |
| `OutgoingManager` | `network/outgoing.rs`, as operators from manager to manager and dials | |
| `ConnectionSymmetry` | `network/symmetry.rs`, as operators | |
| `Network` | the connections of `network.rs`: the handlers, and the tasks that dial, write and read | `OutgoingManager`, `ConnectionSymmetry` |
| `NetworkProofs` | routes and outstanding reports, for all constants | `Network` |
| `BlockAccumulator` | `block_accumulator.rs`, `block_acceptor.rs`, and the flags of meta blocks, as operators | |
| `BlockFlow` | new blocks in one node: contract runtime, accumulator, `handle_meta_block`, forward synchronizer, reactor states | `BlockAccumulator` |
| `BlockFlowProofs` | the safety properties of the way of a block, for all constants | `BlockFlow`, `BoundedSets` |
| `MC...` | the instances TLC checks | |

### Zug, twice

The protocol is modelled on two levels. `ZugProtocol` has many nodes and keeps
only what agreement rests on; it is small enough to be proved. `Zug` has one
node and all of its control; its peers are a set of messages.

`ZugProtocol`: `echoes` and `votes` are the signatures that exist in the world.
`SignEcho` and `SignVote` make them: a validator in `Correct` signs at most one
echo and one vote per round, others anything. A node `n` draws conclusions in any
order and from any part of what exists: `LearnFault` (`handle_fault_no_wal`),
`NoticeEchoQuorum` and `NoticeVoteQuorum` (`check_new_echo_quorum`,
`check_new_vote_quorum`), `Accept` (`update_accepted_proposal`), `Finalize`
(`finalize_round`). `IsQuorum` counts the faulty validators the node knows of, as
`is_quorum` does: two nodes may count different ones.

`Zug`: the record `zug` has the fields of the struct `Zug`. Every handler is an
operator from the state before to the state after (`HandleMessage`,
`HandleSignedMessage`, `HandleEvidence`, `HandleProposal`, `HandleTimer`,
`ProposeBlock`, `ResolveValidity`, `ActivateValidator`, `SetPaused`,
`MarkFaulty`, `SetEvidenceOnly`, `OpenWal`), each ending in `Update` where the
code calls `update`, and one action per entry point calls it. A message from a
peer is a record in the shape of `SyncResponse`; a single signed message or
proposal is one with a single part. The loops of the code are recursive functions:
`UpdateFrom` over the rounds of `update`, `FinalizeRound` over the ancestors that
`finalize_round` finalizes first, `RecheckQuorums` over the rounds with a new quorum,
`HandleSignedMessages` and `HandleAllEvidence` over the parts of a message, and
`OpenWal` over the log.

A call of an instance ends in two parts: the state it leaves, and the outcomes the era
supervisor carries out. Those that matter later are fields of `zug`: `timers` that will
fire, `requested` blocks, and the `finalized` rounds, whose blocks are announced. If a
message turns out to be its sender's fault, in whichever part, all outcomes are replaced
by one that disconnects the sender (`outcomes_or_disconnect`), while what the parts
before it did to the state stays: `Discard` takes back the timers and requests, and
notes in `lost_timers` and `lost_blocks` what the node will not hear of. A log that
cannot be read has the same effect, and evidence in a log that can be read loses its
timers and requests (`WithoutRequests`). `ScheduleUpdate` sets a timer only if
`next_scheduled_update` is later, and `HandleTimer` resets that field only if the timer
is not earlier than it, as in the code; so a timer that was dropped, but noted in
`next_scheduled_update`, keeps later ones from being set.

`RoundAfter` caps the rounds at `LastRound + 1`. `bugs`
collects the branches that the code calls bugs or that would panic. `Contradiction`, `Genuine` and the set
`zug.signed` say which messages may arrive: correct validators sign nothing
contradictory, and do not echo our proposal before it exists.

The write-ahead log is the sequence `wal`, the only thing that survives
`Restart`, which may fall between any two steps: `Start` builds a new instance
and replays the log. `disk` says how many writes succeed; the first that fails
deactivates us, and its entry may or may not be found in the file afterwards
(`disk.keeps`).

`BecomeEvidenceOnly` requires that we have stopped voting. The era supervisor schedules
`DeactivateEra` when the era's switch block is executed (`era_supervisor.rs:856`) and
calls `set_evidence_only` when the era after the next one begins (`:621`), an era later.
`set_evidence_only` itself does not look at that. An era that is over when the node starts
is not activated and set so at once (`:567`); such an instance only collects evidence.

### Gossiper

`GossipTable` keeps for one item `current`, `state`, `finished` and the number of
timeouts in `timeouts`. `Gossiper` keeps what is still to happen as a *bag* of
events, so that the same timeout may be pending twice: events in the reactor's
queues, timeouts, requests to network and storage, messages to be answered by
peers. Each action consumes one event and adds what the handler's effects will
produce. `ReceiveGossip`, `ReceiveGetItem` (from `Requesters`, who may ask at any time)
and `BeginGossip` come from outside.
`small` is the constant parameter `ID_IS_COMPLETE_ITEM`: for addresses and
finality signatures the identifier is the item. `owed` is a history variable:
an announcement `FinishedGossiping` is due.

### Complete blocks

`CompletedBlocks`: `blocks[h]` tells which version stored the block, because a
hard reset deletes by version and height (`Indexed`, from
`IndexedLmdbBlockStore::new`). `StorageNew` is `Storage::new`: load or rebuild
the index, truncate it to the highest block, drop it once on a forced resync,
write it. If it stops between creating the marker of the resync and writing the empty
index (`storage.rs:307`, `:318`), the next start finds the marker and keeps the index:
the resync is lost. `DisjointSequences` is a sequence of ranges, from high to low as in the
code; `Insert` extends, merges or adds one. `CompletedHeights` is what a user of
the component sees: a set. `ImplementsCompletedHeights` is the refinement, with
`Heights(completed)` for the set.

### Network

`outgoing` and `routes` are the fields of `OutgoingManager`; its operations
(`LearnAddr`, `BlockAddr`, `DialSuccessful`, `DialFailed`, `DialLoopback`,
`ConnectionDrop`, `Housekeeping`) return the addresses to dial, and
`ProcessDialRequests` starts the tasks, as `process_dial_requests` does.
`symmetries` is `connection_symmetries`, with the code's choice of when an entry
is removed (`Reduced`, see section 6). The tasks are counted: `dials` per address,
`senders` (the `message_sender`s) per address and peer, `incoming` for the
readers. There is one action per event: `PeerAddressReceived`,
`IncomingConnection`, `IncomingClosed`, `OutgoingEstablished`, `OutgoingFailed`,
`OutgoingLoopback`, `OutgoingDropped`, `BlocklistAnnouncement`, `SweepOutgoing`.
`nodes` says who answers at an address, and `AddressChangesHands` puts another node, or
none, in its place. A peer that connects to us (one of `Callers`) tells us any address
as its own. `Settle` sets `calm`, after which nodes
answer and connections hold; the liveness properties speak of that time only.
Timers are the set `due` of addresses whose timer the sweep finds run out.

### The way of a block

`BlockAccumulator` keeps per height an acceptor (whether it has the block, the
flags of its meta block, who signed). `Evaluated` and `WritesFor` are
`should_store_block` and the writes that follow from its answer; `RegisterBlock`,
`RegisterFinalitySignature`, `HandleValidators`, `RegisterLocalTip`, `Purge` and
`NextSyncable` are the operations.

`BlockFlow` puts it together with

- the contract runtime: `requests` under way, the `queue`, the `tasks`, and `next`
  (`execution_pre_state.next_block_height`). `EnqueueBlockForExecution` sorts a
  request; a task is `BlockExecuted` or `BlockAbandoned` (a switch block without
  the data to end the era), then `BlockStored`, which announces the meta block and
  takes the child from the queue. `RefreshContractRuntime` sets the height back;
- consensus: `Finalize` has the blocks of an era executed in order;
- the reactor: `metas` is the queue of meta block announcements, `HandleMetaBlock`
  takes the first, in one of the three ways its flags call for;
- the forward synchronizer: `builder` is idle, acquiring, executing or synced.
  `CrankKeepUp` is a crank of the reactor in `KeepUp`; `BlockAcquired` ends the
  acquisition, whose inside is not modelled;
- the reactor's states `KeepUp`, `Validate` and `CatchUp`: `SwitchToValidate`,
  `CrankValidate`, `SwitchToCatchUp`, `SwitchToKeepUp`.

## 3. Runs

Deadlock is checked in the runs of the network, which never rests. In the others
it is not: an instance of a protocol, an item, a database and the blocks of a
bounded chain may all come to rest. What must not come to rest is stated as a
property instead (`EventuallyVotes`, `RipeRoundsDirty`, `HeldItemHasWork`,
`UnheldItemHasWork`, `EventuallyFinishes`, `RequestedExecuted`).

| Run | States | What it shows |
|---|---|---|
| `zug_protocol` | 1.2 million | two nodes, two rounds, competing proposals, an equivocator of the largest tolerated weight: the nodes accept the same chains, finalized ones agree, no round is both committed and skippable, finalization only appends |
| `zug_one_round` | 194 thousand | equivocating leader, validation, pauses, earlier evidence, a message that is refused after a vote in it has counted: memoized quorums are real and none is missed; the timers make us vote |
| `zug_chain` | 194 thousand | two rounds and the end of the era, proposals before their parents and before or after their votes, a message that is refused after it has finalized a block: nothing ripe is left unmarked, what is accepted fits its parent, blocks are finalized in order, and the end is the end |
| `zug_restart` | 196 thousand | we lead, crash anywhere, lose or keep the last write, are given another block, may be accused before or after the crash, stop voting and close the era: no double signing, nothing signed once faulty, the log can be read |
| `gossip_races` | 267 thousand | late, repeated and missing answers, failing storage, both kinds of item: accounts, announcements, only valid items sent on |
| `gossip_ends` | 135 thousand | fewer peers than wanted, holders that send nothing: always something to wait for, and an end |
| `gossip_silent_holder` | violation | an entry that is never finished, see section 6 |
| `completed_blocks` | 45 thousand | the index over restarts, upgrades and resets: refinement of the set of heights, agreement with the block store, recent blocks read |
| `network` | 70 thousand | one node takes the place of another, a dead address, our own address; late dials, broken connections, blocks, sweeps: routes and reports, reconnecting, forgetting |
| `incoming_limit` | violation | open connections that are not counted, see section 6 |
| `block_flow` | 625 thousand | a parent and its child, within an era and across its end, from peers, synchronizer and consensus, with a fall back to `CatchUp`: meta blocks tell the truth, parents come first, nothing is overlooked or announced twice, requests are executed |
| `executing_completed` | violation | an executing block that is overtaken, see section 6 |

### Bounds, and why they are enough

**Zug instances.** We weigh 1, `b` weighs 2, the faulty `c` weighs 1, with
threshold `Ftt` 1. The quorum threshold is (4 + 1) / 2 = 2, so that more than 2 is
a quorum: `b` with either other is one, we and `c` are not, and once `c` is known
to be faulty `b` alone is one. This is the least asymmetry in which evidence, our
own signature and that of an equivocator each decide a quorum in some run.

- One round is enough for quorums and votes, since these are per round; the
  network contains both proposals of the leader and the echo of `b` for either.
- Two rounds and a third in which we lead are enough for a proposal to wait for
  its parent, to skip a round (`Y` in round 1 has no parent), to be too early
  (`Early`), to need validation (`xx`), and for the era to end at height 2.
- One restart is enough for `NoDoubleSign`: the second instance starts from the
  log and has the same choices as the first; a failing disk fails at the
  write after the first.
- `MaxFutureRounds` is 1 in the chain run, so that messages are dropped by it.
- `Moments`: a call reads a time and the proposal timeout, here 1. The times 0 and 2
  are on either side of `MinBlockTime` after the parent, and 0 and 1 on either side of
  the timeout of a round that started at 0. A timer for a later time than the last one
  does not fire in the model, and `EventuallyVotes` leaves that case out
  (`UpdateOutOfReach`).
- Refused messages: `Spoilt` is a message up to its first bad signature. One vote before
  it is enough to finish a round, to set a timer or to finalize a block.
- In the restart run the era ends at height 1, so that it may become evidence-only
  before and after the restart.

**ZugProtocol.** Two nodes and two rounds are what a disagreement needs; the
proofs are for any number.

**Gossip.** Two peers and a target of 2 give every race of responses and reports
for each peer and between them; the run about endings has three, one of them
connected. The saturation limit 34 % makes the attempt limit 3. `MaxInputs`
bounds how often the item is gossiped or given to us. `MaxReports` bounds the
reports of the network that wait to be handled: an answer that overtakes the
report of its message lets the gossiper ask for more peers, without end if the
network never reports. An entry that expires while reports are outstanding is
covered only within these bounds by the runs; the proofs do not depend on them.
Peers are symmetric in the run without a temporal property only.

**Complete blocks.** Heights 0 to 5 leave room for three sequences, that is, for a
merge in the middle of a list; up to three restarts, of which one is an upgrade;
switch blocks at 1 and 4 give activation points in the middle and at the end;
a time to live of 2 blocks ends a read inside a sequence. One height is one unit
of time.

**Network.** A configured address, at which one node may take the place of another while
we dial it, and an address that is learned, at which there is nobody or we ourselves:
these are the cases in which a late dial meets another node, a failure adds up, and a
dial finds us. One retry is enough for failures to be carried over a redial. Two dials
of one address (`MaxDials`) let a late one meet the next, and one writer per address and
peer (`MaxSenders`) lets the writer of the old node meet that of the new one; the
theorems hold for any bounds. One peer connects to us and tells us either address. The
run about the limit has two addresses to connect from and a limit of one.

**The way of a block.** A parent and its child are what overtaking needs; the
parent is a switch block or not (`SwitchBlocks`). We weigh 1 and the others 3:
their signature suffices without ours, and ours never does without theirs;
somebody who is no validator signs the child. One fall back to `CatchUp`
(`MaxCatchUps`), since the state after it is like the one before. Any of the acceptors
may expire. The execution threshold of 3 keeps those near the tip.

### The properties

Beside type invariants:

- `Agreement`: finalized chains of two nodes agree up to every common round.
  `CommittedNotSkippable`, `SameChains` (in a round two nodes accept the same proposal
  with the same ancestors), `FinalizeAppends`: why, and for one node over time.
- `QuorumsBacked`, `QuorumsNoticed`: evidence removes a validator's messages and
  adds its weight everywhere; no memoized quorum loses its support, and every new
  one is found. Exempt are faults marked from earlier eras, after which the code
  does not look for quorums.
- `RipeRoundsDirty`, `CurrentRoundLowest`: `update` looks only at rounds from the
  dirty marker on and misses nothing, since we have heard from the validators a
  proposal calls active (for the rest see section 6).
- `AcceptedFitsParent`: the checks against the parent hold for what is accepted,
  though they were made before, at another time, maybe against another proposal.
- `FinalizedInOrder`, `EndedForGood`, `NoBug`: finalization, and the `expect`s and
  "this is a bug" branches of it. `FinalizedInOrder` is about the rounds the instance
  finalizes; for their announcement see section 6.
- `NoDoubleSign`, `ReplaySucceeds`: the log. `SilentOnceFaulty`: nothing is signed once
  evidence against us is in the state or in the log (`Convicted`), so that a restart
  that overlooked logged evidence would break it.
- `EventuallyVotes`: we leave every round or vote in it, with the deduplication of
  timers by `next_scheduled_update`, unless a refused message took the next timer with
  it (section 6).
- `TableSound`, `OwedWhileGossiping`, `OnlyStoredGossiped`, `HeldItemHasWork`,
  `UnheldItemHasWork`, `EventuallyFinishes`: the gossiper.
- `CompletedStored`, `ImplementsCompletedHeights`, `RestartKeepsIndex`,
  `RecentBlocksReadIfContiguous`: the index.
- `RoutesKept`: a route that leads to a connection with its peer goes on to do so; no
  drop, block, sweep or failure leaves it pointing elsewhere. The one step that does,
  another node's connection taking the place of the peer's, is named in the property
  (section 6). `ReportOutstanding`: what `network.rs` takes for granted of the manager.
  `KnownAddressReconnects`, `DeadAddressForgotten`: what its sweeps are for.
- `MetaBlocksTruthful`: the flags of every copy of a meta block, and with them the
  fatal error, the assertion and the error report of `handle_meta_block`.
- `ParentExecuted`, `RequestedExecuted`: the execution queue, for safety and for
  progress. `StrictWeightNoticed`: every order of what the accumulator learns.
  `StreamedOnce`: the event stream, although blocks are executed again.

For each there is a plausible slip in the code, written as a variant of a
definition beside the original (`...Unskipped`, `...Unlogged`, `...InMemory`),
which breaks it.

## 4. Fairness

- `Zug!FairSpec`: a timer whose `ScheduleTimer` outcome was carried out fires in the
  end, when the clock shows the last of the modelled times. The reactor delivers every
  timer, and time passes; a timer that was dropped with its outcome is not among them. Nothing is assumed about messages, validation or blocks given to us.
  The condition that the step is enabled is written out as a state predicate,
  because evaluating it as ENABLED of the whole handler is too slow.
- `Gossiper!FairSpec`: weak fairness of `Progress`. Something pending happens as
  long as anything is pending: the scheduler (`round_robin.rs`) visits every
  queue, timeouts expire, network and storage answer. `NoAnswer` is part of it:
  silent peers need not reply. Peers' own messages are not in it.
- `Network!Spec`: dials end (by the operating system's time limit for connecting,
  and `handshake_timeout` after it), and so do the writers whose handle was
  dropped. The sweep, which is periodic, comes to see the timer of each address run
  out if it is there to be seen again and again: strong fairness, because the timer
  set anew in each state of an address runs out only after a time.
- `BlockFlow!FairSpec`: the contract runtime handles requests and ends its tasks.
  `BlockFlow!LiveSpec` adds that blocks are acquired, writes are done and meta
  blocks handled; it serves only the run that is violated.
- Everything else is safety and needs none.

## 5. Proofs

### Agreement (`ZugProtocolProofs`)

For any sets of validators, nodes, rounds and blocks:

- `SameChainsHold`: two nodes that accept a proposal in a round accept the same one, with
  the same ancestors.
- `CommittedNotSkippableHolds`: no round is committed for one node and skippable
  for another (or the same).
- `AgreementHolds`: the finalized chains of any two nodes agree up to every round
  in both.
- `FinalizeAppendsHolds`: a node never finalizes below what it has finalized.

Assumptions (`ConstantsAssumption`, `WeightsAdd`): rounds are numbers, weights
are natural numbers, the weight of a set is additive, and the faulty validators
weigh at most `Ftt`. How `Ftt` relates to the total weight is not assumed: it
matters for progress, not for safety.

None of the four is inductive as it stands. The invariant `Inv` adds: correct
validators sign once (`SignOnce`); nodes call only faulty validators faulty
(`FaultsAreFaulty`); memoized quorums are quorums of signatures that exist
(`QuorumsBacked`); a node's chain for a round ends in it (`ChainTops`), contains
with a link exactly that link's own chain below it (`ChainCuts`), and passes only
over skippable rounds (`Covered`); two nodes accept the
same chain in a round (`SameChains`); and what is finalized is the chain of a committed
round (`FinalizedSound`).

The argument: two quorums overlap in more than `Ftt` of weight, even if the two
nodes count different faulty validators towards them (`QuorumsIntersect`, from
`WeightsAdd`), so they share a correct signer (`SharedSigner`). It signed once, so
two quorums in a round are for the same proposal or vote (`SameQuorums`), and a
committed round is not skippable. A chain passes only over skippable rounds;
hence an accepted chain above a committed round goes through it, and through the
same proposal (`CommittedIsAncestor`). Of two finalized chains the one with the
lower top is therefore a part of the other.

### One node's instance (`ZugProofs`)

For any validators and weights, leaders, number of rounds, blocks, messages that may
arrive, clocks, disks and number of restarts. The assumptions give the constants their
types (`ValidatorsAssumption`, `RoundsAssumption`, `TimesAssumption`,
`NodeAssumption`, `NetworkAssumption`), and `FttAssumption` says that the threshold is
not above the total weight, of which it is a fraction (`common::ftt`). Nothing is assumed
about which validators are faulty or about how much they weigh.

- `TypeCorrect`: the type invariant.
- `NeverDoubleSigns`: two messages we ever signed do not contradict each other, through
  crashes at any point and writes that fail, with the entry found afterwards or not.
- `FaultySignsNothing`: once there is evidence against us, in the state or in the log, we
  sign nothing, through any number of restarts.
- `MemoizedAreQuorums`, `QuorumsAreMemoized`: memoized quorums are quorums of the
  messages the node holds, and every quorum of a round that is not finalized is
  memoized (but for the exemption of section 3).
- `BugsUnreachable`: none of the branches for bugs in `finalize_round`,
  `create_message`, `mark_dirty` and their callers is taken.
- `EndIsFinal`: nothing is finalized after the switch block.
- `FinalizesInOrder`: rounds with blocks are finalized in order, at consecutive heights, and none
  after the switch block, given leaders that propose none after it (`LeadersStop`; see
  section 7) and while the rounds are kept, that is, until `set_evidence_only`.
- `CurrentRoundIsLowest`: the current round is the lowest one that is neither skippable
  nor accepted, or `update` has yet to look at it. In the round `LastRound + 1`, after the
  last one of the model, the loop of `update` stops by the cap and not because it found
  nothing to do; the theorem excludes that round, which the code does not have.
- `AcceptedFits`: what is accepted fits its parent, as long as the node does not restart. A
  proposal in the log is not checked again when it is read; that the log leads to the
  same parent as before the crash is a question of its order, and not proved.

All but the action properties follow from one inductive invariant, `Good`. Its parts:

- `Typed`: the type invariant, and that every parent lies below its child wherever a
  proposal is kept (`Below`), which is what `FinalizeRound`'s recursion ends by.
- `Settled`: the proposal of a round is the one with the quorum of echoes, and an
  accepted one has such a quorum. It is why evidence, which removes echoes, never
  changes what was accepted.
- `Backed` and `Noticing`: the two statements about quorums.
- `Logged`: our signed messages are in the state (`InState`), or in the log, so that
  they will be before we can sign again (`InLog`). Which of the two it is depends on
  whether we are still replaying, and on a write that failed.
- `Informed`: if there is evidence against us in the log and the log has been read, then
  we are marked as faulty and inactive. While a log is replayed, what was read is in the
  state; a log that cannot be read leaves us inactive.
- `Linked` and `Lowest`: an accepted proposal's parent is accepted and the rounds
  between are skippable, with the heights counting up; and each round below the current
  one is accepted or skippable.
- `Sane`: no branch for a bug was taken, unless the era is only kept for its evidence.
- `Fitting`: proposals, those waiting for validation and the block we asked for fit the
  parent that has the quorum of echoes.
- `Chained`: the last finalized round is committed and accepted, and the finalized
  blocks lead up to it. The next round to be finalized has it as an ancestor, since a
  link that passed over it would need a quorum to skip a committed round (`ChainGrows`,
  `FinalizesOneMore`).

- `Watched`: the current round is open, or marked for the next update. Inside the loop of
  `update` it may be neither; `Passed` is what the loop keeps instead, that the rounds it
  has been through are left behind unless the current one is open.

A handler of the code calls a dozen others, so the proof composes relations between the
state before and after. `Keeps` is what no operation undoes; `Stays` what only `update`
changes; `Rests` says that outside of `update` nothing is accepted and what becomes
skippable is marked; `Mild` is a step that keeps the round, `Calm` one outside of `update`,
`Moves` one anywhere in a handler; `Ends` is the end of the era; `Handles` is a whole handler and `Opens` a step of the replay.
`Noticing` is only required to be kept if it held, because it fails between a new
signature or fault and the search for new quorums: the handlers that add one restore it
(`AddContentCalm`, `RecheckQuorumsCalm`). Each operator has a lemma that says which relation it is in, from
`AddSigned` and `MarkDirectlyFaulty` up to `Update` and `HandleMessage`, and a step of
`Next` is in `Allowed`, from which the two action properties follow.

Loops take the place of data induction. The induction and recursion theorems of the
library have an operator as parameter, which the provers cannot instantiate;
`BoundedSets` states them for sets and functions instead: `Induct` for a set of numbers,
`RecursiveFunction` and `RecursiveFamily` for the existence of the functions that the
model defines by recursion, `LoopExists` and `LoopStays` for a loop that carries a state
and a relation that composes.

### The gossip table (`GossiperProofs`)

For any finite set of peers, any positive target and any limit from 0 to 99 %
(`PeersFinite`, `InfectionTargetPositive`, `SaturationLimitIsPercent`; the last
one is what `config.rs` enforces, and a target of zero would gossip nothing):

- `TableSoundHolds`: in every reachable state the table's accounts are in order:
  infected peers are holders, the messages in flight and the peers infected do
  not exceed the target, a finished item is not current and has one timeout, a
  current one has none, and one we do not hold has a holder to ask.
- `OwedWhileGossipingHolds`: an item we hold stays current until its end is
  announced, on each of the paths by which an entry leaves the table.

`GossipInv` is `Good(table)` and `OwedWhileGossiping`. `Good` adds to the accounts
that an entry is still below its target (`Unfinished`): a response lowers the
in-flight count only as far as zero while it adds an infected peer, and without
this the sum could pass the target. Each operation of the table has a lemma
(`ReceiveGood`, `InfectedGood`, ...); the step of an action combines it with
`ActKeeps`, which says that acting on a result keeps the debt.

### What every entry waits for (`GossiperWorkProofs`)

Under the same assumptions, and natural bounds (`PeersConnected`, `BoundsNatural`):

- `TypeCorrect`: the type invariant, with the bag of pending events.
- `OnlyStoredGossipedHolds`: a large item is gossiped onwards only when stored.
- `UnheldItemHasWorkHolds`: an entry whose body we lack waits for a timeout that
  takes it further.
- `HeldItemHasWorkHolds`: an item that is being gossiped waits for an event that will
  come. This one needs `ConnectedAnswer`, that connected peers are not silent:
  without it the entry of section 6 is a counterexample.

`WorkInv` adds to `GossipInv`: messages count as in flight exactly for an item that we
hold and gossip (`InFlight`), a large item that is held or about to be gossiped is
stored (`GossipedStored`), an entry that has run out of attempts waits for the timeout
of one (`FinishedTimedOut`), and one whose body we lack for the holder that was asked
(`UnheldAsked`). For held items that is not
enough, since `in_flight_count` is a mere number, which responses lower though their
message was never counted. `Counted` bounds it by the number of `Tokens` of the
pending events: a request to the network has as many as it is to send messages, a
report as many as it sent too few, and a message to a peer has one. Every action that
raises the count adds tokens, and every one that takes tokens away lowers the count by
as much, or finds it lower.

The proof was first attempted for an `UnheldItemHasWork` that promised the timeout of
a holder in all cases. That is false on larger instances than those of the runs:
reports that belong to an earlier life of the entry, or timeouts that outlive
`finished_entry_duration`, add attempts to the new one until it counts as finished, and
then `State::action` asks no holder. The property is therefore about entries that are
not finished in that sense. What becomes of the others is not claimed: in `check_timeout`
they meet a `debug_assert` that says they do not exist (`gossip_table.rs:403`), which the
model has as an early return, like a release build.

### The index of complete blocks (`CompletedBlocksProofs`, `BoundedSets`)

For any highest height, switch blocks, time to live and number of restarts
(`MaxHeightNat`, `OthersNat`):

- `TypeCorrect`: the index stays a list of disjoint sequences, from high to low and
  with gaps between them.
- `CompletedStoredHolds`: every height in it has a stored block.
- `RecentBlocksReadHolds`: every recent block is read if the index is contiguous.
- `RestartKeepsIndexHolds`: a restart without hard reset or forced resync changes
  nothing.
- `Refinement`: `CompletedBlocks` implements `CompletedHeights`.

The work is in the operators. `Insert` stops at the first sequence that takes the
value or lies below it, a place that exists by induction over the list. TLAPS cannot
use the induction theorems of its library; `Least` (a non-empty set of natural numbers
has a least element) takes their place, applied to the set of places at which a
statement would fail. `InsertAddsValue` says that `Insert` keeps the list `Ordered`
and adds exactly the value to its heights, with a case each for a value that is there,
one that widens a sequence (`Widen`), joins two (`Join`), or stands alone
(`InsertSingle`, `AppendSingle`). `TruncateCuts` says that `Truncate` keeps the order
and cuts the set at the maximum; `StorageNewCuts` puts loading, truncating and dropping
together. With these three the invariant `Inv` is preserved (the type invariant,
`CompletedStored`, and `ResetDone`: after a hard reset no old block is left from the
activation point on, so that a second start deletes nothing), and each action is a step
of the abstract specification.

### Connections (`NetworkProofs`)

For any sets of addresses and peers and any bounds (`KnownAssumption`,
`SelfAssumption`, `NodesAssumption`, `BoundsAssumption`, `RetryAssumption`,
`NoneAssumption`):

- `TypeCorrect`: the type invariant.
- `ReportOutstandingHolds`: an address in use has a task that will report.
- `RoutesKeptHolds`: a route that leads to its peer goes on to do so, unless another
  node's connection replaces the peer's at the same address.

Nothing is assumed about who answers at an address, or about how often that changes.
`Operates` says what every operation of the manager may do: an address that begins to
connect is dialled, and none becomes connected but the one that was reached. One lemma
per operation shows it, so that the actions of `Network` are proved without looking
into them. The invariant: an entry names a peer exactly while connected and connects
only with retries left (`EntryOK`, `ManagerOK`).

### The way of a block (`BlockFlowProofs`)

For any chain length, switch blocks, signers and positive weights, execution threshold
and number of fall backs (the assumptions of `BlockAccumulator` and `BlockFlow`, which
give the constants their types):

- `TypeCorrect`, `MetaBlocksTruthfulHolds`, `ParentExecutedHolds`, `StreamedOnceHolds`,
  `StrictWeightNoticedHolds`: all of the safety properties of `BlockFlow`.

First come the operations of the accumulator. Each keeps
`AccSound` (every flag and every write is backed by what the acceptor has) and takes
`Steps`: a block whose completion lies in the `Past` (marked, or below the tip and
purged) stays there, a write that completes a block moves it there, and what was
`Noticed` stays noticed. `Steps` composes, as the operations do, so that an action of
`BlockFlow` sees only what changed (`AccumulatorMoves`). Then four invariants, each proved on top of the ones it needs:

- `Truth`: every flag of every copy of a meta block, in acceptors, queue, tasks and
  writes, is backed by what was stored, executed or completed.
- `Order`: the execution of the block before `next`, and of every task's parent, has
  ended; whatever is asked for, executed or synced has the switch blocks before it
  stored. It is kept when `next` is set back, since the highest complete block was
  executed.
- `Once`: a block that was found complete is on its way once: as a write, as a meta
  block, or as told to the event stream.
- `Noticing`: an acceptor of an era whose validators are known to the matrix has noticed
  its strict weight, or the news of the validators is on its way to the accumulator.

### Only model-checked

- Liveness (`EventuallyVotes`, `EventuallyFinishes`, `KnownAddressReconnects`,
  `DeadAddressForgotten`, `RequestedExecuted`): fairness and ENABLED are out of reach of
  the prover.
- `RipeRoundsDirty`: it holds on the run's weights, not for all. If our own signature
  alone completes a quorum, the echo that `propose_if_leader` makes inside the loop of
  `update` marks the current round dirty, and `update` clears the mark at its end; the
  timer it has set makes up for that.
- `ReplaySucceeds`: whether an entry of the log is accepted again depends on the entries
  before it, so that it needs an invariant about the order in the log.

Every other invariant and action property of a passing run is also stated by a
theorem. TLC finds the inductive invariants of these proofs to hold on the instances of
the runs, too (`Counted`, whose tokens TLC cannot enumerate, in the form of a sum).

## 6. Where code and documentation disagree

Each is shown by a run that fails, with the documented statement as its property;
`PROJECT.json` has the quotations.

1. **Gossip entry without an end** (`gossip_table.rs:415`, run
   `gossip_silent_holder`). `check_timeout` ignores peers that are holders, because they
   "previously responded". But a peer may have been sent two messages: peers are excluded
   only once the network has reported that they were sent one, and a response that comes
   before the report makes the table ask for another. When one of the two messages has
   been answered or has timed out the peer is a holder, and the timeout of the other is
   ignored: the count of messages in flight stays up. (Peers that gossiped the item to us
   are holders too, with the same effect; the run does without.)
2. **Connections that are not counted** (`network.rs:644`, run `incoming_limit`).
   `remove_incoming` and `unmark_outgoing` return `false` if the entry should be
   removed; their callers remove it on `true`. A peer connected both ways whose
   outgoing connection is dropped loses its entry, and with it the count of its
   open incoming connections.
3. **Executing block overtaken** (`block_synchronizer.rs:1226`, run
   `executing_completed`). A builder whose block is executing is said to stay until
   the block is complete, but the reactor asks for the child of an executing block
   and the child's builder replaces it. When the child is executed first, the
   accumulator takes the parent for outdated and does not mark it complete.

These properties are stated or proved with a condition, because without it they do not
hold:

- `ReplaySucceeds` is checked without faults from earlier eras. Those count
  towards quorums, are not logged, and are marked after the log was replayed
  (`zug.rs:1474`, `era_supervisor.rs:594`), so that a replay may lack a quorum.
- `RipeRoundsDirty` speaks of proposals whose active validators were all heard
  from. Evidence against one never heard from makes a proposal acceptable too, but
  marks its round only if a quorum became complete (`zug.rs:795`); the proposal is
  accepted when something else marks the round.
- `RecentBlocksReadIfContiguous` is about contiguous complete blocks. With a gap,
  the lowest segment is read first, up to the first old block, and the highest is
  not read (`storage.rs:1267`).
- `HeldItemHasWork` is checked and proved for connected peers that answer, because of
  the first finding above.
- `UnheldItemHasWork` speaks of entries that do not count as finished (see section 5).
- `RoutesKept` excepts a replaced connection. If an address changes hands, which a
  restart of its node is enough for, a dial that ends late reaches another peer than the
  connection that is up; the new one takes its place in the entry, but the route of the
  first peer is left unchanged, and the new one gets none (`outgoing.rs:467`). Messages for
  the first peer then go to the second. Once that connection ends the route leads to no
  connection, of which `peers` says that it "should never happen unless the state of
  `OutgoingManager` is corrupt" (`network.rs:990`).
- `FinalizedInOrder` is about the rounds the instance finalizes. `finalize_round` is
  described as "notifying the rest of the node" (`zug.rs:1914`), but if the vote that
  completes the quorum is followed in its message by a part that is refused, the
  `FinalizedBlock` outcomes are dropped (`zug.rs:2576`). The round counts as finalized,
  so they are not made again before a restart; the blocks then come by synchronization.
  The rounds concerned are in `lost_blocks`.
- `EventuallyVotes` excepts a lost timer. `schedule_update` sets one "unless an earlier
  timer is already set" (`zug.rs:1652`), which it takes from `next_scheduled_update`;
  if that timer was dropped with the outcomes of a refused message, or by the replay of
  evidence, no later one is set until some other timer fires that is late enough. Rounds
  then advance by the messages of others only.

## 7. Abstractions and assumptions

- A proposal is its own hash; signatures are records that only their signer can
  have made; hash collisions and forgeries do not exist.
- The clock is what a handler reads from it, and need not be monotonic. The proposal
  timeout is read in each call, too: how it adapts (`proposal_timeout_inertia`) is left
  out, and within a call it is the same.
- Whether a block is asked to be validated is not lost with refused messages: another
  peer's copy of the proposal asks again.
- Leaders propose no block after the switch block. `proposal.rs:26` says so, the
  proposer keeps to it, and no receiving handler tests it; `FinalizedInOrder` is
  checked for such leaders.
- Sync requests, the participation log, the choice of peers and the sending of
  messages change no state of the instance and are left out; what arrives is any
  message of `Network`, at any time, any number of times.
- The block validator's answer and the block we are given to propose are any
  answer at any time.
- A block that is marked complete has been stored: `mark_block_complete` does not look,
  but the accumulator and the synchronizer call it after storing the block.
- Marking a block complete and writing the index are one step: a failed write is a
  fatal error, and a crash in between loses only the memory.
- LMDB's transactions are atomic.
- Network: the payloads, queues and throttling of connections are left out, as is
  the isolated mode (`allow_handshake`), which refuses every handshake. A peer is the one that its handshake proves it to be.
- Blocks: there is one block per height and all eras have the same validators, of which
  the execution of a switch block brings those of the next era (the code brings those of
  several, which a model with two eras cannot tell apart); who
  signs two blocks of a height is a question for consensus. The limits per peer and
  era on what the accumulator keeps are left out: they bound memory.
- Writing a block and handling the accumulator's `Stored` event are one step, as are
  storing the results of an execution, announcing the meta block and looking for the
  child in the queue; nothing else reads what lies between.
- `MarkBlockExecutionEnqueued`, which follows the request to execute at once, is part
  of `BlockAcquired`. The inside of block acquisition is not modelled.
- Historical synchronization, sync leaps, upgrades and shutdowns are not part of the
  reactor's model, nor is the way from `Validate` back to `KeepUp` at the end of our
  time as a validator.
- The gossip table is modelled for one item: entries of different items share
  nothing but the list of timeouts, which is ordered by time.
- Weights and heights are natural numbers; sums of weights do not overflow, since
  total stake fits the type.

## 8. Not modelled

Out of reach or without state of their own: the Wasm engines, encodings and
cryptography, servers that read other components' state, TLS and framing,
contract libraries and tools. The global state's trie and the system contracts
are sequential functions and could be modelled as operators; they come last.

Within reach and planned: see the next section. `PROJECT.json` has a note on each
component.

## 9. Plan

Modelled so far: consensus on two levels, gossiping, the index of complete blocks,
connections, and the way of new blocks. Proved: agreement, and the safety properties of
the rest but for those listed at the end of section 5. Left to be proved:

1. `Zug` as a refinement of `ZugProtocol`, so that the single node's conclusions are
   steps of the protocol that was proved. The invariants it needs (`Backed`, `Linked`,
   `Settled`) are there.
2. `RipeRoundsDirty`, with a condition on the weights.

To be modelled, where more is wanted: `BlockAcquisition` with the acquisition of
execution results and tries (progress with peers that answer wrongly or in part);
historical synchronization, which closes the gap of section 6; `TransactionBuffer`
composed with the gossiper's announcements and the blocks read from storage;
`Fetcher`, `BlockValidator`, `WorkQueue` and `RoundRobin`; the bit fields of Zug's
sync requests; Highway's finality detector; the era supervisor's creation and
purging of eras.

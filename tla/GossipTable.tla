---------------------------- MODULE GossipTable ----------------------------
(***************************************************************************)
(* The gossiper's bookkeeping about one item (gossiper/gossip_table.rs):   *)
(* which peers hold it, which of them we infected, how many of our gossip  *)
(* messages are in flight, and whether the item is being gossiped          *)
(* (`current`) or is remembered as done (`finished`).  Items never affect  *)
(* one another, so a table is modelled for a single item.  Every operator  *)
(* takes a table and gives the table afterwards and the `GossipAction` the *)
(* caller is asked to take.                                                *)
(***************************************************************************)
EXTENDS Integers, FiniteSets

CONSTANTS
    Peers,                  \* the other nodes
    InfectionTarget,        \* Config::infection_target
    SaturationLimitPercent  \* Config::saturation_limit_percent

ASSUME PeersFinite == IsFiniteSet(Peers)
ASSUME InfectionTargetPositive == InfectionTarget \in Nat \ {0}
ASSUME SaturationLimitIsPercent == SaturationLimitPercent \in 0 .. 99

AttemptedToInfectLimit == (100 * InfectionTarget) \div (100 - SaturationLimitPercent)

-----------------------------------------------------------------------------
(* State: `held` says that the target is known, which is how the code       *)
(* remembers that we hold the full item.                                    *)

NewState ==
    [holders |-> {}, infected_by_us |-> {}, in_flight_count |-> 0, held |-> FALSE,
     attempted_to_infect |-> {}]

\* `timeouts` counts the timeouts for removing the item from `finished`.
NewTable == [current |-> FALSE, state |-> NewState, finished |-> FALSE, timeouts |-> 0]

\* Mutant of SaturatingSub: nothing stops the subtraction at zero.
PlainSub(a, b) == a - b

SaturatingSub(a, b) == IF a > b THEN a - b ELSE 0

IsFinished(s) ==
    \/ Cardinality(s.infected_by_us) >= InfectionTarget
    \/ Cardinality(s.attempted_to_infect) >= AttemptedToInfectLimit

\* Mutant of Wanted: the messages in flight are not taken into account.
WantedInAll(s) ==
    IF s.held /\ ~IsFinished(s)
    THEN SaturatingSub(InfectionTarget, Cardinality(s.infected_by_us)) ELSE 0

\* How many more peers to gossip to: none if the item is finished or not held.
Wanted(s) ==
    IF s.held /\ ~IsFinished(s)
    THEN SaturatingSub(InfectionTarget, s.in_flight_count + Cardinality(s.infected_by_us))
    ELSE 0

Noop                     == [do |-> "Noop"]
AwaitingRemainder        == [do |-> "AwaitingRemainder"]
AnnounceFinished         == [do |-> "AnnounceFinished"]
GetRemainder             == [do |-> "GetRemainder"]
ShouldGossip(s, is_new) ==
    [do |-> "ShouldGossip", count |-> Wanted(s), exclude_peers |-> s.attempted_to_infect,
     is_already_held |-> ~is_new]

\* State::action, the returned action and the effect on the in-flight count.
Action(s, is_new) ==
    IF IsFinished(s) THEN Noop
    ELSE IF s.held THEN (IF Wanted(s) > 0 THEN ShouldGossip(s, is_new) ELSE Noop)
    ELSE IF is_new THEN GetRemainder
    ELSE AwaitingRemainder

TakeAction(s) == [s EXCEPT !.in_flight_count = @ + Wanted(s)]

-----------------------------------------------------------------------------
(* The table                                                                *)

Result(t, action) == [table |-> t, action |-> action]

HasEntry(t) == t.current \/ t.finished

InsertToFinished(t) ==
    [current |-> FALSE, state |-> NewState, finished |-> TRUE, timeouts |-> t.timeouts + 1]

\* `expired` of the timeouts have passed.
PurgeFinished(t, expired) ==
    [current |-> t.current, state |-> t.state, finished |-> t.finished /\ expired = 0,
     timeouts |-> t.timeouts - expired]

\* update_current, given what the update makes of the entry's state.
UpdateCurrent(t, s) ==
    IF IsFinished(s) THEN Result(InsertToFinished(t), AnnounceFinished)
    ELSE Result([t EXCEPT !.state = TakeAction(s)], Action(s, FALSE))

\* What the update of new_data_id and new_complete_data makes of an entry.
Update(s, holders, complete) ==
    [s EXCEPT !.holders = @ \cup holders, !.held = @ \/ complete]

\* The common part of new_data_id and new_complete_data.
Receive(t, expired, holders, complete) ==
    LET p == PurgeFinished(t, expired)
        s == Update(NewState, holders, complete)
    IN  IF p.finished THEN Result(p, Noop)
        ELSE IF p.current THEN UpdateCurrent(p, Update(p.state, holders, complete))
        ELSE Result([p EXCEPT !.current = TRUE, !.state = TakeAction(s)], Action(s, TRUE))

NewDataId(t, expired, holder) == Receive(t, expired, {holder}, FALSE)

NewCompleteData(t, expired, maybe_holder) == Receive(t, expired, maybe_holder, TRUE)

RegisterInfectionAttempt(t, peers) ==
    IF t.current THEN [t EXCEPT !.state.attempted_to_infect = @ \cup peers] ELSE t

\* Mutant of Infected: the response does not lower the in-flight count.
InfectedUnreduced(t, peer, by_us) ==
    LET s == [t.state EXCEPT !.holders = @ \cup {peer},
                             !.infected_by_us = IF by_us THEN @ \cup {peer} ELSE @]
    IN  IF ~t.current THEN Result(t, Noop)
        ELSE UpdateCurrent(t, IF t.state.held THEN s ELSE t.state)

\* we_infected and already_infected.
Infected(t, peer, by_us) ==
    LET s == [t.state EXCEPT !.holders = @ \cup {peer},
                             !.infected_by_us = IF by_us THEN @ \cup {peer} ELSE @,
                             !.in_flight_count = SaturatingSub(@, 1)]
    IN  IF ~t.current THEN Result(t, Noop)
        ELSE UpdateCurrent(t, IF t.state.held THEN s ELSE t.state)

\* force_finish tells whether there was an entry, here as the announcement
\* its callers then make.
ForceFinish(t) ==
    IF t.current THEN Result(InsertToFinished(t), AnnounceFinished) ELSE Result(t, Noop)

\* Mutant of ReduceInFlightCount: an item with no message left in flight stays.
ReduceInFlightCountOnly(t, reduce_by) ==
    LET left == SaturatingSub(t.state.in_flight_count, reduce_by)
    IN  Result(IF t.current THEN [t EXCEPT !.state.in_flight_count = left] ELSE t, Noop)

ReduceInFlightCount(t, reduce_by) ==
    LET left == SaturatingSub(t.state.in_flight_count, reduce_by)
        s == [t EXCEPT !.state.in_flight_count = left]
    IN  IF ~t.current THEN Result(t, Noop)
        ELSE IF left = 0 THEN ForceFinish(s)
        ELSE Result(s, Noop)

\* A release build, in which an entry that is not held is left as it is; a debug
\* build asserts that there is none.
CheckTimeout(t, peer) ==
    LET s == [t.state EXCEPT !.holders = @ \cup {peer},
                             !.in_flight_count = SaturatingSub(@, 1)]
    IN  IF ~t.current THEN Result(t, Noop)
        ELSE UpdateCurrent(t, IF t.state.held /\ peer \notin t.state.holders THEN s ELSE t.state)

RemoveHolderIfUnresponsive(t, peer) ==
    LET s == IF t.state.held THEN t.state ELSE [t.state EXCEPT !.holders = @ \ {peer}]
    IN  IF ~t.current THEN Result(t, Noop)
        ELSE IF ~s.held /\ s.holders = {}
        THEN Result([t EXCEPT !.current = FALSE, !.state = NewState], Noop)
        ELSE Result([t EXCEPT !.state = TakeAction(s)], Action(s, ~s.held))

FinishIfNotHeldByUs(t) ==
    IF t.current /\ ~t.state.held THEN ForceFinish(t) ELSE Result(t, Noop)

-----------------------------------------------------------------------------
(* What the operations maintain                                             *)

States ==
    [holders : SUBSET Peers, infected_by_us : SUBSET Peers, in_flight_count : Nat,
     held : BOOLEAN, attempted_to_infect : SUBSET Peers]

Tables == [current : BOOLEAN, state : States, finished : BOOLEAN, timeouts : Nat]

\* The accounting of an entry: we infected only holders, and only if we hold the
\* item ourselves, and the peers infected and the messages in flight together do
\* not exceed the target.
StateSound(s) ==
    /\ s.infected_by_us \subseteq s.holders
    /\ s.infected_by_us # {} => s.held
    /\ s.in_flight_count + Cardinality(s.infected_by_us) <= InfectionTarget

\* The accounting of the table: an item is current or finished and not both, a
\* finished item waits for exactly one timeout, and an item without a known
\* holder is one we hold.
Sound(t) ==
    /\ ~(t.current /\ t.finished)
    /\ t.timeouts = IF t.finished THEN 1 ELSE 0
    /\ t.current => t.state.held \/ t.state.holders # {}
    /\ StateSound(t.state)

\* An item we hold and gossip stays so unless it is announced as finished.
Keeps(t, result) ==
    t.current /\ t.state.held =>
        \/ result.action = AnnounceFinished
        \/ result.table.current /\ result.table.state.held
=============================================================================

--------------------------- MODULE GossiperProofs ---------------------------
(***************************************************************************)
(* For any set of peers, infection target and saturation limit: the        *)
(* accounts of the gossip table stay in order and every item we began to   *)
(* gossip stays current until it is announced as finished.                 *)
(*                                                                         *)
(* The accounts are not inductive as they stand: a response lowers the     *)
(* in-flight count only as far as zero while it adds an infected peer, so  *)
(* one must know that an entry in the table is still below its target.     *)
(***************************************************************************)
EXTENDS Gossiper, FiniteSetTheorems, TLAPS

Unfinished(s) == Cardinality(s.infected_by_us) < InfectionTarget

Good(t) == t \in Tables /\ Sound(t) /\ Unfinished(t.state)

\* Sets of peers have a cardinality, and one more peer adds at most one.
LEMMA PeerCardinality ==
    /\ \A S \in SUBSET Peers : Cardinality(S) \in Nat
    /\ \A S \in SUBSET Peers, p \in Peers : Cardinality(S \cup {p}) <= Cardinality(S) + 1
    /\ Cardinality({}) = 0
<1>1. \A S \in SUBSET Peers : IsFiniteSet(S)
    BY PeersFinite, FS_Subset
<1>2. \A S \in SUBSET Peers : Cardinality(S) \in Nat
    BY <1>1, FS_CardinalityType
<1>3. \A S \in SUBSET Peers, p \in Peers : Cardinality(S \cup {p}) <= Cardinality(S) + 1
    <2>1. TAKE S \in SUBSET Peers, p \in Peers
    <2>2. Cardinality(S \cup {p}) = IF p \in S THEN Cardinality(S) ELSE Cardinality(S) + 1
        BY <1>1, FS_AddElement
    <2> QED
        BY <2>2, <1>2
<1> QED
    BY <1>2, <1>3, FS_EmptySet

\* A new table is in order.
LEMMA NewTableGood == Good(NewTable)
<1>1. NewState \in States
    BY DEF NewState, States
<1>2. StateSound(NewState) /\ Unfinished(NewState)
    BY PeerCardinality, InfectionTargetPositive DEF StateSound, Unfinished, NewState
<1> QED
    BY <1>1, <1>2 DEF Good, Tables, Sound, NewTable

\* Moving an entry to `finished` needs only that it is not there already.
LEMMA InsertToFinishedGood ==
    ASSUME NEW t, t \in Tables, ~t.finished, t.timeouts = 0
    PROVE  Good(InsertToFinished(t))
<1> DEFINE u == InsertToFinished(t)
<1>1. NewState \in States
    BY DEF NewState, States
<1>2. u = [current |-> FALSE, state |-> NewState, finished |-> TRUE, timeouts |-> 1]
    BY DEF InsertToFinished, Tables
<1>3. u \in Tables
    BY <1>1, <1>2 DEF Tables
<1>4. StateSound(NewState) /\ Unfinished(NewState)
    BY PeerCardinality, InfectionTargetPositive DEF StateSound, Unfinished, NewState
<1> QED
    BY <1>2, <1>3, <1>4 DEF Good, Sound

\* Asking for more messages never asks for more than the target.
LEMMA TakeActionSound ==
    ASSUME NEW s \in States, StateSound(s)
    PROVE  /\ TakeAction(s) \in States
           /\ StateSound(TakeAction(s))
           /\ TakeAction(s).held = s.held
           /\ TakeAction(s).holders = s.holders
           /\ TakeAction(s).infected_by_us = s.infected_by_us
<1>1. Wanted(s) \in Nat /\ s.in_flight_count + Cardinality(s.infected_by_us) + Wanted(s) <= InfectionTarget
    BY PeerCardinality, InfectionTargetPositive DEF States, StateSound, Wanted, SaturatingSub
<1> QED
    BY <1>1, PeerCardinality, InfectionTargetPositive DEF States, StateSound, TakeAction

\* update_current keeps the table in order if the update keeps the entry so.
LEMMA UpdateCurrentGood ==
    ASSUME NEW t, Good(t), t.current, NEW s \in States, StateSound(s),
           s.held \/ s.holders # {}, t.state.held => s.held
    PROVE  Good(UpdateCurrent(t, s).table) /\ Keeps(t, UpdateCurrent(t, s))
<1>1. CASE IsFinished(s)
    BY <1>1, InsertToFinishedGood DEF Good, Sound, UpdateCurrent, Result, Keeps
<1>2. CASE ~IsFinished(s)
    <2> DEFINE u == [t EXCEPT !.state = TakeAction(s)]
    <2>1. UpdateCurrent(t, s).table = u
        BY <1>2 DEF UpdateCurrent, Result
    <2>2. Unfinished(s)
        BY <1>2, PeerCardinality, InfectionTargetPositive DEF IsFinished, Unfinished, States
    <2>3. /\ u \in Tables /\ u.current /\ ~u.finished /\ u.timeouts = 0 /\ u.state = TakeAction(s)
        BY TakeActionSound DEF Good, Sound, Tables
    <2>4. Good(u) /\ (t.state.held => u.state.held)
        BY <2>2, <2>3, TakeActionSound DEF Good, Sound, Unfinished
    <2> QED
        BY <2>1, <2>3, <2>4 DEF Keeps
<1> QED
    BY <1>1, <1>2

\* Removing the expired timeout makes room for the item to be current again.
LEMMA PurgeGood ==
    ASSUME NEW t, Good(t), NEW expired \in 0 .. t.timeouts
    PROVE  LET p == PurgeFinished(t, expired)
           IN  /\ Good(p)
               /\ p.current = t.current
               /\ p.state = t.state
<1> DEFINE p == PurgeFinished(t, expired)
<1>1. /\ t \in Tables /\ t.timeouts \in 0 .. 1 /\ expired \in 0 .. 1
      /\ ~t.finished => t.timeouts = 0 /\ expired = 0
      /\ t.finished => t.timeouts = 1
    BY DEF Good, Sound, Tables
<1>2. p.current = t.current /\ p.state = t.state
    BY <1>1 DEF PurgeFinished, Tables
<1>3. p.timeouts = t.timeouts - expired
    BY DEF PurgeFinished
<1>4. p \in Tables
    BY <1>1 DEF PurgeFinished, Tables
<1>5. CASE expired = 0
    <2>1. p.finished = t.finished /\ p.timeouts = t.timeouts
        BY <1>5, <1>1, <1>3 DEF PurgeFinished, Tables
    <2> QED
        BY <2>1, <1>2, <1>4 DEF Good, Sound
<1>6. CASE expired = 1
    <2>1. t.timeouts = 1
        BY <1>6, <1>1
    <2>2. p.timeouts = 0
        BY <1>6, <1>3, <2>1
    <2>3. expired # 0
        BY <1>6
    <2>4. ~p.finished
        BY <2>3, Zenon DEF PurgeFinished
    <2> QED
        BY <2>2, <2>4, <1>2, <1>4 DEF Good, Sound
<1> QED
    BY <1>1, <1>5, <1>6

\* A new entry in a table that has none.
LEMMA NewEntryGood ==
    ASSUME NEW t, Good(t), ~t.current, ~t.finished,
           NEW s \in States, StateSound(s), Unfinished(s), s.held \/ s.holders # {}
    PROVE  Good([t EXCEPT !.current = TRUE, !.state = TakeAction(s)])
<1> DEFINE u == [t EXCEPT !.current = TRUE, !.state = TakeAction(s)]
<1>1. /\ u \in Tables /\ u.current /\ ~u.finished /\ u.timeouts = 0 /\ u.state = TakeAction(s)
    BY TakeActionSound DEF Good, Sound, Tables
<1> QED
    BY <1>1, TakeActionSound DEF Good, Sound, Unfinished

\* Hearing of the item, or learning that we hold it, keeps the table in order.
LEMMA ReceiveGood ==
    ASSUME NEW t, Good(t), NEW expired \in 0 .. t.timeouts, NEW holders \in SUBSET Peers,
           NEW complete \in BOOLEAN, holders # {} \/ complete
    PROVE  LET r == Receive(t, expired, holders, complete) IN Good(r.table) /\ Keeps(t, r)
<1> DEFINE p == PurgeFinished(t, expired)
           Up(s) == Update(s, holders, complete)
           r == Receive(t, expired, holders, complete)
<1>0. Good(p) /\ p.current = t.current /\ p.state = t.state
    BY PurgeGood
<1>1. ASSUME NEW s \in States, StateSound(s)
      PROVE  /\ Up(s) \in States /\ StateSound(Up(s))
             /\ Up(s).holders # {} \/ Up(s).held
             /\ s.held => Up(s).held
             /\ Unfinished(s) => Unfinished(Up(s))
    BY <1>1 DEF States, StateSound, Unfinished, Update
<1>2. CASE p.finished
    BY <1>0, <1>2 DEF Receive, Result, Good, Sound, Keeps
<1>3. CASE ~p.finished /\ p.current
    <2>1. r = UpdateCurrent(p, Up(p.state))
        BY <1>3 DEF Receive
    <2>2. p.state \in States /\ StateSound(p.state)
        BY <1>0 DEF Good, Sound, Tables
    <2> DEFINE s == Up(p.state)
    <2>3. /\ s \in States /\ StateSound(s) /\ (s.holders # {} \/ s.held)
          /\ p.state.held => s.held
        BY <1>1, <2>2
    <2> HIDE DEF p, s, r
    <2>4. Good(UpdateCurrent(p, s).table) /\ Keeps(p, UpdateCurrent(p, s))
        BY <1>0, <1>3, <2>3, UpdateCurrentGood
    <2> QED
        BY <1>0, <2>1, <2>4 DEF Keeps, s, r
<1>4. CASE ~p.finished /\ ~p.current
    <2>1. r.table = [p EXCEPT !.current = TRUE, !.state = TakeAction(Up(NewState))]
        BY <1>4 DEF Receive, Result
    <2>2. NewState \in States /\ StateSound(NewState) /\ Unfinished(NewState)
        BY NewTableGood DEF Good, Sound, Tables, NewTable
    <2> DEFINE s == Up(NewState)
    <2>3. s \in States /\ StateSound(s) /\ Unfinished(s) /\ (s.holders # {} \/ s.held)
        BY <1>1, <2>2
    <2> HIDE DEF p, s, r
    <2>4. Good([p EXCEPT !.current = TRUE, !.state = TakeAction(s)])
        BY <1>0, <1>4, <2>3, NewEntryGood
    <2> QED
        BY <1>0, <1>4, <2>1, <2>4 DEF Keeps, s, r
<1> QED
    BY <1>2, <1>3, <1>4

\* The first of the two: a peer has told us of the item.
LEMMA NewDataIdGood ==
    ASSUME NEW t, Good(t), NEW expired \in 0 .. t.timeouts, NEW holder \in Peers
    PROVE  LET r == NewDataId(t, expired, holder) IN Good(r.table) /\ Keeps(t, r)
    BY ReceiveGood DEF NewDataId

\* The second: we hold the item.
LEMMA NewCompleteDataGood ==
    ASSUME NEW t, Good(t), NEW expired \in 0 .. t.timeouts, NEW source \in SUBSET Peers
    PROVE  LET r == NewCompleteData(t, expired, source) IN Good(r.table) /\ Keeps(t, r)
    BY ReceiveGood DEF NewCompleteData

\* A table and no action of the caller's.
LEMMA UnchangedGood ==
    ASSUME NEW t, Good(t)
    PROVE  Good(Result(t, Noop).table) /\ Keeps(t, Result(t, Noop))
    BY DEF Result, Keeps

\* Forcing an item to finish.
LEMMA ForceFinishGood ==
    ASSUME NEW t, Good(t)
    PROVE  Good(ForceFinish(t).table) /\ Keeps(t, ForceFinish(t))
<1>1. CASE t.current
    BY <1>1, InsertToFinishedGood DEF ForceFinish, Result, Keeps, Good, Sound
<1>2. CASE ~t.current
    BY <1>2 DEF ForceFinish, Result, Keeps
<1> QED
    BY <1>1, <1>2

\* A response: the infected peer takes the place of a message in flight, or
\* there is room for it because the entry is unfinished.
LEMMA InfectedGood ==
    ASSUME NEW t, Good(t), NEW peer \in Peers, NEW by_us \in BOOLEAN
    PROVE  Good(Infected(t, peer, by_us).table) /\ Keeps(t, Infected(t, peer, by_us))
<1> DEFINE s == [t.state EXCEPT !.holders = @ \cup {peer},
                                !.infected_by_us = IF by_us THEN @ \cup {peer} ELSE @,
                                !.in_flight_count = SaturatingSub(@, 1)]
<1>1. t.state \in States /\ StateSound(t.state) /\ Unfinished(t.state)
    BY DEF Good, Sound, Tables
<1>2. s \in States /\ s.held = t.state.held /\ s.holders # {}
    <2>1. SaturatingSub(t.state.in_flight_count, 1) \in Nat
        BY <1>1 DEF States, SaturatingSub
    <2>2. s.held = t.state.held /\ s.holders = t.state.holders \cup {peer}
        BY <1>1 DEF States
    <2>3. s \in States
        BY <1>1, <2>1 DEF States
    <2> QED
        BY <2>2, <2>3
<1>3. ASSUME t.state.held PROVE StateSound(s)
    <2>1. s.infected_by_us \subseteq s.holders
        BY <1>1 DEF States, StateSound
    <2>2. /\ s.in_flight_count = SaturatingSub(t.state.in_flight_count, 1)
          /\ \/ s.infected_by_us = t.state.infected_by_us
             \/ s.infected_by_us = t.state.infected_by_us \cup {peer}
        BY <1>1 DEF States
    <2>3. Cardinality(s.infected_by_us) <= Cardinality(t.state.infected_by_us) + 1
        BY <1>1, <2>2, PeerCardinality DEF States
    <2>4. /\ Cardinality(s.infected_by_us) \in Nat
          /\ Cardinality(t.state.infected_by_us) \in Nat
          /\ t.state.in_flight_count \in Nat
        BY <1>1, <1>2, PeerCardinality DEF States
    <2> HIDE DEF s
    <2>5. s.in_flight_count + Cardinality(s.infected_by_us) <= InfectionTarget
        BY <1>1, <2>2, <2>3, <2>4, InfectionTargetPositive
        DEF StateSound, Unfinished, SaturatingSub
    <2> QED
        BY <1>2, <1>3, <2>1, <2>5 DEF StateSound
<1>4. CASE t.current /\ t.state.held
    <2>1. Infected(t, peer, by_us) = UpdateCurrent(t, s)
        BY <1>4 DEF Infected
    <2> HIDE DEF s
    <2> QED
        BY <1>2, <1>3, <1>4, <2>1, UpdateCurrentGood
<1>5. CASE t.current /\ ~t.state.held
    <2>1. Infected(t, peer, by_us) = UpdateCurrent(t, t.state)
        BY <1>5 DEF Infected
    <2>2. t.state.holders # {}
        BY <1>5 DEF Good, Sound
    <2> QED
        BY <1>1, <1>5, <2>1, <2>2, UpdateCurrentGood
<1>6. CASE ~t.current
    BY <1>6, UnchangedGood DEF Infected
<1> QED
    BY <1>4, <1>5, <1>6

\* A report that fewer peers were reached than asked for.
LEMMA ReduceInFlightCountGood ==
    ASSUME NEW t, Good(t), NEW n \in Nat
    PROVE  Good(ReduceInFlightCount(t, n).table) /\ Keeps(t, ReduceInFlightCount(t, n))
<1> DEFINE left == SaturatingSub(t.state.in_flight_count, n)
           u == [t EXCEPT !.state.in_flight_count = left]
<1>1. t \in Tables /\ t.state \in States /\ t.state.in_flight_count \in Nat
    BY DEF Good, Tables, States
<1>2. left \in Nat /\ left <= t.state.in_flight_count
    BY <1>1 DEF SaturatingSub
<1> HIDE DEF left
<1>3. u.state = [t.state EXCEPT !.in_flight_count = left]
    BY <1>1 DEF Tables
<1>4. /\ u.state \in States /\ u.state.held = t.state.held /\ u.state.holders = t.state.holders
      /\ u.state.infected_by_us = t.state.infected_by_us /\ u.state.in_flight_count = left
    BY <1>1, <1>2, <1>3 DEF States
<1>5. /\ u \in Tables /\ u.current = t.current /\ u.finished = t.finished
      /\ u.timeouts = t.timeouts
    BY <1>1, <1>4 DEF Tables
<1>6. Cardinality(t.state.infected_by_us) \in Nat
    BY <1>1, PeerCardinality DEF States
<1>7. StateSound(u.state) /\ Unfinished(u.state)
    <2>1. StateSound(t.state) /\ Unfinished(t.state)
        BY DEF Good, Sound
    <2> QED
        BY <1>1, <1>2, <1>4, <1>6, <2>1, InfectionTargetPositive DEF StateSound, Unfinished
<1>8. Good(u)
    BY <1>4, <1>5, <1>7 DEF Good, Sound
<1> HIDE DEF u
<1>9. CASE ~t.current
    <2>1. ReduceInFlightCount(t, n) = Result(t, Noop)
        BY <1>9 DEF ReduceInFlightCount
    <2> QED
        BY <2>1, UnchangedGood
<1>10. CASE t.current /\ left = 0
    <2>1. ReduceInFlightCount(t, n) = ForceFinish(u)
        BY <1>10 DEF ReduceInFlightCount, u, left
    <2> QED
        BY <1>4, <1>5, <1>8, <2>1, ForceFinishGood DEF Keeps
<1>11. CASE t.current /\ left # 0
    <2>1. ReduceInFlightCount(t, n) = Result(u, Noop)
        BY <1>11 DEF ReduceInFlightCount, u, left
    <2> QED
        BY <1>4, <1>5, <1>8, <2>1, UnchangedGood DEF Keeps
<1> QED
    BY <1>9, <1>10, <1>11

\* Noting the peers we tried to infect touches no account.
LEMMA RegisterInfectionAttemptGood ==
    ASSUME NEW t, Good(t), NEW peers \in SUBSET Peers
    PROVE  LET u == RegisterInfectionAttempt(t, peers)
           IN  Good(u) /\ u.current = t.current /\ u.state.held = t.state.held
<1> DEFINE u == [t EXCEPT !.state.attempted_to_infect = @ \cup peers]
<1>1. t \in Tables /\ t.state \in States
    BY DEF Good, Tables
<1>2. u.state = [t.state EXCEPT !.attempted_to_infect = @ \cup peers]
    BY <1>1 DEF Tables
<1>3. /\ u.state \in States /\ u.state.held = t.state.held /\ u.state.holders = t.state.holders
      /\ u.state.infected_by_us = t.state.infected_by_us
      /\ u.state.in_flight_count = t.state.in_flight_count
    BY <1>1, <1>2 DEF States
<1>4. /\ u \in Tables /\ u.current = t.current /\ u.finished = t.finished
      /\ u.timeouts = t.timeouts
    BY <1>1, <1>3 DEF Tables
<1>5. Good(u)
    BY <1>3, <1>4 DEF Good, Sound, StateSound, Unfinished
<1> QED
    BY <1>3, <1>4, <1>5 DEF RegisterInfectionAttempt

\* A gossip message has timed out.
LEMMA CheckTimeoutGood ==
    ASSUME NEW t, Good(t), NEW peer \in Peers
    PROVE  Good(CheckTimeout(t, peer).table) /\ Keeps(t, CheckTimeout(t, peer))
<1> DEFINE s == [t.state EXCEPT !.holders = @ \cup {peer},
                                !.in_flight_count = SaturatingSub(@, 1)]
<1>1. t.state \in States /\ StateSound(t.state) /\ t.state.in_flight_count \in Nat
    BY DEF Good, Sound, Tables, States
<1>2. /\ SaturatingSub(t.state.in_flight_count, 1) \in Nat
      /\ SaturatingSub(t.state.in_flight_count, 1) <= t.state.in_flight_count
    BY <1>1 DEF SaturatingSub
<1>3. /\ s \in States /\ s.held = t.state.held /\ s.holders = t.state.holders \cup {peer}
      /\ s.infected_by_us = t.state.infected_by_us
      /\ s.in_flight_count = SaturatingSub(t.state.in_flight_count, 1)
    BY <1>1, <1>2 DEF States
<1> HIDE DEF s
<1>4. StateSound(s)
    <2>1. Cardinality(t.state.infected_by_us) \in Nat
        BY <1>1, PeerCardinality DEF States
    <2> QED
        BY <1>1, <1>2, <1>3, <2>1, InfectionTargetPositive DEF StateSound
<1>5. CASE ~t.current
    BY <1>5, UnchangedGood DEF CheckTimeout
<1>6. CASE t.current /\ t.state.held /\ peer \notin t.state.holders
    <2>1. CheckTimeout(t, peer) = UpdateCurrent(t, s)
        BY <1>6 DEF CheckTimeout, s
    <2> QED
        BY <1>3, <1>4, <1>6, <2>1, UpdateCurrentGood
<1>7. CASE t.current /\ ~(t.state.held /\ peer \notin t.state.holders)
    <2>1. CheckTimeout(t, peer) = UpdateCurrent(t, t.state)
        BY <1>7 DEF CheckTimeout
    <2>2. t.state.held \/ t.state.holders # {}
        BY <1>7 DEF Good, Sound
    <2> QED
        BY <1>1, <1>7, <2>1, <2>2, UpdateCurrentGood
<1> QED
    BY <1>5, <1>6, <1>7

\* A holder that did not provide the item in time.
LEMMA RemoveHolderGood ==
    ASSUME NEW t, Good(t), NEW peer \in Peers
    PROVE  /\ Good(RemoveHolderIfUnresponsive(t, peer).table)
           /\ Keeps(t, RemoveHolderIfUnresponsive(t, peer))
<1> DEFINE r == RemoveHolderIfUnresponsive(t, peer)
<1>1. t \in Tables /\ t.state \in States /\ StateSound(t.state) /\ Unfinished(t.state)
    BY DEF Good, Sound, Tables
<1>2. CASE ~t.current
    <2>1. r = Result(t, Noop)
        BY <1>2 DEF RemoveHolderIfUnresponsive
    <2> QED
        BY <2>1, UnchangedGood
<1>3. CASE t.current /\ t.state.held
    <2> DEFINE u == [t EXCEPT !.state = TakeAction(t.state)]
    <2>1. r.table = u
        BY <1>3 DEF RemoveHolderIfUnresponsive, Result
    <2>2. /\ u \in Tables /\ u.current = t.current /\ u.finished = t.finished
          /\ u.timeouts = t.timeouts /\ u.state = TakeAction(t.state)
        BY <1>1, TakeActionSound DEF Tables
    <2>3. Good(u) /\ u.state.held
        BY <1>1, <1>3, <2>2, TakeActionSound DEF Good, Sound, Unfinished
    <2> QED
        BY <1>3, <2>1, <2>2, <2>3 DEF Keeps
<1>4. CASE t.current /\ ~t.state.held
    <2> DEFINE v == [t.state EXCEPT !.holders = @ \ {peer}]
    <2>1. v \in States /\ v.held = t.state.held /\ v.infected_by_us = t.state.infected_by_us
        BY <1>1 DEF States
    <2>2. CASE v.holders = {}
        <3>1. r.table = [t EXCEPT !.current = FALSE, !.state = NewState]
            BY <1>4, <2>1, <2>2 DEF RemoveHolderIfUnresponsive, Result
        <3> DEFINE u == [t EXCEPT !.current = FALSE, !.state = NewState]
        <3>2. NewState \in States /\ StateSound(NewState) /\ Unfinished(NewState)
            BY NewTableGood DEF Good, Sound, Tables, NewTable
        <3>3. /\ u \in Tables /\ ~u.current /\ u.finished = t.finished
              /\ u.timeouts = t.timeouts /\ u.state = NewState
            BY <1>1, <3>2 DEF Tables
        <3>4. Good(u)
            BY <3>2, <3>3 DEF Good, Sound
        <3> QED
            BY <1>4, <3>1, <3>4 DEF Keeps
    <2>3. CASE v.holders # {}
        <3> DEFINE u == [t EXCEPT !.state = TakeAction(v)]
        <3>1. r.table = u
            BY <1>4, <2>1, <2>3 DEF RemoveHolderIfUnresponsive, Result
        <3>2. v.in_flight_count = t.state.in_flight_count /\ v.infected_by_us = {}
            BY <1>1, <1>4, <2>1 DEF States, StateSound
        <3>3. StateSound(v)
            BY <1>1, <2>1, <3>2 DEF StateSound
        <3>4. Unfinished(v)
            BY <1>1, <2>1 DEF Unfinished
        <3> HIDE DEF v
        <3>5. /\ u \in Tables /\ u.current = t.current /\ u.finished = t.finished
              /\ u.timeouts = t.timeouts /\ u.state = TakeAction(v)
            BY <1>1, <2>1, <3>3, TakeActionSound DEF Tables
        <3>6. Good(u)
            BY <2>1, <2>3, <3>3, <3>4, <3>5, TakeActionSound DEF Good, Sound, Unfinished
        <3> QED
            BY <1>4, <3>1, <3>6 DEF Keeps
    <2> QED
        BY <2>2, <2>3
<1> QED
    BY <1>2, <1>3, <1>4

\* An item that was not validated in time.
LEMMA FinishIfNotHeldGood ==
    ASSUME NEW t, Good(t)
    PROVE  Good(FinishIfNotHeldByUs(t).table) /\ Keeps(t, FinishIfNotHeldByUs(t))
    BY UnchangedGood, ForceFinishGood DEF FinishIfNotHeldByUs

-----------------------------------------------------------------------------
\* The inductive invariant.
GossipInv == Good(table) /\ OwedWhileGossiping

\* A handler whose table operation is in order keeps the invariant.
LEMMA HandledKeeps ==
    ASSUME GossipInv, NEW t, NEW announced \in BOOLEAN, Good(t),
           table.current /\ table.state.held => announced \/ (t.current /\ t.state.held),
           NEW e, NEW effects, Handled(e, t, announced, effects)
    PROVE  GossipInv'
    BY DEF GossipInv, OwedWhileGossiping, Handled

\* The same for a handler that follows the GossipAction it was given.
LEMMA ActKeeps ==
    ASSUME GossipInv, NEW r, Good(r.table), Keeps(table, r),
           NEW e, NEW effects, Act(e, r, effects)
    PROVE  GossipInv'
<1>1. table.current /\ table.state.held =>
          r.action = AnnounceFinished \/ (r.table.current /\ r.table.state.held)
    BY DEF Keeps
<1>2. Handled(e, r.table, r.action = AnnounceFinished, Gossiping(r.action) (+) effects)
    BY DEF Act
<1> QED
    BY <1>1, <1>2, HandledKeeps

\* Every step keeps the invariant.
LEMMA GossipInvStep == GossipInv /\ [Next]_vars => GossipInv'
<1> SUFFICES ASSUME GossipInv, [Next]_vars PROVE GossipInv'
    OBVIOUS
<1> USE DEF GossipInv
<1>0. Good(table)
    OBVIOUS
<1>1. ASSUME NEW source \in {{}} \cup {{p} : p \in Peers}, HandleItemReceived(source)
      PROVE  GossipInv'
    <2>1. PICK expired \in Expired :
              Act(ItemReceived(source), NewCompleteData(table, expired, source), EmptyBag)
        BY <1>1 DEF HandleItemReceived
    <2>2. source \in SUBSET Peers /\ expired \in 0 .. table.timeouts
        BY DEF Expired
    <2> QED
        BY <1>0, <2>1, <2>2, NewCompleteDataGood, ActKeeps
<1>2. ASSUME NEW requested \in 1 .. InfectionTarget, NEW peers \in SUBSET Peers,
             HandleGossipedTo(requested, peers)
      PROVE  GossipInv'
    <2> DEFINE missed == requested - Cardinality(peers)
               reduced == IF missed > 0 THEN ReduceInFlightCount(table, missed)
                          ELSE Result(table, Noop)
               t == RegisterInfectionAttempt(reduced.table, peers)
    <2>1. missed > 0 => missed \in Nat
        BY PeerCardinality
    <2>2. Good(reduced.table) /\ Keeps(table, reduced)
        BY <1>0, <2>1, ReduceInFlightCountGood, UnchangedGood
    <2>3. Handled(GossipedTo(requested, peers), t, reduced.action = AnnounceFinished,
                  SetToBag({CheckGossipTimeout(p) : p \in peers}))
        BY <1>2 DEF HandleGossipedTo
    <2> HIDE DEF reduced
    <2>4. Good(t) /\ t.current = reduced.table.current /\ t.state.held = reduced.table.state.held
        BY <2>2, RegisterInfectionAttemptGood
    <2>5. table.current /\ table.state.held =>
              reduced.action = AnnounceFinished \/ (t.current /\ t.state.held)
        BY <2>2, <2>4 DEF Keeps
    <2> HIDE DEF t
    <2> QED
        BY <2>3, <2>4, <2>5, HandledKeeps
<1>3. ASSUME NEW count, NEW exclude, NEW peers, NetworkGossips(count, exclude, peers)
      PROVE  GossipInv'
    BY <1>0, <1>3, HandledKeeps DEF NetworkGossips
<1>4. ASSUME HandleCheckItemReceivedTimeout PROVE GossipInv'
    BY <1>0, <1>4, FinishIfNotHeldGood, ActKeeps DEF HandleCheckItemReceivedTimeout
<1>5. ASSUME NEW peer \in Peers, HandleCheckGossipTimeout(peer) PROVE GossipInv'
    BY <1>0, <1>5, CheckTimeoutGood, ActKeeps DEF HandleCheckGossipTimeout
<1>6. ASSUME NEW peer \in Peers, HandleCheckGetFromPeerTimeout(peer) PROVE GossipInv'
    BY <1>0, <1>6, RemoveHolderGood, ActKeeps DEF HandleCheckGetFromPeerTimeout
<1>7. ASSUME NEW peer \in Peers, HandleItemFromPeer(peer) PROVE GossipInv'
    BY <1>0, <1>7, HandledKeeps DEF HandleItemFromPeer
<1>8. ASSUME NEW peer \in Peers, HandleNotFound(peer) PROVE GossipInv'
    BY <1>0, <1>8, ForceFinishGood, ActKeeps DEF HandleNotFound
<1>9. ASSUME NEW peer \in Peers, NoAnswer(peer) PROVE GossipInv'
    BY <1>0, <1>9, HandledKeeps DEF NoAnswer
<1>10. ASSUME NEW peer \in Peers, NEW b \in BOOLEAN, HandleIsStoredResult(peer, b)
       PROVE  GossipInv'
    <2>1. PICK expired \in IF HasEntry(table) \/ ~b THEN Expired ELSE {0} :
              Act(IsStoredResult(peer, b),
                  IF HasEntry(table) \/ ~b THEN NewDataId(table, expired, peer)
                  ELSE Result(table, Noop),
                  IF (IF HasEntry(table) \/ ~b THEN NewDataId(table, expired, peer)
                      ELSE Result(table, Noop)).action = GetRemainder
                  THEN SetToBag({GetItem(peer), CheckGetFromPeerTimeout(peer)})
                  ELSE EmptyBag)
        BY <1>10 DEF HandleIsStoredResult
    <2>2. CASE HasEntry(table) \/ ~b
        BY <1>0, <2>1, <2>2, NewDataIdGood, ActKeeps DEF Expired
    <2>3. CASE ~(HasEntry(table) \/ ~b)
        BY <1>0, <2>1, <2>3, UnchangedGood, ActKeeps
    <2> QED
        BY <2>2, <2>3
<1>11. ASSUME NEW peer \in Peers, NEW b \in BOOLEAN, HandleGossipResponse(peer, b)
       PROVE  GossipInv'
    BY <1>0, <1>11, InfectedGood, ActKeeps, HandledKeeps DEF HandleGossipResponse
<1>12. ASSUME NEW peer \in Peers, NEW b \in BOOLEAN, Validate(peer, b) PROVE GossipInv'
    BY <1>0, <1>12, HandledKeeps DEF Validate
<1>13. ASSUME BeginGossip PROVE GossipInv'
    BY <1>13 DEF BeginGossip, OwedWhileGossiping
<1>14. ASSUME NEW sender \in Peers, ReceiveGossip(sender) PROVE GossipInv'
    <2>1. CASE small
        <3>1. PICK expired \in 0 .. table.timeouts :
                  LET r == NewCompleteData(table, expired, {sender})
                  IN  /\ table' = r.table
                      /\ owed' = (/\ r.action # AnnounceFinished
                                  /\ owed \/ (r.table.current /\ r.table.state.held))
            BY <1>14, <2>1 DEF ReceiveGossip, Expired
        <3> DEFINE r == NewCompleteData(table, expired, {sender})
        <3>2. Good(r.table) /\ Keeps(table, r)
            BY <1>0, NewCompleteDataGood
        <3> HIDE DEF r
        <3> QED
            BY <3>1, <3>2 DEF OwedWhileGossiping, Keeps, r
    <2>2. CASE ~small
        BY <1>14, <2>2 DEF ReceiveGossip, OwedWhileGossiping
    <2> QED
        BY <2>1, <2>2
<1>15. ASSUME NEW requester \in Peers, ReceiveGetItem(requester) PROVE GossipInv'
    BY <1>15 DEF ReceiveGetItem, OwedWhileGossiping
<1>16. CASE UNCHANGED vars
    BY <1>16 DEF vars, OwedWhileGossiping
<1> QED
    BY <1>1, <1>2, <1>3, <1>4, <1>5, <1>6, <1>7, <1>8, <1>9, <1>10, <1>11, <1>12, <1>13,
       <1>14, <1>15, <1>16 DEF Next, Progress

\* In the initial state nothing is in the table and nothing is owed.
LEMMA GossipInvInit == Init => GossipInv
    BY NewTableGood DEF Init, GossipInv, OwedWhileGossiping

\* For any number of peers, any order of responses, timeouts and reports: the
\* accounts of the gossip table stay in order (gossip_table.rs).
THEOREM TableSoundHolds == Spec => []TableSound
<1>1. GossipInv => TableSound
    BY DEF GossipInv, Good, TableSound
<1> QED
    BY <1>1, GossipInvInit, GossipInvStep, PTL DEF Spec

\* Every item we hold stays in `current` until its end is announced, on each of
\* the paths by which it can leave (gossiper.rs).
THEOREM OwedWhileGossipingHolds == Spec => []OwedWhileGossiping
<1>1. GossipInv => OwedWhileGossiping
    BY DEF GossipInv
<1> QED
    BY <1>1, GossipInvInit, GossipInvStep, PTL DEF Spec
=============================================================================

------------------------- MODULE GossiperWorkProofs -------------------------
(***************************************************************************)
(* For any set of peers, infection target and saturation limit, and any    *)
(* order of events: a large item is gossiped onwards only when it is       *)
(* stored, and an item in `current` always waits for an event that will    *)
(* come, provided that the peers we are connected to answer.               *)
(*                                                                         *)
(* The last of these is a matter of counting: the count of messages in     *)
(* flight is at most the number of messages, requests and reports among    *)
(* the pending events that lower it when they are handled.                 *)
(***************************************************************************)
EXTENDS GossiperProofs

-----------------------------------------------------------------------------
(* What an operation of the table does to an entry                          *)

\* The messages an action asks the network for.
MessagesOf(action) == IF action.do = "ShouldGossip" THEN action.count ELSE 0

\* Messages are in flight exactly for an item that we hold and gossip.
InFlight(t) ==
    IF t.current /\ t.state.held THEN t.state.in_flight_count > 0
    ELSE t.state.in_flight_count = 0

\* What becomes of an entry: it is given up or finished, or it lives on with as many
\* messages in flight as it had, less the ones accounted for, plus the new ones.
Becomes(r, held, in_flight_count) ==
    /\ InFlight(r.table)
    /\ r.table.state.in_flight_count \in Nat
    /\ r.action.do = "ShouldGossip" => r.table.current /\ r.table.state.held
    /\ MessagesOf(r.action) \in Nat
    /\ r.table.current =>
           /\ r.table.state.held = held
           /\ r.table.state.in_flight_count <= in_flight_count + MessagesOf(r.action)

LEMMA LimitPositive == AttemptedToInfectLimit \in Int /\ AttemptedToInfectLimit > 0
<1>1. 100 - SaturationLimitPercent \in 1 .. 100 /\ InfectionTarget \in Nat /\ InfectionTarget >= 1
    BY InfectionTargetPositive, SaturationLimitIsPercent
<1>2. ASSUME NEW a \in Nat, NEW b \in Nat, b > 0, a >= b PROVE (a \div b) \in Int /\ (a \div b) > 0
    <2>1. a = b * (a \div b) + (a % b) /\ (a % b) < b /\ (a % b) >= 0 /\ (a \div b) \in Int /\ (a % b) \in Int
        BY <1>2
    <2>2. (a \div b) <= 0 => b * (a \div b) <= 0
        BY <2>1
    <2> QED
        BY <1>2, <2>1, <2>2
<1> QED
    BY <1>1, <1>2 DEF AttemptedToInfectLimit

\* A new entry is not finished, and whether it is depends on two sets only.
LEMMA IsFinishedSets ==
    /\ \A s : s.infected_by_us = {} /\ s.attempted_to_infect = {} => ~IsFinished(s)
    /\ \A s, u : /\ s.infected_by_us = u.infected_by_us
                 /\ s.attempted_to_infect = u.attempted_to_infect
                 => IsFinished(s) = IsFinished(u)
    BY PeerCardinality, LimitPositive, InfectionTargetPositive DEF IsFinished

\* State::action on an entry that is not finished.
LEMMA ActionBecomes ==
    ASSUME NEW s \in States, StateSound(s), Unfinished(s), ~s.held => s.in_flight_count = 0,
           NEW is_new \in BOOLEAN
    PROVE  LET a == Action(s, is_new)
           IN  /\ TakeAction(s).in_flight_count = s.in_flight_count + MessagesOf(a)
               /\ MessagesOf(a) \in Nat
               /\ a.do = "ShouldGossip" => s.held
               /\ ~IsFinished(s) =>
                      IF s.held THEN TakeAction(s).in_flight_count > 0
                      ELSE TakeAction(s).in_flight_count = 0
               /\ IsFinished(s) => TakeAction(s).in_flight_count = s.in_flight_count
               /\ IsFinished(TakeAction(s)) = IsFinished(s)
<1> DEFINE a == Action(s, is_new)
<1>1. Cardinality(s.infected_by_us) \in Nat /\ s.in_flight_count \in Nat /\ s.held \in BOOLEAN
    BY PeerCardinality DEF States
<1>2. Wanted(s) \in Nat
    BY <1>1, InfectionTargetPositive DEF Wanted, SaturatingSub
<1>3. TakeAction(s).in_flight_count = s.in_flight_count + Wanted(s)
    BY DEF TakeAction, States
<1>4. MessagesOf(a) = Wanted(s) /\ (a.do = "ShouldGossip" => s.held)
    <2>1. CASE IsFinished(s)
        BY <2>1 DEF Action, MessagesOf, Wanted, Noop
    <2>2. CASE ~IsFinished(s) /\ s.held /\ Wanted(s) > 0
        <3>1. a = ShouldGossip(s, is_new)
            BY <2>2 DEF Action
        <3> QED
            BY <2>2, <3>1 DEF MessagesOf, ShouldGossip
    <2>3. CASE ~IsFinished(s) /\ s.held /\ ~(Wanted(s) > 0)
        BY <1>2, <2>3 DEF Action, MessagesOf, Noop
    <2>4. CASE ~IsFinished(s) /\ ~s.held
        BY <2>4 DEF Action, MessagesOf, Wanted, GetRemainder, AwaitingRemainder
    <2> QED
        BY <2>1, <2>2, <2>3, <2>4
<1>5. IsFinished(TakeAction(s)) = IsFinished(s)
    <2>1. TakeAction(s).infected_by_us = s.infected_by_us
          /\ TakeAction(s).attempted_to_infect = s.attempted_to_infect
        BY DEF TakeAction, States
    <2> QED
        BY <2>1, IsFinishedSets
<1>6. ~IsFinished(s) /\ s.held => s.in_flight_count + Wanted(s) > 0
    BY <1>1, InfectionTargetPositive DEF Wanted, SaturatingSub, Unfinished
<1>7. IsFinished(s) \/ ~s.held => Wanted(s) = 0
    BY DEF Wanted
<1> HIDE DEF a
<1>8. /\ TakeAction(s).in_flight_count = s.in_flight_count + MessagesOf(a)
      /\ MessagesOf(a) \in Nat
    BY <1>2, <1>3, <1>4
<1>9. ~IsFinished(s) => IF s.held THEN TakeAction(s).in_flight_count > 0
                        ELSE TakeAction(s).in_flight_count = 0
    BY <1>1, <1>3, <1>6, <1>7
<1>10. IsFinished(s) => TakeAction(s).in_flight_count = s.in_flight_count
    BY <1>1, <1>3, <1>7
<1> QED
    BY <1>4, <1>5, <1>8, <1>9, <1>10 DEF a

\* update_current finishes the entry or leaves it unfinished.
LEMMA UpdateCurrentBecomes ==
    ASSUME NEW t, Good(t), t.current, NEW s \in States, StateSound(s),
           ~s.held => s.in_flight_count = 0
    PROVE  LET r == UpdateCurrent(t, s)
           IN  /\ Becomes(r, s.held, s.in_flight_count)
               /\ r.table.current => ~IsFinished(r.table.state)
<1> DEFINE r == UpdateCurrent(t, s)
<1> SUFFICES /\ Becomes(r, s.held, s.in_flight_count)
             /\ r.table.current => ~IsFinished(r.table.state)
    OBVIOUS
<1>1. CASE IsFinished(s)
    <2>1. r.table = InsertToFinished(t) /\ r.action = AnnounceFinished
        BY <1>1 DEF UpdateCurrent, Result
    <2>2. ~r.table.current /\ r.table.state = NewState
        BY <2>1 DEF InsertToFinished
    <2>3. r.table.state.in_flight_count = 0 /\ r.action.do # "ShouldGossip"
        BY <2>1, <2>2 DEF NewState, AnnounceFinished
    <2> HIDE DEF r
    <2> QED
        BY <2>2, <2>3 DEF Becomes, InFlight, MessagesOf
<1>2. CASE ~IsFinished(s)
    <2>1. r.table = [t EXCEPT !.state = TakeAction(s)] /\ r.action = Action(s, FALSE)
        BY <1>2 DEF UpdateCurrent, Result
    <2>2. t \in Tables
        BY DEF Good
    <2>3. r.table.current /\ r.table.state = TakeAction(s)
        BY <2>1, <2>2 DEF Tables
    <2>4. Unfinished(s)
        BY <1>2, PeerCardinality, InfectionTargetPositive DEF IsFinished, Unfinished, States
    <2>5. TakeAction(s).held = s.held
        BY TakeActionSound
    <2> DEFINE a == Action(s, FALSE)
    <2>6. /\ TakeAction(s).in_flight_count = s.in_flight_count + MessagesOf(a)
          /\ MessagesOf(a) \in Nat
          /\ a.do = "ShouldGossip" => s.held
          /\ IF s.held THEN TakeAction(s).in_flight_count > 0 ELSE TakeAction(s).in_flight_count = 0
          /\ ~IsFinished(TakeAction(s))
        BY <1>2, <2>4, ActionBecomes
    <2>7. s.in_flight_count \in Nat
        BY DEF States
    <2>8. r.action = a
        BY <2>1
    <2> HIDE DEF a, r
    <2>9. r.table.state.held = s.held /\ r.table.state.in_flight_count = s.in_flight_count + MessagesOf(a)
        BY <2>3, <2>5, <2>6
    <2>10. InFlight(r.table)
        BY <2>3, <2>5, <2>6 DEF InFlight
    <2>11. r.table.state.in_flight_count <= s.in_flight_count + MessagesOf(a)
        BY <2>6, <2>7, <2>9
    <2>12. Becomes(r, s.held, s.in_flight_count)
        BY <2>3, <2>6, <2>7, <2>8, <2>9, <2>10, <2>11 DEF Becomes
    <2> QED
        BY <2>3, <2>6, <2>12
<1> QED
    BY <1>1, <1>2

\* What the other parts of the component rely on after an operation that accounts
\* for `n` messages: the in-flight count, who can come to hold the item (`complete`
\* says that the operation was given the full item), and that an item which we lack
\* is asked for when the entry is new.
Follows(t, r, n, complete) ==
    /\ InFlight(r.table)
    /\ MessagesOf(r.action) \in Nat
    /\ r.action.do = "ShouldGossip" => r.table.current /\ r.table.state.held
    /\ r.table.state.in_flight_count
           <= SaturatingSub(t.state.in_flight_count, n) + MessagesOf(r.action)
    /\ r.table.current /\ r.table.state.held => complete \/ (t.current /\ t.state.held)
    /\ r.table.current /\ ~r.table.state.held /\ ~IsFinished(r.table.state) =>
           r.action = GetRemainder \/ (t.current /\ ~t.state.held /\ ~IsFinished(t.state))

LEMMA UpdateCurrentFollows ==
    ASSUME NEW t, Good(t), t.current, NEW s \in States, StateSound(s),
           ~s.held => s.in_flight_count = 0 /\ ~t.state.held /\ IsFinished(s) = IsFinished(t.state),
           NEW n \in Nat, s.in_flight_count <= SaturatingSub(t.state.in_flight_count, n),
           NEW complete \in BOOLEAN, s.held => complete \/ t.state.held
    PROVE  LET r == UpdateCurrent(t, s)
           IN  Follows(t, r, n, complete) /\ (r.table.current => ~IsFinished(r.table.state))
<1> DEFINE r == UpdateCurrent(t, s)
           left == SaturatingSub(t.state.in_flight_count, n)
<1>1. Becomes(r, s.held, s.in_flight_count) /\ (r.table.current => ~IsFinished(r.table.state))
    BY UpdateCurrentBecomes
<1>2. r.table.current => ~IsFinished(s)
    <2>1. CASE IsFinished(s)
        BY <2>1 DEF UpdateCurrent, Result, InsertToFinished
    <2> QED
        BY <2>1
<1>3. left \in Nat /\ s.in_flight_count \in Nat /\ t.state.in_flight_count \in Nat
    BY DEF Good, Tables, States, SaturatingSub
<1> HIDE DEF r, left
<1>4. CASE r.table.current
    <2>1. /\ r.table.state.held = s.held
          /\ r.table.state.in_flight_count <= s.in_flight_count + MessagesOf(r.action)
          /\ MessagesOf(r.action) \in Nat
          /\ InFlight(r.table) /\ (r.action.do = "ShouldGossip" => r.table.current /\ r.table.state.held)
        BY <1>1, <1>4 DEF Becomes
    <2>2. r.table.state.in_flight_count <= left + MessagesOf(r.action)
        <3>1. r.table.state.in_flight_count \in Int
            BY <1>1 DEF Becomes
        <3> QED
            BY <1>3, <2>1, <3>1 DEF left
    <2>3. ~s.held => ~t.state.held /\ ~IsFinished(t.state)
        BY <1>2, <1>4
    <2>4. Follows(t, r, n, complete)
        BY <2>1, <2>2, <2>3 DEF Follows, left
    <2> QED
        BY <1>1, <2>4 DEF r
<1>5. CASE ~r.table.current
    <2>1. /\ r.table.state.in_flight_count = 0 /\ MessagesOf(r.action) \in Nat
          /\ InFlight(r.table) /\ r.action.do # "ShouldGossip"
        BY <1>1, <1>5 DEF Becomes, InFlight
    <2>2. Follows(t, r, n, complete)
        BY <1>3, <1>5, <2>1 DEF Follows, left
    <2> QED
        BY <1>5, <2>2 DEF r
<1> QED
    BY <1>4, <1>5

\* An operation that does nothing.
LEMMA NoopFollows ==
    ASSUME NEW t, Good(t), InFlight(t), NEW complete \in BOOLEAN
    PROVE  Follows(t, Result(t, Noop), 0, complete)
<1>1. t.state.in_flight_count \in Nat
    BY DEF Good, Tables, States
<1>2. SaturatingSub(t.state.in_flight_count, 0) = t.state.in_flight_count
    BY <1>1 DEF SaturatingSub
<1> QED
    BY <1>1, <1>2 DEF Follows, Result, Noop, MessagesOf

\* Without an entry there is nothing to account for.
LEMMA NoEntryFollows ==
    ASSUME NEW t, Good(t), InFlight(t), ~t.current, NEW n \in Nat, NEW complete \in BOOLEAN
    PROVE  Follows(t, Result(t, Noop), n, complete)
<1>1. t.state.in_flight_count = 0
    BY DEF InFlight
<1>2. SaturatingSub(0, n) = 0
    BY DEF SaturatingSub
<1> QED
    BY <1>1, <1>2 DEF Follows, Result, Noop, MessagesOf, InFlight

LEMMA NewStateFacts ==
    /\ NewState \in States /\ StateSound(NewState) /\ Unfinished(NewState)
    /\ NewState.in_flight_count = 0 /\ ~NewState.held /\ ~IsFinished(NewState)
<1>1. NewState \in States /\ StateSound(NewState) /\ Unfinished(NewState)
    BY NewTableGood DEF Good, Sound, Tables, NewTable
<1>2. ~IsFinished(NewState)
    BY IsFinishedSets DEF NewState
<1> QED
    BY <1>1, <1>2 DEF NewState

\* An entry that is finished.
LEMMA FinishedFollows ==
    ASSUME NEW t, Good(t), NEW u, NEW n \in Nat, NEW complete \in BOOLEAN
    PROVE  LET r == Result(InsertToFinished(u), AnnounceFinished)
           IN  Follows(t, r, n, complete) /\ ~r.table.current
<1> DEFINE r == Result(InsertToFinished(u), AnnounceFinished)
<1>1. ~r.table.current /\ r.table.state.in_flight_count = 0 /\ r.action.do # "ShouldGossip"
    BY DEF InsertToFinished, Result, AnnounceFinished, NewState
<1>2. SaturatingSub(t.state.in_flight_count, n) \in Nat
    BY DEF Good, Tables, States, SaturatingSub
<1> HIDE DEF r
<1>3. Follows(t, r, n, complete)
    BY <1>1, <1>2 DEF Follows, InFlight, MessagesOf
<1> QED
    BY <1>1, <1>3 DEF r

\* Hearing of the item, or receiving it.
LEMMA ReceiveFollows ==
    ASSUME NEW t, Good(t), InFlight(t), NEW expired \in 0 .. t.timeouts,
           NEW holders \in SUBSET Peers, NEW complete \in BOOLEAN, holders # {} \/ complete
    PROVE  LET r == Receive(t, expired, holders, complete)
           IN  /\ Follows(t, r, 0, complete)
               /\ r.table.current => ~IsFinished(r.table.state)
               /\ complete /\ r.table.current => r.table.state.held
<1> DEFINE p == PurgeFinished(t, expired)
           Up(s) == Update(s, holders, complete)
           r == Receive(t, expired, holders, complete)
<1>0. Good(p) /\ p.current = t.current /\ p.state = t.state
    BY PurgeGood
<1>1. ASSUME NEW s \in States, StateSound(s)
      PROVE  /\ Up(s) \in States /\ StateSound(Up(s))
             /\ Up(s).held = (s.held \/ complete) /\ Up(s).in_flight_count = s.in_flight_count
             /\ Unfinished(s) => Unfinished(Up(s))
             /\ IsFinished(Up(s)) = IsFinished(s)
    <2>1. /\ Up(s) \in States /\ StateSound(Up(s))
          /\ Up(s).held = (s.held \/ complete) /\ Up(s).in_flight_count = s.in_flight_count
          /\ Unfinished(s) => Unfinished(Up(s))
        BY <1>1 DEF States, StateSound, Unfinished, Update
    <2>2. Up(s).infected_by_us = s.infected_by_us /\ Up(s).attempted_to_infect = s.attempted_to_infect
        BY DEF States, Update
    <2> HIDE DEF Up
    <2>3. IsFinished(Up(s)) = IsFinished(s)
        BY <2>2, IsFinishedSets
    <2> QED
        BY <2>1, <2>3
<1>2. /\ t.state \in States /\ StateSound(t.state) /\ t.state.in_flight_count \in Nat
      /\ t.state.held \in BOOLEAN
    BY DEF Good, Sound, Tables, States
<1>3. SaturatingSub(t.state.in_flight_count, 0) = t.state.in_flight_count
    BY <1>2 DEF SaturatingSub
<1>4. CASE p.finished
    <2>1. r = Result(p, Noop) /\ ~p.current
        BY <1>0, <1>4 DEF Receive, Good, Sound
    <2>2. InFlight(p) /\ t.state.in_flight_count = 0
        BY <1>0, <2>1 DEF InFlight
    <2> HIDE DEF p, r
    <2>3. r.table = p /\ r.action.do # "ShouldGossip" /\ ~r.table.current
        BY <2>1 DEF Result, Noop
    <2>4. Follows(t, r, 0, complete)
        BY <1>0, <1>2, <1>3, <2>2, <2>3 DEF Follows, MessagesOf
    <2> QED
        BY <2>3, <2>4 DEF r
<1>5. CASE ~p.finished /\ p.current
    <2> DEFINE s == Up(t.state)
    <2>1. r = UpdateCurrent(p, s)
        BY <1>0, <1>5 DEF Receive
    <2>2. /\ s \in States /\ StateSound(s) /\ s.held = (t.state.held \/ complete)
          /\ s.in_flight_count = t.state.in_flight_count /\ IsFinished(s) = IsFinished(t.state)
        BY <1>1, <1>2
    <2> HIDE DEF p, s, r
    <2>3. ~s.held => s.in_flight_count = 0 /\ ~p.state.held /\ IsFinished(s) = IsFinished(p.state)
        BY <1>0, <2>2 DEF InFlight
    <2>4. s.in_flight_count <= SaturatingSub(p.state.in_flight_count, 0)
        BY <1>0, <1>2, <1>3, <2>2
    <2>5. s.held => complete \/ p.state.held
        BY <1>0, <2>2
    <2>6. Follows(p, r, 0, complete) /\ (r.table.current => ~IsFinished(r.table.state))
        BY <1>0, <1>5, <2>1, <2>2, <2>3, <2>4, <2>5, UpdateCurrentFollows
    <2>7. Follows(t, r, 0, complete)
        BY <1>0, <2>6 DEF Follows
    <2>8. complete /\ r.table.current => r.table.state.held
        <3>1. Becomes(r, s.held, s.in_flight_count)
            BY <1>0, <1>5, <2>1, <2>2, <2>3, UpdateCurrentBecomes
        <3> QED
            BY <2>2, <3>1 DEF Becomes
    <2> QED
        BY <2>6, <2>7, <2>8 DEF r
<1>6. CASE ~p.finished /\ ~p.current
    <2> DEFINE s == Up(NewState)
               a == Action(s, TRUE)
    <2>1. r.table = [p EXCEPT !.current = TRUE, !.state = TakeAction(s)] /\ r.action = a
        BY <1>6 DEF Receive, Result
    <2>2. /\ s \in States /\ StateSound(s) /\ Unfinished(s) /\ s.held = complete
          /\ s.in_flight_count = 0 /\ ~IsFinished(s)
        BY <1>1, NewStateFacts
    <2> HIDE DEF p, s, r
    <2>3. r.table.current /\ r.table.state = TakeAction(s)
        BY <1>0, <2>1 DEF Good, Tables
    <2>4. TakeAction(s).held = s.held
        BY <2>2, TakeActionSound
    <2>5. /\ TakeAction(s).in_flight_count = s.in_flight_count + MessagesOf(a)
          /\ MessagesOf(a) \in Nat
          /\ a.do = "ShouldGossip" => s.held
          /\ IF s.held THEN TakeAction(s).in_flight_count > 0 ELSE TakeAction(s).in_flight_count = 0
          /\ ~IsFinished(TakeAction(s))
        BY <2>2, ActionBecomes
    <2>6. ~s.held => a = GetRemainder
        BY <2>2 DEF Action
    <2> HIDE DEF a
    <2>7. InFlight(r.table)
        BY <2>3, <2>4, <2>5 DEF InFlight
    <2>8. r.table.state.in_flight_count <= SaturatingSub(t.state.in_flight_count, 0) + MessagesOf(r.action)
        <3>1. r.table.state.in_flight_count = MessagesOf(a)
            BY <2>2, <2>3, <2>5
        <3> QED
            BY <1>2, <1>3, <2>1, <2>5, <3>1
    <2>9. Follows(t, r, 0, complete)
        BY <2>1, <2>2, <2>3, <2>4, <2>5, <2>6, <2>7, <2>8 DEF Follows
    <2> QED
        BY <2>2, <2>3, <2>4, <2>5, <2>9 DEF r
<1> QED
    BY <1>4, <1>5, <1>6

\* A response accounts for the message it answers.
LEMMA InfectedFollows ==
    ASSUME NEW t, Good(t), InFlight(t), NEW peer \in Peers, NEW by_us \in BOOLEAN
    PROVE  LET r == Infected(t, peer, by_us)
           IN  Follows(t, r, 1, FALSE) /\ (r.table.current => ~IsFinished(r.table.state))
<1> DEFINE s == [t.state EXCEPT !.holders = @ \cup {peer},
                                !.infected_by_us = IF by_us THEN @ \cup {peer} ELSE @,
                                !.in_flight_count = SaturatingSub(@, 1)]
<1>1. t.state \in States /\ StateSound(t.state) /\ Unfinished(t.state) /\ t.state.in_flight_count \in Nat
    BY DEF Good, Sound, Tables, States
<1>2. SaturatingSub(t.state.in_flight_count, 1) \in Nat
    BY <1>1 DEF SaturatingSub
<1>3. /\ s \in States /\ s.held = t.state.held
      /\ s.in_flight_count = SaturatingSub(t.state.in_flight_count, 1)
    BY <1>1, <1>2 DEF States
<1>4. ASSUME t.state.held PROVE StateSound(s)
    <2>1. s.infected_by_us \subseteq s.holders
        BY <1>1 DEF States, StateSound
    <2>2. \/ s.infected_by_us = t.state.infected_by_us
          \/ s.infected_by_us = t.state.infected_by_us \cup {peer}
        BY <1>1 DEF States
    <2>3. Cardinality(s.infected_by_us) <= Cardinality(t.state.infected_by_us) + 1
        BY <1>1, <2>2, PeerCardinality DEF States
    <2>4. Cardinality(s.infected_by_us) \in Nat /\ Cardinality(t.state.infected_by_us) \in Nat
        BY <1>1, <1>3, PeerCardinality DEF States
    <2> HIDE DEF s
    <2>5. s.in_flight_count + Cardinality(s.infected_by_us) <= InfectionTarget
        BY <1>1, <1>3, <2>3, <2>4, InfectionTargetPositive
        DEF StateSound, Unfinished, SaturatingSub
    <2> QED
        BY <1>3, <1>4, <2>1, <2>5 DEF StateSound
<1>5. CASE t.current /\ t.state.held
    <2>1. Infected(t, peer, by_us) = UpdateCurrent(t, s)
        BY <1>5 DEF Infected
    <2> HIDE DEF s
    <2>2. s.in_flight_count <= SaturatingSub(t.state.in_flight_count, 1)
        BY <1>2, <1>3
    <2> QED
        BY <1>3, <1>4, <1>5, <2>1, <2>2, UpdateCurrentFollows
<1>6. CASE t.current /\ ~t.state.held
    <2>1. Infected(t, peer, by_us) = UpdateCurrent(t, t.state)
        BY <1>6 DEF Infected
    <2>2. t.state.in_flight_count = 0
        BY <1>6 DEF InFlight
    <2>3. t.state.in_flight_count <= SaturatingSub(t.state.in_flight_count, 1)
        BY <1>2, <2>2
    <2> QED
        BY <1>1, <1>6, <2>1, <2>2, <2>3, UpdateCurrentFollows
<1>7. CASE ~t.current
    <2>1. Infected(t, peer, by_us) = Result(t, Noop)
        BY <1>7 DEF Infected
    <2>2. ~Result(t, Noop).table.current
        BY <1>7 DEF Result
    <2> QED
        BY <1>7, <2>1, <2>2, NoEntryFollows
<1> QED
    BY <1>5, <1>6, <1>7

\* The timeout of a gossip message may lower the count but accounts for nothing.
LEMMA CheckTimeoutFollows ==
    ASSUME NEW t, Good(t), InFlight(t), NEW peer \in Peers
    PROVE  LET r == CheckTimeout(t, peer)
           IN  Follows(t, r, 0, FALSE) /\ (r.table.current => ~IsFinished(r.table.state))
<1> DEFINE s == [t.state EXCEPT !.holders = @ \cup {peer},
                                !.in_flight_count = SaturatingSub(@, 1)]
<1>1. t.state \in States /\ StateSound(t.state) /\ t.state.in_flight_count \in Nat
    BY DEF Good, Sound, Tables, States
<1>2. /\ SaturatingSub(t.state.in_flight_count, 1) \in Nat
      /\ SaturatingSub(t.state.in_flight_count, 1) <= t.state.in_flight_count
      /\ SaturatingSub(t.state.in_flight_count, 0) = t.state.in_flight_count
    BY <1>1 DEF SaturatingSub
<1>3. /\ s \in States /\ s.held = t.state.held /\ s.holders = t.state.holders \cup {peer}
      /\ s.infected_by_us = t.state.infected_by_us
      /\ s.in_flight_count = SaturatingSub(t.state.in_flight_count, 1)
    BY <1>1, <1>2 DEF States
<1> HIDE DEF s
<1>4. StateSound(s)
    <2>1. Cardinality(t.state.infected_by_us) \in Nat
        BY <1>1, PeerCardinality DEF States
    <2> QED
        BY <1>1, <1>2, <1>3, <2>1, InfectionTargetPositive DEF StateSound
<1>5. CASE ~t.current
    <2>1. CheckTimeout(t, peer) = Result(t, Noop) /\ ~Result(t, Noop).table.current
        BY <1>5 DEF CheckTimeout, Result
    <2> QED
        BY <1>5, <2>1, NoEntryFollows
<1>6. CASE t.current /\ t.state.held /\ peer \notin t.state.holders
    <2>1. CheckTimeout(t, peer) = UpdateCurrent(t, s)
        BY <1>6 DEF CheckTimeout, s
    <2>2. s.in_flight_count <= SaturatingSub(t.state.in_flight_count, 0)
        BY <1>2, <1>3
    <2> QED
        BY <1>3, <1>4, <1>6, <2>1, <2>2, UpdateCurrentFollows
<1>7. CASE t.current /\ ~(t.state.held /\ peer \notin t.state.holders)
    <2>1. CheckTimeout(t, peer) = UpdateCurrent(t, t.state)
        BY <1>7 DEF CheckTimeout
    <2>2. t.state.in_flight_count <= SaturatingSub(t.state.in_flight_count, 0)
        BY <1>1, <1>2
    <2>3. ~t.state.held => t.state.in_flight_count = 0
        BY DEF InFlight
    <2> QED
        BY <1>1, <1>7, <2>1, <2>2, <2>3, UpdateCurrentFollows
<1> QED
    BY <1>5, <1>6, <1>7

\* Forcing an item to finish.
LEMMA ForceFinishFollows ==
    ASSUME NEW t, Good(t), InFlight(t)
    PROVE  LET r == ForceFinish(t) IN Follows(t, r, 0, FALSE) /\ ~r.table.current
<1>1. CASE t.current
    BY <1>1, FinishedFollows DEF ForceFinish
<1>2. CASE ~t.current
    <2>1. ForceFinish(t) = Result(t, Noop) /\ ~Result(t, Noop).table.current
        BY <1>2 DEF ForceFinish, Result
    <2> QED
        BY <1>2, <2>1, NoEntryFollows
<1> QED
    BY <1>1, <1>2

\* An item that was not validated in time.
LEMMA FinishIfNotHeldFollows ==
    ASSUME NEW t, Good(t), InFlight(t)
    PROVE  LET r == FinishIfNotHeldByUs(t)
           IN  Follows(t, r, 0, FALSE) /\ (r.table.current => r = Result(t, Noop))
<1>1. CASE t.current /\ ~t.state.held
    BY <1>1, ForceFinishFollows DEF FinishIfNotHeldByUs
<1>2. CASE ~(t.current /\ ~t.state.held)
    BY <1>2, NoopFollows DEF FinishIfNotHeldByUs
<1> QED
    BY <1>1, <1>2

\* A report accounts for the messages that were not sent.
LEMMA ReduceFollows ==
    ASSUME NEW t, Good(t), InFlight(t), NEW n \in Nat
    PROVE  LET r == ReduceInFlightCount(t, n)
           IN  /\ Follows(t, r, n, FALSE)
               /\ r.action.do # "ShouldGossip"
               /\ r.table.current =>
                      /\ t.current /\ r.table.state.held = t.state.held
                      /\ IsFinished(r.table.state) = IsFinished(t.state)
<1> DEFINE left == SaturatingSub(t.state.in_flight_count, n)
           u == [t EXCEPT !.state.in_flight_count = left]
<1>1. t \in Tables /\ t.state \in States /\ t.state.in_flight_count \in Nat
    BY DEF Good, Tables, States
<1>2. left \in Nat
    BY <1>1 DEF SaturatingSub
<1> HIDE DEF left
<1>3. u.state = [t.state EXCEPT !.in_flight_count = left] /\ u.current = t.current
    BY <1>1 DEF Tables
<1>4. /\ u.state.held = t.state.held /\ u.state.in_flight_count = left
      /\ u.state.infected_by_us = t.state.infected_by_us
      /\ u.state.attempted_to_infect = t.state.attempted_to_infect
    BY <1>1, <1>2, <1>3 DEF States
<1> HIDE DEF u
<1>5. IsFinished(u.state) = IsFinished(t.state)
    BY <1>4, IsFinishedSets
<1>6. CASE ~t.current
    <2>1. ReduceInFlightCount(t, n) = Result(t, Noop) /\ ~Result(t, Noop).table.current
          /\ Result(t, Noop).action.do # "ShouldGossip"
        BY <1>6 DEF ReduceInFlightCount, Result, Noop
    <2> QED
        BY <1>6, <2>1, NoEntryFollows
<1>7. CASE t.current /\ left = 0
    <2>1. ReduceInFlightCount(t, n) = Result(InsertToFinished(u), AnnounceFinished)
        BY <1>3, <1>7 DEF ReduceInFlightCount, ForceFinish, u, left
    <2>2. Result(InsertToFinished(u), AnnounceFinished).action.do # "ShouldGossip"
        BY DEF Result, AnnounceFinished
    <2> QED
        BY <2>1, <2>2, FinishedFollows
<1>8. CASE t.current /\ left # 0
    <2> DEFINE r == Result(u, Noop)
    <2>1. ReduceInFlightCount(t, n) = r
        BY <1>8 DEF ReduceInFlightCount, u, left
    <2>2. r.table = u /\ r.action.do # "ShouldGossip" /\ MessagesOf(r.action) = 0
        BY DEF Result, Noop, MessagesOf
    <2> HIDE DEF r
    <2>3. t.state.held
        <3>1. ~t.state.held => t.state.in_flight_count = 0
            BY DEF InFlight
        <3> QED
            BY <1>1, <1>8, <3>1 DEF left, SaturatingSub
    <2>4. r.table.current /\ r.table.state.held
        BY <1>3, <1>4, <1>8, <2>2, <2>3, Zenon
    <2>5. r.table.state.in_flight_count = left
        BY <1>4, <2>2
    <2>6. left > 0 /\ left <= left + 0
        BY <1>2, <1>8
    <2>7. InFlight(r.table)
        BY <2>4, <2>5, <2>6, Zenon DEF InFlight
    <2>8. 0 \in Nat
        OBVIOUS
    <2>9. Follows(t, r, n, FALSE)
        BY <1>8, <2>2, <2>3, <2>4, <2>5, <2>6, <2>7, <2>8, Zenon DEF Follows, left
    <2> QED
        BY <1>4, <1>5, <1>8, <2>1, <2>2, <2>9, Zenon
<1> QED
    BY <1>6, <1>7, <1>8

\* A holder that did not provide the item: the entry is given up, or another holder is
\* asked unless the entry counts as finished.
LEMMA RemoveHolderFollows ==
    ASSUME NEW t, Good(t), InFlight(t), NEW peer \in Peers
    PROVE  LET r == RemoveHolderIfUnresponsive(t, peer)
           IN  /\ Follows(t, r, 0, FALSE)
               /\ r.table.current => t.current /\ IsFinished(r.table.state) = IsFinished(t.state)
               /\ r.table.current /\ ~r.table.state.held /\ ~IsFinished(r.table.state) =>
                      r.action = GetRemainder
<1> DEFINE r == RemoveHolderIfUnresponsive(t, peer)
           s == IF t.state.held THEN t.state ELSE [t.state EXCEPT !.holders = @ \ {peer}]
           a == Action(s, ~s.held)
<1>1. /\ t \in Tables /\ t.state \in States /\ StateSound(t.state) /\ Unfinished(t.state)
      /\ t.state.in_flight_count \in Nat /\ t.state.held \in BOOLEAN
    BY DEF Good, Sound, Tables, States
<1>2. SaturatingSub(t.state.in_flight_count, 0) = t.state.in_flight_count
    BY <1>1 DEF SaturatingSub
<1>3. /\ s \in States /\ s.held = t.state.held /\ s.infected_by_us = t.state.infected_by_us
      /\ s.attempted_to_infect = t.state.attempted_to_infect
      /\ s.in_flight_count = t.state.in_flight_count
    BY <1>1 DEF States
<1>4. StateSound(s)
    BY <1>1 DEF States, StateSound
<1>5. CASE ~t.current
    <2>1. r = Result(t, Noop) /\ ~Result(t, Noop).table.current
        BY <1>5 DEF RemoveHolderIfUnresponsive, Result
    <2>2. Follows(t, r, 0, FALSE)
        BY <1>5, <2>1, NoEntryFollows
    <2> QED
        BY <2>1, <2>2
<1>6. CASE t.current /\ ~s.held /\ s.holders = {}
    <2>1. r = Result([t EXCEPT !.current = FALSE, !.state = NewState], Noop)
        BY <1>6 DEF RemoveHolderIfUnresponsive
    <2> DEFINE u == [t EXCEPT !.current = FALSE, !.state = NewState]
    <2>a. ~u.current /\ u.state = NewState
        BY <1>1 DEF Tables
    <2>2. ~r.table.current /\ r.table.state = NewState /\ r.action = Noop
        <3> HIDE DEF u
        <3>1. r = Result(u, Noop)
            BY <2>1 DEF u
        <3> QED
            BY <2>a, <3>1 DEF Result
    <2> HIDE DEF r
    <2>3. Follows(t, r, 0, FALSE)
        BY <1>1, <1>2, <2>2, NewStateFacts DEF Follows, InFlight, Noop, MessagesOf
    <2> QED
        BY <2>2, <2>3 DEF r
<1>7. CASE t.current /\ ~(~s.held /\ s.holders = {})
    <2>1. r = Result([t EXCEPT !.state = TakeAction(s)], a)
        BY <1>7 DEF RemoveHolderIfUnresponsive
    <2> HIDE DEF s
    <2>2. r.table.current /\ r.table.state = TakeAction(s) /\ r.action = a
        BY <1>1, <1>7, <2>1 DEF Result, Tables
    <2>3. Unfinished(s) /\ IsFinished(s) = IsFinished(t.state)
        BY <1>1, <1>3, IsFinishedSets DEF Unfinished
    <2>4. ~s.held => s.in_flight_count = 0
        BY <1>3 DEF InFlight
    <2>5. (~s.held) \in BOOLEAN
        BY <1>1, <1>3
    <2>6. /\ TakeAction(s).in_flight_count = s.in_flight_count + MessagesOf(a)
          /\ MessagesOf(a) \in Nat
          /\ a.do = "ShouldGossip" => s.held
          /\ ~IsFinished(s) => IF s.held THEN TakeAction(s).in_flight_count > 0
                               ELSE TakeAction(s).in_flight_count = 0
          /\ IsFinished(s) => TakeAction(s).in_flight_count = s.in_flight_count
          /\ IsFinished(TakeAction(s)) = IsFinished(s)
        BY <1>3, <1>4, <2>3, <2>4, <2>5, ActionBecomes
    <2>7. TakeAction(s).held = s.held
        BY <1>3, <1>4, TakeActionSound
    <2>8. ~s.held /\ ~IsFinished(s) => a = GetRemainder
        BY DEF Action
    <2> HIDE DEF a, r
    <2>9. InFlight(r.table)
        BY <1>1, <1>3, <1>7, <2>2, <2>4, <2>6, <2>7 DEF InFlight
    <2>10. r.table.state.in_flight_count
               <= SaturatingSub(t.state.in_flight_count, 0) + MessagesOf(r.action)
        BY <1>1, <1>2, <1>3, <2>2, <2>6
    <2>11. Follows(t, r, 0, FALSE)
        BY <1>3, <1>7, <2>2, <2>3, <2>6, <2>7, <2>9, <2>10 DEF Follows
    <2> QED
        BY <1>7, <2>2, <2>3, <2>6, <2>7, <2>8, <2>11 DEF r
<1> QED
    BY <1>5, <1>6, <1>7

\* Only the attempts are added to, and only if there were any.
LEMMA RegisterFacts ==
    ASSUME NEW t, Good(t), InFlight(t), NEW peers \in SUBSET Peers
    PROVE  LET u == RegisterInfectionAttempt(t, peers)
           IN  /\ InFlight(u) /\ u.current = t.current /\ u.state.held = t.state.held
               /\ u.state.in_flight_count = t.state.in_flight_count
               /\ IsFinished(t.state) => IsFinished(u.state)
               /\ peers = {} => u = t
<1> DEFINE u == RegisterInfectionAttempt(t, peers)
           s == [t.state EXCEPT !.attempted_to_infect = @ \cup peers]
<1>1. t \in Tables /\ t.state \in States
    BY DEF Good, Tables
<1>2. CASE ~t.current
    BY <1>2 DEF RegisterInfectionAttempt
<1>3. CASE t.current
    <2>1. u = [t EXCEPT !.state = s]
        BY <1>1, <1>3 DEF RegisterInfectionAttempt, Tables
    <2>2. u.current = t.current /\ u.state = s
        BY <1>1, <2>1 DEF Tables
    <2>3. /\ s.held = t.state.held /\ s.in_flight_count = t.state.in_flight_count
          /\ s.infected_by_us = t.state.infected_by_us
          /\ s.attempted_to_infect = t.state.attempted_to_infect \cup peers
        BY <1>1 DEF States
    <2>4. IsFinished(t.state) => IsFinished(s)
        <3>1. t.state.attempted_to_infect \cup peers \in SUBSET Peers
              /\ t.state.attempted_to_infect \in SUBSET Peers
            BY <1>1 DEF States
        <3>2. IsFiniteSet(t.state.attempted_to_infect \cup peers)
            BY <3>1, PeersFinite, FS_Subset
        <3>3. Cardinality(t.state.attempted_to_infect)
                  <= Cardinality(t.state.attempted_to_infect \cup peers)
            BY <3>2, FS_Subset
        <3> QED
            BY <2>3, <3>1, <3>3, PeerCardinality, LimitPositive DEF IsFinished
    <2>5. peers = {} => u = t
        BY <1>1, <2>1 DEF Tables, States
    <2> HIDE DEF u, s
    <2> QED
        BY <2>2, <2>3, <2>4, <2>5 DEF InFlight, u
<1> QED
    BY <1>2, <1>3

\* Only an entry that is new asks for the item.
LEMMA UpdateCurrentAction == \A t, s : UpdateCurrent(t, s).action # GetRemainder
    BY DEF UpdateCurrent, Result, Action, ShouldGossip, Noop, AwaitingRemainder,
           AnnounceFinished, GetRemainder

\* The item itself was received, so it need not be asked for.
LEMMA ReceiveAction ==
    ASSUME NEW t, Good(t), NEW expired \in 0 .. t.timeouts, NEW holders \in SUBSET Peers
    PROVE  Receive(t, expired, holders, TRUE).action # GetRemainder
<1> DEFINE p == PurgeFinished(t, expired)
           s == Update(NewState, holders, TRUE)
<1>1. s.held
    BY NewStateFacts DEF Update, States
<1>2. Action(s, TRUE) # GetRemainder
    BY <1>1 DEF Action, ShouldGossip, Noop, GetRemainder
<1>3. CASE p.finished
    BY <1>3 DEF Receive, Result, Noop, GetRemainder
<1>4. CASE ~p.finished /\ p.current
    BY <1>4, UpdateCurrentAction DEF Receive
<1>5. CASE ~p.finished /\ ~p.current
    BY <1>2, <1>5 DEF Receive, Result
<1> QED
    BY <1>3, <1>4, <1>5

-----------------------------------------------------------------------------
(* The bag of events                                                        *)

LEMMA SetsAreBags == \A S : IsABag(SetToBag(S)) /\ DOMAIN SetToBag(S) = S
    BY DEF IsABag, SetToBag

LEMMA BagAdd ==
    ASSUME NEW b, IsABag(b), NEW x, IsABag(x)
    PROVE  IsABag(b (+) x) /\ DOMAIN (b (+) x) = DOMAIN b \cup DOMAIN x
<1> DEFINE m(e) == (IF e \in DOMAIN b THEN b[e] ELSE 0) + (IF e \in DOMAIN x THEN x[e] ELSE 0)
<1>1. b (+) x = [e \in DOMAIN b \cup DOMAIN x |-> m(e)]
    BY DEF (+)
<1>2. ASSUME NEW e \in DOMAIN b \cup DOMAIN x PROVE m(e) \in {n \in Nat : n > 0}
    <2>1. /\ e \in DOMAIN b => b[e] \in Nat /\ b[e] > 0
          /\ e \in DOMAIN x => x[e] \in Nat /\ x[e] > 0
        BY DEF IsABag
    <2> QED
        BY <2>1
<1> HIDE DEF m
<1> QED
    BY <1>1, <1>2 DEF IsABag

\* Taking an event from the bag leaves the others.
LEMMA BagTake ==
    ASSUME NEW b, IsABag(b), NEW e
    PROVE  LET c == b (-) SetToBag({e})
           IN  IsABag(c) /\ DOMAIN c \subseteq DOMAIN b /\ DOMAIN b \ {e} \subseteq DOMAIN c
    BY DEF IsABag, (-), SetToBag

\* The effects of a GossipAction and the others of its handler.
LEMMA GossipingBag ==
    ASSUME NEW action, NEW S
    PROVE  LET x == Gossiping(action) (+) SetToBag(S)
           IN  /\ IsABag(Gossiping(action)) /\ IsABag(x)
               /\ action.do # "ShouldGossip" => DOMAIN x = S /\ DOMAIN Gossiping(action) = {}
               /\ action.do = "ShouldGossip" =>
                      /\ DOMAIN Gossiping(action) = {GossipMessage(action.count, action.exclude_peers)}
                      /\ DOMAIN x = DOMAIN Gossiping(action) \cup S
<1>1. IsABag(Gossiping(action)) /\ IsABag(SetToBag(S)) /\ DOMAIN SetToBag(S) = S
      /\ IsABag(EmptyBag) /\ DOMAIN EmptyBag = {}
    BY SetsAreBags DEF Gossiping, EmptyBag
<1>2. /\ action.do # "ShouldGossip" => Gossiping(action) = EmptyBag
      /\ action.do = "ShouldGossip" =>
             DOMAIN Gossiping(action) = {GossipMessage(action.count, action.exclude_peers)}
    BY SetsAreBags DEF Gossiping
<1>3. /\ IsABag(Gossiping(action) (+) SetToBag(S))
      /\ DOMAIN (Gossiping(action) (+) SetToBag(S)) = DOMAIN Gossiping(action) \cup S
    BY <1>1, BagAdd
<1> QED
    BY <1>1, <1>2, <1>3

\* What is pending after an event was handled.
LEMMA HandledEvents ==
    ASSUME IsABag(events), NEW e, NEW t, NEW announced, NEW x, IsABag(x),
           Handled(e, t, announced, x)
    PROVE  /\ IsABag(events') /\ e \in BagToSet(events)
           /\ BagToSet(events') \subseteq BagToSet(events) \cup BagToSet(x)
           /\ BagToSet(x) \subseteq BagToSet(events')
           /\ BagToSet(events) \ {e} \subseteq BagToSet(events')
<1> DEFINE c == events (-) SetToBag({e})
<1>1. IsABag(c) /\ DOMAIN c \subseteq DOMAIN events /\ DOMAIN events \ {e} \subseteq DOMAIN c
    BY BagTake
<1>2. events' = c (+) x /\ e \in BagToSet(events)
    BY DEF Handled, Pending, BagIn
<1> HIDE DEF c
<1>3. IsABag(c (+) x) /\ DOMAIN (c (+) x) = DOMAIN c \cup DOMAIN x
    BY <1>1, BagAdd
<1> QED
    BY <1>1, <1>2, <1>3 DEF BagToSet

-----------------------------------------------------------------------------
(* What an entry waits for                                                  *)

Waits(types) == \E e \in BagToSet(events) : e.type \in types

\* The events that lead to the item being gossiped.
Onwards == {"GossipMessage", "Gossip", "ItemReceived"}

\* A large item that we hold or are about to gossip is stored.
GossipedStored == ~small /\ ((table.current /\ table.state.held) \/ Waits(Onwards)) => stored

\* An entry that has run out of attempts waits for the timeout of one of them.
FinishedTimedOut == table.current /\ IsFinished(table.state) => Waits({"CheckGossipTimeout"})

\* An entry that lacks the item waits for the peer that was asked for it.
UnheldAsked ==
    table.current /\ ~table.state.held /\ ~IsFinished(table.state) =>
        Waits({"CheckGetFromPeerTimeout"})

WorkInv ==
    /\ GossipInv /\ TypeOK /\ InFlight(table)
    /\ GossipedStored /\ FinishedTimedOut /\ UnheldAsked

\* Whatever the handler, what it must see to.
LEMMA HandledWorks ==
    ASSUME WorkInv, GossipInv', NEW e, NEW t, NEW announced \in BOOLEAN, NEW x, IsABag(x),
           Handled(e, t, announced, x), Good(t), InFlight(t),
           stored' \in BOOLEAN, stored => stored', UNCHANGED <<inputs, small>>,
           \/ ~(t.current /\ t.state.held)
           \/ small \/ stored' \/ (table.current /\ table.state.held) \/ e.type \in Onwards,
           \/ \A f \in BagToSet(x) : f.type \notin Onwards
           \/ small \/ stored' \/ (table.current /\ table.state.held) \/ e.type \in Onwards,
           \/ ~(t.current /\ IsFinished(t.state))
           \/ table.current /\ IsFinished(table.state) /\ e.type # "CheckGossipTimeout"
           \/ \E f \in BagToSet(x) : f.type = "CheckGossipTimeout",
           \/ ~(t.current /\ ~t.state.held /\ ~IsFinished(t.state))
           \/ /\ table.current /\ ~table.state.held /\ ~IsFinished(table.state)
              /\ e.type # "CheckGetFromPeerTimeout"
           \/ \E f \in BagToSet(x) : f.type = "CheckGetFromPeerTimeout"
    PROVE  WorkInv'
<1>1. /\ IsABag(events') /\ e \in BagToSet(events)
      /\ BagToSet(events') \subseteq BagToSet(events) \cup BagToSet(x)
      /\ BagToSet(x) \subseteq BagToSet(events')
      /\ BagToSet(events) \ {e} \subseteq BagToSet(events')
    BY HandledEvents DEF WorkInv, TypeOK
<1>2. table' = t /\ owed' = (~announced /\ (owed \/ (t.current /\ t.state.held)))
    BY DEF Handled
<1>3. TypeOK'
    BY <1>1, <1>2 DEF WorkInv, TypeOK, Good
<1>4. InFlight(table)'
    BY <1>2 DEF InFlight
<1>5. GossipedStored'
    BY <1>1, <1>2 DEF WorkInv, GossipedStored, Waits
<1>6. FinishedTimedOut'
    BY <1>1, <1>2 DEF WorkInv, FinishedTimedOut, Waits
<1>7. UnheldAsked'
    BY <1>1, <1>2 DEF WorkInv, UnheldAsked, Waits
<1> QED
    BY <1>3, <1>4, <1>5, <1>6, <1>7 DEF WorkInv

\* The same for a handler that follows the GossipAction it was given.
LEMMA ActWorks ==
    ASSUME WorkInv, GossipInv', NEW e, NEW r, NEW S, Act(e, r, SetToBag(S)), Good(r.table),
           NEW n \in Nat, NEW complete \in BOOLEAN, Follows(table, r, n, complete),
           UNCHANGED <<stored, inputs, small>>,
           complete => small \/ e.type \in Onwards,
           \A f \in S : f.type \notin Onwards,
           r.table.current /\ IsFinished(r.table.state) =>
               table.current /\ IsFinished(table.state) /\ e.type # "CheckGossipTimeout",
           r.action = GetRemainder => \E f \in S : f.type = "CheckGetFromPeerTimeout",
           \/ e.type # "CheckGetFromPeerTimeout"
           \/ r.table.current /\ ~r.table.state.held /\ ~IsFinished(r.table.state) =>
                  r.action = GetRemainder
    PROVE  WorkInv'
<1> DEFINE x == Gossiping(r.action) (+) SetToBag(S)
<1>1. Handled(e, r.table, r.action = AnnounceFinished, x)
    BY DEF Act
<1>2. /\ IsABag(x)
      /\ r.action.do # "ShouldGossip" => BagToSet(x) = S
      /\ r.action.do = "ShouldGossip" =>
             BagToSet(x) = {GossipMessage(r.action.count, r.action.exclude_peers)} \cup S
    BY GossipingBag DEF BagToSet
<1>3. S \subseteq BagToSet(x)
    BY <1>2
<1>4. (r.action = AnnounceFinished) \in BOOLEAN
    OBVIOUS
<1> HIDE DEF x
<1>5. InFlight(r.table)
    BY DEF Follows
<1>6. stored' \in BOOLEAN /\ (stored => stored') /\ UNCHANGED <<inputs, small>>
    BY DEF WorkInv, TypeOK
<1>7. \/ ~(r.table.current /\ r.table.state.held)
      \/ small \/ stored' \/ (table.current /\ table.state.held) \/ e.type \in Onwards
    BY DEF Follows
<1>8. \/ \A f \in BagToSet(x) : f.type \notin Onwards
      \/ small \/ stored' \/ (table.current /\ table.state.held) \/ e.type \in Onwards
    <2>1. CASE r.action.do = "ShouldGossip"
        BY <1>7, <2>1 DEF Follows
    <2>2. CASE r.action.do # "ShouldGossip"
        BY <1>2, <2>2
    <2> QED
        BY <2>1, <2>2
<1>9. \/ ~(r.table.current /\ IsFinished(r.table.state))
      \/ table.current /\ IsFinished(table.state) /\ e.type # "CheckGossipTimeout"
      \/ \E f \in BagToSet(x) : f.type = "CheckGossipTimeout"
    OBVIOUS
<1>10. \/ ~(r.table.current /\ ~r.table.state.held /\ ~IsFinished(r.table.state))
       \/ /\ table.current /\ ~table.state.held /\ ~IsFinished(table.state)
          /\ e.type # "CheckGetFromPeerTimeout"
       \/ \E f \in BagToSet(x) : f.type = "CheckGetFromPeerTimeout"
    BY <1>3 DEF Follows
<1> QED
    BY <1>1, <1>2, <1>4, <1>5, <1>6, <1>7, <1>8, <1>9, <1>10, HandledWorks

\* The same for one whose only effects are those of its GossipAction.
LEMMA ActAloneWorks ==
    ASSUME WorkInv, GossipInv', NEW e, NEW r, Act(e, r, EmptyBag), Good(r.table),
           NEW n \in Nat, NEW complete \in BOOLEAN, Follows(table, r, n, complete),
           UNCHANGED <<stored, inputs, small>>,
           complete => small \/ e.type \in Onwards,
           r.table.current /\ IsFinished(r.table.state) =>
               table.current /\ IsFinished(table.state) /\ e.type # "CheckGossipTimeout",
           r.action # GetRemainder, e.type # "CheckGetFromPeerTimeout"
    PROVE  WorkInv'
<1> DEFINE S == {}
<1>1. Act(e, r, SetToBag(S)) /\ \A f \in S : f.type \notin Onwards
    BY DEF EmptyBag
<1> HIDE DEF S
<1> QED
    BY <1>1, ActWorks

\* The same for an event that comes from outside.
LEMMA AddedWorks ==
    ASSUME WorkInv, GossipInv', NEW x, IsABag(x), events' = events (+) x,
           owed' \in BOOLEAN, inputs' \in 0 .. MaxInputs, small' = small,
           stored' \in BOOLEAN, stored => stored', InFlight(table)',
           \/ ~(table.current /\ table.state.held)'
           \/ small \/ stored' \/ (table.current /\ table.state.held),
           \/ \A f \in BagToSet(x) : f.type \notin Onwards
           \/ small \/ stored',
           (table.current /\ IsFinished(table.state))' => table.current /\ IsFinished(table.state),
           (table.current /\ ~table.state.held /\ ~IsFinished(table.state))' =>
               table.current /\ ~table.state.held /\ ~IsFinished(table.state)
    PROVE  WorkInv'
<1>1. IsABag(events') /\ BagToSet(events') = BagToSet(events) \cup BagToSet(x)
    BY BagAdd DEF WorkInv, TypeOK, BagToSet
<1>2. TypeOK'
    BY <1>1 DEF WorkInv, GossipInv, Good, TypeOK
<1>3. GossipedStored'
    BY <1>1 DEF WorkInv, GossipedStored, Waits
<1>4. FinishedTimedOut'
    BY <1>1 DEF WorkInv, FinishedTimedOut, Waits
<1>5. UnheldAsked'
    BY <1>1 DEF WorkInv, UnheldAsked, Waits
<1> QED
    BY <1>2, <1>3, <1>4, <1>5 DEF WorkInv

\* A handler that leaves the table alone.
LEMMA PassedOnWorks ==
    ASSUME WorkInv, GossipInv', NEW e, NEW S, Handled(e, table, FALSE, SetToBag(S)),
           stored' \in BOOLEAN, stored => stored', UNCHANGED <<inputs, small>>,
           e.type \notin {"CheckGossipTimeout", "CheckGetFromPeerTimeout"},
           (\A f \in S : f.type \notin Onwards) \/ stored' \/ e.type \in Onwards
    PROVE  WorkInv'
<1>1. IsABag(SetToBag(S)) /\ BagToSet(SetToBag(S)) = S
    BY SetsAreBags DEF BagToSet
<1>2. Good(table) /\ InFlight(table)
    BY DEF WorkInv, GossipInv
<1>3. \/ \A f \in BagToSet(SetToBag(S)) : f.type \notin Onwards
      \/ small \/ stored' \/ (table.current /\ table.state.held) \/ e.type \in Onwards
    BY <1>1
<1>4. FALSE \in BOOLEAN
    OBVIOUS
<1> QED
    BY <1>1, <1>2, <1>3, <1>4, HandledWorks

LEMMA WorkInvStep == WorkInv /\ [Next]_vars => WorkInv'
<1> SUFFICES ASSUME WorkInv, [Next]_vars PROVE WorkInv'
    OBVIOUS
<1>0. /\ Good(table) /\ InFlight(table) /\ GossipInv' /\ EmptyBag = SetToBag({})
      /\ stored \in BOOLEAN
    BY GossipInvStep DEF WorkInv, GossipInv, EmptyBag, TypeOK
<1>1. ASSUME NEW source \in {{}} \cup {{p} : p \in Peers}, HandleItemReceived(source)
      PROVE  WorkInv'
    <2>1. PICK expired \in Expired :
              Act(ItemReceived(source), NewCompleteData(table, expired, source), EmptyBag)
        BY <1>1 DEF HandleItemReceived
    <2>2. source \in SUBSET Peers /\ expired \in 0 .. table.timeouts
        BY DEF Expired
    <2> DEFINE r == NewCompleteData(table, expired, source)
    <2>3. Good(r.table)
        BY <1>0, <2>2, NewCompleteDataGood
    <2>4. /\ Follows(table, r, 0, TRUE)
          /\ r.table.current => ~IsFinished(r.table.state)
          /\ r.table.current => r.table.state.held
        BY <1>0, <2>2, ReceiveFollows DEF NewCompleteData
    <2>5. r.action # GetRemainder
        BY <1>0, <2>2, ReceiveAction DEF NewCompleteData
    <2> DEFINE e == ItemReceived(source)
    <2>6. e.type = "ItemReceived" /\ UNCHANGED <<stored, inputs, small>>
        BY <1>1 DEF ItemReceived, HandleItemReceived
    <2>7. Act(e, r, EmptyBag)
        BY <2>1
    <2>8. 0 \in Nat /\ TRUE \in BOOLEAN
        OBVIOUS
    <2> HIDE DEF r, e
    <2>9. e.type \in Onwards /\ e.type # "CheckGetFromPeerTimeout"
        BY <2>6 DEF Onwards
    <2> QED
        BY <1>0, <2>3, <2>4, <2>5, <2>6, <2>7, <2>8, <2>9, ActAloneWorks
<1>2. ASSUME NEW requested \in 1 .. InfectionTarget, NEW peers \in SUBSET Peers,
             HandleGossipedTo(requested, peers)
      PROVE  WorkInv'
    <2> DEFINE missed == requested - Cardinality(peers)
               reduced == IF missed > 0 THEN ReduceInFlightCount(table, missed)
                          ELSE Result(table, Noop)
               t == RegisterInfectionAttempt(reduced.table, peers)
               e == GossipedTo(requested, peers)
               S == {CheckGossipTimeout(p) : p \in peers}
    <2>1. missed > 0 => missed \in Nat
        BY PeerCardinality
    <2>2. Good(reduced.table)
        BY <1>0, <2>1, ReduceInFlightCountGood, UnchangedGood
    <2>3. /\ InFlight(reduced.table)
          /\ reduced.table.current =>
                 /\ table.current /\ reduced.table.state.held = table.state.held
                 /\ IsFinished(reduced.table.state) = IsFinished(table.state)
        <3>1. CASE missed > 0
            BY <1>0, <2>1, <3>1, ReduceFollows DEF Follows
        <3>2. CASE ~(missed > 0)
            BY <1>0, <3>2 DEF Result
        <3> QED
            BY <3>1, <3>2
    <2>4. Handled(e, t, reduced.action = AnnounceFinished, SetToBag(S))
        BY <1>2 DEF HandleGossipedTo
    <2>5. (reduced.action = AnnounceFinished) \in BOOLEAN
        OBVIOUS
    <2> HIDE DEF reduced
    <2>6. Good(t)
        BY <2>2, RegisterInfectionAttemptGood
    <2>7. /\ InFlight(t) /\ t.current = reduced.table.current
          /\ t.state.held = reduced.table.state.held
          /\ IsFinished(reduced.table.state) => IsFinished(t.state)
          /\ peers = {} => t = reduced.table
        BY <2>2, <2>3, RegisterFacts
    <2>8. e.type = "GossipedTo" /\ UNCHANGED <<stored, inputs, small>>
        BY <1>2 DEF HandleGossipedTo, GossipedTo
    <2>9. IsABag(SetToBag(S)) /\ BagToSet(SetToBag(S)) = S
        BY SetsAreBags DEF BagToSet
    <2>10. \A f \in S : f.type = "CheckGossipTimeout"
        BY DEF CheckGossipTimeout
    <2>11. peers # {} => \E f \in S : f.type = "CheckGossipTimeout"
        BY <2>10
    <2> HIDE DEF t, e, S
    <2>12. t.current /\ t.state.held => table.current /\ table.state.held
        BY <2>3, <2>7
    <2>13. \/ ~(t.current /\ IsFinished(t.state))
           \/ table.current /\ IsFinished(table.state) /\ e.type # "CheckGossipTimeout"
           \/ \E f \in S : f.type = "CheckGossipTimeout"
        BY <2>3, <2>7, <2>8, <2>11
    <2>14. t.current /\ ~t.state.held /\ ~IsFinished(t.state) =>
               /\ table.current /\ ~table.state.held /\ ~IsFinished(table.state)
               /\ e.type # "CheckGetFromPeerTimeout"
        BY <2>3, <2>7, <2>8
    <2>15. \A f \in BagToSet(SetToBag(S)) : f.type \notin Onwards
        BY <2>9, <2>10 DEF Onwards
    <2> QED
        BY <1>0, <2>4, <2>5, <2>6, <2>7, <2>8, <2>9, <2>12, <2>13, <2>14, <2>15, HandledWorks, ZenonT(60)
<1>3. ASSUME NEW count, NEW exclude, NEW peers, NetworkGossips(count, exclude, peers)
      PROVE  WorkInv'
    <2>1. GossipMessage(count, exclude).type = "GossipMessage"
        BY DEF GossipMessage
    <2> QED
        BY <1>0, <1>3, <2>1, PassedOnWorks DEF NetworkGossips, Onwards
<1>4. ASSUME HandleCheckItemReceivedTimeout PROVE WorkInv'
    <2> DEFINE r == FinishIfNotHeldByUs(table)
               e == CheckItemReceivedTimeout
    <2>1. Good(r.table) /\ Follows(table, r, 0, FALSE)
          /\ (r.table.current => r = Result(table, Noop))
        BY <1>0, FinishIfNotHeldGood, FinishIfNotHeldFollows
    <2>2. r.action # GetRemainder
        BY DEF FinishIfNotHeldByUs, ForceFinish, Result, Noop, AnnounceFinished, GetRemainder
    <2>3. Act(e, r, EmptyBag) /\ UNCHANGED <<stored, inputs, small>>
          /\ e.type = "CheckItemReceivedTimeout"
        BY <1>0, <1>4 DEF HandleCheckItemReceivedTimeout, CheckItemReceivedTimeout
    <2> HIDE DEF r, e
    <2>4. r.table.current => r.table = table
        BY <2>1 DEF Result
    <2> QED
        BY <1>0, <2>1, <2>2, <2>3, <2>4, ActAloneWorks
<1>5. ASSUME NEW peer \in Peers, HandleCheckGossipTimeout(peer) PROVE WorkInv'
    <2> DEFINE r == CheckTimeout(table, peer)
               e == CheckGossipTimeout(peer)
    <2>1. Good(r.table) /\ Follows(table, r, 0, FALSE)
          /\ (r.table.current => ~IsFinished(r.table.state))
        BY <1>0, CheckTimeoutGood, CheckTimeoutFollows
    <2>2. r.action # GetRemainder
        BY UpdateCurrentAction DEF CheckTimeout, Result, Noop, GetRemainder
    <2>3. Act(e, r, EmptyBag) /\ UNCHANGED <<stored, inputs, small>>
          /\ e.type = "CheckGossipTimeout"
        BY <1>0, <1>5 DEF HandleCheckGossipTimeout, CheckGossipTimeout
    <2> HIDE DEF r, e
    <2> QED
        BY <1>0, <2>1, <2>2, <2>3, ActAloneWorks
<1>6. ASSUME NEW peer \in Peers, HandleCheckGetFromPeerTimeout(peer) PROVE WorkInv'
    <2> DEFINE r == RemoveHolderIfUnresponsive(table, peer)
               e == CheckGetFromPeerTimeout(peer)
    <2>1. PICK holder : Act(e, r, IF r.action = GetRemainder
                                  THEN SetToBag({GetItem(holder), CheckGetFromPeerTimeout(holder)})
                                  ELSE EmptyBag)
        BY <1>6 DEF HandleCheckGetFromPeerTimeout
    <2> DEFINE S == IF r.action = GetRemainder
                    THEN {GetItem(holder), CheckGetFromPeerTimeout(holder)} ELSE {}
    <2>2. Act(e, r, SetToBag(S)) /\ UNCHANGED <<stored, inputs, small>>
          /\ e.type = "CheckGetFromPeerTimeout"
        BY <1>0, <1>6, <2>1 DEF HandleCheckGetFromPeerTimeout, CheckGetFromPeerTimeout
    <2>3. /\ Good(r.table) /\ Follows(table, r, 0, FALSE)
          /\ r.table.current => table.current /\ IsFinished(r.table.state) = IsFinished(table.state)
          /\ r.table.current /\ ~r.table.state.held /\ ~IsFinished(r.table.state) =>
                 r.action = GetRemainder
        BY <1>0, RemoveHolderGood, RemoveHolderFollows
    <2>4. \A f \in S : f.type \notin Onwards
        BY DEF GetItem, CheckGetFromPeerTimeout, Onwards
    <2>5. r.action = GetRemainder => \E f \in S : f.type = "CheckGetFromPeerTimeout"
        BY DEF CheckGetFromPeerTimeout
    <2> HIDE DEF r, e, S
    <2> QED
        BY <1>0, <2>2, <2>3, <2>4, <2>5, ActWorks
<1>7. ASSUME NEW peer \in Peers, HandleItemFromPeer(peer) PROVE WorkInv'
    <2> DEFINE S == IF HasEntry(table) THEN {ItemBody(peer), CheckItemReceivedTimeout} ELSE {}
    <2>1. Handled(GetItem(peer), table, FALSE, SetToBag(S)) /\ UNCHANGED <<stored, inputs, small>>
        BY <1>0, <1>7 DEF HandleItemFromPeer
    <2>2. GetItem(peer).type = "GetItem" /\ \A f \in S : f.type \notin Onwards
        BY DEF GetItem, ItemBody, CheckItemReceivedTimeout, Onwards
    <2> HIDE DEF S
    <2> QED
        BY <1>0, <2>1, <2>2, PassedOnWorks
<1>8. ASSUME NEW peer \in Peers, HandleNotFound(peer) PROVE WorkInv'
    <2> DEFINE r == ForceFinish(table)
               e == NotFound(peer)
    <2>1. Good(r.table) /\ Follows(table, r, 0, FALSE) /\ ~r.table.current
        BY <1>0, ForceFinishGood, ForceFinishFollows
    <2>2. r.action # GetRemainder
        BY DEF ForceFinish, Result, Noop, AnnounceFinished, GetRemainder
    <2>3. Act(e, r, EmptyBag) /\ UNCHANGED <<stored, inputs, small>> /\ e.type = "NotFound"
        BY <1>0, <1>8 DEF HandleNotFound, NotFound
    <2> HIDE DEF r, e
    <2> QED
        BY <1>0, <2>1, <2>2, <2>3, ActAloneWorks
<1>9. ASSUME NEW peer \in Peers, NoAnswer(peer) PROVE WorkInv'
    <2>1. PICK e \in {Gossip(peer), GetItem(peer)} : Handled(e, table, FALSE, SetToBag({}))
        BY <1>0, <1>9 DEF NoAnswer
    <2>2. e.type \in {"Gossip", "GetItem"} /\ UNCHANGED <<stored, inputs, small>>
        BY <1>9 DEF NoAnswer, Gossip, GetItem
    <2> QED
        BY <1>0, <2>1, <2>2, PassedOnWorks
<1>10. ASSUME NEW peer \in Peers, NEW b \in BOOLEAN, HandleIsStoredResult(peer, b)
       PROVE  WorkInv'
    <2> DEFINE R(expired) == IF HasEntry(table) \/ ~b THEN NewDataId(table, expired, peer)
                             ELSE Result(table, Noop)
               e == IsStoredResult(peer, b)
    <2>1. PICK expired \in IF HasEntry(table) \/ ~b THEN Expired ELSE {0} :
              Act(e, R(expired),
                  IF R(expired).action = GetRemainder
                  THEN SetToBag({GetItem(peer), CheckGetFromPeerTimeout(peer)}) ELSE EmptyBag)
        BY <1>10 DEF HandleIsStoredResult
    <2> DEFINE r == R(expired)
               S == IF r.action = GetRemainder
                    THEN {GetItem(peer), CheckGetFromPeerTimeout(peer)} ELSE {}
    <2>2. Act(e, r, SetToBag(S)) /\ UNCHANGED <<stored, inputs, small>> /\ e.type = "IsStoredResult"
        BY <1>0, <1>10, <2>1 DEF HandleIsStoredResult, IsStoredResult
    <2>3. /\ Good(r.table) /\ Follows(table, r, 0, FALSE)
          /\ r.table.current /\ IsFinished(r.table.state) =>
                 table.current /\ IsFinished(table.state)
        <3>1. CASE HasEntry(table) \/ ~b
            <4>1. expired \in 0 .. table.timeouts
                BY <2>1, <3>1 DEF Expired
            <4>2. Good(r.table)
                BY <1>0, <3>1, <4>1, NewDataIdGood
            <4>3. Follows(table, r, 0, FALSE) /\ (r.table.current => ~IsFinished(r.table.state))
                BY <1>0, <3>1, <4>1, ReceiveFollows DEF NewDataId
            <4> QED
                BY <4>2, <4>3
        <3>2. CASE ~(HasEntry(table) \/ ~b)
            <4>1. r = Result(table, Noop) /\ r.table = table
                BY <3>2 DEF Result
            <4> QED
                BY <1>0, <4>1, NoopFollows
        <3> QED
            BY <3>1, <3>2
    <2>4. \A f \in S : f.type \notin Onwards
        BY DEF GetItem, CheckGetFromPeerTimeout, Onwards
    <2>5. r.action = GetRemainder => \E f \in S : f.type = "CheckGetFromPeerTimeout"
        BY DEF CheckGetFromPeerTimeout
    <2> HIDE DEF r, e, S
    <2> QED
        BY <1>0, <2>2, <2>3, <2>4, <2>5, ActWorks
<1>11. ASSUME NEW peer \in Peers, NEW b \in BOOLEAN, HandleGossipResponse(peer, b)
       PROVE  WorkInv'
    <2> DEFINE r == Infected(table, peer, ~b)
               e == Gossip(peer)
    <2>0. UNCHANGED <<stored, inputs, small>> /\ e.type = "Gossip"
        BY <1>11 DEF HandleGossipResponse, Gossip
    <2>1. CASE HasEntry(table)
        <3>1. PICK found \in BOOLEAN :
                  Act(e, r, IF found THEN EmptyBag ELSE SetToBag({NotFound(peer)}))
            BY <1>11, <2>1 DEF HandleGossipResponse
        <3> DEFINE S == IF found THEN {} ELSE {NotFound(peer)}
        <3>2. Act(e, r, SetToBag(S))
            BY <1>0, <3>1
        <3>3. /\ Good(r.table) /\ Follows(table, r, 1, FALSE)
              /\ r.table.current => ~IsFinished(r.table.state)
            BY <1>0, InfectedGood, InfectedFollows
        <3>4. r.action # GetRemainder
            BY UpdateCurrentAction DEF Infected, Result, Noop, GetRemainder
        <3>5. \A f \in S : f.type \notin Onwards
            BY DEF NotFound, Onwards
        <3> HIDE DEF r, e, S
        <3> QED
            BY <1>0, <2>0, <3>2, <3>3, <3>4, <3>5, ActWorks
    <2>2. CASE ~HasEntry(table)
        <3>1. Handled(e, table, FALSE, SetToBag({}))
            BY <1>0, <1>11, <2>2 DEF HandleGossipResponse
        <3> HIDE DEF e
        <3> QED
            BY <1>0, <2>0, <3>1, PassedOnWorks
    <2> QED
        BY <2>1, <2>2
<1>12. ASSUME NEW peer \in Peers, NEW b \in BOOLEAN, Validate(peer, b) PROVE WorkInv'
    <2> DEFINE S == IF b /\ ~stored THEN {ItemReceived({peer})} ELSE {}
    <2>1. Handled(ItemBody(peer), table, FALSE, SetToBag(S))
        BY <1>0, <1>12 DEF Validate
    <2>2. /\ stored' = (stored \/ b) /\ UNCHANGED <<inputs, small>>
          /\ ItemBody(peer).type = "ItemBody"
        BY <1>12 DEF Validate, ItemBody
    <2>3. (\A f \in S : f.type \notin Onwards) \/ stored'
        BY <2>2
    <2> HIDE DEF S
    <2> QED
        BY <1>0, <2>1, <2>2, <2>3, PassedOnWorks
<1>13. ASSUME BeginGossip PROVE WorkInv'
    <2>1. IsABag(SetToBag({ItemReceived({})}))
        BY SetsAreBags
    <2>2. inputs' \in 0 .. MaxInputs /\ owed' \in BOOLEAN /\ stored' /\ UNCHANGED <<table, small>>
          /\ events' = events (+) SetToBag({ItemReceived({})})
        BY <1>13, BoundsNatural DEF BeginGossip, WorkInv, TypeOK
    <2> QED
        BY <1>0, <2>1, <2>2, AddedWorks
<1>14. ASSUME NEW sender \in Peers, ReceiveGossip(sender) PROVE WorkInv'
    <2>0. inputs' \in 0 .. MaxInputs /\ UNCHANGED <<stored, small>>
        BY <1>14, BoundsNatural DEF ReceiveGossip, WorkInv, TypeOK
    <2>1. CASE small
        <3>1. PICK expired \in 0 .. table.timeouts :
                  LET r == NewCompleteData(table, expired, {sender})
                  IN  /\ table' = r.table
                      /\ events' = events (+) Gossiping(r.action)
                      /\ owed' = (/\ r.action # AnnounceFinished
                                  /\ owed \/ (r.table.current /\ r.table.state.held))
            BY <1>14, <2>1 DEF ReceiveGossip, Expired
        <3> DEFINE r == NewCompleteData(table, expired, {sender})
        <3>2. /\ Follows(table, r, 0, TRUE)
              /\ r.table.current => ~IsFinished(r.table.state)
              /\ r.table.current => r.table.state.held
            BY <1>0, ReceiveFollows DEF NewCompleteData
        <3>3. IsABag(Gossiping(r.action))
            BY GossipingBag
        <3>4. table' = r.table /\ events' = events (+) Gossiping(r.action) /\ owed' \in BOOLEAN
            BY <3>1
        <3> HIDE DEF r
        <3>5. InFlight(table)'
            BY <3>2, <3>4 DEF Follows, InFlight
        <3> QED
            BY <1>0, <2>0, <2>1, <3>2, <3>3, <3>4, <3>5, AddedWorks
    <2>2. CASE ~small
        <3> DEFINE x == SetToBag({IsStoredResult(sender, stored)})
        <3>1. events' = events (+) x /\ UNCHANGED <<table, owed>>
            BY <1>14, <2>2 DEF ReceiveGossip
        <3>2. IsABag(x) /\ \A f \in BagToSet(x) : f.type \notin Onwards
            BY SetsAreBags DEF BagToSet, IsStoredResult, Onwards
        <3>3. owed' \in BOOLEAN
            BY <3>1 DEF WorkInv, TypeOK
        <3> HIDE DEF x
        <3> QED
            BY <1>0, <2>0, <3>1, <3>2, <3>3, AddedWorks
    <2> QED
        BY <2>1, <2>2
<1>15. ASSUME NEW requester \in Peers, ReceiveGetItem(requester) PROVE WorkInv'
    <2> DEFINE x == SetToBag({NotFound(requester)})
    <2>1. events' = events (+) x /\ UNCHANGED <<table, stored, owed, inputs, small>>
        BY <1>15 DEF ReceiveGetItem
    <2>2. IsABag(x) /\ \A f \in BagToSet(x) : f.type \notin Onwards
        BY SetsAreBags DEF BagToSet, NotFound, Onwards
    <2>3. owed' \in BOOLEAN /\ inputs' \in 0 .. MaxInputs
        BY <2>1 DEF WorkInv, TypeOK
    <2> HIDE DEF x
    <2> QED
        BY <1>0, <2>1, <2>2, <2>3, AddedWorks
<1>16. CASE UNCHANGED vars
    BY <1>16 DEF vars, WorkInv, GossipInv, OwedWhileGossiping, TypeOK, InFlight, GossipedStored,
                 FinishedTimedOut, UnheldAsked, Waits
<1> QED
    BY <1>1, <1>2, <1>3, <1>4, <1>5, <1>6, <1>7, <1>8, <1>9, <1>10, <1>11, <1>12, <1>13,
       <1>14, <1>15, <1>16 DEF Next, Progress

LEMMA WorkInvInit == Init => WorkInv
<1> SUFFICES ASSUME Init PROVE WorkInv
    OBVIOUS
<1>1. NewTable \in Tables /\ InFlight(NewTable) /\ ~NewTable.current
    BY NewTableGood DEF Good, InFlight, NewTable, NewState
<1>2. IsABag(EmptyBag) /\ BagToSet(EmptyBag) = {}
    BY SetsAreBags DEF EmptyBag, BagToSet
<1>3. table \in Tables /\ IsABag(events) /\ small \in Kinds
    BY <1>1, <1>2 DEF Init
<1>4. inputs \in 0 .. MaxInputs
    BY BoundsNatural DEF Init
<1>5. TypeOK
    BY <1>3, <1>4, Zenon DEF Init, TypeOK
<1> QED
    BY <1>1, <1>2, <1>5, GossipInvInit
    DEF Init, WorkInv, GossipedStored, FinishedTimedOut, UnheldAsked, Waits

\* The gossiper's state keeps its types, for any bounds.
THEOREM TypeCorrect == Spec => []TypeOK
<1>1. WorkInv => TypeOK
    BY DEF WorkInv
<1> QED
    BY <1>1, WorkInvInit, WorkInvStep, PTL DEF Spec

\* No large item is announced to a peer before it is stored, whichever of a
\* client, this node or a peer it came from (handle_item_received, gossip).
THEOREM OnlyStoredGossipedHolds == Spec => []OnlyStoredGossiped
<1>1. WorkInv => OnlyStoredGossiped
    BY DEF WorkInv, GossipedStored, OnlyStoredGossiped, Waits, Onwards
<1> QED
    BY <1>1, WorkInvInit, WorkInvStep, PTL DEF Spec

\* An item that we lack and may still ask for is never forgotten while it is in
\* `current`: the timeout that asks the next holder, or drops the item with the last
\* one, is pending (check_get_from_peer_timeout), for any peers and any number of
\* times the item comes in.
THEOREM UnheldItemHasWorkHolds == Spec => []UnheldItemHasWork
<1>1. WorkInv => UnheldItemHasWork
    BY DEF WorkInv, UnheldAsked, UnheldItemHasWork, Waits
<1> QED
    BY <1>1, WorkInvInit, WorkInvStep, PTL DEF Spec

-----------------------------------------------------------------------------
(* Counting messages                                                        *)

\* By how much handling an event lowers the in-flight count: a message to be sent
\* and one to be answered by one, a report by the messages that were not sent.
Units(e) ==
    IF e.type = "GossipMessage" THEN e.count
    ELSE IF e.type = "GossipedTo" THEN SaturatingSub(e.requested, Cardinality(e.peers))
    ELSE IF e.type = "Gossip" THEN 1
    ELSE 0

\* One token for each unit of each copy of an event.
Tokens(b) ==
    {x \in (DOMAIN b) \X Nat \X Nat : x[2] \in 1 .. b[x[1]] /\ x[3] \in 1 .. Units(x[1])}

\* The tokens of one copy.
Copy(e, k) == {<<e, k, u>> : u \in 1 .. Units(e)}

LEMMA CopySize ==
    ASSUME NEW e, NEW k, Units(e) \in Nat
    PROVE  IsFiniteSet(Copy(e, k)) /\ Cardinality(Copy(e, k)) = Units(e)
<1> DEFINE n == Units(e)
           f == [u \in 1 .. n |-> <<e, k, u>>]
<1>1. f \in Bijection(1 .. n, Copy(e, k))
    <2>1. f \in [1 .. n -> Copy(e, k)]
        BY DEF Copy
    <2>2. \A u, v \in 1 .. n : f[u] = f[v] => u = v
        OBVIOUS
    <2>3. \A x \in Copy(e, k) : \E u \in 1 .. n : f[u] = x
        BY DEF Copy
    <2> HIDE DEF f
    <2> QED
        BY <2>1, <2>2, <2>3 DEF Bijection, Injection, IsInjective, Surjection
<1>2. ExistsBijection(1 .. n, Copy(e, k))
    BY <1>1 DEF ExistsBijection
<1>3. n \in Nat
    OBVIOUS
<1> HIDE DEF n
<1>4. IsFiniteSet(Copy(e, k))
    BY <1>2, <1>3, FS_NatBijection
<1>5. Cardinality(Copy(e, k)) = n
    BY <1>2, <1>3, FS_CountingElements
<1> QED
    BY <1>4, <1>5 DEF n

\* Taking an event from the bag takes the tokens of one copy.
LEMMA TokensTaken ==
    ASSUME NEW b, IsABag(b), IsFiniteSet(Tokens(b)), NEW e \in DOMAIN b, Units(e) \in Nat
    PROVE  LET c == b (-) SetToBag({e})
           IN  IsFiniteSet(Tokens(c)) /\ Cardinality(Tokens(b)) <= Cardinality(Tokens(c)) + Units(e)
<1> DEFINE c == b (-) SetToBag({e})
<1>1. /\ IsABag(c) /\ DOMAIN c \subseteq DOMAIN b /\ DOMAIN b \ {e} \subseteq DOMAIN c
      /\ \A d \in DOMAIN b \ {e} : c[d] = b[d]
      /\ e \in DOMAIN c => c[e] = b[e] - 1
      /\ e \notin DOMAIN c => b[e] = 1
    BY DEF IsABag, (-), SetToBag
<1>2. \A d \in DOMAIN b : b[d] \in Nat /\ b[d] > 0
    BY DEF IsABag
<1> HIDE DEF c
<1>3. Tokens(c) \subseteq Tokens(b)
    BY <1>1, <1>2 DEF Tokens
<1>4. Tokens(b) \subseteq Tokens(c) \cup Copy(e, b[e])
    <2>1. SUFFICES ASSUME NEW d \in DOMAIN b, NEW k \in 1 .. b[d], NEW u \in 1 .. Units(d),
                          ~(d = e /\ k = b[e]), k \in Nat, u \in Nat
                   PROVE  d \in DOMAIN c /\ k \in 1 .. c[d]
        BY DEF Tokens, Copy
    <2>2. CASE d # e
        BY <1>1, <2>2
    <2>3. CASE d = e /\ e \notin DOMAIN c
        BY <1>1, <1>2, <2>1, <2>3
    <2>4. CASE d = e /\ e \in DOMAIN c
        BY <1>1, <1>2, <2>1, <2>4
    <2> QED
        BY <2>2, <2>3, <2>4
<1>5. IsFiniteSet(Tokens(c))
    BY <1>3, FS_Subset
<1>6. IsFiniteSet(Copy(e, b[e])) /\ Cardinality(Copy(e, b[e])) = Units(e)
    BY CopySize
<1>7. /\ IsFiniteSet(Tokens(c) \cup Copy(e, b[e]))
      /\ Cardinality(Tokens(c) \cup Copy(e, b[e]))
             = Cardinality(Tokens(c)) + Units(e) - Cardinality(Tokens(c) \cap Copy(e, b[e]))
    BY <1>5, <1>6, FS_Union
<1>8. IsFiniteSet(Tokens(c) \cap Copy(e, b[e]))
    BY <1>5, FS_Subset
<1>9. /\ Cardinality(Tokens(c)) \in Nat /\ Cardinality(Tokens(c) \cap Copy(e, b[e])) \in Nat
      /\ Cardinality(Tokens(b)) \in Nat
    BY <1>5, <1>8, FS_CardinalityType
<1>10. Cardinality(Tokens(b)) <= Cardinality(Tokens(c) \cup Copy(e, b[e]))
    BY <1>4, <1>7, FS_Subset
<1> QED
    BY <1>5, <1>7, <1>9, <1>10 DEF c

\* Adding events adds their tokens.
LEMMA TokensAdded ==
    ASSUME NEW c, IsABag(c), IsFiniteSet(Tokens(c)), NEW x, IsABag(x), IsFiniteSet(Tokens(x))
    PROVE  /\ IsFiniteSet(Tokens(c (+) x))
           /\ Cardinality(Tokens(c (+) x)) = Cardinality(Tokens(c)) + Cardinality(Tokens(x))
<1> DEFINE d == c (+) x
           off(e) == IF e \in DOMAIN c THEN c[e] ELSE 0
           g == [y \in Tokens(x) |-> <<y[1], off(y[1]) + y[2], y[3]>>]
           G == {g[y] : y \in Tokens(x)}
<1>1. /\ DOMAIN d = DOMAIN c \cup DOMAIN x
      /\ \A e \in DOMAIN c \cup DOMAIN x : d[e] = off(e) + (IF e \in DOMAIN x THEN x[e] ELSE 0)
    BY DEF (+)
<1>2. /\ \A e \in DOMAIN c : c[e] \in Nat /\ c[e] > 0
      /\ \A e \in DOMAIN x : x[e] \in Nat /\ x[e] > 0
    BY DEF IsABag
<1>3. \A e : off(e) \in Nat
    BY <1>2
<1> HIDE DEF d
<1>4. Tokens(c) \subseteq Tokens(d)
    <2>1. SUFFICES ASSUME NEW e \in DOMAIN c, NEW k \in 1 .. c[e]
                   PROVE  e \in DOMAIN d /\ k \in 1 .. d[e]
        BY DEF Tokens
    <2> QED
        BY <1>1, <1>2
<1>5. G \subseteq Tokens(d) /\ G \cap Tokens(c) = {}
    <2> SUFFICES ASSUME NEW y \in Tokens(x) PROVE g[y] \in Tokens(d) /\ g[y] \notin Tokens(c)
        OBVIOUS
    <2>1. /\ y[1] \in DOMAIN x /\ y[2] \in 1 .. x[y[1]] /\ y[2] \in Nat
          /\ y[3] \in Nat /\ y[3] \in 1 .. Units(y[1])
        BY DEF Tokens
    <2>2. g[y] = <<y[1], off(y[1]) + y[2], y[3]>>
        OBVIOUS
    <2>3. y[1] \in DOMAIN d /\ off(y[1]) + y[2] \in 1 .. d[y[1]] /\ off(y[1]) + y[2] \in Nat
        BY <1>1, <1>2, <1>3, <2>1
    <2>4. y[1] \in DOMAIN c => off(y[1]) + y[2] \notin 1 .. c[y[1]]
        BY <1>2, <2>1
    <2> HIDE DEF g
    <2> QED
        BY <2>1, <2>2, <2>3, <2>4 DEF Tokens
<1>6. Tokens(d) \subseteq Tokens(c) \cup G
    <2> SUFFICES ASSUME NEW z \in Tokens(d), z \notin Tokens(c) PROVE z \in G
        OBVIOUS
    <2> DEFINE e == z[1]
               k == z[2]
               u == z[3]
    <2>1. /\ z = <<e, k, u>> /\ e \in DOMAIN d /\ k \in 1 .. d[e] /\ k \in Nat
          /\ u \in Nat /\ u \in 1 .. Units(e)
        BY DEF Tokens
    <2> HIDE DEF e, k, u
    <2>2. ~(e \in DOMAIN c /\ k \in 1 .. c[e])
        BY <2>1 DEF Tokens
    <2>3. e \in DOMAIN x /\ k - off(e) \in 1 .. x[e] /\ k - off(e) \in Nat
        <3>1. CASE e \in DOMAIN c
            BY <1>1, <1>2, <2>1, <2>2, <3>1
        <3>2. CASE e \notin DOMAIN c
            BY <1>1, <1>2, <2>1, <2>2, <3>2
        <3> QED
            BY <3>1, <3>2
    <2>4. <<e, k - off(e), u>> \in Tokens(x)
        BY <2>1, <2>3 DEF Tokens
    <2>5. off(e) + (k - off(e)) = k
        BY <1>3, <2>1
    <2>6. g[<<e, k - off(e), u>>] = <<e, k, u>>
        BY <2>4, <2>5
    <2> QED
        BY <2>1, <2>4, <2>6
<1>7. g \in Surjection(Tokens(x), G)
    <2>1. g \in [Tokens(x) -> G]
        OBVIOUS
    <2> QED
        BY <2>1 DEF Surjection
<1>8. \A y, z \in Tokens(x) : g[y] = g[z] => y = z
    <2> SUFFICES ASSUME NEW y \in Tokens(x), NEW z \in Tokens(x), g[y] = g[z] PROVE y = z
        OBVIOUS
    <2>1. /\ y = <<y[1], y[2], y[3]>> /\ z = <<z[1], z[2], z[3]>>
          /\ y[2] \in Nat /\ z[2] \in Nat
        BY DEF Tokens
    <2>2. y[1] = z[1] /\ off(y[1]) + y[2] = off(z[1]) + z[2] /\ y[3] = z[3]
        OBVIOUS
    <2>3. y[2] = z[2]
        BY <1>3, <2>1, <2>2
    <2> QED
        BY <2>1, <2>2, <2>3
<1>9. g \in Injection(Tokens(x), G)
    BY <1>7, <1>8 DEF Surjection, Injection, IsInjective
<1> HIDE DEF g, G
<1>10. IsFiniteSet(G) /\ Cardinality(G) = Cardinality(Tokens(x))
    BY <1>7, <1>9, FS_Surjection
<1>11. Tokens(d) = Tokens(c) \cup G /\ Tokens(c) \cap G = {}
    BY <1>4, <1>5, <1>6
<1>12. /\ IsFiniteSet(Tokens(c) \cup G)
       /\ Cardinality(Tokens(c) \cup G) = Cardinality(Tokens(c)) + Cardinality(G) - 0
    BY <1>10, <1>11, FS_Union, FS_EmptySet
<1>13. Cardinality(Tokens(c)) \in Nat /\ Cardinality(G) \in Nat
    BY <1>10, FS_CardinalityType
<1> QED
    BY <1>10, <1>11, <1>12, <1>13 DEF d

\* Events that lower no count have no tokens.
LEMMA QuietTokens ==
    ASSUME NEW x, \A f \in DOMAIN x : Units(f) = 0
    PROVE  Tokens(x) = {} /\ IsFiniteSet(Tokens(x)) /\ Cardinality(Tokens(x)) = 0
<1>1. Tokens(x) = {}
    BY DEF Tokens
<1> QED
    BY <1>1, FS_EmptySet

LEMMA SingleTokens ==
    ASSUME NEW e, Units(e) \in Nat
    PROVE  /\ IsFiniteSet(Tokens(SetToBag({e})))
           /\ Cardinality(Tokens(SetToBag({e}))) = Units(e)
<1> DEFINE x == SetToBag({e})
<1>1. DOMAIN x = {e} /\ x[e] = 1
    BY DEF SetToBag
<1> HIDE DEF x
<1>2. Tokens(x) \subseteq Copy(e, 1)
    <2> SUFFICES ASSUME NEW z \in Tokens(x) PROVE z \in Copy(e, 1)
        OBVIOUS
    <2>1. z = <<z[1], z[2], z[3]>> /\ z[1] = e /\ z[2] = 1 /\ z[3] \in 1 .. Units(e)
        BY <1>1 DEF Tokens
    <2> QED
        BY <2>1 DEF Copy
<1>3. Copy(e, 1) \subseteq Tokens(x)
    BY <1>1 DEF Tokens, Copy
<1>4. Tokens(x) = Copy(e, 1)
    BY <1>2, <1>3
<1> QED
    BY <1>4, CopySize DEF x

\* The effects of an action have a token for each message it asks for.
LEMMA ActTokens ==
    ASSUME NEW action, MessagesOf(action) \in Nat, NEW S, \A f \in S : Units(f) = 0
    PROVE  LET x == Gossiping(action) (+) SetToBag(S)
           IN  IsFiniteSet(Tokens(x)) /\ Cardinality(Tokens(x)) = MessagesOf(action)
<1>1. IsABag(Gossiping(action)) /\ IsABag(SetToBag(S)) /\ DOMAIN SetToBag(S) = S
    BY GossipingBag, SetsAreBags
<1>2. IsFiniteSet(Tokens(SetToBag(S))) /\ Cardinality(Tokens(SetToBag(S))) = 0
    BY <1>1, QuietTokens
<1>3. /\ IsFiniteSet(Tokens(Gossiping(action)))
      /\ Cardinality(Tokens(Gossiping(action))) = MessagesOf(action)
    <2>1. CASE action.do = "ShouldGossip"
        <3> DEFINE e == GossipMessage(action.count, action.exclude_peers)
        <3>1. Units(e) = MessagesOf(action)
            BY <2>1 DEF Units, GossipMessage, MessagesOf
        <3>2. Gossiping(action) = SetToBag({e})
            BY <2>1 DEF Gossiping
        <3> HIDE DEF e
        <3> QED
            BY <3>1, <3>2, SingleTokens
    <2>2. CASE action.do # "ShouldGossip"
        <3>1. DOMAIN Gossiping(action) = {} /\ MessagesOf(action) = 0
            BY <2>2, GossipingBag DEF MessagesOf
        <3> QED
            BY <3>1, QuietTokens
    <2> QED
        BY <2>1, <2>2
<1>4. LET x == Gossiping(action) (+) SetToBag(S)
      IN  IsFiniteSet(Tokens(x)) /\ Cardinality(Tokens(x)) = MessagesOf(action) + 0
    BY <1>1, <1>2, <1>3, TokensAdded
<1> QED
    BY <1>4

\* The network's report and the messages it sent account for the request.
LEMMA NetworkTokens ==
    ASSUME NEW count \in Nat, NEW peers \in SUBSET Peers
    PROVE  LET x == SetToBag({GossipedTo(count, peers)} \cup {Gossip(p) : p \in peers})
           IN  IsFiniteSet(Tokens(x)) /\ Cardinality(Tokens(x)) >= count
<1> DEFINE e == GossipedTo(count, peers)
           E == {Gossip(p) : p \in peers}
           x == SetToBag({e} \cup E)
           f == [p \in peers |-> <<Gossip(p), 1, 1>>]
           F == {<<Gossip(p), 1, 1>> : p \in peers}
           n == Cardinality(peers)
<1>1. n \in Nat /\ IsFiniteSet(peers)
    BY PeerCardinality, PeersFinite, FS_Subset
<1>2. Units(e) = SaturatingSub(count, n) /\ Units(e) \in Nat
    BY <1>1 DEF Units, GossipedTo, SaturatingSub
<1>3. \A p \in peers : Units(Gossip(p)) = 1 /\ Gossip(p) # e
    BY DEF Units, Gossip, GossipedTo
<1>4. DOMAIN x = {e} \cup E /\ \A d \in {e} \cup E : x[d] = 1
    BY DEF SetToBag
<1>5. \A p, q \in peers : Gossip(p) = Gossip(q) => p = q
    BY DEF Gossip
<1> HIDE DEF x, e, n
<1>6. IsFiniteSet(F) /\ Cardinality(F) = n
    <2>1. f \in Surjection(peers, F)
        BY DEF Surjection
    <2>2. f \in Injection(peers, F)
        BY <1>5, <2>1 DEF Surjection, Injection, IsInjective
    <2> HIDE DEF f, F
    <2> QED
        BY <1>1, <2>1, <2>2, FS_Surjection DEF n
<1>7. IsFiniteSet(Copy(e, 1)) /\ Cardinality(Copy(e, 1)) = Units(e)
    BY <1>2, CopySize
<1>8. Copy(e, 1) \subseteq Tokens(x)
    BY <1>4 DEF Tokens, Copy
<1>9. F \subseteq Tokens(x)
    BY <1>3, <1>4 DEF Tokens
<1>10. Tokens(x) \subseteq Copy(e, 1) \cup F
    <2> SUFFICES ASSUME NEW z \in Tokens(x) PROVE z \in Copy(e, 1) \cup F
        OBVIOUS
    <2>1. /\ z = <<z[1], z[2], z[3]>> /\ z[1] \in {e} \cup E /\ z[2] \in 1 .. x[z[1]]
          /\ z[3] \in 1 .. Units(z[1])
        BY <1>4 DEF Tokens
    <2>2. z[2] = 1
        BY <1>4, <2>1
    <2>3. CASE z[1] = e
        BY <2>1, <2>2, <2>3 DEF Copy
    <2>4. CASE z[1] \in E
        <3>1. z[3] = 1
            BY <1>3, <2>1, <2>4
        <3> QED
            BY <2>1, <2>2, <2>4, <3>1
    <2> QED
        BY <2>1, <2>3, <2>4
<1>11. Copy(e, 1) \cap F = {}
    BY <1>3 DEF Copy
<1> HIDE DEF F
<1>12. Tokens(x) = Copy(e, 1) \cup F
    BY <1>8, <1>9, <1>10
<1>13. /\ IsFiniteSet(Copy(e, 1) \cup F)
       /\ Cardinality(Copy(e, 1) \cup F) = Units(e) + n - 0
    BY <1>6, <1>7, <1>11, FS_Union, FS_EmptySet
<1>14. SaturatingSub(count, n) + n - 0 >= count
    BY <1>1 DEF SaturatingSub
<1> QED
    BY <1>2, <1>12, <1>13, <1>14 DEF x, e

-----------------------------------------------------------------------------
\* The messages in flight are all accounted for by what is pending, and the peers
\* that are to answer one are connected.
Counted ==
    /\ \A e \in BagToSet(events) :
           Units(e) \in Nat /\ (e.type = "Gossip" => e.peer \in Connected)
    /\ IsFiniteSet(Tokens(events))
    /\ table.state.in_flight_count <= Cardinality(Tokens(events))

LEMMA HandledCounts ==
    ASSUME WorkInv, Counted, NEW e, NEW t, NEW announced, NEW x, Handled(e, t, announced, x),
           t.state.in_flight_count \in Nat, IsABag(x), IsFiniteSet(Tokens(x)),
           \A f \in BagToSet(x) :
               Units(f) \in Nat /\ (f.type = "Gossip" => f.peer \in Connected),
           t.state.in_flight_count
               <= SaturatingSub(table.state.in_flight_count, Units(e)) + Cardinality(Tokens(x))
    PROVE  Counted'
<1> DEFINE c == events (-) SetToBag({e})
<1>1. IsABag(events) /\ e \in DOMAIN events /\ Units(e) \in Nat
    BY DEF WorkInv, TypeOK, Handled, Pending, BagIn, BagToSet, Counted
<1>2. /\ IsFiniteSet(Tokens(c))
      /\ Cardinality(Tokens(events)) <= Cardinality(Tokens(c)) + Units(e)
    BY <1>1, TokensTaken DEF Counted
<1>3. IsABag(c)
    BY <1>1, BagTake
<1>4. events' = c (+) x /\ table' = t
    BY DEF Handled
<1> HIDE DEF c
<1>5. /\ IsFiniteSet(Tokens(c (+) x))
      /\ Cardinality(Tokens(c (+) x)) = Cardinality(Tokens(c)) + Cardinality(Tokens(x))
    BY <1>2, <1>3, TokensAdded
<1>6. /\ Cardinality(Tokens(c)) \in Nat /\ Cardinality(Tokens(x)) \in Nat
      /\ Cardinality(Tokens(events)) \in Nat /\ table.state.in_flight_count \in Nat
    BY <1>2, FS_CardinalityType DEF Counted, WorkInv, TypeOK, Tables, States
<1>7. SaturatingSub(table.state.in_flight_count, Units(e)) <= Cardinality(Tokens(c))
    BY <1>1, <1>2, <1>6 DEF SaturatingSub, Counted
<1>8. SaturatingSub(table.state.in_flight_count, Units(e)) \in Nat
    BY <1>1, <1>6 DEF SaturatingSub
<1>9. t.state.in_flight_count <= Cardinality(Tokens(c)) + Cardinality(Tokens(x))
    BY <1>6, <1>7, <1>8
<1>10. BagToSet(events') \subseteq BagToSet(events) \cup BagToSet(x)
    BY <1>1, HandledEvents
<1> QED
    BY <1>4, <1>5, <1>9, <1>10 DEF Counted

\* The tokens of an event that lowers no count.
Quiet(e) == Units(e) = 0 /\ e.type # "Gossip"

LEMMA ActCounts ==
    ASSUME WorkInv, Counted, NEW e, NEW r, NEW S, Act(e, r, SetToBag(S)), r.table \in Tables,
           NEW complete \in BOOLEAN, Follows(table, r, Units(e), complete), \A f \in S : Quiet(f)
    PROVE  Counted'
<1> DEFINE x == Gossiping(r.action) (+) SetToBag(S)
<1>1. Handled(e, r.table, r.action = AnnounceFinished, x)
    BY DEF Act
<1>2. r.table.state.in_flight_count \in Nat /\ MessagesOf(r.action) \in Nat
    BY DEF Tables, States, Follows
<1>3. IsFiniteSet(Tokens(x)) /\ Cardinality(Tokens(x)) = MessagesOf(r.action)
    BY <1>2, ActTokens DEF Quiet
<1>4. /\ IsABag(x)
      /\ r.action.do # "ShouldGossip" => BagToSet(x) = S
      /\ r.action.do = "ShouldGossip" =>
             BagToSet(x) = {GossipMessage(r.action.count, r.action.exclude_peers)} \cup S
    BY GossipingBag DEF BagToSet
<1> HIDE DEF x
<1>5. \A f \in BagToSet(x) : Units(f) \in Nat /\ (f.type = "Gossip" => f.peer \in Connected)
    <2>1. \A f \in S : Units(f) \in Nat /\ (f.type = "Gossip" => f.peer \in Connected)
        BY DEF Quiet
    <2>2. CASE r.action.do # "ShouldGossip"
        BY <1>4, <2>1, <2>2
    <2>3. CASE r.action.do = "ShouldGossip"
        <3> DEFINE g == GossipMessage(r.action.count, r.action.exclude_peers)
        <3>1. Units(g) = MessagesOf(r.action) /\ g.type = "GossipMessage"
            BY <2>3 DEF Units, GossipMessage, MessagesOf
        <3> HIDE DEF g
        <3> QED
            BY <1>2, <1>4, <2>1, <2>3, <3>1 DEF g
    <2> QED
        BY <2>2, <2>3
<1>6. r.table.state.in_flight_count
          <= SaturatingSub(table.state.in_flight_count, Units(e)) + Cardinality(Tokens(x))
    BY <1>3 DEF Follows
<1> QED
    BY <1>1, <1>2, <1>3, <1>4, <1>5, <1>6, HandledCounts

LEMMA ActAloneCounts ==
    ASSUME WorkInv, Counted, NEW e, NEW r, Act(e, r, EmptyBag), r.table \in Tables,
           NEW complete \in BOOLEAN, Follows(table, r, Units(e), complete)
    PROVE  Counted'
<1> DEFINE S == {}
<1>1. Act(e, r, SetToBag(S)) /\ \A f \in S : Quiet(f)
    BY DEF EmptyBag
<1> HIDE DEF S
<1> QED
    BY <1>1, ActCounts

\* A handler that leaves the table alone.
LEMMA PassedOnCounts ==
    ASSUME WorkInv, Counted, NEW e, NEW S, Handled(e, table, FALSE, SetToBag(S)),
           Units(e) = 0 \/ ~table.current, \A f \in S : Quiet(f)
    PROVE  Counted'
<1>1. IsABag(SetToBag(S)) /\ BagToSet(SetToBag(S)) = S /\ DOMAIN SetToBag(S) = S
    BY SetsAreBags DEF BagToSet
<1>2. IsFiniteSet(Tokens(SetToBag(S))) /\ Cardinality(Tokens(SetToBag(S))) = 0
    BY <1>1, QuietTokens DEF Quiet
<1>3. table.state.in_flight_count \in Nat /\ (~table.current => table.state.in_flight_count = 0)
    BY DEF WorkInv, TypeOK, Tables, States, InFlight
<1>4. Units(e) \in Nat
    BY DEF Counted, Handled, Pending, BagIn
<1>5. table.state.in_flight_count <= SaturatingSub(table.state.in_flight_count, Units(e)) + 0
    BY <1>3, <1>4 DEF SaturatingSub
<1>6. \A f \in S : Units(f) \in Nat /\ (f.type = "Gossip" => f.peer \in Connected)
    BY DEF Quiet
<1> QED
    BY <1>1, <1>2, <1>3, <1>5, <1>6, HandledCounts

\* An event that comes from outside.
LEMMA AddedCounts ==
    ASSUME WorkInv, Counted, NEW S, events' = events (+) SetToBag(S), table' = table,
           \A f \in S : Quiet(f)
    PROVE  Counted'
<1>1. IsABag(SetToBag(S)) /\ DOMAIN SetToBag(S) = S /\ IsABag(events)
    BY SetsAreBags DEF WorkInv, TypeOK
<1>2. IsFiniteSet(Tokens(SetToBag(S))) /\ Cardinality(Tokens(SetToBag(S))) = 0
    BY <1>1, QuietTokens DEF Quiet
<1>3. /\ IsFiniteSet(Tokens(events'))
      /\ Cardinality(Tokens(events')) = Cardinality(Tokens(events)) + 0
    BY <1>1, <1>2, TokensAdded DEF Counted
<1>4. BagToSet(events') = BagToSet(events) \cup S
    BY <1>1, BagAdd DEF BagToSet
<1>5. Cardinality(Tokens(events)) \in Nat
    BY FS_CardinalityType DEF Counted
<1>6. \A f \in S : Units(f) \in Nat /\ (f.type = "Gossip" => f.peer \in Connected)
    BY DEF Quiet
<1> QED
    BY <1>3, <1>4, <1>5, <1>6 DEF Counted

\* Which events lower no count.
LEMMA QuietEvents ==
    /\ \A p : /\ Quiet(GetItem(p)) /\ Quiet(CheckGossipTimeout(p))
              /\ Quiet(CheckGetFromPeerTimeout(p)) /\ Quiet(ItemBody(p))
              /\ Quiet(ItemReceived(p)) /\ Quiet(NotFound(p))
    /\ \A p, b : Quiet(IsStoredResult(p, b))
    /\ Quiet(CheckItemReceivedTimeout)
    BY DEF Quiet, Units, GetItem, CheckGossipTimeout, CheckGetFromPeerTimeout, ItemBody,
           ItemReceived, NotFound, IsStoredResult, CheckItemReceivedTimeout

\* Every peer that we are connected to answers our messages.
ConnectedAnswer == Connected \cap Silent = {}

LEMMA CountedStep ==
    ASSUME ConnectedAnswer, WorkInv, Counted, [Next]_vars
    PROVE  Counted'
<1>0. Good(table) /\ InFlight(table) /\ table \in Tables /\ EmptyBag = SetToBag({})
    BY DEF WorkInv, GossipInv, EmptyBag, TypeOK
<1>1. ASSUME NEW source \in {{}} \cup {{p} : p \in Peers}, HandleItemReceived(source)
      PROVE  Counted'
    <2>1. PICK expired \in Expired :
              Act(ItemReceived(source), NewCompleteData(table, expired, source), EmptyBag)
        BY <1>1 DEF HandleItemReceived
    <2>2. source \in SUBSET Peers /\ expired \in 0 .. table.timeouts
        BY DEF Expired
    <2> DEFINE r == NewCompleteData(table, expired, source)
    <2>3. r.table \in Tables
        BY <1>0, <2>2, NewCompleteDataGood DEF Good
    <2>4. Follows(table, r, 0, TRUE) /\ Units(ItemReceived(source)) = 0
        BY <1>0, <2>2, ReceiveFollows, QuietEvents DEF NewCompleteData, Quiet
    <2>5. TRUE \in BOOLEAN
        OBVIOUS
    <2> HIDE DEF r
    <2> QED
        BY <2>1, <2>3, <2>4, <2>5, ActAloneCounts DEF r
<1>2. ASSUME NEW requested \in 1 .. InfectionTarget, NEW peers \in SUBSET Peers,
             HandleGossipedTo(requested, peers)
      PROVE  Counted'
    <2> DEFINE missed == requested - Cardinality(peers)
               reduced == IF missed > 0 THEN ReduceInFlightCount(table, missed)
                          ELSE Result(table, Noop)
               t == RegisterInfectionAttempt(reduced.table, peers)
               e == GossipedTo(requested, peers)
               S == {CheckGossipTimeout(p) : p \in peers}
    <2>1. (missed > 0 => missed \in Nat) /\ Cardinality(peers) \in Nat /\ requested \in Nat
        BY PeerCardinality, InfectionTargetPositive
    <2>2. Good(reduced.table)
        BY <1>0, <2>1, ReduceInFlightCountGood, UnchangedGood
    <2>3. Units(e) = IF missed > 0 THEN missed ELSE 0
        BY <2>1 DEF Units, GossipedTo, SaturatingSub
    <2>4. /\ InFlight(reduced.table)
          /\ reduced.table.state.in_flight_count
                 <= SaturatingSub(table.state.in_flight_count, Units(e)) + 0
        <3>1. CASE missed > 0
            <4>1. /\ Follows(table, reduced, missed, FALSE)
                  /\ reduced.action.do # "ShouldGossip"
                BY <1>0, <2>1, <3>1, ReduceFollows
            <4> HIDE DEF reduced, missed
            <4> QED
                BY <2>3, <3>1, <4>1 DEF Follows, MessagesOf
        <3>2. CASE ~(missed > 0)
            <4>1. table.state.in_flight_count \in Nat
                BY <1>0 DEF Tables, States
            <4> QED
                BY <1>0, <2>3, <3>2, <4>1 DEF Result, SaturatingSub
        <3> QED
            BY <3>1, <3>2
    <2>5. Handled(e, t, reduced.action = AnnounceFinished, SetToBag(S))
        BY <1>2 DEF HandleGossipedTo
    <2> HIDE DEF reduced, missed
    <2>6. t.state.in_flight_count = reduced.table.state.in_flight_count
        BY <2>2, <2>4, RegisterFacts
    <2>7. t.state.in_flight_count \in Nat
        BY <2>2, <2>6 DEF Good, Tables, States
    <2>8. IsABag(SetToBag(S)) /\ BagToSet(SetToBag(S)) = S /\ DOMAIN SetToBag(S) = S
        BY SetsAreBags DEF BagToSet
    <2>9. \A f \in S : Quiet(f)
        BY QuietEvents
    <2> HIDE DEF t, e, S
    <2>10. IsFiniteSet(Tokens(SetToBag(S))) /\ Cardinality(Tokens(SetToBag(S))) = 0
        BY <2>8, <2>9, QuietTokens DEF Quiet
    <2>11. \A f \in S : Units(f) \in Nat /\ (f.type = "Gossip" => f.peer \in Connected)
        BY <2>9 DEF Quiet
    <2> QED
        BY <2>4, <2>5, <2>6, <2>7, <2>8, <2>10, <2>11, HandledCounts
<1>3. ASSUME NEW count \in 1 .. InfectionTarget, NEW exclude \in SUBSET Peers,
             NEW peers \in SUBSET (Connected \ exclude), NetworkGossips(count, exclude, peers)
      PROVE  Counted'
    <2> DEFINE e == GossipMessage(count, exclude)
               S == {GossipedTo(count, peers)} \cup {Gossip(p) : p \in peers}
    <2>1. Handled(e, table, FALSE, SetToBag(S))
        BY <1>3 DEF NetworkGossips
    <2>2. count \in Nat /\ peers \in SUBSET Peers /\ Cardinality(peers) \in Nat
        BY InfectionTargetPositive, PeersConnected, PeerCardinality
    <2>3. IsFiniteSet(Tokens(SetToBag(S))) /\ Cardinality(Tokens(SetToBag(S))) >= count
        BY <2>2, NetworkTokens
    <2>4. Units(e) = count
        BY DEF Units, GossipMessage
    <2>5. \A f \in S : Units(f) \in Nat /\ (f.type = "Gossip" => f.peer \in Connected)
        <3>1. Units(GossipedTo(count, peers)) \in Nat /\ GossipedTo(count, peers).type = "GossipedTo"
            BY <2>2 DEF Units, GossipedTo, SaturatingSub
        <3>2. \A p \in peers : Units(Gossip(p)) \in Nat /\ Gossip(p).peer \in Connected
            BY DEF Units, Gossip
        <3> QED
            BY <3>1, <3>2
    <2>6. IsABag(SetToBag(S)) /\ BagToSet(SetToBag(S)) = S
        BY SetsAreBags DEF BagToSet
    <2> HIDE DEF e, S
    <2>7. table.state.in_flight_count \in Nat /\ Cardinality(Tokens(SetToBag(S))) \in Nat
        BY <1>0, <2>3, FS_CardinalityType DEF Tables, States
    <2>8. table.state.in_flight_count
              <= SaturatingSub(table.state.in_flight_count, Units(e))
                     + Cardinality(Tokens(SetToBag(S)))
        BY <2>2, <2>3, <2>4, <2>7 DEF SaturatingSub
    <2> QED
        BY <2>1, <2>3, <2>5, <2>6, <2>7, <2>8, HandledCounts
<1>4. ASSUME HandleCheckItemReceivedTimeout PROVE Counted'
    <2> DEFINE r == FinishIfNotHeldByUs(table)
    <2>1. r.table \in Tables /\ Follows(table, r, 0, FALSE) /\ Units(CheckItemReceivedTimeout) = 0
        BY <1>0, FinishIfNotHeldGood, FinishIfNotHeldFollows, QuietEvents DEF Good, Quiet
    <2>2. Act(CheckItemReceivedTimeout, r, EmptyBag) /\ FALSE \in BOOLEAN
        BY <1>4 DEF HandleCheckItemReceivedTimeout
    <2> HIDE DEF r
    <2> QED
        BY <2>1, <2>2, ActAloneCounts
<1>5. ASSUME NEW peer \in Peers, HandleCheckGossipTimeout(peer) PROVE Counted'
    <2> DEFINE r == CheckTimeout(table, peer)
    <2>1. r.table \in Tables /\ Follows(table, r, 0, FALSE) /\ Units(CheckGossipTimeout(peer)) = 0
        BY <1>0, CheckTimeoutGood, CheckTimeoutFollows, QuietEvents DEF Good, Quiet
    <2>2. Act(CheckGossipTimeout(peer), r, EmptyBag) /\ FALSE \in BOOLEAN
        BY <1>5 DEF HandleCheckGossipTimeout
    <2> HIDE DEF r
    <2> QED
        BY <2>1, <2>2, ActAloneCounts
<1>6. ASSUME NEW peer \in Peers, HandleCheckGetFromPeerTimeout(peer) PROVE Counted'
    <2> DEFINE r == RemoveHolderIfUnresponsive(table, peer)
               e == CheckGetFromPeerTimeout(peer)
    <2>1. PICK holder : Act(e, r, IF r.action = GetRemainder
                                  THEN SetToBag({GetItem(holder), CheckGetFromPeerTimeout(holder)})
                                  ELSE EmptyBag)
        BY <1>6 DEF HandleCheckGetFromPeerTimeout
    <2> DEFINE S == IF r.action = GetRemainder
                    THEN {GetItem(holder), CheckGetFromPeerTimeout(holder)} ELSE {}
    <2>2. Act(e, r, SetToBag(S)) /\ FALSE \in BOOLEAN
        BY <1>0, <2>1
    <2>3. r.table \in Tables /\ Follows(table, r, 0, FALSE) /\ Units(e) = 0
        BY <1>0, RemoveHolderGood, RemoveHolderFollows, QuietEvents DEF Good, Quiet
    <2>4. \A f \in S : Quiet(f)
        BY QuietEvents
    <2> HIDE DEF r, e, S
    <2> QED
        BY <2>2, <2>3, <2>4, ActCounts
<1>7. ASSUME NEW peer \in Peers, HandleItemFromPeer(peer) PROVE Counted'
    <2> DEFINE S == IF HasEntry(table) THEN {ItemBody(peer), CheckItemReceivedTimeout} ELSE {}
    <2>1. Handled(GetItem(peer), table, FALSE, SetToBag(S))
        BY <1>0, <1>7 DEF HandleItemFromPeer
    <2>2. Units(GetItem(peer)) = 0 /\ \A f \in S : Quiet(f)
        BY QuietEvents DEF Quiet
    <2> HIDE DEF S
    <2> QED
        BY <2>1, <2>2, PassedOnCounts
<1>8. ASSUME NEW peer \in Peers, HandleNotFound(peer) PROVE Counted'
    <2> DEFINE r == ForceFinish(table)
    <2>1. r.table \in Tables /\ Follows(table, r, 0, FALSE) /\ Units(NotFound(peer)) = 0
        BY <1>0, ForceFinishGood, ForceFinishFollows, QuietEvents DEF Good, Quiet
    <2>2. Act(NotFound(peer), r, EmptyBag) /\ FALSE \in BOOLEAN
        BY <1>8 DEF HandleNotFound
    <2> HIDE DEF r
    <2> QED
        BY <2>1, <2>2, ActAloneCounts
<1>9. ASSUME NEW peer \in Peers, NoAnswer(peer) PROVE Counted'
    <2> DEFINE S == {}
    <2>1. PICK e \in {Gossip(peer), GetItem(peer)} : Handled(e, table, FALSE, SetToBag(S))
        BY <1>0, <1>9 DEF NoAnswer
    <2>2. ~Pending(Gossip(peer))
        <3>1. Gossip(peer).type = "Gossip" /\ Gossip(peer).peer = peer
            BY DEF Gossip
        <3> QED
            BY <1>9, <3>1 DEF NoAnswer, ConnectedAnswer, Counted, Pending, BagIn
    <2>3. e = GetItem(peer)
        BY <2>1, <2>2 DEF Handled
    <2>4. Units(e) = 0 /\ \A f \in S : Quiet(f)
        BY <2>3, QuietEvents DEF Quiet
    <2> HIDE DEF S
    <2> QED
        BY <2>1, <2>4, PassedOnCounts
<1>10. ASSUME NEW peer \in Peers, NEW b \in BOOLEAN, HandleIsStoredResult(peer, b)
       PROVE  Counted'
    <2> DEFINE R(expired) == IF HasEntry(table) \/ ~b THEN NewDataId(table, expired, peer)
                             ELSE Result(table, Noop)
               e == IsStoredResult(peer, b)
    <2>1. PICK expired \in IF HasEntry(table) \/ ~b THEN Expired ELSE {0} :
              Act(e, R(expired),
                  IF R(expired).action = GetRemainder
                  THEN SetToBag({GetItem(peer), CheckGetFromPeerTimeout(peer)}) ELSE EmptyBag)
        BY <1>10 DEF HandleIsStoredResult
    <2> DEFINE r == R(expired)
               S == IF r.action = GetRemainder
                    THEN {GetItem(peer), CheckGetFromPeerTimeout(peer)} ELSE {}
    <2>2. Act(e, r, SetToBag(S)) /\ FALSE \in BOOLEAN
        BY <1>0, <2>1
    <2>3. r.table \in Tables /\ Follows(table, r, 0, FALSE)
        <3>1. CASE HasEntry(table) \/ ~b
            <4>1. expired \in 0 .. table.timeouts
                BY <2>1, <3>1 DEF Expired
            <4>2. r.table \in Tables
                BY <1>0, <3>1, <4>1, NewDataIdGood DEF Good
            <4>3. Follows(table, r, 0, FALSE)
                BY <1>0, <3>1, <4>1, ReceiveFollows DEF NewDataId
            <4> QED
                BY <4>2, <4>3
        <3>2. CASE ~(HasEntry(table) \/ ~b)
            <4>1. r = Result(table, Noop) /\ r.table = table
                BY <3>2 DEF Result
            <4> QED
                BY <1>0, <4>1, NoopFollows
        <3> QED
            BY <3>1, <3>2
    <2>4. Units(e) = 0 /\ \A f \in S : Quiet(f)
        BY QuietEvents DEF Quiet
    <2> HIDE DEF r, e, S
    <2> QED
        BY <2>2, <2>3, <2>4, ActCounts
<1>11. ASSUME NEW peer \in Peers, NEW b \in BOOLEAN, HandleGossipResponse(peer, b)
       PROVE  Counted'
    <2> DEFINE r == Infected(table, peer, ~b)
               e == Gossip(peer)
    <2>0. Units(e) = 1
        BY DEF Gossip, Units
    <2>1. CASE HasEntry(table)
        <3>1. PICK found \in BOOLEAN :
                  Act(e, r, IF found THEN EmptyBag ELSE SetToBag({NotFound(peer)}))
            BY <1>11, <2>1 DEF HandleGossipResponse
        <3> DEFINE S == IF found THEN {} ELSE {NotFound(peer)}
        <3>2. Act(e, r, SetToBag(S)) /\ FALSE \in BOOLEAN
            BY <1>0, <3>1
        <3>3. r.table \in Tables /\ Follows(table, r, 1, FALSE)
            BY <1>0, InfectedGood, InfectedFollows DEF Good
        <3>4. \A f \in S : Quiet(f)
            BY QuietEvents
        <3> HIDE DEF r, e, S
        <3> QED
            BY <2>0, <3>2, <3>3, <3>4, ActCounts
    <2>2. CASE ~HasEntry(table)
        <3> DEFINE S == {}
        <3>1. Handled(e, table, FALSE, SetToBag(S)) /\ ~table.current /\ \A f \in S : Quiet(f)
            BY <1>0, <1>11, <2>2 DEF HandleGossipResponse, HasEntry
        <3> HIDE DEF e, S
        <3> QED
            BY <3>1, PassedOnCounts
    <2> QED
        BY <2>1, <2>2
<1>12. ASSUME NEW peer \in Peers, NEW b \in BOOLEAN, Validate(peer, b) PROVE Counted'
    <2> DEFINE S == IF b /\ ~stored THEN {ItemReceived({peer})} ELSE {}
    <2>1. Handled(ItemBody(peer), table, FALSE, SetToBag(S))
        BY <1>0, <1>12 DEF Validate
    <2>2. Units(ItemBody(peer)) = 0 /\ \A f \in S : Quiet(f)
        BY QuietEvents DEF Quiet
    <2> HIDE DEF S
    <2> QED
        BY <2>1, <2>2, PassedOnCounts
<1>13. ASSUME BeginGossip PROVE Counted'
    BY <1>13, QuietEvents, AddedCounts DEF BeginGossip
<1>14. ASSUME NEW sender \in Peers, ReceiveGossip(sender) PROVE Counted'
    <2>1. CASE small
        <3>1. PICK expired \in 0 .. table.timeouts :
                  LET r == NewCompleteData(table, expired, {sender})
                  IN  table' = r.table /\ events' = events (+) Gossiping(r.action)
            BY <1>14, <2>1 DEF ReceiveGossip, Expired
        <3> DEFINE r == NewCompleteData(table, expired, {sender})
                   x == Gossiping(r.action)
        <3>2. Follows(table, r, 0, TRUE) /\ r.table \in Tables
            BY <1>0, ReceiveFollows, NewCompleteDataGood DEF NewCompleteData, Good
        <3>3. IsABag(x) /\ IsABag(events)
            BY GossipingBag DEF WorkInv, TypeOK
        <3>4. table' = r.table /\ events' = events (+) x
            BY <3>1
        <3> HIDE DEF r
        <3>5. MessagesOf(r.action) \in Nat
            BY <3>2 DEF Follows
        <3>6. /\ IsFiniteSet(Tokens(x)) /\ Cardinality(Tokens(x)) = MessagesOf(r.action)
              /\ \A f \in BagToSet(x) : Units(f) \in Nat /\ f.type # "Gossip"
            <4>1. CASE r.action.do = "ShouldGossip"
                <5> DEFINE e == GossipMessage(r.action.count, r.action.exclude_peers)
                <5>1. Units(e) = MessagesOf(r.action) /\ e.type = "GossipMessage"
                    BY <4>1 DEF Units, GossipMessage, MessagesOf
                <5>2. x = SetToBag({e}) /\ BagToSet(x) = {e}
                    BY <4>1, SetsAreBags DEF Gossiping, BagToSet
                <5> HIDE DEF e, x
                <5> QED
                    BY <3>5, <5>1, <5>2, SingleTokens
            <4>2. CASE r.action.do # "ShouldGossip"
                <5>1. DOMAIN x = {} /\ MessagesOf(r.action) = 0
                    BY <4>2, GossipingBag DEF MessagesOf
                <5> HIDE DEF x
                <5> QED
                    BY <5>1, QuietTokens DEF BagToSet
            <4> QED
                BY <4>1, <4>2
        <3> HIDE DEF x
        <3>7. /\ IsFiniteSet(Tokens(events (+) x))
              /\ Cardinality(Tokens(events (+) x))
                     = Cardinality(Tokens(events)) + MessagesOf(r.action)
            BY <3>3, <3>6, TokensAdded DEF Counted
        <3>8. BagToSet(events (+) x) = BagToSet(events) \cup BagToSet(x)
            BY <3>3, BagAdd DEF BagToSet
        <3>9. r.table.state.in_flight_count <= Cardinality(Tokens(events)) + MessagesOf(r.action)
            <4>1. /\ table.state.in_flight_count \in Nat /\ r.table.state.in_flight_count \in Nat
                  /\ Cardinality(Tokens(events)) \in Nat
                BY <1>0, <3>2, FS_CardinalityType DEF Tables, States, Counted
            <4>2. r.table.state.in_flight_count
                      <= table.state.in_flight_count + MessagesOf(r.action)
                BY <3>2, <4>1 DEF Follows, SaturatingSub
            <4> QED
                BY <3>5, <4>1, <4>2 DEF Counted
        <3> QED
            BY <3>4, <3>6, <3>7, <3>8, <3>9 DEF Counted
    <2>2. CASE ~small
        BY <1>14, <2>2, QuietEvents, AddedCounts DEF ReceiveGossip
    <2> QED
        BY <2>1, <2>2
<1>15. ASSUME NEW requester \in Peers, ReceiveGetItem(requester) PROVE Counted'
    BY <1>15, QuietEvents, AddedCounts DEF ReceiveGetItem
<1>16. CASE UNCHANGED vars
    BY <1>16 DEF vars, Counted
<1> QED
    BY <1>1, <1>2, <1>3, <1>4, <1>5, <1>6, <1>7, <1>8, <1>9, <1>10, <1>11, <1>12, <1>13,
       <1>14, <1>15, <1>16 DEF Next, Progress

LEMMA CountedInit == Init => Counted
<1> SUFFICES ASSUME Init PROVE Counted
    OBVIOUS
<1>1. BagToSet(events) = {} /\ DOMAIN events = {}
    BY SetsAreBags DEF Init, EmptyBag, BagToSet
<1>2. IsFiniteSet(Tokens(events)) /\ Cardinality(Tokens(events)) = 0
    BY <1>1, QuietTokens
<1>3. table.state.in_flight_count = 0
    BY DEF Init, NewTable, NewState
<1> QED
    BY <1>1, <1>2, <1>3 DEF Counted

\* An item that we hold is never stuck in `current` when every connected peer answers:
\* a request, a report, an answer or a timeout that moves it on is pending
\* (gossiped_to, handle_gossip_response, check_gossip_timeout).
THEOREM HeldItemHasWorkHolds ==
    ASSUME ConnectedAnswer
    PROVE  Spec => []HeldItemHasWork
<1>1. WorkInv /\ Counted => HeldItemHasWork
    <2> SUFFICES ASSUME WorkInv, Counted, table.current, table.state.held
                 PROVE  \E e \in BagToSet(events) :
                            e.type \in {"GossipMessage", "GossipedTo", "Gossip"}
        BY DEF HeldItemHasWork
    <2>1. table.state.in_flight_count > 0 /\ table.state.in_flight_count \in Nat
        BY DEF WorkInv, InFlight, TypeOK, Tables, States
    <2>2. Cardinality(Tokens(events)) \in Nat /\ Cardinality(Tokens(events)) > 0
        BY <2>1, FS_CardinalityType DEF Counted
    <2>3. Tokens(events) # {}
        BY <2>2, FS_EmptySet
    <2>4. PICK z \in Tokens(events) : TRUE
        BY <2>3
    <2>5. z[1] \in DOMAIN events /\ Units(z[1]) # 0
        BY <2>4 DEF Tokens
    <2> QED
        BY <2>5 DEF Units, BagToSet
<1>2. WorkInv /\ Counted /\ [Next]_vars => (WorkInv /\ Counted)'
    BY WorkInvStep, CountedStep
<1> QED
    BY <1>1, <1>2, WorkInvInit, CountedInit, PTL DEF Spec
=============================================================================

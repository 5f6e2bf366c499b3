------------------------------ MODULE ZugProofs ------------------------------
(***************************************************************************)
(* Safety of one node's instance of Zug, for any validators, messages,     *)
(* clocks, disks and any number of rounds and restarts.                    *)
(***************************************************************************)
EXTENDS Zug, BoundedSets, FiniteSetTheorems, SequenceTheorems, TLAPS

-----------------------------------------------------------------------------
(* The invariant                                                            *)

\* Parents come before their children.
Below(s) ==
    /\ \A r \in Rounds : \A p \in s.rounds[r].proposal : p.parent < r
    /\ \A w \in s.waiting_for_parent : w.proposal.parent < w.round
    /\ \A w \in s.waiting_for_validation : w.proposal.parent < w.round
    /\ \A x \in s.pending_proposal : x.parent < x.round
    /\ \A i \in DOMAIN s.wal :
           "proposal" \in DOMAIN s.wal[i] => s.wal[i].proposal.parent < s.wal[i].round

Typed(s) ==
    /\ s \in Instances
    /\ \A r \in Rounds :
           /\ IsOption(s.rounds[r].proposal)
           /\ IsOption(s.rounds[r].quorum_echoes)
           /\ IsOption(s.rounds[r].quorum_votes)
           /\ s.rounds[r].accepted_height <= r
    /\ s.dirty <= s.current_round
    /\ IsOption(s.pending_proposal)
    /\ Below(s)
    /\ IsFiniteSet(s.waiting_for_parent) /\ IsFiniteSet(s.waiting_for_validation)

\* The proposal of a round is the one with the quorum of echoes, if there is one.
Settled(s) ==
    \A r \in Rounds :
        /\ s.rounds[r].quorum_echoes # {} => s.rounds[r].proposal \subseteq s.rounds[r].quorum_echoes
        /\ s.rounds[r].accepted_height # NoRound =>
                s.rounds[r].quorum_echoes # {} /\ s.rounds[r].proposal # {}

Backed(s) ==
    \A r \in Rounds :
        /\ \A p \in s.rounds[r].quorum_echoes : IsQuorum(s, EchoedBy(s, r, p))
        /\ \A b \in s.rounds[r].quorum_votes : IsQuorum(s, VotedBy(s, r, b))

Noticed(s, r) ==
    /\ \A p \in Echoed(s, r) : IsQuorum(s, EchoedBy(s, r, p)) => s.rounds[r].quorum_echoes # {}
    /\ \A b \in BOOLEAN : IsQuorum(s, VotedBy(s, r, b)) => s.rounds[r].quorum_votes # {}

Noticing(s) ==
    ~FttExceeded(s) /\ ~s.evidence_only /\ (\A v \in Validators : s.faults[v] # "Indirect") =>
        \A r \in Rounds : r >= s.first_non_finalized => Noticed(s, r)

Own(s) == {m \in s.signed : m.validator = Us}

\* The validators with evidence in the log; with the log read, we know that they are
\* faulty.
Against(wal) == {v \in Validators : \E i \in DOMAIN wal : wal[i] = EvidenceEntry(v)}
Informed(s) == s.write_wal => \A v \in Against(s.wal) : s.faults[v] = "Direct"

\* Our messages are in the state, so that we do not sign others; or they are in
\* the log, so that they will be in the state before we sign others.
InState(s) == \A m \in Own(s) : HasMessage(s, m) \/ s.faults[Us] = "Direct"
InLog(s) == \A m \in Own(s) : \E i \in DOMAIN s.wal : s.wal[i] = SignedEntry(m)

Logged(s) ==
    /\ s.active_validator =>
           s.write_wal /\ Us \in Validators /\ s.faults[Us] # "Direct" /\ ~s.evidence_only
    /\ \A m, d \in Own(s) : ~Contradiction(m, d)
    /\ ~s.evidence_only => InState(s) \/ InLog(s)
    /\ s.write_wal /\ ~s.evidence_only => InState(s)
    /\ s.restarts < MaxRestarts => InLog(s)

\* The parent of an accepted proposal is accepted, at the height before, and the
\* rounds between are skippable.
LinkedAt(s, r) ==
    Accepted(s, r) =>
        LET parent == ProposalIn(s, r).parent
        IN  /\ parent # NoRound => Accepted(s, parent)
            /\ \A q \in parent + 1 .. r - 1 : Skippable(s, q)
            /\ s.rounds[r].accepted_height =
                    IF parent = NoRound THEN 0 ELSE s.rounds[parent].accepted_height + 1

Linked(s) == \A r \in Rounds : LinkedAt(s, r)

Lowest(s) ==
    ~s.evidence_only => \A r \in 0 .. s.current_round - 1 : Skippable(s, r) \/ Accepted(s, r)

Sane(s) == s.evidence_only \/ s.bugs = {}

\* p fits the parent that has the quorum of echoes.
FitsQuorum(s, p) ==
    /\ p.timestamp >= StartTimestamp
    /\ p.parent # NoRound =>
        \E q \in s.rounds[p.parent].quorum_echoes :
            /\ p.timestamp >= q.timestamp + MinBlockTime
            /\ \A i \in p.inactive, j \in q.inactive : i \subseteq j

HeardFrom(s, p) ==
    \A inactive \in p.inactive : \A v \in Validators \ inactive :
        s.active[v] # NoRound \/ s.faults[v] # "None"

Fitting(s) ==
    MaxRestarts = 0 /\ ~s.evidence_only =>
        /\ s.wal = <<>>
        /\ \A r \in Rounds : \A p \in s.rounds[r].proposal : FitsQuorum(s, p)
        /\ \A r \in Rounds : Accepted(s, r) => HeardFrom(s, ProposalIn(s, r))
        /\ \A w \in s.waiting_for_validation : FitsQuorum(s, w.proposal)
        /\ \A x \in s.pending_proposal :
            /\ x.context.timestamp >= StartTimestamp
            /\ x.parent # NoRound =>
                \E q \in s.rounds[x.parent].quorum_echoes :
                    HeardFrom(s, q) /\ x.context.timestamp >= q.timestamp + MinBlockTime

\* A leader proposes a block only on top of blocks that do not end the era.
LeaderStops(s, r) ==
    LET parent == ProposalIn(s, r).parent
    IN  Accepted(s, r) /\ ProposalIn(s, r).block # NoBlock /\ parent # NoRound =>
            ~AcceptedSwitchBlock(s, parent) /\ ~AcceptedDummy(s, parent)

Consecutive(blocks) ==
    \A i \in 1 .. Len(blocks) :
        /\ blocks[i].height = i - 1
        /\ i < Len(blocks) => blocks[i].round < blocks[i + 1].round /\ ~blocks[i].terminal

\* The finalized blocks lead up to the last finalized round, which is accepted.
LeadsUp(s, top) ==
    /\ Consecutive(s.finalized)
    /\ top = NoRound => s.finalized = <<>>
    /\ top # NoRound /\ ProposalIn(s, top).block # NoBlock =>
        /\ Len(s.finalized) = s.rounds[top].accepted_height + 1
        /\ s.finalized[Len(s.finalized)].round = top
        /\ s.finalized[Len(s.finalized)].terminal <=> AcceptedSwitchBlock(s, top)

Chain(s) ==
    LET top == s.first_non_finalized - 1
    IN  /\ top # NoRound => Accepted(s, top)
        /\ (\A r \in Rounds : r <= top => LeaderStops(s, r)) => LeadsUp(s, top)

Chained(s) ==
    ~s.evidence_only =>
        Chain(s) /\ (s.first_non_finalized # 0 => Committed(s, s.first_non_finalized - 1))

\* The round is looked at in the next update.
Marked(s, r) == s.dirty # NoRound /\ s.dirty <= r

\* The current round is still open, unless update has yet to look at it or it is
\* the last one of the model.
Open(s) ==
    \/ ~Skippable(s, s.current_round) /\ ~Accepted(s, s.current_round)
    \/ s.current_round = LastRound + 1
Watched(s) == Marked(s, s.current_round) \/ Open(s)

Core(s) ==
    /\ Typed(s) /\ Settled(s) /\ Backed(s) /\ Logged(s)
    /\ Linked(s) /\ Lowest(s) /\ Sane(s) /\ Fitting(s)

\* The inductive invariant.  Handlers keep Core at every point, and Noticing
\* except between a new signature or fault and the search for new quorums.
Good(s) == Core(s) /\ Noticing(s) /\ Chained(s) /\ Watched(s) /\ Informed(s)

\* What a handler never undoes.  Without being active it signs nothing, without
\* the log it logs nothing, evidence is only logged against validators that are
\* marked, and messages only go with the evidence against their sender.
Keeps(s, t) ==
    /\ t.restarts = s.restarts /\ t.evidence_only = s.evidence_only
    /\ ~s.active_validator => ~t.active_validator /\ Own(t) = Own(s)
    /\ ~s.write_wal => ~t.write_wal /\ t.wal = s.wal
    /\ \A v \in Validators : s.faults[v] = "Direct" => t.faults[v] = "Direct"
    /\ \A v \in Against(t.wal) : v \in Against(s.wal) \/ t.faults[v] = "Direct"
    /\ \A r \in Rounds :
        /\ \A e \in s.rounds[r].echoes : e \in t.rounds[r].echoes \/ t.faults[e[2]] = "Direct"
        /\ \A e \in s.rounds[r].votes : e \in t.rounds[r].votes \/ t.faults[e[2]] = "Direct"

\* What a handler only changes in update: where we are, what is finalized, and
\* what is accepted.
Stays(s, t) ==
    /\ t.current_round = s.current_round
    /\ t.first_non_finalized = s.first_non_finalized
    /\ t.finalized = s.finalized
    /\ \A r \in Rounds :
        /\ s.rounds[r].quorum_echoes \subseteq t.rounds[r].quorum_echoes
        /\ s.rounds[r].quorum_votes \subseteq t.rounds[r].quorum_votes
        /\ Accepted(s, r) => /\ t.rounds[r].proposal = s.rounds[r].proposal
                             /\ t.rounds[r].accepted_height = s.rounds[r].accepted_height

\* Outside of update nothing is accepted, and what turns skippable is marked.
Rests(s, t) ==
    \A r \in Rounds :
        /\ Accepted(t, r) => Accepted(s, r)
        /\ Marked(s, r) => Marked(t, r)
        /\ r <= s.current_round /\ Skippable(t, r) => Skippable(s, r) \/ Marked(t, r)

SameVotes(s, t) == \A r \in Rounds : t.rounds[r].quorum_votes = s.rounds[r].quorum_votes

\* A step within a handler, one that stays in the current round, and one outside
\* of update.
Moves(s, t) ==
    /\ Core(t) /\ (Noticing(s) => Noticing(t)) /\ (Chained(s) => Chained(t))
    /\ Keeps(s, t)
Mild(s, t) == Core(t) /\ (Noticing(s) => Noticing(t)) /\ Keeps(s, t) /\ Stays(s, t)
Calm(s, t) == Mild(s, t) /\ Rests(s, t)

\* After the end of the era nothing is finalized any more.
Ends(s, t) ==
    FinalizedSwitchBlock(s) =>
        /\ FinalizedSwitchBlock(t)
        /\ t.current_round = s.current_round /\ t.finalized = s.finalized

-----------------------------------------------------------------------------
(* Weights and quorums                                                      *)

Units(v) == {v} \X (1 .. Weight[v])

LEMMA UnitsFinite ==
    ASSUME NEW S \in SUBSET Validators
    PROVE  IsFiniteSet(UNION {Units(v) : v \in S})
<1>1. IsFiniteSet(S)
  BY ValidatorsAssumption, FS_Subset
<1> DEFINE F == {Units(v) : v \in S}
<1>2. IsFiniteSet(F)
  <2> DEFINE h == [v \in S |-> Units(v)]
  <2>1. h \in Surjection(S, F)
    BY DEF Surjection
  <2> HIDE DEF F, h
  <2> QED BY <1>1, <2>1, FS_Surjection
<1>3. \A x \in F : IsFiniteSet(x)
  <2> SUFFICES ASSUME NEW v \in S PROVE IsFiniteSet(Units(v))
    OBVIOUS
  <2>1. Weight[v] \in Nat
    BY ValidatorsAssumption
  <2>2. IsFiniteSet({v}) /\ IsFiniteSet(1 .. Weight[v])
    <3>1. IsFiniteSet(1 .. Weight[v])
      BY <2>1, FS_Interval
    <3> QED BY <3>1, FS_Singleton
  <2> QED BY <2>2, FS_Product DEF Units
<1> HIDE DEF F
<1>4. IsFiniteSet(UNION F)
  BY <1>2, <1>3, FS_UNION
<1> QED BY <1>4 DEF F

LEMMA WeightGrows ==
    ASSUME NEW T \in SUBSET Validators, NEW S \in SUBSET T
    PROVE  TotalWeight(S) \in Nat /\ TotalWeight(T) \in Nat /\ TotalWeight(S) <= TotalWeight(T)
<1> DEFINE W(X) == UNION {Units(v) : v \in X}
<1>1. IsFiniteSet(W(T)) /\ IsFiniteSet(W(S))
  BY UnitsFinite
<1>2. W(S) \subseteq W(T)
  OBVIOUS
<1>3. TotalWeight(S) = Cardinality(W(S)) /\ TotalWeight(T) = Cardinality(W(T))
  BY DEF TotalWeight, Units
<1> HIDE DEF W
<1>4. Cardinality(W(S)) <= Cardinality(W(T))
  BY <1>1, <1>2, FS_Subset
<1> QED BY <1>1, <1>3, <1>4, FS_CardinalityType

LEMMA QuorumGrows ==
    ASSUME NEW s, NEW t, NEW S, NEW T, T \subseteq Validators,
           S \cup FaultyIn(s) \subseteq T \cup FaultyIn(t), IsQuorum(s, S)
    PROVE  IsQuorum(t, T)
<1>1. QuorumThreshold \in Int
  BY WeightGrows, FttAssumption DEF QuorumThreshold
<1>2. T \cup FaultyIn(t) \subseteq Validators
  BY DEF FaultyIn
<1>3. TotalWeight(S \cup FaultyIn(s)) <= TotalWeight(T \cup FaultyIn(t))
      /\ TotalWeight(S \cup FaultyIn(s)) \in Nat /\ TotalWeight(T \cup FaultyIn(t)) \in Nat
  BY <1>2, WeightGrows
<1> QED BY <1>1, <1>3 DEF IsQuorum

\* As long as there are not too many faulty validators they are not a quorum.
LEMMA NoQuorumOfFaulty ==
    ASSUME NEW s, ~FttExceeded(s)
    PROVE  ~IsQuorum(s, {})
<1>1. FaultyIn(s) \subseteq Validators
  BY DEF FaultyIn
<1>2. TotalWeight(FaultyIn(s)) \in Nat /\ TotalWeight(Validators) \in Nat
  BY <1>1, WeightGrows
<1>3. TotalWeight(FaultyIn(s)) <= Ftt
  BY <1>2, FttAssumption DEF FttExceeded
<1>4. Ftt <= QuorumThreshold /\ QuorumThreshold \in Int
  BY <1>2, FttAssumption DEF QuorumThreshold
<1>5. {} \cup FaultyIn(s) = FaultyIn(s)
  OBVIOUS
<1> QED BY <1>2, <1>3, <1>4, <1>5, FttAssumption DEF IsQuorum

-----------------------------------------------------------------------------
(* The relations between states                                             *)

LEMMA Signers ==
    ASSUME NEW s \in Instances, NEW r \in Rounds
    PROVE  /\ \A e \in s.rounds[r].echoes :
                e[1] \in Proposals /\ e[2] \in Validators /\ e = <<e[1], e[2]>>
           /\ \A e \in s.rounds[r].votes :
                e[1] \in BOOLEAN /\ e[2] \in Validators /\ e = <<e[1], e[2]>>
<1>1. s.rounds[r].echoes \subseteq Proposals \X Validators
      /\ s.rounds[r].votes \subseteq BOOLEAN \X Validators
  BY DEF Instances, RoundStates
<1> QED BY <1>1

LEMMA KeepsTransitive ==
    ASSUME NEW s \in Instances, NEW t \in Instances, NEW u, Keeps(s, t), Keeps(t, u)
    PROVE  Keeps(s, u)
<1>1. ASSUME NEW r \in Rounds, NEW e \in s.rounds[r].echoes
      PROVE  e \in u.rounds[r].echoes \/ u.faults[e[2]] = "Direct"
  BY Signers DEF Keeps
<1>2. ASSUME NEW r \in Rounds, NEW e \in s.rounds[r].votes
      PROVE  e \in u.rounds[r].votes \/ u.faults[e[2]] = "Direct"
  BY Signers DEF Keeps
<1>3. ASSUME NEW v \in Against(u.wal) PROVE v \in Against(s.wal) \/ u.faults[v] = "Direct"
  <2>1. v \in Validators
    BY DEF Against
  <2> QED BY <2>1 DEF Keeps
<1> QED BY <1>1, <1>2, <1>3 DEF Keeps

LEMMA InformedKept ==
    ASSUME NEW s, NEW t, Informed(s), Keeps(s, t)
    PROVE  Informed(t)
<1> SUFFICES ASSUME t.write_wal, NEW v \in Against(t.wal) PROVE t.faults[v] = "Direct"
  BY DEF Informed
<1>1. s.write_wal /\ v \in Validators
  BY DEF Keeps, Against
<1> QED BY <1>1 DEF Keeps, Informed

LEMMA KeepsReflexive == ASSUME NEW s PROVE Keeps(s, s) /\ Stays(s, s) /\ Ends(s, s)
BY DEF Keeps, Stays, Ends

LEMMA StaysTransitive ==
    ASSUME NEW s, NEW t, NEW u, Stays(s, t), Stays(t, u)
    PROVE  Stays(s, u)
<1>1. \A r \in Rounds : Accepted(s, r) => Accepted(t, r)
  BY DEF Stays, Accepted
<1> QED BY <1>1 DEF Stays

LEMMA EndsTransitive ==
    ASSUME NEW s, NEW t, NEW u, Ends(s, t), Ends(t, u)
    PROVE  Ends(s, u)
BY DEF Ends

LEMMA MovesTransitive ==
    ASSUME NEW s, Core(s), NEW t, NEW u, Moves(s, t), Moves(t, u)
    PROVE  Moves(s, u)
<1> s \in Instances /\ t \in Instances
  BY DEF Core, Typed, Moves
<1> QED BY KeepsTransitive DEF Moves

LEMMA RestsTransitive ==
    ASSUME NEW s, NEW t, NEW u, Rests(s, t), Rests(t, u), t.current_round = s.current_round
    PROVE  Rests(s, u)
BY DEF Rests

\* A step that leaves the quorums of votes and the mark alone.
LEMMA SameMarks ==
    ASSUME NEW s, NEW t, t.dirty = s.dirty, SameVotes(s, t),
           \A r \in Rounds : Accepted(t, r) => Accepted(s, r)
    PROVE  Rests(s, t)
BY DEF Rests, SameVotes, Marked, Skippable

LEMMA SameRoundsRest ==
    ASSUME NEW s, NEW t, t.dirty = s.dirty, t.rounds = s.rounds
    PROVE  Rests(s, t) /\ SameVotes(s, t)
BY SameMarks DEF SameVotes, Accepted

LEMMA MildTransitive ==
    ASSUME NEW s, Core(s), NEW t, NEW u, Mild(s, t), Mild(t, u)
    PROVE  Mild(s, u)
<1> s \in Instances /\ t \in Instances
  BY DEF Core, Typed, Mild
<1> QED BY KeepsTransitive, StaysTransitive DEF Mild

LEMMA CalmTransitive ==
    ASSUME NEW s, Core(s), NEW t, NEW u, Calm(s, t), Calm(t, u)
    PROVE  Calm(s, u)
<1>1. t.current_round = s.current_round
  BY DEF Calm, Mild, Stays
<1> QED BY <1>1, MildTransitive, RestsTransitive DEF Calm

LEMMA CalmReflexive == ASSUME NEW s, Core(s) PROVE Calm(s, s)
BY KeepsReflexive DEF Calm, Mild, Rests

LEMMA CalmWatched ==
    ASSUME NEW s, Core(s), NEW t, Stays(s, t), Rests(s, t), Watched(s)
    PROVE  Watched(t)
<1>1. s.current_round \in Rounds /\ t.current_round = s.current_round
  BY DEF Core, Typed, Instances, Stays
<1>2. s.current_round <= s.current_round
  BY <1>1, RoundsAssumption DEF Rounds
<1> QED BY <1>1, <1>2 DEF Watched, Open, Rests

LEMMA StaysAccepted ==
    ASSUME NEW s, NEW t, Stays(s, t), NEW r \in Rounds, Accepted(s, r)
    PROVE  Accepted(t, r) /\ ProposalIn(t, r) = ProposalIn(s, r)
BY DEF Stays, Accepted, ProposalIn

LEMMA StaysEnds ==
    ASSUME NEW s, NEW t, Stays(s, t)
    PROVE  Ends(s, t)
<1> DEFINE r == s.first_non_finalized - 1
<1> SUFFICES ASSUME FinalizedSwitchBlock(s) PROVE FinalizedSwitchBlock(t)
  BY DEF Ends, Stays
<1>1. r \in Rounds /\ (AcceptedSwitchBlock(s, r) \/ AcceptedDummy(s, r))
  BY DEF FinalizedSwitchBlock
<1>2. Accepted(s, r)
  BY <1>1 DEF AcceptedSwitchBlock, AcceptedDummy
<1>3. /\ Accepted(t, r) /\ ProposalIn(t, r) = ProposalIn(s, r)
      /\ t.rounds[r].accepted_height = s.rounds[r].accepted_height
      /\ t.first_non_finalized = s.first_non_finalized
  BY <1>1, <1>2, StaysAccepted DEF Stays
<1>4. AcceptedSwitchBlock(t, r) \/ AcceptedDummy(t, r)
  BY <1>1, <1>3 DEF AcceptedSwitchBlock, AcceptedDummy
<1> QED BY <1>1, <1>3, <1>4 DEF FinalizedSwitchBlock

LEMMA MessagesKept ==
    ASSUME NEW s, NEW t, Keeps(s, t), NEW m \in SignedMessages, HasMessage(s, m)
    PROVE  HasMessage(t, m) \/ t.faults[m.validator] = "Direct"
<1>1. m.round \in Rounds
  BY DEF SignedMessages
<1> QED BY <1>1 DEF Keeps, HasMessage

-----------------------------------------------------------------------------
(* Options                                                                  *)

LEMMA OptionIs ==
    ASSUME NEW S, IsOption(S), NEW x \in S
    PROVE  S = {x} /\ (CHOOSE y \in S : TRUE) = x
BY DEF IsOption

LEMMA TheProposal ==
    ASSUME NEW s, Typed(s), NEW r \in Rounds, s.rounds[r].proposal # {}
    PROVE  /\ s.rounds[r].proposal = {ProposalIn(s, r)}
           /\ ProposalIn(s, r) \in Proposals
           /\ ProposalIn(s, r).parent \in -1 .. r - 1
<1>1. PICK p \in s.rounds[r].proposal : TRUE
  OBVIOUS
<1>2. s.rounds[r].proposal = {p} /\ ProposalIn(s, r) = p
  BY OptionIs DEF Typed, ProposalIn
<1>3. p \in Proposals
  BY DEF Typed, Instances, RoundStates
<1>4. p.parent \in {NoRound} \cup Rounds /\ p.parent < r
  BY <1>3 DEF Typed, Below, Proposals
<1>5. r \in Int /\ p.parent \in Int /\ p.parent >= -1
  BY <1>4, RoundsAssumption DEF Rounds, NoRound
<1> QED BY <1>2, <1>3, <1>4, <1>5

-----------------------------------------------------------------------------
(* What each part of the invariant depends on                               *)

LEMMA SameRounds ==
    ASSUME NEW s, NEW t, t.rounds = s.rounds
    PROVE  /\ \A r : Accepted(t, r) <=> Accepted(s, r)
           /\ \A r : Skippable(t, r) <=> Skippable(s, r)
           /\ \A r : ProposalIn(t, r) = ProposalIn(s, r)
           /\ \A r, p : EchoedBy(t, r, p) = EchoedBy(s, r, p)
           /\ \A r, b : VotedBy(t, r, b) = VotedBy(s, r, b)
           /\ \A m : HasMessage(t, m) <=> HasMessage(s, m)
BY DEF Accepted, Skippable, ProposalIn, EchoedBy, VotedBy, HasMessage

LEMMA SameFaults ==
    ASSUME NEW s, NEW t, t.faults = s.faults
    PROVE  FaultyIn(t) = FaultyIn(s) /\ \A S : IsQuorum(t, S) <=> IsQuorum(s, S)
<1>1. FaultyIn(t) = FaultyIn(s)
  BY DEF FaultyIn
<1> QED BY <1>1 DEF IsQuorum

LEMMA LinkedKept ==
    ASSUME NEW s, NEW t, t.rounds = s.rounds, Linked(s)
    PROVE  Linked(t)
<1> SUFFICES ASSUME NEW r \in Rounds PROVE LinkedAt(t, r)
  BY DEF Linked
<1>1. LinkedAt(s, r)
  BY DEF Linked
<1> HIDE DEF Linked
<1> QED BY <1>1, SameRounds DEF LinkedAt

LEMMA BackedKept ==
    ASSUME NEW s, NEW t, t.rounds = s.rounds, t.faults = s.faults, Backed(s)
    PROVE  Backed(t)
BY SameRounds, SameFaults DEF Backed

LEMMA LowestKept ==
    ASSUME NEW s, NEW t, t.rounds = s.rounds, t.current_round = s.current_round,
           t.evidence_only = s.evidence_only, Lowest(s)
    PROVE  Lowest(t)
BY SameRounds DEF Lowest

LEMMA OwnTyped ==
    ASSUME NEW s \in Instances, NEW m \in Own(s)
    PROVE  m \in SignedMessages /\ m.validator = Us /\ Us \in Validators
BY DEF Own, Instances, SignedMessages

\* Nothing is signed, and the log is neither opened nor shortened.
LEMMA LoggedKept ==
    ASSUME NEW s \in Instances, NEW t, Logged(s), Keeps(s, t), Own(t) = Own(s),
           t.active_validator => s.active_validator /\ t.write_wal /\ t.faults[Us] # "Direct",
           t.write_wal => s.write_wal,
           \A i \in DOMAIN s.wal :
                "signed" \in DOMAIN s.wal[i] => \E j \in DOMAIN t.wal : t.wal[j] = s.wal[i]
    PROVE  Logged(t)
<1>1. t.evidence_only = s.evidence_only /\ t.restarts = s.restarts
  BY DEF Keeps
<1>2. InState(s) => InState(t)
  BY OwnTyped, MessagesKept DEF InState, Keeps
<1>3. InLog(s) => InLog(t)
  BY DEF InLog, SignedEntry
<1> QED BY <1>1, <1>2, <1>3 DEF Logged

\* Quorums are still found where nothing was added.
LEMMA NoticingKept ==
    ASSUME NEW s, NEW t, Noticing(s), t.faults = s.faults, t.evidence_only = s.evidence_only,
           t.first_non_finalized \in Int, s.first_non_finalized \in Int,
           t.first_non_finalized >= s.first_non_finalized,
           \A r \in Rounds :
                /\ t.rounds[r].echoes = s.rounds[r].echoes /\ t.rounds[r].votes = s.rounds[r].votes
                /\ s.rounds[r].quorum_echoes \subseteq t.rounds[r].quorum_echoes
                /\ s.rounds[r].quorum_votes \subseteq t.rounds[r].quorum_votes
    PROVE  Noticing(t)
<1>1. FaultyIn(t) = FaultyIn(s)
  BY DEF FaultyIn
<1>2. \A S : IsQuorum(t, S) <=> IsQuorum(s, S)
  BY <1>1 DEF IsQuorum
<1>3. FttExceeded(t) <=> FttExceeded(s)
  BY <1>1 DEF FttExceeded
<1>4. ASSUME NEW r \in Rounds, Noticed(s, r) PROVE Noticed(t, r)
  <2>1. Echoed(t, r) = Echoed(s, r) /\ \A p : EchoedBy(t, r, p) = EchoedBy(s, r, p)
    BY DEF Echoed, EchoedBy
  <2>2. \A b : VotedBy(t, r, b) = VotedBy(s, r, b)
    BY DEF VotedBy
  <2> QED BY <1>2, <1>4, <2>1, <2>2 DEF Noticed
<1>5. \A r \in Rounds : r \in Int
  BY RoundsAssumption DEF Rounds
<1> QED BY <1>3, <1>4, <1>5 DEF Noticing

\* A step that only touches fields that the invariant says nothing about.
LEMMA Quiet ==
    ASSUME NEW s, Core(s), NEW t \in Instances, t.dirty <= t.current_round,
           t = [s EXCEPT !.dirty = t.dirty, !.current_round_start = t.current_round_start,
                         !.next_scheduled_update = t.next_scheduled_update, !.timers = t.timers,
                         !.requested = t.requested, !.paused = t.paused, !.disk = t.disk,
                         !.lost_timers = t.lost_timers, !.lost_blocks = t.lost_blocks]
    PROVE  Mild(s, t) /\ SameVotes(s, t) /\ (t.dirty = s.dirty => Calm(s, t))
<1> s \in Instances
  BY DEF Core, Typed
<1>1. /\ t.rounds = s.rounds /\ t.faults = s.faults /\ t.active = s.active
      /\ t.first_non_finalized = s.first_non_finalized /\ t.current_round = s.current_round
      /\ t.active_validator = s.active_validator /\ t.evidence_only = s.evidence_only
      /\ t.pending_proposal = s.pending_proposal
      /\ t.waiting_for_parent = s.waiting_for_parent
      /\ t.waiting_for_validation = s.waiting_for_validation
      /\ t.write_wal = s.write_wal /\ t.wal = s.wal /\ t.finalized = s.finalized
      /\ t.bugs = s.bugs /\ t.signed = s.signed /\ t.restarts = s.restarts
  BY ZenonT(60) DEF Instances
<1>2. Keeps(s, t)
  BY <1>1 DEF Keeps, Own
<1>3. Stays(s, t)
  BY <1>1 DEF Stays
<1>4. Typed(t)
  BY <1>1 DEF Core, Typed, Below
<1>5. Settled(t)
  BY <1>1 DEF Core, Settled
<1>6. Backed(t)
  BY <1>1, BackedKept DEF Core
<1>7. Logged(t)
  BY <1>1, <1>2, LoggedKept DEF Core, Logged, Own
<1>8. Linked(t) /\ Lowest(t) /\ Sane(t)
  BY <1>1, LinkedKept, LowestKept DEF Core, Sane
<1>9. Fitting(t)
  BY <1>1 DEF Core, Fitting, FitsQuorum, HeardFrom, Accepted, ProposalIn
<1>10. Noticing(s) => Noticing(t)
  BY <1>1, NoticingKept DEF Instances
<1>11. Mild(s, t)
  BY <1>2, <1>3, <1>4, <1>5, <1>6, <1>7, <1>8, <1>9, <1>10 DEF Core, Mild
<1> QED BY <1>1, <1>11, SameRoundsRest DEF Calm, SameVotes

\* A step that only adds to the rounds, if what it adds is in order.
LEMMA RoundsGrow ==
    ASSUME NEW s, Core(s), NEW t, Typed(t), Settled(t), t = [s EXCEPT !.rounds = t.rounds],
           \A r \in Rounds :
            /\ s.rounds[r].echoes \subseteq t.rounds[r].echoes
            /\ s.rounds[r].votes \subseteq t.rounds[r].votes
            /\ s.rounds[r].quorum_echoes \subseteq t.rounds[r].quorum_echoes
            /\ s.rounds[r].quorum_votes \subseteq t.rounds[r].quorum_votes
            /\ Accepted(s, r) => /\ t.rounds[r].proposal = s.rounds[r].proposal
                                 /\ t.rounds[r].accepted_height = s.rounds[r].accepted_height
            /\ \A p \in t.rounds[r].quorum_echoes :
                    p \notin s.rounds[r].quorum_echoes => IsQuorum(s, EchoedBy(s, r, p))
            /\ \A b \in t.rounds[r].quorum_votes :
                    b \notin s.rounds[r].quorum_votes => IsQuorum(s, VotedBy(s, r, b))
            /\ Accepted(t, r) /\ ~Accepted(s, r) =>
                    LinkedAt(t, r) /\ HeardFrom(s, ProposalIn(t, r))
            /\ \A p \in t.rounds[r].proposal :
                    p \notin s.rounds[r].proposal /\ MaxRestarts = 0 /\ ~s.evidence_only
                        => FitsQuorum(s, p)
    PROVE  Core(t) /\ Keeps(s, t) /\ Stays(s, t)
<1> s \in Instances /\ t \in Instances
  BY DEF Core, Typed
<1>1. /\ t.faults = s.faults /\ t.active = s.active
      /\ t.first_non_finalized = s.first_non_finalized /\ t.current_round = s.current_round
      /\ t.active_validator = s.active_validator /\ t.evidence_only = s.evidence_only
      /\ t.pending_proposal = s.pending_proposal
      /\ t.waiting_for_parent = s.waiting_for_parent
      /\ t.waiting_for_validation = s.waiting_for_validation
      /\ t.write_wal = s.write_wal /\ t.wal = s.wal /\ t.finalized = s.finalized
      /\ t.bugs = s.bugs /\ t.signed = s.signed /\ t.restarts = s.restarts
  BY DEF Instances
<1>2. Keeps(s, t)
  BY <1>1 DEF Keeps, Own
<1>3. Stays(s, t)
  BY <1>1 DEF Stays
<1>4. Backed(t)
  <2> SUFFICES ASSUME NEW r \in Rounds
               PROVE  /\ \A p \in t.rounds[r].quorum_echoes : IsQuorum(t, EchoedBy(t, r, p))
                      /\ \A b \in t.rounds[r].quorum_votes : IsQuorum(t, VotedBy(t, r, b))
    BY DEF Backed
  <2>1. \A p : EchoedBy(s, r, p) \subseteq EchoedBy(t, r, p) /\ EchoedBy(t, r, p) \subseteq Validators
    BY Signers DEF EchoedBy
  <2>2. \A b : VotedBy(s, r, b) \subseteq VotedBy(t, r, b) /\ VotedBy(t, r, b) \subseteq Validators
    BY Signers DEF VotedBy
  <2>3. FaultyIn(s) = FaultyIn(t)
    BY <1>1, SameFaults
  <2>4. ASSUME NEW p \in t.rounds[r].quorum_echoes PROVE IsQuorum(t, EchoedBy(t, r, p))
    <3>1. IsQuorum(s, EchoedBy(s, r, p))
      BY DEF Core, Backed
    <3> QED BY <2>1, <2>3, <3>1, QuorumGrows
  <2>5. ASSUME NEW b \in t.rounds[r].quorum_votes PROVE IsQuorum(t, VotedBy(t, r, b))
    <3>1. IsQuorum(s, VotedBy(s, r, b))
      BY DEF Core, Backed
    <3> QED BY <2>2, <2>3, <3>1, QuorumGrows
  <2> QED BY <2>4, <2>5
<1>5. Logged(t)
  BY <1>1, <1>2, LoggedKept DEF Core, Logged, Own
<1>6. \A r \in Rounds : /\ Accepted(s, r) => Accepted(t, r) /\ ProposalIn(t, r) = ProposalIn(s, r)
                        /\ Skippable(s, r) => Skippable(t, r)
  BY DEF Accepted, ProposalIn, Skippable
<1>7. Linked(t)
  <2> SUFFICES ASSUME NEW r \in Rounds, Accepted(t, r), Accepted(s, r) PROVE LinkedAt(t, r)
    BY DEF Linked, LinkedAt
  <2> DEFINE parent == ProposalIn(s, r).parent
  <2>1. parent \in -1 .. r - 1
    BY TheProposal DEF Core, Accepted
  <2>2. /\ parent # NoRound => Accepted(s, parent)
        /\ s.rounds[r].accepted_height =
                IF parent = NoRound THEN 0 ELSE s.rounds[parent].accepted_height + 1
        /\ \A q \in parent + 1 .. r - 1 : Skippable(s, q)
    BY DEF Core, Linked, LinkedAt
  <2>3. (parent # NoRound => parent \in Rounds) /\ \A q \in parent + 1 .. r - 1 : q \in Rounds
    BY <2>1, RoundsAssumption DEF Rounds, NoRound
  <2>4. ProposalIn(t, r).parent = parent
    BY <1>6
  <2> HIDE DEF parent
  <2>5. t.rounds[r].accepted_height =
            IF parent = NoRound THEN 0 ELSE t.rounds[parent].accepted_height + 1
    BY <2>2, <2>3
  <2>6. /\ parent # NoRound => Accepted(t, parent)
        /\ \A q \in parent + 1 .. r - 1 : Skippable(t, q)
    BY <1>6, <2>2, <2>3
  <2> QED BY <2>4, <2>5, <2>6 DEF LinkedAt
<1>8. Lowest(t) /\ Sane(t)
  <2>1. s.current_round \in Rounds
    BY DEF Instances
  <2>2. \A r \in 0 .. s.current_round - 1 : r \in Rounds
    BY <2>1, RoundsAssumption DEF Rounds
  <2> QED BY <1>1, <1>6, <2>2 DEF Core, Lowest, Sane
<1>9. Fitting(t)
  <2> SUFFICES ASSUME MaxRestarts = 0, ~s.evidence_only PROVE Fitting(t)
    BY <1>1 DEF Fitting
  <2>1. ASSUME NEW p \in Proposals, FitsQuorum(s, p) PROVE FitsQuorum(t, p)
    <3>1. p.parent # NoRound => p.parent \in Rounds
      BY DEF Proposals
    <3> QED BY <2>1, <3>1 DEF FitsQuorum
  <2>2. \A p : HeardFrom(s, p) <=> HeardFrom(t, p)
    BY <1>1 DEF HeardFrom
  <2>3. \A r \in Rounds : \A p \in t.rounds[r].proposal : FitsQuorum(t, p)
    <3> SUFFICES ASSUME NEW r \in Rounds, NEW p \in t.rounds[r].proposal PROVE FitsQuorum(t, p)
      OBVIOUS
    <3>1. p \in Proposals
      BY DEF Instances, RoundStates
    <3>2. FitsQuorum(s, p)
      BY DEF Core, Fitting
    <3> QED BY <2>1, <3>1, <3>2
  <2>4. \A r \in Rounds : Accepted(t, r) => HeardFrom(t, ProposalIn(t, r))
    <3> SUFFICES ASSUME NEW r \in Rounds, Accepted(t, r) PROVE HeardFrom(s, ProposalIn(t, r))
      BY <2>2
    <3> QED BY <1>6 DEF Core, Fitting
  <2>5. \A w \in t.waiting_for_validation : FitsQuorum(t, w.proposal)
    <3> SUFFICES ASSUME NEW w \in s.waiting_for_validation PROVE FitsQuorum(t, w.proposal)
      BY <1>1
    <3>1. w.proposal \in Proposals
      BY DEF Instances
    <3> QED BY <2>1, <3>1 DEF Core, Fitting
  <2>6. ASSUME NEW x \in t.pending_proposal
        PROVE  /\ x.context.timestamp >= StartTimestamp
               /\ x.parent # NoRound =>
                    \E q \in t.rounds[x.parent].quorum_echoes :
                        HeardFrom(t, q) /\ x.context.timestamp >= q.timestamp + MinBlockTime
    <3>1. x \in s.pending_proposal
      BY <1>1, <2>6
    <3>2. x.parent # NoRound => x.parent \in Rounds
      BY <3>1 DEF Instances
    <3> QED BY <2>2, <3>1, <3>2 DEF Core, Fitting
  <2>7. t.wal = <<>>
    BY <1>1 DEF Core, Fitting
  <2> QED BY <2>3, <2>4, <2>5, <2>6, <2>7 DEF Fitting
<1> QED BY <1>2, <1>3, <1>4, <1>5, <1>7, <1>8, <1>9 DEF Core

-----------------------------------------------------------------------------
(* Steps that change one round                                              *)

LEMMA RoundSet ==
    ASSUME NEW s \in Instances, NEW r \in Rounds, NEW x \in RoundStates,
           NEW t, t = [s EXCEPT !.rounds[r] = x]
    PROVE  /\ t \in Instances /\ t = [s EXCEPT !.rounds = t.rounds]
           /\ t.rounds[r] = x /\ \A q \in Rounds : q # r => t.rounds[q] = s.rounds[q]
<1> DEFINE R == [s.rounds EXCEPT ![r] = x]
<1>1. s.rounds \in [Rounds -> RoundStates]
  BY DEF Instances
<1>2. R \in [Rounds -> RoundStates] /\ R[r] = x /\ \A q \in Rounds : q # r => R[q] = s.rounds[q]
  BY <1>1
<1>3. t = [s EXCEPT !.rounds = R]
  OBVIOUS
<1> HIDE DEF R
<1>4. t \in Instances /\ t.rounds = R
  BY <1>2, <1>3, ZenonT(60) DEF Instances
<1> QED BY <1>2, <1>3, <1>4

LEMMA RoundChange ==
    ASSUME NEW s, Core(s), NEW r \in Rounds, NEW x \in RoundStates,
           NEW t \in Instances, t = [s EXCEPT !.rounds = t.rounds],
           t.rounds[r] = x, \A q \in Rounds : q # r => t.rounds[q] = s.rounds[q],
           IsOption(x.proposal), IsOption(x.quorum_echoes), IsOption(x.quorum_votes),
           x.accepted_height <= r, \A p \in x.proposal : p.parent < r,
           x.quorum_echoes # {} => x.proposal \subseteq x.quorum_echoes,
           x.accepted_height # NoRound => x.quorum_echoes # {} /\ x.proposal # {},
           s.rounds[r].echoes \subseteq x.echoes, s.rounds[r].votes \subseteq x.votes,
           s.rounds[r].quorum_echoes \subseteq x.quorum_echoes,
           s.rounds[r].quorum_votes \subseteq x.quorum_votes,
           Accepted(s, r) => /\ x.proposal = s.rounds[r].proposal
                             /\ x.accepted_height = s.rounds[r].accepted_height,
           \A p \in x.quorum_echoes :
                p \notin s.rounds[r].quorum_echoes => IsQuorum(s, EchoedBy(s, r, p)),
           \A b \in x.quorum_votes :
                b \notin s.rounds[r].quorum_votes => IsQuorum(s, VotedBy(s, r, b)),
           Accepted(t, r) /\ ~Accepted(s, r) => LinkedAt(t, r) /\ HeardFrom(s, ProposalIn(t, r)),
           \A p \in x.proposal :
                p \notin s.rounds[r].proposal /\ MaxRestarts = 0 /\ ~s.evidence_only
                    => FitsQuorum(s, p)
    PROVE  Core(t) /\ Keeps(s, t) /\ Stays(s, t)
<1> s \in Instances
  BY DEF Core, Typed
<1>2. /\ t.dirty = s.dirty /\ t.current_round = s.current_round
      /\ t.pending_proposal = s.pending_proposal /\ t.wal = s.wal
      /\ t.waiting_for_parent = s.waiting_for_parent
      /\ t.waiting_for_validation = s.waiting_for_validation
  BY DEF Instances
<1>3. Typed(t)
  <2>1. \A q \in Rounds : /\ IsOption(t.rounds[q].proposal)
                          /\ IsOption(t.rounds[q].quorum_echoes)
                          /\ IsOption(t.rounds[q].quorum_votes)
                          /\ t.rounds[q].accepted_height <= q
    BY DEF Core, Typed
  <2>2. Below(t)
    BY <1>2 DEF Core, Typed, Below
  <2> QED BY <1>2, <2>1, <2>2 DEF Core, Typed
<1>4. Settled(t)
  BY DEF Core, Settled
<1>5. \A q \in Rounds : q # r => /\ Accepted(t, q) <=> Accepted(s, q)
                                 /\ t.rounds[q] = s.rounds[q]
  BY DEF Accepted
<1>6. ASSUME NEW q \in Rounds
      PROVE  /\ s.rounds[q].echoes \subseteq t.rounds[q].echoes
             /\ s.rounds[q].votes \subseteq t.rounds[q].votes
             /\ s.rounds[q].quorum_echoes \subseteq t.rounds[q].quorum_echoes
             /\ s.rounds[q].quorum_votes \subseteq t.rounds[q].quorum_votes
             /\ Accepted(s, q) => /\ t.rounds[q].proposal = s.rounds[q].proposal
                                  /\ t.rounds[q].accepted_height = s.rounds[q].accepted_height
             /\ \A p \in t.rounds[q].quorum_echoes :
                    p \notin s.rounds[q].quorum_echoes => IsQuorum(s, EchoedBy(s, q, p))
             /\ \A b \in t.rounds[q].quorum_votes :
                    b \notin s.rounds[q].quorum_votes => IsQuorum(s, VotedBy(s, q, b))
             /\ Accepted(t, q) /\ ~Accepted(s, q) =>
                    LinkedAt(t, q) /\ HeardFrom(s, ProposalIn(t, q))
             /\ \A p \in t.rounds[q].proposal :
                    p \notin s.rounds[q].proposal /\ MaxRestarts = 0 /\ ~s.evidence_only
                        => FitsQuorum(s, p)
  BY <1>5
<1> QED BY <1>3, <1>4, <1>6, RoundsGrow

-----------------------------------------------------------------------------
(* Adding signatures                                                        *)

LEMMA MarkDirtyCalm ==
    ASSUME NEW s, Core(s), NEW r \in Nat
    PROVE  /\ Calm(s, MarkDirty(s, r))
           /\ MarkDirty(s, r) = [s EXCEPT !.dirty = MarkDirty(s, r).dirty]
           /\ r <= s.current_round => Marked(MarkDirty(s, r), r)
<1> DEFINE t == MarkDirty(s, r)
<1> s \in Instances
  BY DEF Core, Typed
<1>1. CASE r <= s.current_round /\ (s.dirty = NoRound \/ r < s.dirty)
  <2>1. t = [s EXCEPT !.dirty = r]
    BY <1>1 DEF MarkDirty
  <2>2. r \in Rounds
    BY <1>1, RoundsAssumption DEF Instances, Rounds
  <2>3. t \in Instances
    BY <2>1, <2>2, ZenonT(60) DEF Instances
  <2>4. t.dirty = r /\ t.current_round = s.current_round /\ t = [s EXCEPT !.dirty = t.dirty]
    BY <2>1 DEF Instances
  <2>5. t = [s EXCEPT !.dirty = t.dirty, !.current_round_start = t.current_round_start,
                      !.next_scheduled_update = t.next_scheduled_update, !.timers = t.timers,
                      !.requested = t.requested, !.paused = t.paused, !.disk = t.disk,
                      !.lost_timers = t.lost_timers, !.lost_blocks = t.lost_blocks]
    BY <2>1 DEF Instances
  <2> HIDE DEF t
  <2>6. Mild(s, t) /\ SameVotes(s, t)
    BY <1>1, <2>3, <2>4, <2>5, Quiet
  <2>7. Marked(t, r)
    BY <2>2, <2>4, RoundsAssumption DEF Marked, Rounds, NoRound
  <2>8. Rests(s, t)
    <3>1. \A q \in Rounds : Accepted(t, q) => Accepted(s, q)
      BY <2>1, <2>3 DEF Accepted, Instances, t
    <3>2. \A q \in Rounds : Marked(s, q) => Marked(t, q)
      <4>1. s.dirty \in Int
        BY RoundsAssumption DEF Instances, Rounds, NoRound
      <4> QED BY <1>1, <2>4, <2>7, <4>1, RoundsAssumption DEF Marked, Rounds
    <3> QED BY <2>6, <3>1, <3>2 DEF Rests, SameVotes, Skippable
  <2> QED BY <2>4, <2>6, <2>7, <2>8 DEF t, Calm
<1>2. CASE ~(r <= s.current_round /\ (s.dirty = NoRound \/ r < s.dirty))
  <2>1. t = s
    BY <1>2 DEF MarkDirty
  <2>2. r <= s.current_round => Marked(s, r)
    BY <1>2, RoundsAssumption DEF Marked, Instances, Rounds, NoRound
  <2> QED BY <2>1, <2>2, CalmReflexive DEF Instances
<1> QED BY <1>1, <1>2

\* s and t have the same signatures in all rounds, and differ in no field but
\* the rounds and dirty.
SameSignatures(s, t) ==
    /\ t = [s EXCEPT !.rounds = t.rounds, !.dirty = t.dirty]
    /\ \A r \in Rounds : /\ t.rounds[r].echoes = s.rounds[r].echoes
                         /\ t.rounds[r].votes = s.rounds[r].votes
                         /\ s.rounds[r].quorum_echoes \subseteq t.rounds[r].quorum_echoes
                         /\ s.rounds[r].quorum_votes \subseteq t.rounds[r].quorum_votes

LEMMA CheckNewEchoQuorumCalm ==
    ASSUME NEW s, Core(s), NEW r \in Rounds, NEW p \in Proposals
    PROVE  LET t == CheckNewEchoQuorum(s, r, p)
           IN  /\ Calm(s, t) /\ SameSignatures(s, t) /\ SameVotes(s, t)
               /\ IsQuorum(s, EchoedBy(s, r, p)) => t.rounds[r].quorum_echoes # {}
<1> DEFINE t == CheckNewEchoQuorum(s, r, p)
           x == [s.rounds[r] EXCEPT !.quorum_echoes = {p}, !.proposal = @ \cap {p}]
           u == [s EXCEPT !.rounds[r] = x]
<1> s \in Instances
  BY DEF Core, Typed
<1> s.rounds[r] \in RoundStates /\ r \in Nat
  BY RoundsAssumption DEF Instances, Rounds
<1>1. CASE s.rounds[r].quorum_echoes = {} /\ IsQuorum(s, EchoedBy(s, r, p))
  <2>1. t = MarkDirty(u, r)
    <3>1. [s EXCEPT !.rounds[r].quorum_echoes = {p}, !.rounds[r].proposal = @ \cap {p}] = u
      BY ZenonT(60) DEF Instances, RoundStates
    <3> QED BY <1>1, <3>1 DEF CheckNewEchoQuorum
  <2>2. /\ x \in RoundStates /\ x.echoes = s.rounds[r].echoes /\ x.votes = s.rounds[r].votes
        /\ x.quorum_echoes = {p} /\ x.quorum_votes = s.rounds[r].quorum_votes
        /\ x.proposal = s.rounds[r].proposal \cap {p}
        /\ x.accepted_height = s.rounds[r].accepted_height
    BY DEF RoundStates
  <2> HIDE DEF x
  <2>3. /\ u \in Instances /\ u = [s EXCEPT !.rounds = u.rounds]
        /\ u.rounds[r] = x /\ \A q \in Rounds : q # r => u.rounds[q] = s.rounds[q]
    BY <2>2, RoundSet
  <2> HIDE DEF u, t
  <2>4. s.rounds[r].accepted_height = NoRound
    BY <1>1 DEF Core, Settled
  <2>5. ~Accepted(s, r) /\ ~Accepted(u, r)
    BY <2>2, <2>3, <2>4 DEF Accepted
  <2>6. /\ IsOption(x.proposal) /\ IsOption(x.quorum_echoes) /\ IsOption(x.quorum_votes)
        /\ x.accepted_height <= r /\ \A q \in x.proposal : q.parent < r
    BY <2>2 DEF Core, Typed, IsOption, Below
  <2>7. Core(u) /\ Keeps(s, u) /\ Stays(s, u)
    BY <1>1, <2>2, <2>3, <2>4, <2>5, <2>6, RoundChange
  <2>8. /\ u.faults = s.faults /\ u.evidence_only = s.evidence_only
        /\ u.first_non_finalized = s.first_non_finalized /\ s.first_non_finalized \in Int
    BY <2>3 DEF Instances
  <2>9. \A q \in Rounds : /\ u.rounds[q].echoes = s.rounds[q].echoes
                          /\ u.rounds[q].votes = s.rounds[q].votes
                          /\ s.rounds[q].quorum_echoes \subseteq u.rounds[q].quorum_echoes
                          /\ s.rounds[q].quorum_votes \subseteq u.rounds[q].quorum_votes
    BY <1>1, <2>2, <2>3
  <2>10. Mild(s, u)
    BY <2>7, <2>8, <2>9, NoticingKept DEF Mild
  <2>11. Calm(u, t) /\ t = [u EXCEPT !.dirty = t.dirty]
    BY <2>1, <2>7, MarkDirtyCalm
  <2>12. t.rounds = u.rounds
    BY <2>3, <2>11 DEF Instances
  <2>13. t = [s EXCEPT !.rounds = t.rounds, !.dirty = t.dirty]
    BY <2>3, <2>11 DEF Instances
  <2>14. SameVotes(s, u) /\ SameVotes(s, t)
    BY <2>2, <2>3, <2>12 DEF SameVotes
  <2>15. Calm(s, u)
    <3>1. u.dirty = s.dirty
      BY <2>3 DEF Instances
    <3>2. \A q \in Rounds : Accepted(u, q) => Accepted(s, q)
      BY <2>3, <2>5 DEF Accepted
    <3> QED BY <2>10, <2>14, <3>1, <3>2, SameMarks DEF Calm
  <2>16. Calm(s, t)
    BY <2>11, <2>15, CalmTransitive
  <2> QED BY <2>2, <2>3, <2>9, <2>12, <2>13, <2>14, <2>16 DEF SameSignatures, t
<1>2. CASE ~(s.rounds[r].quorum_echoes = {} /\ IsQuorum(s, EchoedBy(s, r, p)))
  <2>1. t = s
    BY <1>2 DEF CheckNewEchoQuorum
  <2>2. s = [s EXCEPT !.rounds = s.rounds, !.dirty = s.dirty]
    BY DEF Instances
  <2> QED BY <1>2, <2>1, <2>2, CalmReflexive DEF SameSignatures, SameVotes
<1> QED BY <1>1, <1>2

LEMMA CheckNewVoteQuorumCalm ==
    ASSUME NEW s, Core(s), NEW r \in Rounds, NEW b \in BOOLEAN
    PROVE  LET t == CheckNewVoteQuorum(s, r, b)
           IN  /\ Calm(s, t) /\ SameSignatures(s, t)
               /\ IsQuorum(s, VotedBy(s, r, b)) => t.rounds[r].quorum_votes # {}
<1> DEFINE t == CheckNewVoteQuorum(s, r, b)
           x == [s.rounds[r] EXCEPT !.quorum_votes = {b}]
           u == [s EXCEPT !.rounds[r] = x]
<1> s \in Instances
  BY DEF Core, Typed
<1> s.rounds[r] \in RoundStates /\ r \in Nat
  BY RoundsAssumption DEF Instances, Rounds
<1>1. CASE s.rounds[r].quorum_votes = {} /\ IsQuorum(s, VotedBy(s, r, b))
  <2>1. t = MarkDirty(u, r)
    <3>1. [s EXCEPT !.rounds[r].quorum_votes = {b}] = u
      BY DEF Instances, RoundStates
    <3> QED BY <1>1, <3>1 DEF CheckNewVoteQuorum
  <2>2. /\ x \in RoundStates /\ x.echoes = s.rounds[r].echoes /\ x.votes = s.rounds[r].votes
        /\ x.quorum_echoes = s.rounds[r].quorum_echoes /\ x.quorum_votes = {b}
        /\ x.proposal = s.rounds[r].proposal
        /\ x.accepted_height = s.rounds[r].accepted_height
    BY DEF RoundStates
  <2> HIDE DEF x
  <2>3. /\ u \in Instances /\ u = [s EXCEPT !.rounds = u.rounds]
        /\ u.rounds[r] = x /\ \A q \in Rounds : q # r => u.rounds[q] = s.rounds[q]
    BY <2>2, RoundSet
  <2> HIDE DEF u, t
  <2>5. Accepted(u, r) <=> Accepted(s, r)
    BY <2>2, <2>3 DEF Accepted
  <2>6. /\ IsOption(x.proposal) /\ IsOption(x.quorum_echoes) /\ IsOption(x.quorum_votes)
        /\ x.accepted_height <= r /\ \A q \in x.proposal : q.parent < r
        /\ x.quorum_echoes # {} => x.proposal \subseteq x.quorum_echoes
        /\ x.accepted_height # NoRound => x.quorum_echoes # {} /\ x.proposal # {}
    BY <2>2 DEF Core, Typed, IsOption, Below, Settled
  <2>7. Core(u) /\ Keeps(s, u) /\ Stays(s, u)
    BY <1>1, <2>2, <2>3, <2>5, <2>6, RoundChange
  <2>8. /\ u.faults = s.faults /\ u.evidence_only = s.evidence_only
        /\ u.first_non_finalized = s.first_non_finalized /\ s.first_non_finalized \in Int
    BY <2>3 DEF Instances
  <2>9. \A q \in Rounds : /\ u.rounds[q].echoes = s.rounds[q].echoes
                          /\ u.rounds[q].votes = s.rounds[q].votes
                          /\ s.rounds[q].quorum_echoes \subseteq u.rounds[q].quorum_echoes
                          /\ s.rounds[q].quorum_votes \subseteq u.rounds[q].quorum_votes
    BY <1>1, <2>2, <2>3
  <2>10. Mild(s, u)
    BY <2>7, <2>8, <2>9, NoticingKept DEF Mild
  <2>11. /\ Calm(u, t) /\ t = [u EXCEPT !.dirty = t.dirty]
         /\ r <= u.current_round => Marked(t, r)
    BY <2>1, <2>7, MarkDirtyCalm
  <2>12. t.rounds = u.rounds /\ u.dirty = s.dirty /\ u.current_round = s.current_round
    BY <2>3, <2>11 DEF Instances
  <2>13. t = [s EXCEPT !.rounds = t.rounds, !.dirty = t.dirty]
    BY <2>3, <2>11 DEF Instances
  <2>14. Mild(s, t)
    BY <2>10, <2>11, MildTransitive DEF Calm
  <2>15. Rests(s, t)
    <3>1. \A q \in Rounds : Marked(s, q) => Marked(t, q)
      BY <2>11, <2>12 DEF Marked, Calm, Rests
    <3>2. \A q \in Rounds : Accepted(t, q) => Accepted(s, q)
      BY <2>3, <2>5, <2>12 DEF Accepted
    <3>3. \A q \in Rounds : q # r /\ Skippable(t, q) => Skippable(s, q)
      BY <2>3, <2>12 DEF Skippable
    <3> QED BY <2>11, <2>12, <3>1, <3>2, <3>3 DEF Rests
  <2> QED BY <2>2, <2>3, <2>9, <2>12, <2>13, <2>14, <2>15 DEF SameSignatures, Calm, t
<1>2. CASE ~(s.rounds[r].quorum_votes = {} /\ IsQuorum(s, VotedBy(s, r, b)))
  <2>1. t = s
    BY <1>2 DEF CheckNewVoteQuorum
  <2>2. s = [s EXCEPT !.rounds = s.rounds, !.dirty = s.dirty]
    BY DEF Instances
  <2> QED BY <1>2, <2>1, <2>2, CalmReflexive DEF SameSignatures
<1> QED BY <1>1, <1>2

-----------------------------------------------------------------------------
(* Steps that leave the rounds alone                                        *)

LEMMA FieldsChange ==
    ASSUME NEW s, Core(s), NEW t, Typed(t), Logged(t), Lowest(t), Sane(t),
           t.rounds = s.rounds, t.evidence_only = s.evidence_only,
           MaxRestarts = 0 => t.wal = s.wal,
           \A v \in Validators :
               /\ s.faults[v] # "None" => t.faults[v] # "None"
               /\ s.active[v] # NoRound => t.active[v] # NoRound \/ t.faults[v] # "None",
           \A w \in t.waiting_for_validation :
               w \in s.waiting_for_validation \/ FitsQuorum(s, w.proposal),
           MaxRestarts = 0 /\ ~s.evidence_only =>
               \A x \in t.pending_proposal :
                   \/ x \in s.pending_proposal
                   \/ /\ x.context.timestamp >= StartTimestamp
                      /\ x.parent # NoRound =>
                           \E q \in s.rounds[x.parent].quorum_echoes :
                               HeardFrom(s, q) /\ x.context.timestamp >= q.timestamp + MinBlockTime
    PROVE  Core(t)
<1> s \in Instances /\ t \in Instances
  BY DEF Core, Typed
<1>1. Settled(t)
  BY DEF Core, Settled
<1>2. Backed(t)
  <2>1. FaultyIn(s) \subseteq FaultyIn(t)
    BY DEF FaultyIn
  <2>2. ASSUME NEW r \in Rounds, NEW p \in t.rounds[r].quorum_echoes
        PROVE  IsQuorum(t, EchoedBy(t, r, p))
    <3>1. IsQuorum(s, EchoedBy(s, r, p))
      BY <2>2 DEF Core, Backed
    <3>2. EchoedBy(t, r, p) = EchoedBy(s, r, p) /\ EchoedBy(t, r, p) \subseteq Validators
      BY Signers DEF EchoedBy
    <3> QED BY <2>1, <3>1, <3>2, QuorumGrows
  <2>3. ASSUME NEW r \in Rounds, NEW b \in t.rounds[r].quorum_votes
        PROVE  IsQuorum(t, VotedBy(t, r, b))
    <3>1. IsQuorum(s, VotedBy(s, r, b))
      BY <2>3 DEF Core, Backed
    <3>2. VotedBy(t, r, b) = VotedBy(s, r, b) /\ VotedBy(t, r, b) \subseteq Validators
      BY Signers DEF VotedBy
    <3> QED BY <2>1, <3>1, <3>2, QuorumGrows
  <2> QED BY <2>2, <2>3 DEF Backed
<1>3. Linked(t)
  BY LinkedKept DEF Core
<1>4. Fitting(t)
  <2> SUFFICES ASSUME MaxRestarts = 0, ~s.evidence_only PROVE Fitting(t)
    BY DEF Fitting
  <2>1. \A p : FitsQuorum(s, p) <=> FitsQuorum(t, p)
    BY DEF FitsQuorum
  <2>2. \A p : HeardFrom(s, p) => HeardFrom(t, p)
    BY DEF HeardFrom
  <2>3. t.wal = <<>>
    BY DEF Core, Fitting
  <2>4. \A r \in Rounds : \A p \in t.rounds[r].proposal : FitsQuorum(t, p)
    BY <2>1 DEF Core, Fitting
  <2>5. \A r \in Rounds : Accepted(t, r) => HeardFrom(t, ProposalIn(t, r))
    BY <2>2, SameRounds DEF Core, Fitting
  <2>6. \A w \in t.waiting_for_validation : FitsQuorum(t, w.proposal)
    BY <2>1 DEF Core, Fitting
  <2>7. ASSUME NEW x \in t.pending_proposal
        PROVE  /\ x.context.timestamp >= StartTimestamp
               /\ x.parent # NoRound =>
                    \E q \in t.rounds[x.parent].quorum_echoes :
                        HeardFrom(t, q) /\ x.context.timestamp >= q.timestamp + MinBlockTime
    <3>1. /\ x.context.timestamp >= StartTimestamp
          /\ x.parent # NoRound =>
               \E q \in s.rounds[x.parent].quorum_echoes :
                   HeardFrom(s, q) /\ x.context.timestamp >= q.timestamp + MinBlockTime
      BY <2>7 DEF Core, Fitting
    <3> QED BY <2>2, <3>1
  <2> QED BY <2>3, <2>4, <2>5, <2>6, <2>7 DEF Fitting
<1> QED BY <1>1, <1>2, <1>3, <1>4 DEF Core

\* The same, if nothing is signed and nobody turns faulty.
LEMMA FieldsCalm ==
    ASSUME NEW s, Core(s), NEW t \in Instances,
           t.rounds = s.rounds, t.faults = s.faults, t.current_round = s.current_round,
           t.first_non_finalized = s.first_non_finalized, t.finalized = s.finalized,
           t.evidence_only = s.evidence_only, t.restarts = s.restarts, t.signed = s.signed,
           t.bugs = s.bugs, t.dirty = s.dirty,
           IsOption(t.pending_proposal), Below(t),
           IsFiniteSet(t.waiting_for_parent), IsFiniteSet(t.waiting_for_validation),
           t.active_validator => s.active_validator /\ t.write_wal,
           t.write_wal => s.write_wal, ~s.write_wal => t.wal = s.wal,
           MaxRestarts = 0 => t.wal = s.wal,
           \A i \in DOMAIN s.wal :
                "signed" \in DOMAIN s.wal[i] => \E j \in DOMAIN t.wal : t.wal[j] = s.wal[i],
           \A v \in Against(t.wal) : v \in Against(s.wal) \/ s.faults[v] = "Direct",
           \A v \in Validators : s.active[v] # NoRound => t.active[v] # NoRound,
           \A w \in t.waiting_for_validation :
               w \in s.waiting_for_validation \/ FitsQuorum(s, w.proposal),
           MaxRestarts = 0 /\ ~s.evidence_only =>
               \A x \in t.pending_proposal :
                   \/ x \in s.pending_proposal
                   \/ /\ x.context.timestamp >= StartTimestamp
                      /\ x.parent # NoRound =>
                           \E q \in s.rounds[x.parent].quorum_echoes :
                               HeardFrom(s, q) /\ x.context.timestamp >= q.timestamp + MinBlockTime
    PROVE  Calm(s, t)
<1> s \in Instances
  BY DEF Core, Typed
<1>1. Keeps(s, t) /\ Own(t) = Own(s)
  <2>1. Own(t) = Own(s)
    BY DEF Own
  <2> QED BY <2>1 DEF Keeps
<1>2. Stays(s, t)
  BY DEF Stays
<1>3. Typed(t)
  BY DEF Core, Typed
<1>4. Logged(t)
  <2>1. t.active_validator => s.active_validator /\ t.write_wal /\ t.faults[Us] # "Direct"
    BY DEF Core, Logged
  <2> QED BY <1>1, <2>1, LoggedKept DEF Core
<1>5. Lowest(t) /\ Sane(t)
  BY LowestKept DEF Core, Sane
<1>6. Core(t)
  BY <1>3, <1>4, <1>5, FieldsChange
<1>7. Noticing(s) => Noticing(t)
  <2>1. s.first_non_finalized \in Int
    BY DEF Instances
  <2> QED BY <2>1, NoticingKept
<1> QED BY <1>1, <1>2, <1>6, <1>7, SameRoundsRest DEF Calm, Mild

\* Only what changes with a signature.
SignsOnly(s, t) == t = [s EXCEPT !.rounds = t.rounds, !.dirty = t.dirty, !.active = t.active]

LEMMA NoteActiveCalm ==
    ASSUME NEW s, Core(s), NEW m \in SignedMessages
    PROVE  LET t == NoteActive(s, m)
           IN  Calm(s, t) /\ t = [s EXCEPT !.active = t.active, !.dirty = t.dirty]
<1> DEFINE u == IF s.active[m.validator] = NoRound
                THEN MarkDirty(s, s.first_non_finalized) ELSE s
           t == [u EXCEPT !.active[m.validator] = m.round]
<1> s \in Instances /\ m.round \in Rounds /\ m.validator \in Validators
  BY DEF Core, Typed, SignedMessages
<1>1. CASE s.active[m.validator] >= m.round
  <2>1. NoteActive(s, m) = s
    BY <1>1 DEF NoteActive
  <2>2. s = [s EXCEPT !.active = s.active, !.dirty = s.dirty]
    BY DEF Instances
  <2> QED BY <2>1, <2>2, CalmReflexive
<1>2. CASE ~(s.active[m.validator] >= m.round)
  <2>1. NoteActive(s, m) = t
    BY <1>2 DEF NoteActive
  <2>2. s.first_non_finalized \in Nat
    BY DEF Instances
  <2>3. Calm(s, u) /\ u = [s EXCEPT !.dirty = u.dirty]
    <3>1. CASE s.active[m.validator] = NoRound
      BY <3>1, <2>2, MarkDirtyCalm
    <3>2. CASE s.active[m.validator] # NoRound
      BY <3>2, CalmReflexive DEF Instances
    <3> QED BY <3>1, <3>2
  <2> HIDE DEF u
  <2>4. Core(u) /\ u \in Instances
    BY <2>3 DEF Calm, Mild, Core, Typed
  <2>5. t \in Instances
    BY <2>4, ZenonT(60) DEF Instances
  <2>6. /\ t.rounds = u.rounds /\ t.faults = u.faults /\ t.current_round = u.current_round
        /\ t.first_non_finalized = u.first_non_finalized /\ t.finalized = u.finalized
        /\ t.evidence_only = u.evidence_only /\ t.restarts = u.restarts /\ t.signed = u.signed
        /\ t.bugs = u.bugs /\ t.dirty = u.dirty /\ t.pending_proposal = u.pending_proposal
        /\ t.waiting_for_parent = u.waiting_for_parent
        /\ t.waiting_for_validation = u.waiting_for_validation
        /\ t.active_validator = u.active_validator
        /\ t.write_wal = u.write_wal /\ t.wal = u.wal
    BY <2>4 DEF Instances
  <2>7. \A v \in Validators : u.active[v] # NoRound => t.active[v] # NoRound
    <3>1. m.round # NoRound
      BY DEF Rounds, NoRound
    <3> QED BY <2>4, <3>1 DEF Instances
  <2>8. t = [s EXCEPT !.active = t.active, !.dirty = t.dirty]
    BY <2>3, <2>4 DEF Instances
  <2> HIDE DEF t
  <2>9. Below(t)
    BY <2>4, <2>6 DEF Core, Typed, Below
  <2>10. /\ u.dirty <= u.current_round /\ IsOption(u.pending_proposal)
         /\ IsFiniteSet(u.waiting_for_parent) /\ IsFiniteSet(u.waiting_for_validation)
         /\ u.active_validator => u.write_wal
    BY <2>4 DEF Core, Typed, Logged
  <2>11. Calm(u, t)
    BY <2>4, <2>5, <2>6, <2>7, <2>9, <2>10, FieldsCalm
  <2> QED BY <2>1, <2>3, <2>8, <2>11, CalmTransitive
<1> QED BY <1>1, <1>2

AddEcho(s, r, p, v) ==
    CheckNewEchoQuorum([s EXCEPT !.rounds[r].echoes = @ \cup {<<p, v>>}], r, p)

LEMMA AddEchoCalm ==
    ASSUME NEW s, Core(s), NEW r \in Rounds, NEW p \in Proposals, NEW v \in Validators
    PROVE  LET t == AddEcho(s, r, p, v)
           IN  /\ Calm(s, t) /\ <<p, v>> \in t.rounds[r].echoes
               /\ SignsOnly(s, t) /\ SameVotes(s, t)
<1> DEFINE x == [s.rounds[r] EXCEPT !.echoes = @ \cup {<<p, v>>}]
           u == [s EXCEPT !.rounds[r] = x]
           t == CheckNewEchoQuorum(u, r, p)
<1> s \in Instances
  BY DEF Core, Typed
<1> s.rounds[r] \in RoundStates /\ r \in Nat
  BY RoundsAssumption DEF Instances, Rounds
<1>1. [s EXCEPT !.rounds[r].echoes = @ \cup {<<p, v>>}] = u
  BY DEF Instances, RoundStates
<1>2. /\ x \in RoundStates /\ x.votes = s.rounds[r].votes
      /\ x.quorum_echoes = s.rounds[r].quorum_echoes /\ x.quorum_votes = s.rounds[r].quorum_votes
      /\ x.proposal = s.rounds[r].proposal
      /\ x.accepted_height = s.rounds[r].accepted_height
      /\ x.echoes = s.rounds[r].echoes \cup {<<p, v>>}
  <2>1. <<p, v>> \in Proposals \X Validators
    OBVIOUS
  <2> QED BY <2>1 DEF RoundStates
<1> HIDE DEF x
<1>3. /\ u \in Instances /\ u = [s EXCEPT !.rounds = u.rounds]
      /\ u.rounds[r] = x /\ \A q \in Rounds : q # r => u.rounds[q] = s.rounds[q]
  BY <1>2, RoundSet
<1> HIDE DEF u
<1>4. Accepted(u, r) <=> Accepted(s, r)
  BY <1>2, <1>3 DEF Accepted
<1>5. /\ IsOption(x.proposal) /\ IsOption(x.quorum_echoes) /\ IsOption(x.quorum_votes)
      /\ x.accepted_height <= r /\ \A q \in x.proposal : q.parent < r
      /\ x.quorum_echoes # {} => x.proposal \subseteq x.quorum_echoes
      /\ x.accepted_height # NoRound => x.quorum_echoes # {} /\ x.proposal # {}
  BY <1>2 DEF Core, Typed, IsOption, Below, Settled
<1>6. Core(u) /\ Keeps(s, u) /\ Stays(s, u)
  BY <1>2, <1>3, <1>4, <1>5, RoundChange
<1>7. /\ Calm(u, t) /\ SameSignatures(u, t) /\ SameVotes(u, t)
      /\ IsQuorum(u, EchoedBy(u, r, p)) => t.rounds[r].quorum_echoes # {}
  BY <1>6, CheckNewEchoQuorumCalm
<1> HIDE DEF t
<1>8. Core(t) /\ Keeps(s, t) /\ Stays(s, t) /\ Rests(s, t)
  <2>1. Core(t) /\ Keeps(s, t) /\ Stays(s, t)
    BY <1>3, <1>6, <1>7, KeepsTransitive, StaysTransitive DEF Calm, Mild
  <2>2. u.dirty = s.dirty /\ u.current_round = s.current_round
    BY <1>3 DEF Instances
  <2>3. SameVotes(s, u) /\ \A q \in Rounds : Accepted(u, q) => Accepted(s, q)
    BY <1>2, <1>3, <1>4 DEF SameVotes, Accepted
  <2>4. Rests(s, u)
    BY <2>2, <2>3, SameMarks
  <2> QED BY <1>7, <2>1, <2>2, <2>4, RestsTransitive DEF Calm
<1>9. t = [s EXCEPT !.rounds = t.rounds, !.dirty = t.dirty]
  BY <1>3, <1>7 DEF Instances, SameSignatures
<1>10. <<p, v>> \in t.rounds[r].echoes
  BY <1>2, <1>3, <1>7 DEF SameSignatures
<1>11. ASSUME Noticing(s) PROVE Noticing(t)
  <2>1. /\ t.faults = s.faults /\ t.evidence_only = s.evidence_only
        /\ t.first_non_finalized = s.first_non_finalized /\ u.faults = s.faults
    BY <1>3, <1>9 DEF Instances
  <2>2. FttExceeded(t) <=> FttExceeded(s)
    BY <2>1, SameFaults DEF FttExceeded
  <2>3. \A S : /\ IsQuorum(t, S) <=> IsQuorum(s, S)
               /\ IsQuorum(u, S) <=> IsQuorum(s, S)
    BY <2>1, SameFaults
  <2>4. ASSUME NEW q \in Rounds, Noticed(s, q) PROVE Noticed(t, q)
    <3>1. \A b : VotedBy(t, q, b) = VotedBy(s, q, b)
      BY <1>2, <1>3, <1>7 DEF SameSignatures, VotedBy
    <3>2. /\ s.rounds[q].quorum_echoes \subseteq t.rounds[q].quorum_echoes
          /\ s.rounds[q].quorum_votes \subseteq t.rounds[q].quorum_votes
      BY <1>2, <1>3, <1>7 DEF SameSignatures
    <3>3. CASE q # r
      <4>1. Echoed(t, q) = Echoed(s, q) /\ \A o : EchoedBy(t, q, o) = EchoedBy(s, q, o)
        BY <1>3, <1>7, <3>3 DEF SameSignatures, Echoed, EchoedBy
      <4> QED BY <2>3, <2>4, <3>1, <3>2, <4>1 DEF Noticed
    <3>4. CASE q = r
      <4>1. t.rounds[r].echoes = s.rounds[r].echoes \cup {<<p, v>>}
            /\ u.rounds[r].echoes = s.rounds[r].echoes \cup {<<p, v>>}
        BY <1>2, <1>3, <1>7 DEF SameSignatures
      <4>2. \A o : o # p /\ o \in Echoed(t, r) =>
                    o \in Echoed(s, r) /\ EchoedBy(t, r, o) = EchoedBy(s, r, o)
        BY <4>1 DEF Echoed, EchoedBy
      <4>3. EchoedBy(t, r, p) = EchoedBy(u, r, p)
        BY <4>1 DEF EchoedBy
      <4>4. ASSUME NEW o \in Echoed(t, r), IsQuorum(t, EchoedBy(t, r, o))
            PROVE  t.rounds[r].quorum_echoes # {}
        <5>1. CASE o = p
          BY <1>7, <2>3, <4>3, <4>4, <5>1
        <5>2. CASE o # p
          BY <2>3, <2>4, <3>2, <3>4, <4>2, <4>4, <5>2 DEF Noticed
        <5> QED BY <5>1, <5>2
      <4> QED BY <2>3, <2>4, <3>1, <3>2, <3>4, <4>4 DEF Noticed
    <3> QED BY <3>3, <3>4
  <2> QED BY <1>11, <2>1, <2>2, <2>4 DEF Noticing
<1>12. SignsOnly(s, t)
  BY <1>9 DEF SignsOnly, Instances
<1>13. SameVotes(s, t)
  BY <1>2, <1>3, <1>7 DEF SameVotes
<1> QED BY <1>1, <1>8, <1>10, <1>11, <1>12, <1>13 DEF Calm, Mild, AddEcho, t

AddVote(s, r, b, v) ==
    CheckNewVoteQuorum([s EXCEPT !.rounds[r].votes = @ \cup {<<b, v>>}], r, b)

LEMMA AddVoteCalm ==
    ASSUME NEW s, Core(s), NEW r \in Rounds, NEW b \in BOOLEAN, NEW v \in Validators
    PROVE  LET t == AddVote(s, r, b, v)
           IN  /\ Calm(s, t) /\ <<b, v>> \in t.rounds[r].votes
               /\ SignsOnly(s, t)
<1> DEFINE x == [s.rounds[r] EXCEPT !.votes = @ \cup {<<b, v>>}]
           u == [s EXCEPT !.rounds[r] = x]
           t == CheckNewVoteQuorum(u, r, b)
<1> s \in Instances
  BY DEF Core, Typed
<1> s.rounds[r] \in RoundStates /\ r \in Nat
  BY RoundsAssumption DEF Instances, Rounds
<1>1. [s EXCEPT !.rounds[r].votes = @ \cup {<<b, v>>}] = u
  BY DEF Instances, RoundStates
<1>2. /\ x \in RoundStates /\ x.echoes = s.rounds[r].echoes
      /\ x.quorum_echoes = s.rounds[r].quorum_echoes /\ x.quorum_votes = s.rounds[r].quorum_votes
      /\ x.proposal = s.rounds[r].proposal
      /\ x.accepted_height = s.rounds[r].accepted_height
      /\ x.votes = s.rounds[r].votes \cup {<<b, v>>}
  <2>1. <<b, v>> \in BOOLEAN \X Validators
    OBVIOUS
  <2> QED BY <2>1 DEF RoundStates
<1> HIDE DEF x
<1>3. /\ u \in Instances /\ u = [s EXCEPT !.rounds = u.rounds]
      /\ u.rounds[r] = x /\ \A q \in Rounds : q # r => u.rounds[q] = s.rounds[q]
  BY <1>2, RoundSet
<1> HIDE DEF u
<1>4. Accepted(u, r) <=> Accepted(s, r)
  BY <1>2, <1>3 DEF Accepted
<1>5. /\ IsOption(x.proposal) /\ IsOption(x.quorum_echoes) /\ IsOption(x.quorum_votes)
      /\ x.accepted_height <= r /\ \A q \in x.proposal : q.parent < r
      /\ x.quorum_echoes # {} => x.proposal \subseteq x.quorum_echoes
      /\ x.accepted_height # NoRound => x.quorum_echoes # {} /\ x.proposal # {}
  BY <1>2 DEF Core, Typed, IsOption, Below, Settled
<1>6. Core(u) /\ Keeps(s, u) /\ Stays(s, u)
  BY <1>2, <1>3, <1>4, <1>5, RoundChange
<1>7. /\ Calm(u, t) /\ SameSignatures(u, t)
      /\ IsQuorum(u, VotedBy(u, r, b)) => t.rounds[r].quorum_votes # {}
  BY <1>6, CheckNewVoteQuorumCalm
<1> HIDE DEF t
<1>8. Core(t) /\ Keeps(s, t) /\ Stays(s, t) /\ Rests(s, t)
  <2>1. Core(t) /\ Keeps(s, t) /\ Stays(s, t)
    BY <1>3, <1>6, <1>7, KeepsTransitive, StaysTransitive DEF Calm, Mild
  <2>2. u.dirty = s.dirty /\ u.current_round = s.current_round
    BY <1>3 DEF Instances
  <2>3. SameVotes(s, u) /\ \A q \in Rounds : Accepted(u, q) => Accepted(s, q)
    BY <1>2, <1>3, <1>4 DEF SameVotes, Accepted
  <2>4. Rests(s, u)
    BY <2>2, <2>3, SameMarks
  <2> QED BY <1>7, <2>1, <2>2, <2>4, RestsTransitive DEF Calm
<1>9. t = [s EXCEPT !.rounds = t.rounds, !.dirty = t.dirty]
  BY <1>3, <1>7 DEF Instances, SameSignatures
<1>10. <<b, v>> \in t.rounds[r].votes
  BY <1>2, <1>3, <1>7 DEF SameSignatures
<1>11. ASSUME Noticing(s) PROVE Noticing(t)
  <2>1. /\ t.faults = s.faults /\ t.evidence_only = s.evidence_only
        /\ t.first_non_finalized = s.first_non_finalized /\ u.faults = s.faults
    BY <1>3, <1>9 DEF Instances
  <2>2. FttExceeded(t) <=> FttExceeded(s)
    BY <2>1, SameFaults DEF FttExceeded
  <2>3. \A S : /\ IsQuorum(t, S) <=> IsQuorum(s, S)
               /\ IsQuorum(u, S) <=> IsQuorum(s, S)
    BY <2>1, SameFaults
  <2>4. ASSUME NEW q \in Rounds, Noticed(s, q) PROVE Noticed(t, q)
    <3>1. Echoed(t, q) = Echoed(s, q) /\ \A o : EchoedBy(t, q, o) = EchoedBy(s, q, o)
      BY <1>2, <1>3, <1>7 DEF SameSignatures, Echoed, EchoedBy
    <3>2. /\ s.rounds[q].quorum_echoes \subseteq t.rounds[q].quorum_echoes
          /\ s.rounds[q].quorum_votes \subseteq t.rounds[q].quorum_votes
      BY <1>2, <1>3, <1>7 DEF SameSignatures
    <3>3. CASE q # r
      <4>1. \A o : VotedBy(t, q, o) = VotedBy(s, q, o)
        BY <1>3, <1>7, <3>3 DEF SameSignatures, VotedBy
      <4> QED BY <2>3, <2>4, <3>1, <3>2, <4>1 DEF Noticed
    <3>4. CASE q = r
      <4>1. t.rounds[r].votes = s.rounds[r].votes \cup {<<b, v>>}
            /\ u.rounds[r].votes = s.rounds[r].votes \cup {<<b, v>>}
        BY <1>2, <1>3, <1>7 DEF SameSignatures
      <4>2. \A o : o # b => VotedBy(t, r, o) = VotedBy(s, r, o)
        BY <4>1 DEF VotedBy
      <4>3. VotedBy(t, r, b) = VotedBy(u, r, b)
        BY <4>1 DEF VotedBy
      <4>4. ASSUME NEW o \in BOOLEAN, IsQuorum(t, VotedBy(t, r, o))
            PROVE  t.rounds[r].quorum_votes # {}
        <5>1. CASE o = b
          BY <1>7, <2>3, <4>3, <4>4, <5>1
        <5>2. CASE o # b
          BY <2>3, <2>4, <3>2, <3>4, <4>2, <4>4, <5>2 DEF Noticed
        <5> QED BY <5>1, <5>2
      <4> QED BY <2>3, <2>4, <3>1, <3>2, <3>4, <4>4 DEF Noticed
    <3> QED BY <3>3, <3>4
  <2> QED BY <1>11, <2>1, <2>2, <2>4 DEF Noticing
<1>12. SignsOnly(s, t)
  BY <1>9 DEF SignsOnly, Instances
<1> QED BY <1>1, <1>8, <1>10, <1>11, <1>12 DEF Calm, Mild, AddVote, t

LEMMA Contents ==
    ASSUME NEW m \in SignedMessages
    PROVE  /\ m.round \in Rounds /\ m.validator \in Validators
           /\ IsEcho(m.content) => m.content.echo \in Proposals
           /\ ~IsEcho(m.content) => m.content.vote \in BOOLEAN
<1>1. /\ m.round \in Rounds /\ m.validator \in Validators
      /\ m.content \in [echo : Proposals] \cup [vote : BOOLEAN]
  BY DEF SignedMessages
<1>2. CASE m.content \in [echo : Proposals]
  BY <1>1, <1>2 DEF IsEcho
<1>3. CASE m.content \in [vote : BOOLEAN]
  BY <1>1, <1>3 DEF IsEcho
<1> QED BY <1>1, <1>2, <1>3

LEMMA AddContentCalm ==
    ASSUME NEW s, Core(s), NEW m \in SignedMessages
    PROVE  LET t == AddContent(s, m)
           IN  /\ Calm(s, t) /\ HasMessage(t, m)
               /\ SignsOnly(s, t) /\ (IsEcho(m.content) => SameVotes(s, t))
<1> DEFINE u == NoteActive(s, m)
           t == AddContent(s, m)
<1> s \in Instances
  BY DEF Core, Typed
<1>1. Calm(s, u) /\ u = [s EXCEPT !.active = u.active, !.dirty = u.dirty]
  BY NoteActiveCalm
<1>2. Core(u)
  BY <1>1 DEF Calm, Mild
<1>3. /\ Calm(u, t) /\ HasMessage(t, m)
      /\ SignsOnly(u, t) /\ (IsEcho(m.content) => SameVotes(u, t))
  <2>1. CASE IsEcho(m.content)
    <3>1. t = AddEcho(u, m.round, m.content.echo, m.validator)
      BY <2>1 DEF AddContent, AddEcho
    <3> HIDE DEF t, u
    <3>2. m.round \in Rounds /\ m.validator \in Validators /\ m.content.echo \in Proposals
      BY <2>1, Contents
    <3>3. /\ Calm(u, t) /\ <<m.content.echo, m.validator>> \in t.rounds[m.round].echoes
          /\ SignsOnly(u, t) /\ SameVotes(u, t)
      BY <1>2, <3>1, <3>2, AddEchoCalm
    <3> QED BY <2>1, <3>3 DEF HasMessage
  <2>2. CASE ~IsEcho(m.content)
    <3>1. t = AddVote(u, m.round, m.content.vote, m.validator)
      BY <2>2 DEF AddContent, AddVote
    <3> HIDE DEF t, u
    <3>2. m.round \in Rounds /\ m.validator \in Validators /\ m.content.vote \in BOOLEAN
      BY <2>2, Contents
    <3>3. /\ Calm(u, t) /\ <<m.content.vote, m.validator>> \in t.rounds[m.round].votes
          /\ SignsOnly(u, t)
      BY <1>2, <3>1, <3>2, AddVoteCalm
    <3> QED BY <2>2, <3>3 DEF HasMessage
  <2> QED BY <2>1, <2>2
<1> HIDE DEF t, u
<1>4. SignsOnly(s, t)
  BY <1>1, <1>3 DEF Instances, SignsOnly
<1>5. u.rounds = s.rounds
  BY <1>1 DEF Instances
<1>6. IsEcho(m.content) => SameVotes(s, t)
  BY <1>3, <1>5 DEF SameVotes
<1> QED BY <1>1, <1>3, <1>4, <1>6, CalmTransitive DEF t

\* Only what changes with a write to the log.
LogsOnly(s, t) ==
    t = [s EXCEPT !.active_validator = t.active_validator, !.write_wal = t.write_wal,
                  !.wal = t.wal, !.disk = t.disk]

\* Entries that may be logged.
Loggable(s, entry) ==
    /\ entry \in Entries
    /\ "evidence" \in DOMAIN entry => s.faults[entry.evidence] = "Direct"
    /\ "proposal" \in DOMAIN entry => entry.proposal.parent < entry.round

LEMMA LogSet ==
    ASSUME NEW s \in Instances, NEW w \in Seq(Entries), NEW d \in [left : Int, keeps : BOOLEAN],
           NEW b \in BOOLEAN, NEW c \in BOOLEAN
    PROVE  [s EXCEPT !.active_validator = b, !.write_wal = c, !.wal = w, !.disk = d] \in Instances
BY ZenonT(60) DEF Instances

LEMMA RecordEntryCalm ==
    ASSUME NEW s, Core(s), NEW entry, Loggable(s, entry)
    PROVE  LET t == RecordEntry(s, entry)
           IN  /\ Calm(s, t) /\ LogsOnly(s, t)
               /\ t.write_wal => s.write_wal
               /\ t.write_wal => t.active_validator = s.active_validator
               /\ t.write_wal /\ s.restarts < MaxRestarts =>
                    \E i \in DOMAIN t.wal : t.wal[i] = entry
<1> DEFINE t == RecordEntry(s, entry)
           logged == IF s.restarts < MaxRestarts THEN Append(s.wal, entry) ELSE s.wal
<1> s \in Instances /\ entry \in Entries
  BY DEF Core, Typed, Loggable
<1> s.wal \in Seq(Entries) /\ s.write_wal \in BOOLEAN /\ s.disk \in [left : Int, keeps : BOOLEAN]
  BY DEF Instances
<1>1. CASE ~s.write_wal
  <2>1. t = s
    BY <1>1 DEF RecordEntry
  <2>2. LogsOnly(s, s)
    BY DEF LogsOnly, Instances
  <2> QED BY <1>1, <2>1, <2>2, CalmReflexive
<1>2. CASE s.write_wal
  <2>1. /\ logged \in Seq(Entries)
        /\ \A i \in DOMAIN s.wal : i \in DOMAIN logged /\ logged[i] = s.wal[i]
        /\ \A i \in DOMAIN logged : i \in DOMAIN s.wal \/ logged[i] = entry
        /\ s.restarts < MaxRestarts => \E i \in DOMAIN logged : logged[i] = entry
    <3>1. CASE s.restarts < MaxRestarts
      <4>1. logged = Append(s.wal, entry)
        BY <3>1
      <4>2. /\ Append(s.wal, entry) \in Seq(Entries)
            /\ DOMAIN s.wal = 1 .. Len(s.wal) /\ Len(s.wal) \in Nat
            /\ DOMAIN Append(s.wal, entry) = 1 .. Len(s.wal) + 1
            /\ \A i \in 1 .. Len(s.wal) : Append(s.wal, entry)[i] = s.wal[i]
            /\ Append(s.wal, entry)[Len(s.wal) + 1] = entry
        OBVIOUS
      <4>3. \A i \in 1 .. Len(s.wal) + 1 : i \in 1 .. Len(s.wal) \/ i = Len(s.wal) + 1
        BY <4>2
      <4>4. Len(s.wal) + 1 \in 1 .. Len(s.wal) + 1 /\ \A i \in 1 .. Len(s.wal) : i \in 1 .. Len(s.wal) + 1
        BY <4>2
      <4> HIDE DEF logged
      <4> QED BY <4>1, <4>2, <4>3, <4>4
    <3>2. CASE ~(s.restarts < MaxRestarts)
      BY <3>2
    <3> QED BY <3>1, <3>2
  <2>2. MaxRestarts = 0 => logged = s.wal
    BY NodeAssumption DEF Instances
  <2> HIDE DEF logged
  <2>3. /\ t \in Instances /\ LogsOnly(s, t)
        /\ t.active_validator => s.active_validator /\ t.write_wal
        /\ t.wal = logged \/ (t.wal = s.wal /\ ~t.write_wal)
        /\ t.write_wal => t.active_validator = s.active_validator
    <3>1. CASE s.disk.left = 0
      <4>1. t = [s EXCEPT !.active_validator = FALSE, !.write_wal = FALSE,
                          !.wal = IF s.disk.keeps THEN logged ELSE @, !.disk.keeps = FALSE]
        BY <1>2, <3>1 DEF RecordEntry, logged
      <4> DEFINE w == IF s.disk.keeps THEN logged ELSE s.wal
                 d == [s.disk EXCEPT !.keeps = FALSE]
      <4>2. w \in Seq(Entries) /\ d \in [left : Int, keeps : BOOLEAN]
        BY <2>1
      <4>6. w = logged \/ w = s.wal
        OBVIOUS
      <4>3. t = [s EXCEPT !.active_validator = FALSE, !.write_wal = FALSE, !.wal = w, !.disk = d]
        BY <4>1 DEF Instances
      <4> HIDE DEF t, w, d
      <4>4. t \in Instances
        BY <4>2, <4>3, LogSet
      <4>7. ~t.active_validator /\ ~t.write_wal /\ t.wal = w
        BY <4>3 DEF Instances
      <4>5. LogsOnly(s, t)
        BY <4>3 DEF Instances, LogsOnly
      <4> QED BY <4>4, <4>5, <4>6, <4>7
    <3>2. CASE s.disk.left # 0
      <4>1. t = [s EXCEPT !.wal = logged, !.disk.left = IF @ > 0 THEN @ - 1 ELSE @]
        BY <1>2, <3>2 DEF RecordEntry, logged
      <4>2. s.active_validator => s.write_wal
        BY DEF Core, Logged
      <4> DEFINE d == [s.disk EXCEPT !.left = IF @ > 0 THEN @ - 1 ELSE @]
      <4>3. d \in [left : Int, keeps : BOOLEAN]
        OBVIOUS
      <4>4. t = [s EXCEPT !.wal = logged, !.disk = d]
        BY <4>1 DEF Instances
      <4> HIDE DEF t, d
      <4>5. /\ t \in Instances /\ t.active_validator = s.active_validator
            /\ t.write_wal = s.write_wal /\ t.wal = logged
        BY <2>1, <4>3, <4>4, ZenonT(60) DEF Instances
      <4>6. LogsOnly(s, t)
        BY <4>4 DEF Instances, LogsOnly
      <4> QED BY <1>2, <4>2, <4>5, <4>6
    <3> QED BY <3>1, <3>2
  <2> HIDE DEF t
  <2>4. /\ t.rounds = s.rounds /\ t.faults = s.faults /\ t.current_round = s.current_round
        /\ t.first_non_finalized = s.first_non_finalized /\ t.finalized = s.finalized
        /\ t.evidence_only = s.evidence_only /\ t.restarts = s.restarts /\ t.signed = s.signed
        /\ t.bugs = s.bugs /\ t.dirty = s.dirty /\ t.pending_proposal = s.pending_proposal
        /\ t.waiting_for_parent = s.waiting_for_parent
        /\ t.waiting_for_validation = s.waiting_for_validation
        /\ t.active = s.active
    BY <2>3, ZenonT(60) DEF Instances, LogsOnly
  <2>5. \A i \in DOMAIN t.wal :
            (i \in DOMAIN s.wal /\ t.wal[i] = s.wal[i]) \/ t.wal[i] = entry
    BY <2>1, <2>3
  <2>6. \A i \in DOMAIN s.wal : \E j \in DOMAIN t.wal : t.wal[j] = s.wal[i]
    BY <2>1, <2>3
  <2>7. Below(t)
    <3>1. ASSUME NEW i \in DOMAIN t.wal, "proposal" \in DOMAIN t.wal[i]
          PROVE  t.wal[i].proposal.parent < t.wal[i].round
      BY <2>5, <3>1 DEF Core, Typed, Below, Loggable
    <3> QED BY <2>4, <3>1 DEF Core, Typed, Below
  <2>8. /\ s.dirty <= s.current_round /\ IsOption(s.pending_proposal)
        /\ IsFiniteSet(s.waiting_for_parent) /\ IsFiniteSet(s.waiting_for_validation)
    BY DEF Core, Typed
  <2>9. MaxRestarts = 0 => t.wal = s.wal
    BY <2>2, <2>3
  <2>12. ASSUME NEW v \in Against(t.wal) PROVE v \in Against(s.wal) \/ s.faults[v] = "Direct"
    <3>1. v \in Validators /\ \E i \in DOMAIN t.wal : t.wal[i] = EvidenceEntry(v)
      BY DEF Against
    <3>2. PICK i \in DOMAIN t.wal : t.wal[i] = EvidenceEntry(v)
      BY <3>1
    <3>3. CASE t.wal[i] = entry
      BY <3>2, <3>3 DEF Loggable, EvidenceEntry
    <3>4. CASE i \in DOMAIN s.wal /\ t.wal[i] = s.wal[i]
      BY <3>1, <3>2, <3>4 DEF Against
    <3> QED BY <2>5, <3>3, <3>4
  <2>10. Calm(s, t)
    BY <1>2, <2>3, <2>4, <2>6, <2>7, <2>8, <2>9, <2>12, FieldsCalm, SMTT(60)
  <2>11. t.write_wal /\ s.restarts < MaxRestarts => \E i \in DOMAIN t.wal : t.wal[i] = entry
    BY <2>1, <2>3
  <2> QED BY <1>2, <2>3, <2>10, <2>11 DEF t
<1> QED BY <1>1, <1>2

\* What we sign contradicts nothing that we have signed: that is in the state.
LEMMA NothingContradicts ==
    ASSUME NEW s, Core(s), NEW r \in Rounds, NEW content, MaySign(s, r, content),
           NEW d \in Own(s)
    PROVE  /\ ~Contradiction(SignedMessage(r, content, Us), d)
           /\ ~Contradiction(d, SignedMessage(r, content, Us))
<1>1. s.active_validator /\ s.write_wal /\ s.faults[Us] # "Direct" /\ ~s.evidence_only
  BY DEF MaySign, Core, Logged
<1>2. HasMessage(s, d) /\ d.validator = Us
  BY <1>1 DEF Core, Logged, InState, Own
<1> SUFFICES ASSUME d.round = r, IsEcho(content) <=> IsEcho(d.content) PROVE FALSE
  BY DEF Contradiction, Contradicts, SignedMessage
<1>3. CASE IsEcho(content)
  <2>1. HasEchoed(s, r, Us)
    BY <1>2, <1>3 DEF HasMessage, HasEchoed
  <2> QED BY <1>3, <2>1 DEF MaySign
<1>4. CASE ~IsEcho(content)
  <2>1. HasVoted(s, r, Us)
    BY <1>2, <1>4 DEF HasMessage, HasVoted
  <2> QED BY <1>4, <2>1 DEF MaySign
<1> QED BY <1>3, <1>4

\* A message that is in the log and in the state may be sent.
LEMMA SignedCalm ==
    ASSUME NEW s, Core(s), NEW m \in SignedMessages, m.validator = Us, HasMessage(s, m),
           s.active_validator,
           s.restarts < MaxRestarts => \E i \in DOMAIN s.wal : s.wal[i] = SignedEntry(m),
           \A d \in Own(s) : ~Contradiction(m, d) /\ ~Contradiction(d, m)
    PROVE  /\ Calm(s, [s EXCEPT !.signed = @ \cup {m}])
           /\ SameVotes(s, [s EXCEPT !.signed = @ \cup {m}])
<1> DEFINE t == [s EXCEPT !.signed = @ \cup {m}]
<1> s \in Instances
  BY DEF Core, Typed
<1>1. t \in Instances
  BY ZenonT(60) DEF Instances
<1>2. /\ t.rounds = s.rounds /\ t.faults = s.faults /\ t.current_round = s.current_round
      /\ t.first_non_finalized = s.first_non_finalized /\ t.finalized = s.finalized
      /\ t.evidence_only = s.evidence_only /\ t.restarts = s.restarts
      /\ t.bugs = s.bugs /\ t.dirty = s.dirty /\ t.pending_proposal = s.pending_proposal
      /\ t.waiting_for_parent = s.waiting_for_parent
      /\ t.waiting_for_validation = s.waiting_for_validation
      /\ t.active = s.active /\ t.wal = s.wal /\ t.write_wal = s.write_wal
      /\ t.active_validator = s.active_validator /\ t.signed = s.signed \cup {m}
  BY DEF Instances
<1> HIDE DEF t
<1>3. Own(t) = Own(s) \cup {m}
  BY <1>2 DEF Own
<1>4. Logged(t)
  <2>1. InState(t)
    BY <1>2, <1>3, SameRounds DEF Core, Logged, InState
  <2>2. s.restarts < MaxRestarts => InLog(t)
    BY <1>2, <1>3 DEF Core, Logged, InLog
  <2>3. \A e, d \in Own(t) : ~Contradiction(e, d)
    <3>1. ~Contradiction(m, m)
      BY DEF Contradiction, Contradicts
    <3> QED BY <1>3, <3>1 DEF Core, Logged
  <2> QED BY <1>2, <2>1, <2>2, <2>3 DEF Core, Logged
<1>5. Typed(t)
  BY <1>1, <1>2 DEF Core, Typed, Below
<1>6. Lowest(t) /\ Sane(t)
  BY <1>2, LowestKept DEF Core, Sane
<1>7. Core(t)
  BY <1>2, <1>4, <1>5, <1>6, FieldsChange
<1>8. Keeps(s, t)
  BY <1>2 DEF Keeps
<1>9. Stays(s, t)
  BY <1>2 DEF Stays
<1>10. s.first_non_finalized \in Int
  BY DEF Instances
<1>11. Noticing(s) => Noticing(t)
  BY <1>2, <1>10, NoticingKept
<1>12. Rests(s, t) /\ SameVotes(s, t)
  BY <1>2, SameRoundsRest
<1> QED BY <1>7, <1>8, <1>9, <1>11, <1>12 DEF Calm, Mild, t

LEMMA CreateMessageCalm ==
    ASSUME NEW s, Core(s), NEW r \in Rounds,
           NEW content \in [echo : Proposals] \cup [vote : BOOLEAN]
    PROVE  /\ Calm(s, CreateMessage(s, r, content))
           /\ IsEcho(content) => SameVotes(s, CreateMessage(s, r, content))
<1> DEFINE m == SignedMessage(r, content, Us)
           u == RecordEntry(s, SignedEntry(m))
           v == AddContent(u, m)
<1>1. CASE ~MaySign(s, r, content)
  BY <1>1, CalmReflexive DEF CreateMessage, SameVotes
<1>2. CASE MaySign(s, r, content)
  <2>1. CreateMessage(s, r, content) = AddSigned(u, m)
    BY <1>2 DEF CreateMessage
  <2>2. s.active_validator /\ Us \in Validators
    BY <1>2 DEF Core, Logged, MaySign
  <2>3. m \in SignedMessages /\ m.validator = Us /\ m.content = content
    BY <2>2 DEF SignedMessage, SignedMessages
  <2>4. Loggable(s, SignedEntry(m))
    BY <2>3 DEF Loggable, SignedEntry, Entries
  <2>5. \A d \in Own(s) : ~Contradiction(m, d) /\ ~Contradiction(d, m)
    BY <1>2, NothingContradicts
  <2> HIDE DEF m
  <2>6. /\ Calm(s, u) /\ LogsOnly(s, u)
        /\ u.write_wal => u.active_validator = s.active_validator
        /\ u.write_wal /\ s.restarts < MaxRestarts =>
                \E i \in DOMAIN u.wal : u.wal[i] = SignedEntry(m)
    BY <2>4, RecordEntryCalm
  <2> HIDE DEF u
  <2>7. Core(u)
    BY <2>6 DEF Calm, Mild
  <2>10. SameVotes(s, u)
    <3>1. u.rounds = s.rounds
      BY <2>6 DEF LogsOnly, Core, Typed, Instances
    <3> QED BY <3>1 DEF SameVotes
  <2>8. CASE ~u.write_wal
    BY <2>1, <2>6, <2>8, <2>10 DEF AddSigned
  <2>9. CASE u.write_wal
    <3>1. /\ Calm(u, v) /\ HasMessage(v, m) /\ SignsOnly(u, v)
          /\ IsEcho(content) => SameVotes(u, v)
      BY <2>3, <2>7, AddContentCalm
    <3> HIDE DEF v
    <3>2. u \in Instances /\ s \in Instances
      BY <2>7 DEF Core, Typed
    <3>3. /\ v.wal = u.wal /\ v.signed = s.signed /\ v.restarts = s.restarts
          /\ v.active_validator = u.active_validator
      BY <2>6, <3>1, <3>2 DEF SignsOnly, LogsOnly, Instances
    <3>4. Core(v) /\ Own(v) = Own(s)
      BY <3>1, <3>3 DEF Calm, Mild, Own
    <3>5. Calm(v, [v EXCEPT !.signed = @ \cup {m}]) /\ SameVotes(v, [v EXCEPT !.signed = @ \cup {m}])
      BY <2>2, <2>3, <2>5, <2>6, <2>9, <3>1, <3>3, <3>4, SignedCalm
    <3>6. AddSigned(u, m) = [v EXCEPT !.signed = @ \cup {m}]
      BY <2>9 DEF AddSigned, v
    <3>7. Calm(s, v)
      BY <2>6, <3>1, CalmTransitive
    <3>8. IsEcho(content) => SameVotes(s, AddSigned(u, m))
      BY <2>10, <3>1, <3>5, <3>6 DEF SameVotes
    <3> QED BY <2>1, <3>5, <3>6, <3>7, <3>8, CalmTransitive
  <2> QED BY <2>8, <2>9
<1> QED BY <1>1, <1>2

-----------------------------------------------------------------------------
(* Proposals                                                                *)

\* A proposal that may be stored.
Storable(s, r, p) ==
    /\ p \in Proposals /\ p.parent < r
    /\ MaxRestarts = 0 /\ ~s.evidence_only => FitsQuorum(s, p)

LEMMA StorableKept ==
    ASSUME NEW s, NEW t, Keeps(s, t), Stays(s, t), NEW r, NEW p, Storable(s, r, p)
    PROVE  Storable(t, r, p)
<1>1. p.parent # NoRound => p.parent \in Rounds
  BY DEF Storable, Proposals
<1>2. FitsQuorum(s, p) => FitsQuorum(t, p)
  BY <1>1 DEF FitsQuorum, Stays
<1> QED BY <1>2 DEF Storable, Keeps

LEMMA AcceptedIs ==
    ASSUME NEW s, Core(s), NEW r \in Rounds
    PROVE  /\ Accepted(s, r) <=> s.rounds[r].accepted_height # NoRound
           /\ Accepted(s, r) => /\ s.rounds[r].quorum_echoes = {ProposalIn(s, r)}
                                /\ s.rounds[r].proposal = {ProposalIn(s, r)}
                                /\ ProposalIn(s, r) \in Proposals
                                /\ ProposalIn(s, r).parent \in -1 .. r - 1
<1>1. Accepted(s, r) <=> s.rounds[r].accepted_height # NoRound
  BY DEF Core, Settled, Accepted
<1>2. ASSUME Accepted(s, r)
      PROVE  /\ s.rounds[r].quorum_echoes = {ProposalIn(s, r)}
             /\ s.rounds[r].proposal = {ProposalIn(s, r)}
             /\ ProposalIn(s, r) \in Proposals
             /\ ProposalIn(s, r).parent \in -1 .. r - 1
  <2>1. /\ s.rounds[r].proposal = {ProposalIn(s, r)} /\ ProposalIn(s, r) \in Proposals
        /\ ProposalIn(s, r).parent \in -1 .. r - 1
    BY <1>2, TheProposal DEF Core, Accepted
  <2>2. ProposalIn(s, r) \in s.rounds[r].quorum_echoes
    BY <1>1, <1>2, <2>1 DEF Core, Settled
  <2>3. IsOption(s.rounds[r].quorum_echoes)
    BY DEF Core, Typed
  <2> QED BY <2>1, <2>2, <2>3, OptionIs
<1> QED BY <1>1, <1>2

\* What is finalized does not change with what is not.
LEMMA StaysChained ==
    ASSUME NEW s, Core(s), NEW t, Stays(s, t), t.evidence_only = s.evidence_only, Chained(s)
    PROVE  Chained(t)
<1> DEFINE top == s.first_non_finalized - 1
<1> SUFFICES ASSUME ~s.evidence_only
             PROVE  Chain(t) /\ (t.first_non_finalized # 0 => Committed(t, t.first_non_finalized - 1))
  BY DEF Chained
<1>1. s \in Instances /\ s.first_non_finalized \in Int /\ (top = NoRound \/ top \in Rounds)
      /\ (s.first_non_finalized # 0 <=> top # NoRound)
  <2>1. s \in Instances /\ s.first_non_finalized \in 0 .. LastRound + 2
    BY DEF Core, Typed, Instances
  <2> QED BY <2>1, RoundsAssumption DEF Rounds, NoRound
<1>2. Chain(s) /\ (top # NoRound => Accepted(s, top) /\ Committed(s, top))
  BY <1>1 DEF Chained, Chain
<1>3. /\ t.first_non_finalized = s.first_non_finalized /\ t.finalized = s.finalized
      /\ \A r \in Rounds : Committed(s, r) => Committed(t, r)
  BY DEF Stays, Committed
<1>4. ASSUME NEW r \in Rounds, Accepted(s, r)
      PROVE  /\ Accepted(t, r) /\ ProposalIn(t, r) = ProposalIn(s, r)
             /\ t.rounds[r].accepted_height = s.rounds[r].accepted_height
             /\ AcceptedSwitchBlock(t, r) <=> AcceptedSwitchBlock(s, r)
             /\ AcceptedDummy(t, r) <=> AcceptedDummy(s, r)
  <2>1. /\ Accepted(t, r) /\ ProposalIn(t, r) = ProposalIn(s, r)
        /\ t.rounds[r].accepted_height = s.rounds[r].accepted_height
    BY <1>4, StaysAccepted DEF Stays
  <2> QED BY <1>4, <2>1 DEF AcceptedSwitchBlock, AcceptedDummy
<1>5. ASSUME NEW r \in Rounds, LeaderStops(t, r) PROVE LeaderStops(s, r)
  <2> SUFFICES ASSUME Accepted(s, r), ProposalIn(s, r).block # NoBlock,
                      ProposalIn(s, r).parent # NoRound
               PROVE  /\ ~AcceptedSwitchBlock(s, ProposalIn(s, r).parent)
                      /\ ~AcceptedDummy(s, ProposalIn(s, r).parent)
    BY DEF LeaderStops
  <2>1. ProposalIn(s, r).parent \in Rounds /\ Accepted(s, ProposalIn(s, r).parent)
    BY AcceptedIs DEF Core, Linked, LinkedAt, Proposals
  <2> QED BY <1>4, <1>5, <2>1 DEF LeaderStops
<1>6. LeadsUp(s, top) => LeadsUp(t, top)
  BY <1>1, <1>2, <1>3, <1>4 DEF LeadsUp
<1>7. Chain(t)
  BY <1>1, <1>2, <1>3, <1>4, <1>5, <1>6 DEF Chain
<1> QED BY <1>1, <1>2, <1>3, <1>7

LEMMA MildMoves == ASSUME NEW s, Core(s), NEW t, Mild(s, t) PROVE Moves(s, t)
BY StaysChained DEF Mild, Moves, Keeps

LEMMA CalmMoves == ASSUME NEW s, Core(s), NEW t, Calm(s, t) PROVE Moves(s, t)
BY MildMoves DEF Calm

\* One more finalized round.
LEMMA ChainGrows ==
    ASSUME NEW t \in Instances, NEW v, NEW q \in Rounds, NEW p \in -1 .. q - 1,
           t.first_non_finalized = p + 1, v.first_non_finalized = q + 1, Chain(t),
           Accepted(v, q), LinkedAt(v, q), ProposalIn(v, q).parent = p,
           \A x \in Rounds : x <= p => v.rounds[x] = t.rounds[x],
           \A x \in Rounds : x <= p /\ Accepted(t, x) => ProposalIn(t, x).parent \in -1 .. x - 1,
           v.finalized =
                IF ProposalIn(v, q).block = NoBlock THEN t.finalized
                ELSE Append(t.finalized,
                        [round |-> q, block |-> ProposalIn(v, q).block,
                         height |-> v.rounds[q].accepted_height,
                         terminal |-> AcceptedSwitchBlock(v, q)])
    PROVE  Chain(v)
<1>1. /\ Rounds \subseteq Nat /\ NoRound = -1 /\ q \in Nat /\ p \in Int /\ p < q
      /\ p # NoRound => p \in Rounds
  BY RoundsAssumption DEF Rounds, NoRound
<1>2. ASSUME NEW x \in Rounds, x <= p
      PROVE  /\ Accepted(v, x) <=> Accepted(t, x)
             /\ ProposalIn(v, x) = ProposalIn(t, x)
             /\ v.rounds[x].accepted_height = t.rounds[x].accepted_height
             /\ AcceptedSwitchBlock(v, x) <=> AcceptedSwitchBlock(t, x)
             /\ AcceptedDummy(v, x) <=> AcceptedDummy(t, x)
  <2>1. v.rounds[x] = t.rounds[x]
    BY <1>2
  <2>2. (Accepted(v, x) <=> Accepted(t, x)) /\ ProposalIn(v, x) = ProposalIn(t, x)
    BY <2>1 DEF Accepted, ProposalIn
  <2> QED BY <2>1, <2>2 DEF AcceptedSwitchBlock, AcceptedDummy
<1>3. ASSUME NEW x \in Rounds, x <= p, LeaderStops(v, x) PROVE LeaderStops(t, x)
  <2> DEFINE y == ProposalIn(t, x).parent
  <2> SUFFICES ASSUME Accepted(t, x), ProposalIn(t, x).block # NoBlock, y # NoRound
               PROVE  ~AcceptedSwitchBlock(t, y) /\ ~AcceptedDummy(t, y)
    BY DEF LeaderStops
  <2>1. y \in -1 .. x - 1
    BY <1>3
  <2>2. Accepted(v, x) /\ ProposalIn(v, x) = ProposalIn(t, x)
    BY <1>2, <1>3
  <2>3. ~AcceptedSwitchBlock(v, y) /\ ~AcceptedDummy(v, y)
    BY <1>3, <2>2 DEF LeaderStops
  <2> HIDE DEF y
  <2>4. y \in Rounds /\ y <= p
    BY <1>1, <1>3, <2>1, RoundsAssumption DEF Rounds
  <2> QED BY <1>2, <2>3, <2>4
<1>4. p + 1 - 1 = p /\ q + 1 - 1 = q
  BY <1>1
<1>5. /\ p # NoRound => Accepted(t, p)
      /\ (\A r \in Rounds : r <= p => LeaderStops(t, r)) => LeadsUp(t, p)
  BY <1>4 DEF Chain
<1> SUFFICES ASSUME \A r \in Rounds : r <= q => LeaderStops(v, r) PROVE LeadsUp(v, q)
  <2>1. v.first_non_finalized - 1 = q
    BY <1>1
  <2> QED BY <2>1 DEF Chain
<1>6. LeadsUp(t, p)
  <2>1. \A r \in Rounds : r <= p => r <= q
    BY <1>1
  <2> QED BY <1>3, <1>5, <2>1
<1>7. LeaderStops(v, q) /\ q # NoRound
  BY <1>1
<1>8. t.finalized \in Seq([round : Rounds, block : Blocks, height : Rounds, terminal : BOOLEAN])
  BY DEF Instances
<1> DEFINE b == t.finalized
           e == [round |-> q, block |-> ProposalIn(v, q).block,
                 height |-> v.rounds[q].accepted_height, terminal |-> AcceptedSwitchBlock(v, q)]
<1>9. CASE ProposalIn(v, q).block = NoBlock
  BY <1>6, <1>7, <1>9 DEF LeadsUp
<1>10. CASE ProposalIn(v, q).block # NoBlock
  <2>1. v.finalized = Append(b, e)
    BY <1>10
  <2>2. e.round = q /\ e.height = v.rounds[q].accepted_height /\ (e.terminal <=> AcceptedSwitchBlock(v, q))
    OBVIOUS
  <2>3. /\ Len(b) \in Nat /\ Len(Append(b, e)) = Len(b) + 1 /\ Append(b, e)[Len(b) + 1] = e
        /\ \A i \in 1 .. Len(b) : Append(b, e)[i] = b[i]
    <3> HIDE DEF e
    <3> QED BY <1>8
  <2>4. /\ v.rounds[q].accepted_height = Len(b)
        /\ Len(b) # 0 => b[Len(b)].round < q /\ ~b[Len(b)].terminal
    <3>1. CASE p = NoRound
      <4>1. b = <<>>
        BY <1>6, <3>1 DEF LeadsUp
      <4>2. Len(b) = 0
        BY <4>1
      <4> QED BY <3>1, <4>2 DEF LinkedAt
    <3>2. CASE p # NoRound
      <4>1. ~AcceptedSwitchBlock(v, p) /\ ~AcceptedDummy(v, p)
        BY <1>7, <1>10, <3>2 DEF LeaderStops
      <4>2. Accepted(t, p) /\ p \in Rounds /\ p <= p
        BY <1>1, <1>5, <3>2
      <4>3. ~AcceptedSwitchBlock(t, p) /\ ~AcceptedDummy(t, p)
        BY <1>2, <4>1, <4>2
      <4>4. ProposalIn(t, p).block # NoBlock
        BY <4>2, <4>3 DEF AcceptedDummy
      <4>5. /\ Len(b) = t.rounds[p].accepted_height + 1 /\ b[Len(b)].round = p
            /\ ~b[Len(b)].terminal
        BY <1>6, <3>2, <4>3, <4>4 DEF LeadsUp
      <4>6. v.rounds[q].accepted_height = v.rounds[p].accepted_height + 1
        BY <3>2 DEF LinkedAt
      <4> QED BY <1>1, <1>2, <4>2, <4>5, <4>6
    <3> QED BY <3>1, <3>2
  <2> HIDE DEF e, b
  <2>5. Consecutive(b)
    BY <1>6 DEF LeadsUp, b
  <2>6. Consecutive(Append(b, e))
    <3> SUFFICES ASSUME NEW i \in 1 .. Len(b) + 1
                 PROVE  /\ Append(b, e)[i].height = i - 1
                        /\ i < Len(b) + 1 => /\ Append(b, e)[i].round < Append(b, e)[i + 1].round
                                             /\ ~Append(b, e)[i].terminal
      BY <2>3 DEF Consecutive
    <3>1. CASE i \in 1 .. Len(b) - 1
      <4>1. i \in 1 .. Len(b) /\ i + 1 \in 1 .. Len(b) /\ i < Len(b)
        BY <2>3, <3>1
      <4> QED BY <2>3, <2>5, <4>1 DEF Consecutive
    <3>2. CASE i = Len(b) /\ Len(b) # 0
      <4>1. i \in 1 .. Len(b) /\ i + 1 = Len(b) + 1
        BY <2>3, <3>2
      <4> QED BY <2>2, <2>3, <2>4, <2>5, <3>2, <4>1 DEF Consecutive
    <3>3. CASE i = Len(b) + 1
      <4>1. ~(i < Len(b) + 1) /\ i - 1 = Len(b)
        BY <2>3, <3>3
      <4> QED BY <2>2, <2>3, <2>4, <3>3, <4>1
    <3>4. i \in 1 .. Len(b) - 1 \/ (i = Len(b) /\ Len(b) # 0) \/ i = Len(b) + 1
      BY <2>3
    <3> QED BY <3>1, <3>2, <3>3, <3>4
  <2>7. Consecutive(v.finalized)
    BY <2>1, <2>6
  <2>8. Len(v.finalized) = v.rounds[q].accepted_height + 1 /\ v.finalized[Len(v.finalized)] = e
    BY <2>1, <2>3, <2>4
  <2> QED BY <1>7, <2>2, <2>7, <2>8 DEF LeadsUp
<1> QED BY <1>9, <1>10

LEMMA InsertProposalCalm ==
    ASSUME NEW s, Core(s), NEW r \in Rounds, NEW p, Storable(s, r, p), MayInsert(s, r, p)
    PROVE  Calm(s, InsertProposal(s, r, p)) /\ SameVotes(s, InsertProposal(s, r, p))
<1> DEFINE x == [s.rounds[r] EXCEPT !.proposal = {p}]
           t == [s EXCEPT !.rounds[r] = x]
<1> s \in Instances
  BY DEF Core, Typed
<1> p \in Proposals /\ p.parent < r /\ s.rounds[r] \in RoundStates /\ r \in Nat
  BY RoundsAssumption DEF Storable, Instances, Rounds
<1>1. InsertProposal(s, r, p) = t
  BY DEF InsertProposal, Instances, RoundStates
<1>2. /\ x \in RoundStates /\ x.votes = s.rounds[r].votes /\ x.echoes = s.rounds[r].echoes
      /\ x.quorum_echoes = s.rounds[r].quorum_echoes /\ x.quorum_votes = s.rounds[r].quorum_votes
      /\ x.proposal = {p} /\ x.accepted_height = s.rounds[r].accepted_height
  BY DEF RoundStates
<1> HIDE DEF x
<1>3. /\ t \in Instances /\ t = [s EXCEPT !.rounds = t.rounds]
      /\ t.rounds[r] = x /\ \A q \in Rounds : q # r => t.rounds[q] = s.rounds[q]
  BY <1>2, RoundSet
<1> HIDE DEF t
<1>4. s.rounds[r].quorum_echoes # {} => p \in s.rounds[r].quorum_echoes
  BY DEF MayInsert, HasEchoesFor
<1>5. ~Accepted(s, r) /\ s.rounds[r].accepted_height = NoRound
  <2> SUFFICES ASSUME Accepted(s, r) PROVE FALSE
    BY AcceptedIs
  <2> QED BY <1>4, AcceptedIs DEF MayInsert
<1>6. ~Accepted(t, r)
  BY <1>2, <1>3, <1>5 DEF Accepted
<1>7. /\ IsOption(x.proposal) /\ IsOption(x.quorum_echoes) /\ IsOption(x.quorum_votes)
      /\ x.accepted_height <= r /\ \A q \in x.proposal : q.parent < r
      /\ x.quorum_echoes # {} => x.proposal \subseteq x.quorum_echoes
      /\ x.accepted_height # NoRound => x.quorum_echoes # {} /\ x.proposal # {}
  BY <1>2, <1>4, <1>5 DEF Core, Typed, IsOption
<1>8. Core(t) /\ Keeps(s, t) /\ Stays(s, t)
  <2>1. \A q \in x.proposal : q \notin s.rounds[r].proposal /\ MaxRestarts = 0 /\ ~s.evidence_only
                => FitsQuorum(s, q)
    BY <1>2 DEF Storable
  <2> QED BY <1>2, <1>3, <1>5, <1>6, <1>7, <2>1, RoundChange
<1>9. /\ t.faults = s.faults /\ t.evidence_only = s.evidence_only
      /\ t.first_non_finalized = s.first_non_finalized /\ s.first_non_finalized \in Int
  BY <1>3 DEF Instances
<1>10. \A q \in Rounds : /\ t.rounds[q].echoes = s.rounds[q].echoes
                         /\ t.rounds[q].votes = s.rounds[q].votes
                         /\ s.rounds[q].quorum_echoes \subseteq t.rounds[q].quorum_echoes
                         /\ s.rounds[q].quorum_votes \subseteq t.rounds[q].quorum_votes
  BY <1>2, <1>3
<1>11. SameVotes(s, t) /\ Rests(s, t)
  <2>1. t.dirty = s.dirty
    BY <1>3 DEF Instances
  <2>2. SameVotes(s, t)
    BY <1>2, <1>3 DEF SameVotes
  <2>3. \A q \in Rounds : Accepted(t, q) => Accepted(s, q)
    BY <1>3, <1>6 DEF Accepted
  <2> QED BY <2>1, <2>2, <2>3, SameMarks
<1>12. Mild(s, t)
  BY <1>8, <1>9, <1>10, NoticingKept DEF Mild
<1> QED BY <1>1, <1>11, <1>12 DEF Calm

LEMMA InsertAndRecordCalm ==
    ASSUME NEW s, Core(s), NEW r \in Rounds, NEW p, Storable(s, r, p)
    PROVE  Calm(s, InsertAndRecord(s, r, p))
<1> DEFINE t == InsertProposal(s, r, p)
           u == RecordEntry(t, ProposalEntry(p, r))
<1>1. CASE ~MayInsert(s, r, p)
  BY <1>1, CalmReflexive DEF InsertAndRecord
<1>2. CASE MayInsert(s, r, p)
  <2>1. Calm(s, t)
    BY <1>2, InsertProposalCalm
  <2>2. Loggable(t, ProposalEntry(p, r))
    BY DEF Storable, Loggable, ProposalEntry, Entries
  <2> HIDE DEF t
  <2>3. Calm(t, u)
    BY <2>1, <2>2, RecordEntryCalm DEF Calm, Mild
  <2>4. r \in Nat
    BY RoundsAssumption DEF Rounds
  <2> HIDE DEF u
  <2>5. Calm(u, MarkDirty(u, r))
    BY <2>3, <2>4, MarkDirtyCalm DEF Calm, Mild
  <2>6. InsertAndRecord(s, r, p) = MarkDirty(u, r)
    BY <1>2 DEF InsertAndRecord, t, u
  <2> QED BY <2>1, <2>3, <2>5, <2>6, CalmTransitive
<1> QED BY <1>1, <1>2

\* The blocks of a round and of its ancestors are there exactly if its proposal
\* is accepted.
LEMMA AncestorValuesOfAccepted ==
    ASSUME NEW s, Core(s), NEW r \in {NoRound} \cup Rounds
    PROVE  /\ AncestorValues(s, r) \subseteq Seq(Blocks)
           /\ AncestorValues(s, r) # {} <=> (r = NoRound \/ Accepted(s, r))
<1> DEFINE OwnBlock(q) == IF ProposalIn(s, q).block = NoBlock THEN <<>> ELSE <<ProposalIn(s, q).block>>
           Is(f) == f = [q \in -1 .. r |->
                        IF q = NoRound THEN {<<>>}
                        ELSE IF ~Accepted(s, q) THEN {}
                        ELSE {OwnBlock(q) \o rest : rest \in f[ProposalIn(s, q).parent]}]
           values == CHOOSE f : Is(f)
<1>1. AncestorValues(s, r) = values[r]
  BY DEF AncestorValues
<1> r \in Int /\ r >= -1 /\ NoRound = -1 /\ -1 \in Int
  BY RoundsAssumption DEF Rounds, NoRound
<1>2. \A q \in -1 .. r : q = NoRound \/ q \in Rounds
  BY RoundsAssumption DEF Rounds, NoRound
<1>3. \A q \in -1 .. r : q # NoRound /\ Accepted(s, q) =>
            ProposalIn(s, q).parent \in -1 .. q - 1 /\ OwnBlock(q) \in Seq(Blocks)
  <2> SUFFICES ASSUME NEW q \in Rounds, Accepted(s, q)
               PROVE  ProposalIn(s, q).parent \in -1 .. q - 1 /\ OwnBlock(q) \in Seq(Blocks)
    BY <1>2
  <2>1. ProposalIn(s, q) \in Proposals /\ ProposalIn(s, q).parent \in -1 .. q - 1
    BY AcceptedIs
  <2>2. ProposalIn(s, q).block \in Blocks \cup {NoBlock}
    BY <2>1 DEF Proposals
  <2> QED BY <2>1, <2>2
<1> HIDE DEF OwnBlock
<1>4. \E f \in [-1 .. r -> SUBSET Seq(Blocks)] : Is(f)
  <2> DEFINE X == SUBSET Seq(Blocks)
             base == {q \in -1 .. r : q = NoRound \/ ~Accepted(s, q)}
             a == [q \in -1 .. r |-> IF q = NoRound THEN {<<>>} ELSE {}]
             par == [q \in -1 .. r |-> ProposalIn(s, q).parent]
             F == [y \in X \X (-1 .. r) |-> {OwnBlock(y[2]) \o rest : rest \in y[1]}]
  <2>1. \A i \in -1 .. r : i \in base => a[i] \in X
    OBVIOUS
  <2>2. \A i \in -1 .. r : i \notin base => par[i] \in -1 .. i - 1
    BY <1>3
  <2>3. \A i \in -1 .. r, x \in X : F[<<x, i>>] = {OwnBlock(i) \o rest : rest \in x}
    <3> SUFFICES ASSUME NEW i \in -1 .. r, NEW x \in X
                 PROVE  F[<<x, i>>] = {OwnBlock(i) \o rest : rest \in x}
      OBVIOUS
    <3>1. <<x, i>> \in X \X (-1 .. r)
      OBVIOUS
    <3> QED BY <3>1
  <2>4. \A i \in -1 .. r, x \in X : i \notin base => F[<<x, i>>] \in X
    <3> SUFFICES ASSUME NEW i \in -1 .. r, NEW x \in X, i \notin base
                 PROVE  {OwnBlock(i) \o rest : rest \in x} \in X
      BY <2>3
    <3>1. OwnBlock(i) \in Seq(Blocks)
      BY <1>3
    <3>2. \A rest \in x : OwnBlock(i) \o rest \in Seq(Blocks)
      BY <3>1
    <3> QED BY <3>2
  <2> HIDE DEF F
  <2>5. PICK f \in [-1 .. r -> X] : Follows(f, -1, r, base, a, par, F)
    <3> HIDE DEF X, base, a, par
    <3> QED BY <2>1, <2>2, <2>4, RecursiveFunction, Zenon
  <2>6. Is(f)
    <3> SUFFICES ASSUME NEW q \in -1 .. r
                 PROVE  f[q] = IF q = NoRound THEN {<<>>}
                               ELSE IF ~Accepted(s, q) THEN {}
                               ELSE {OwnBlock(q) \o rest : rest \in f[ProposalIn(s, q).parent]}
      BY <2>5
    <3>1. f[q] = IF q \in base THEN a[q] ELSE F[<<f[par[q]], q>>]
      BY <2>5 DEF Follows
    <3>2. CASE q \in base
      BY <3>1, <3>2
    <3>3. CASE q \notin base
      <4>1. par[q] = ProposalIn(s, q).parent /\ f[par[q]] \in X
        BY <2>2, <3>3
      <4>2. F[<<f[par[q]], q>>] = {OwnBlock(q) \o rest : rest \in f[ProposalIn(s, q).parent]}
        BY <4>1, <2>3
      <4> QED BY <3>1, <3>3, <4>2
    <3> QED BY <3>2, <3>3
  <2> QED BY <2>5, <2>6
<1>5. Is(values)
  BY <1>4, Zenon
<1> HIDE DEF values
<1> DEFINE B == {q \in -1 .. r : /\ values[q] \subseteq Seq(Blocks)
                                 /\ values[q] # {} <=> (q = NoRound \/ Accepted(s, q))}
<1>6. ASSUME NEW q \in -1 .. r, \A j \in -1 .. q - 1 : j \in B PROVE q \in B
  <2>1. values[q] = IF q = NoRound THEN {<<>>}
                    ELSE IF ~Accepted(s, q) THEN {}
                    ELSE {OwnBlock(q) \o rest : rest \in values[ProposalIn(s, q).parent]}
    BY <1>5
  <2>2. CASE q = NoRound \/ ~Accepted(s, q)
    <3>1. values[q] = IF q = NoRound THEN {<<>>} ELSE {}
      BY <2>1, <2>2
    <3>2. <<>> \in Seq(Blocks)
      OBVIOUS
    <3> QED BY <2>2, <3>1, <3>2
  <2>3. CASE q # NoRound /\ Accepted(s, q)
    <3> DEFINE parent == ProposalIn(s, q).parent
    <3>1. parent \in -1 .. q - 1 /\ OwnBlock(q) \in Seq(Blocks)
      BY <1>3, <2>3
    <3>2. parent = NoRound \/ Accepted(s, parent)
      BY <1>2, <2>3 DEF Core, Linked, LinkedAt
    <3>3. values[parent] # {} /\ values[parent] \subseteq Seq(Blocks)
      BY <1>6, <3>1, <3>2
    <3>4. values[q] = {OwnBlock(q) \o rest : rest \in values[parent]}
      BY <2>1, <2>3
    <3> HIDE DEF parent
    <3>5. \A rest \in values[parent] : OwnBlock(q) \o rest \in Seq(Blocks)
      BY <3>1, <3>3
    <3>6. values[q] \subseteq Seq(Blocks) /\ values[q] # {}
      BY <3>3, <3>4, <3>5
    <3> QED BY <2>3, <3>6
  <2> QED BY <2>2, <2>3
<1>7. \A q \in -1 .. r : q \in B
  <2> HIDE DEF B
  <2> QED BY <1>6, Induct, Zenon
<1>8. r \in B
  <2> HIDE DEF B
  <2> QED BY <1>7
<1> QED BY <1>1, <1>8

LEMMA SetToSeqIs ==
    ASSUME NEW S, IsFiniteSet(S)
    PROVE  /\ SetToSeq(S) \in Seq(S)
           /\ Len(SetToSeq(S)) \in Nat
           /\ \A i \in 1 .. Len(SetToSeq(S)) : SetToSeq(S)[i] \in S
<1> DEFINE n == Cardinality(S)
<1>1. n \in Nat /\ ExistsBijection(1 .. n, S)
  BY FS_CardinalityType
<1> HIDE DEF n
<1>2. PICK g \in [1 .. n -> S] : IsInjective(g)
  <2>1. PICK g \in Bijection(1 .. n, S) : TRUE
    BY <1>1 DEF ExistsBijection
  <2>2. g \in [1 .. n -> S] /\ \A a, b \in 1 .. n : g[a] = g[b] => a = b
    BY <2>1 DEF Bijection, Injection, IsInjective
  <2>3. IsInjective(g)
    BY <2>2 DEF IsInjective
  <2> QED BY <2>2, <2>3
<1>3. SetToSeq(S) \in [1 .. n -> S]
  BY <1>2 DEF SetToSeq, n
<1> HIDE DEF SetToSeq
<1>4. SetToSeq(S) \in Seq(S)
  BY <1>1, <1>3, SeqDef
<1> QED BY <1>1, <1>4, ElementOfSeq, LenProperties

SetWaiting(s, parent, validation) ==
    [s EXCEPT !.waiting_for_parent = parent, !.waiting_for_validation = validation]

LEMMA SetWaitingCalm ==
    ASSUME NEW s, Core(s), NEW a, NEW b,
           a \subseteq [round : Rounds, proposal : Proposals],
           b \subseteq [proposed : ProposedBlocks, round : Rounds, proposal : Proposals],
           IsFiniteSet(a), IsFiniteSet(b), \A w \in a \cup b : w.proposal.parent < w.round,
           \A w \in b : w \in s.waiting_for_validation \/ FitsQuorum(s, w.proposal)
    PROVE  Calm(s, SetWaiting(s, a, b))
<1> DEFINE t == SetWaiting(s, a, b)
<1> s \in Instances
  BY DEF Core, Typed
<1>1. t \in Instances
  BY ZenonT(60) DEF Instances, SetWaiting
<1>2. /\ t.rounds = s.rounds /\ t.faults = s.faults /\ t.current_round = s.current_round
      /\ t.first_non_finalized = s.first_non_finalized /\ t.finalized = s.finalized
      /\ t.evidence_only = s.evidence_only /\ t.restarts = s.restarts /\ t.signed = s.signed
      /\ t.bugs = s.bugs /\ t.dirty = s.dirty /\ t.pending_proposal = s.pending_proposal
      /\ t.waiting_for_parent = a /\ t.waiting_for_validation = b
      /\ t.active = s.active /\ t.active_validator = s.active_validator
      /\ t.write_wal = s.write_wal /\ t.wal = s.wal
  BY DEF Instances, SetWaiting
<1> HIDE DEF t
<1>3. Below(t)
  BY <1>2 DEF Core, Typed, Below
<1>4. /\ s.dirty <= s.current_round /\ IsOption(s.pending_proposal)
      /\ s.active_validator => s.write_wal
  BY DEF Core, Typed, Logged
<1>5. Calm(s, t)
  BY <1>1, <1>2, <1>3, <1>4, FieldsCalm
<1> QED BY <1>5 DEF t

\* What waits, in a state of the invariant.
LEMMA Waiting ==
    ASSUME NEW s, Core(s)
    PROVE  /\ s.waiting_for_parent \subseteq [round : Rounds, proposal : Proposals]
           /\ s.waiting_for_validation \subseteq
                [proposed : ProposedBlocks, round : Rounds, proposal : Proposals]
           /\ IsFiniteSet(s.waiting_for_parent) /\ IsFiniteSet(s.waiting_for_validation)
           /\ \A w \in s.waiting_for_parent \cup s.waiting_for_validation :
                    w.proposal.parent < w.round
           /\ \A w \in s.waiting_for_validation :
                    MaxRestarts = 0 /\ ~s.evidence_only => FitsQuorum(s, w.proposal)
BY DEF Core, Typed, Instances, Below, Fitting

LEMMA FitsTheQuorum ==
    ASSUME NEW s, Core(s), NEW p \in Proposals, FitsParent(s, p),
           p.parent = NoRound \/ Accepted(s, p.parent)
    PROVE  FitsQuorum(s, p)
<1>1. CASE p.parent = NoRound
  BY <1>1 DEF FitsParent, FitsQuorum
<1>2. CASE p.parent # NoRound
  <2>1. p.parent \in Rounds /\ Accepted(s, p.parent)
    BY <1>2 DEF Proposals
  <2>2. s.rounds[p.parent].quorum_echoes = {ProposalIn(s, p.parent)}
    BY <2>1, AcceptedIs
  <2> QED BY <1>2, <2>1, <2>2 DEF FitsParent, FitsQuorum
<1> QED BY <1>1, <1>2

LEMMA ValidateProposalCalm ==
    ASSUME NEW s, Core(s), NEW r \in Rounds, NEW p \in Proposals, p.parent < r,
           p.parent = NoRound \/ Accepted(s, p.parent), NEW ancestors \in Seq(Blocks)
    PROVE  Calm(s, ValidateProposal(s, r, p, ancestors))
<1>1. CASE ~FitsParent(s, p)
  BY <1>1, CalmReflexive DEF ValidateProposal
<1>2. CASE FitsParent(s, p) /\ p.block \in NeedsValidation
  <2> DEFINE w == [proposed |-> ProposedBlock(p, ancestors), round |-> r, proposal |-> p]
             b == s.waiting_for_validation \cup {w}
  <2>1. ValidateProposal(s, r, p, ancestors) = SetWaiting(s, s.waiting_for_parent, b)
    <3>1. s \in Instances
      BY DEF Core, Typed
    <3> QED BY <1>2, <3>1 DEF ValidateProposal, SetWaiting, Instances
  <2>2. w \in [proposed : ProposedBlocks, round : Rounds, proposal : Proposals]
    <3>1. p.block \in Blocks \cup {NoBlock} /\ p.timestamp \in Int
      BY DEF Proposals
    <3> QED BY <3>1 DEF ProposedBlock, ProposedBlocks
  <2>3. w.proposal = p /\ w.round = r
    OBVIOUS
  <2>4. FitsQuorum(s, p)
    BY <1>2, FitsTheQuorum
  <2> HIDE DEF w
  <2>5. IsFiniteSet(b)
    BY FS_AddElement, Waiting
  <2>6. \A y \in b : y \in s.waiting_for_validation \/ FitsQuorum(s, y.proposal)
    BY <2>3, <2>4
  <2>7. \A y \in s.waiting_for_parent \cup b : y.proposal.parent < y.round
    BY <2>3, Waiting
  <2>8. b \subseteq [proposed : ProposedBlocks, round : Rounds, proposal : Proposals]
    BY <2>2, Waiting
  <2> HIDE DEF b
  <2> QED BY <2>1, <2>5, <2>6, <2>7, <2>8, Waiting, SetWaitingCalm
<1>3. CASE FitsParent(s, p) /\ p.block \notin NeedsValidation
  <2>1. ValidateProposal(s, r, p, ancestors) = InsertAndRecord(s, r, p)
    BY <1>3 DEF ValidateProposal
  <2>2. Storable(s, r, p)
    BY <1>3, FitsTheQuorum DEF Storable
  <2> QED BY <2>1, <2>2, InsertAndRecordCalm
<1> QED BY <1>1, <1>2, <1>3

LEMMA ReleaseWaitingCalm ==
    ASSUME NEW s, Core(s), NEW r \in Rounds, Accepted(s, r)
    PROVE  Calm(s, ReleaseWaiting(s, r))
<1> DEFINE ready == {w \in s.waiting_for_parent : w.proposal.parent = r}
           values == AncestorValues(s, r)
           t == [s EXCEPT !.waiting_for_parent = @ \ ready]
           order == SetToSeq(ready)
           n == Len(order)
           ancestors == CHOOSE a \in values : TRUE
           Is(f) == f = [i \in 0 .. n |->
                IF i = 0 THEN t
                ELSE ValidateProposal(f[i - 1], order[i].round, order[i].proposal, ancestors)]
           after == CHOOSE f : Is(f)
           X == {x \in Instances : Calm(s, x)}
<1>1. values # {} /\ ancestors \in Seq(Blocks)
  <2>1. AncestorValues(s, r) # {} /\ AncestorValues(s, r) \subseteq Seq(Blocks)
    BY AncestorValuesOfAccepted
  <2> QED BY <2>1
<1>2. CASE ready = {}
  BY <1>2, CalmReflexive DEF ReleaseWaiting
<1>3. CASE ready # {}
  <2>1. ReleaseWaiting(s, r) = after[n]
    BY <1>1, <1>3 DEF ReleaseWaiting
  <2> HIDE DEF values, ancestors
  <2>2. IsFiniteSet(ready)
    BY Waiting, FS_Subset
  <2>3. /\ n \in Nat
        /\ \A i \in 1 .. n : /\ order[i].round \in Rounds /\ order[i].proposal \in Proposals
                             /\ order[i].proposal.parent < order[i].round
                             /\ order[i].proposal.parent = r
    <3>1. n \in Nat /\ \A i \in 1 .. n : order[i] \in ready
      BY <2>2, SetToSeqIs
    <3> HIDE DEF n, order
    <3> QED BY <3>1, Waiting
  <2>4. t \in X
    <3> DEFINE a == s.waiting_for_parent \ ready
    <3>1. t = SetWaiting(s, a, s.waiting_for_validation)
      BY DEF Core, Typed, Instances, SetWaiting
    <3>2. IsFiniteSet(a) /\ a \subseteq s.waiting_for_parent
      BY Waiting, FS_Subset
    <3> HIDE DEF a, t
    <3>3. Calm(s, t)
      BY <3>1, <3>2, Waiting, SetWaitingCalm
    <3> QED BY <3>3 DEF Calm, Mild, Core, Typed
  <2> HIDE DEF t, order, n
  <2>5. \A i \in 1 .. n, x \in X :
            ValidateProposal(x, order[i].round, order[i].proposal, ancestors) \in X
    <3> SUFFICES ASSUME NEW i \in 1 .. n, NEW x \in X
                 PROVE  ValidateProposal(x, order[i].round, order[i].proposal, ancestors) \in X
      OBVIOUS
    <3>1. Core(x) /\ Calm(s, x)
      BY DEF Calm, Mild
    <3>2. Accepted(x, r)
      BY <3>1, StaysAccepted DEF Calm, Mild
    <3> DEFINE y == ValidateProposal(x, order[i].round, order[i].proposal, ancestors)
    <3>3. Calm(x, y)
      BY <1>1, <2>3, <3>1, <3>2, ValidateProposalCalm
    <3> HIDE DEF y
    <3>4. Calm(s, y)
      BY <3>1, <3>3, CalmTransitive
    <3>5. y \in Instances
      BY <3>4 DEF Calm, Mild, Core, Typed
    <3> QED BY <3>4, <3>5 DEF y
  <2>6. \E f : Is(f)
    <3> DEFINE F == [y \in X \X (1 .. n) |->
                        ValidateProposal(y[1], order[y[2]].round, order[y[2]].proposal, ancestors)]
    <3>1. \A i \in 1 .. n, x \in X :
            F[<<x, i>>] = ValidateProposal(x, order[i].round, order[i].proposal, ancestors)
      <4> SUFFICES ASSUME NEW i \in 1 .. n, NEW x \in X
                   PROVE  F[<<x, i>>] = ValidateProposal(x, order[i].round, order[i].proposal, ancestors)
        OBVIOUS
      <4>1. <<x, i>> \in X \X (1 .. n)
        OBVIOUS
      <4> HIDE DEF X
      <4> QED BY <4>1
    <3> HIDE DEF F, X
    <3>2. PICK f \in [0 .. n -> X] : Iterates(f, 0, n, t, F)
      <4>1. \A i \in 0 .. n, x \in X : i # 0 => F[<<x, i>>] \in X
        <5> SUFFICES ASSUME NEW i \in 1 .. n, NEW x \in X PROVE F[<<x, i>>] \in X
          BY <2>3
        <5> QED BY <2>5, <3>1
      <4>2. 0 \in Int /\ n \in Int
        BY <2>3
      <4> QED BY <2>4, <4>1, <4>2, LoopExists, Zenon
    <3>3. ASSUME NEW i \in 0 .. n
          PROVE  f[i] = IF i = 0 THEN t ELSE
                        ValidateProposal(f[i - 1], order[i].round, order[i].proposal, ancestors)
      <4>1. i # 0 => i \in 1 .. n /\ f[i - 1] \in X
        BY <2>3
      <4> QED BY <3>1, <3>2, <4>1 DEF Iterates
    <3>4. Is(f)
      BY <3>2, <3>3
    <3> QED BY <3>4
  <2>7. Is(after)
    BY <2>6, Zenon
  <2> HIDE DEF after
  <2>8. \A i \in 0 .. n : after[i] = IF i = 0 THEN t ELSE
                ValidateProposal(after[i - 1], order[i].round, order[i].proposal, ancestors)
    BY <2>7
  <2>9. \A i \in 0 .. n : after[i] \in X
    <3> HIDE DEF X
    <3>1. after[0] \in X
      BY <2>3, <2>4, <2>8
    <3>2. \A i \in 0 .. n : i # 0 /\ after[i - 1] \in X => after[i] \in X
      <4> SUFFICES ASSUME NEW i \in 1 .. n, after[i - 1] \in X PROVE after[i] \in X
        BY <2>3
      <4>1. after[i] = ValidateProposal(after[i - 1], order[i].round, order[i].proposal, ancestors)
        BY <2>3, <2>8
      <4> QED BY <2>5, <4>1
    <3> QED BY <2>3, <3>1, <3>2, LoopStays
  <2>10. after[n] \in X
    BY <2>3, <2>9
  <2> QED BY <2>1, <2>10
<1> QED BY <1>2, <1>3

LEMMA AcceptMild ==
    ASSUME NEW s, Core(s), NEW r \in Rounds, Acceptable(s, r)
    PROVE  Mild(s, Accept(s, r)) /\ Accepted(Accept(s, r), r)
<1> DEFINE p == ProposalIn(s, r)
           h == IF p.parent = NoRound THEN 0 ELSE s.rounds[p.parent].accepted_height + 1
           x == [s.rounds[r] EXCEPT !.accepted_height = h]
           t == [s EXCEPT !.rounds[r] = x]
<1> s \in Instances
  BY DEF Core, Typed
<1> s.rounds[r] \in RoundStates /\ r \in Nat
  BY RoundsAssumption DEF Instances, Rounds
<1>1. /\ ~Accepted(s, r) /\ s.rounds[r].proposal = {p} /\ p \in Proposals
      /\ p.parent \in -1 .. r - 1 /\ p \in s.rounds[r].quorum_echoes
      /\ HeardFrom(s, p)
      /\ p.parent # NoRound => Accepted(s, p.parent)
      /\ \A q \in p.parent + 1 .. r - 1 : Skippable(s, q)
  <2>1. PICK o \in s.rounds[r].proposal :
            /\ o \in s.rounds[r].quorum_echoes
            /\ \A inactive \in o.inactive : \A v \in Validators \ inactive :
                    s.active[v] # NoRound \/ s.faults[v] # "None"
            /\ o.parent # NoRound => Accepted(s, o.parent)
            /\ \A q \in o.parent + 1 .. r - 1 : Skippable(s, q)
    BY DEF Acceptable
  <2>2. s.rounds[r].proposal = {p} /\ p \in Proposals /\ p.parent \in -1 .. r - 1
    BY <2>1, TheProposal DEF Core
  <2>3. o = p
    BY <2>2
  <2>4. ~Accepted(s, r)
    BY DEF Acceptable
  <2> HIDE DEF p
  <2> QED BY <2>1, <2>2, <2>3, <2>4 DEF HeardFrom
<1>2. p.parent # NoRound => p.parent \in Rounds /\ p.parent < r
  BY <1>1, RoundsAssumption DEF Rounds, NoRound
<1>3. h \in Rounds /\ h <= r /\ h # NoRound
  <2>1. CASE p.parent = NoRound
    BY <2>1, RoundsAssumption DEF Rounds, NoRound
  <2>2. CASE p.parent # NoRound
    <3> DEFINE g == s.rounds[p.parent].accepted_height
    <3>1. g \in {NoRound} \cup Rounds /\ g # NoRound /\ g <= p.parent
      BY <1>1, <1>2, <2>2 DEF Accepted, Instances, RoundStates, Core, Typed
    <3> HIDE DEF g
    <3>2. g + 1 \in Rounds /\ g + 1 <= r
      BY <1>1, <1>2, <2>2, <3>1, RoundsAssumption DEF Rounds, NoRound
    <3> QED BY <2>2, <3>2 DEF g, Rounds, NoRound
  <2> QED BY <2>1, <2>2
<1> HIDE DEF h
<1>4. Accept(s, r) = t
  BY DEF Accept, Instances, RoundStates, h
<1>5. /\ x \in RoundStates /\ x.votes = s.rounds[r].votes /\ x.echoes = s.rounds[r].echoes
      /\ x.quorum_echoes = s.rounds[r].quorum_echoes /\ x.quorum_votes = s.rounds[r].quorum_votes
      /\ x.proposal = s.rounds[r].proposal /\ x.accepted_height = h
  BY <1>3 DEF RoundStates
<1> HIDE DEF x
<1>6. /\ t \in Instances /\ t = [s EXCEPT !.rounds = t.rounds]
      /\ t.rounds[r] = x /\ \A q \in Rounds : q # r => t.rounds[q] = s.rounds[q]
  BY <1>5, RoundSet
<1> HIDE DEF t
<1>7. Accepted(t, r) /\ ProposalIn(t, r) = p
  BY <1>1, <1>3, <1>5, <1>6 DEF Accepted, ProposalIn
<1> HIDE DEF p
<1>8. LinkedAt(t, r) /\ HeardFrom(s, ProposalIn(t, r))
  <2>1. p.parent # NoRound => Accepted(t, p.parent)
    BY <1>1, <1>2, <1>6 DEF Accepted
  <2>2. \A q \in p.parent + 1 .. r - 1 : Skippable(t, q)
    <3> SUFFICES ASSUME NEW q \in p.parent + 1 .. r - 1 PROVE Skippable(t, q)
      OBVIOUS
    <3>1. q \in Rounds /\ q # r
      BY <1>1, RoundsAssumption DEF Rounds
    <3> QED BY <1>1, <1>6, <3>1 DEF Skippable
  <2>3. t.rounds[r].accepted_height =
            IF p.parent = NoRound THEN 0 ELSE t.rounds[p.parent].accepted_height + 1
    BY <1>2, <1>5, <1>6 DEF h
  <2> QED BY <1>1, <1>7, <2>1, <2>2, <2>3 DEF LinkedAt
<1>9. /\ IsOption(x.proposal) /\ IsOption(x.quorum_echoes) /\ IsOption(x.quorum_votes)
      /\ x.accepted_height <= r /\ \A q \in x.proposal : q.parent < r
      /\ x.quorum_echoes # {} => x.proposal \subseteq x.quorum_echoes
      /\ x.accepted_height # NoRound => x.quorum_echoes # {} /\ x.proposal # {}
  BY <1>1, <1>3, <1>5 DEF Core, Typed, IsOption, Below
<1>10. Core(t) /\ Keeps(s, t) /\ Stays(s, t)
  BY <1>1, <1>5, <1>6, <1>8, <1>9, RoundChange
<1>11. /\ t.faults = s.faults /\ t.evidence_only = s.evidence_only
       /\ t.first_non_finalized = s.first_non_finalized /\ s.first_non_finalized \in Int
  BY <1>6 DEF Instances
<1>12. \A q \in Rounds : /\ t.rounds[q].echoes = s.rounds[q].echoes
                         /\ t.rounds[q].votes = s.rounds[q].votes
                         /\ s.rounds[q].quorum_echoes \subseteq t.rounds[q].quorum_echoes
                         /\ s.rounds[q].quorum_votes \subseteq t.rounds[q].quorum_votes
  BY <1>5, <1>6
<1> QED BY <1>4, <1>7, <1>10, <1>11, <1>12, NoticingKept DEF Mild

LEMMA UpdateAcceptedProposalMild ==
    ASSUME NEW s, Core(s), NEW r \in Rounds
    PROVE  Mild(s, UpdateAcceptedProposal(s, r))
<1> DEFINE t == Accept(s, r)
           u == CreateMessage(t, r, Vote(TRUE))
<1>1. CASE ~Acceptable(s, r)
  BY <1>1, CalmReflexive DEF UpdateAcceptedProposal, Calm
<1>2. CASE Acceptable(s, r)
  <2>1. Mild(s, t) /\ Accepted(t, r)
    BY <1>2, AcceptMild
  <2>2. UpdateAcceptedProposal(s, r) = ReleaseWaiting(u, r)
    BY <1>2 DEF UpdateAcceptedProposal
  <2> HIDE DEF t
  <2>3. Vote(TRUE) \in [echo : Proposals] \cup [vote : BOOLEAN]
    BY DEF Vote
  <2>4. Mild(t, u)
    BY <2>1, <2>3, CreateMessageCalm DEF Calm, Mild
  <2> HIDE DEF u
  <2>5. Core(u) /\ Accepted(u, r)
    BY <2>1, <2>4, StaysAccepted DEF Mild
  <2>6. Mild(u, ReleaseWaiting(u, r))
    BY <2>5, ReleaseWaitingCalm DEF Calm
  <2>7. Mild(s, u)
    BY <2>1, <2>4, MildTransitive
  <2> QED BY <2>2, <2>6, <2>7, MildTransitive
<1> QED BY <1>1, <1>2

LEMMA EchoProposalCalm ==
    ASSUME NEW s, Core(s), NEW r \in Rounds
    PROVE  Calm(s, EchoProposal(s, r))
<1>1. CASE s.rounds[r].proposal = {}
  BY <1>1, CalmReflexive DEF EchoProposal
<1>2. CASE s.rounds[r].proposal # {}
  <2>1. ProposalIn(s, r) \in Proposals
    BY <1>2, TheProposal DEF Core
  <2>2. Echo(ProposalIn(s, r)) \in [echo : Proposals] \cup [vote : BOOLEAN]
    BY <2>1 DEF Echo
  <2> QED BY <1>2, <2>2, CreateMessageCalm DEF EchoProposal
<1> QED BY <1>1, <1>2

-----------------------------------------------------------------------------
(* Our own proposals                                                        *)

LEMMA RecordOwnProposalCalm ==
    ASSUME NEW s, Core(s), NEW r \in Rounds, NEW p, Storable(s, r, p)
    PROVE  Calm(s, RecordOwnProposal(s, r, p)) /\ SameVotes(s, RecordOwnProposal(s, r, p))
<1> DEFINE u == RecordEntry(s, ProposalEntry(p, r))
           w == InsertProposal(u, r, p)
<1>1. CASE ~HasEchoed(s, r, Us)
  BY <1>1, CalmReflexive DEF RecordOwnProposal, SameVotes
<1>2. CASE HasEchoed(s, r, Us)
  <2>1. Loggable(s, ProposalEntry(p, r))
    BY DEF Storable, Loggable, ProposalEntry, Entries
  <2>2. Calm(s, u) /\ LogsOnly(s, u)
    BY <2>1, RecordEntryCalm
  <2>3. RecordOwnProposal(s, r, p) = InsertIfLogged(u, r, p)
    BY <1>2 DEF RecordOwnProposal
  <2> HIDE DEF u
  <2>4. Core(u) /\ Storable(u, r, p)
    BY <2>2, StorableKept DEF Calm, Mild
  <2>7. u.rounds = s.rounds
    BY <2>2 DEF LogsOnly, Core, Typed, Instances
  <2>5. CASE u.write_wal /\ MayInsert(u, r, p)
    <3>1. Calm(u, w) /\ SameVotes(u, w)
      BY <2>4, <2>5, InsertProposalCalm
    <3>2. InsertIfLogged(u, r, p) = MarkDirty(w, r)
      BY <2>5 DEF InsertIfLogged
    <3> HIDE DEF w
    <3>3. r \in Nat
      BY RoundsAssumption DEF Rounds
    <3>4. Calm(w, MarkDirty(w, r)) /\ MarkDirty(w, r) = [w EXCEPT !.dirty = MarkDirty(w, r).dirty]
      BY <3>1, <3>3, MarkDirtyCalm DEF Calm, Mild
    <3>5. MarkDirty(w, r).rounds = w.rounds
      BY <3>1, <3>4 DEF Calm, Mild, Core, Typed, Instances
    <3>6. SameVotes(s, MarkDirty(w, r))
      BY <2>7, <3>1, <3>5 DEF SameVotes
    <3> QED BY <2>2, <2>3, <3>1, <3>2, <3>4, <3>6, CalmTransitive
  <2>6. CASE ~(u.write_wal /\ MayInsert(u, r, p))
    BY <2>2, <2>3, <2>6, <2>7 DEF InsertIfLogged, SameVotes
  <2> QED BY <2>5, <2>6
<1> QED BY <1>1, <1>2

LEMMA CreateEchoAndProposalCalm ==
    ASSUME NEW s, Core(s), NEW p, Storable(s, s.current_round, p)
    PROVE  Calm(s, CreateEchoAndProposal(s, p)) /\ SameVotes(s, CreateEchoAndProposal(s, p))
<1> DEFINE r == s.current_round
           u == CreateMessage(s, r, Echo(p))
<1>1. r \in Rounds
  BY DEF Core, Typed, Instances
<1>2. CASE HasEchoed(s, r, Us)
  BY <1>2, CalmReflexive DEF CreateEchoAndProposal, SameVotes
<1>3. CASE ~HasEchoed(s, r, Us)
  <2>1. Echo(p) \in [echo : Proposals] \cup [vote : BOOLEAN] /\ IsEcho(Echo(p))
    BY DEF Echo, Storable, IsEcho
  <2>2. Calm(s, u) /\ SameVotes(s, u)
    BY <1>1, <2>1, CreateMessageCalm
  <2>3. CreateEchoAndProposal(s, p) = RecordOwnProposal(u, r, p)
    BY <1>3 DEF CreateEchoAndProposal
  <2> HIDE DEF u
  <2>4. Core(u) /\ Storable(u, r, p)
    BY <2>2, StorableKept DEF Calm, Mild
  <2>5. Calm(u, RecordOwnProposal(u, r, p)) /\ SameVotes(u, RecordOwnProposal(u, r, p))
    BY <1>1, <2>4, RecordOwnProposalCalm
  <2>6. SameVotes(s, RecordOwnProposal(u, r, p))
    BY <2>2, <2>5 DEF SameVotes
  <2> QED BY <2>2, <2>3, <2>5, <2>6, CalmTransitive
<1> QED BY <1>2, <1>3

SetPending(s, pending, requested) ==
    [s EXCEPT !.pending_proposal = pending, !.requested = requested]

\* A block for this context and parent will fit.
Pending(s, x) ==
    MaxRestarts = 0 /\ ~s.evidence_only =>
        /\ x.context.timestamp >= StartTimestamp
        /\ x.parent # NoRound =>
             \E q \in s.rounds[x.parent].quorum_echoes :
                 HeardFrom(s, q) /\ x.context.timestamp >= q.timestamp + MinBlockTime

LEMMA SetPendingCalm ==
    ASSUME NEW s, Core(s), NEW a, NEW b \in SUBSET Contexts, IsOption(a),
           a \subseteq [context : Contexts, round : Rounds, parent : {NoRound} \cup Rounds],
           \A x \in a : x.parent < x.round /\ Pending(s, x)
    PROVE  Calm(s, SetPending(s, a, b)) /\ SameVotes(s, SetPending(s, a, b))
<1> DEFINE t == SetPending(s, a, b)
<1> s \in Instances
  BY DEF Core, Typed
<1>1. t \in Instances
  BY ZenonT(60) DEF Instances, SetPending
<1>2. /\ t.rounds = s.rounds /\ t.faults = s.faults /\ t.current_round = s.current_round
      /\ t.first_non_finalized = s.first_non_finalized /\ t.finalized = s.finalized
      /\ t.evidence_only = s.evidence_only /\ t.restarts = s.restarts /\ t.signed = s.signed
      /\ t.bugs = s.bugs /\ t.dirty = s.dirty /\ t.pending_proposal = a
      /\ t.waiting_for_parent = s.waiting_for_parent
      /\ t.waiting_for_validation = s.waiting_for_validation
      /\ t.active = s.active /\ t.active_validator = s.active_validator
      /\ t.write_wal = s.write_wal /\ t.wal = s.wal
  BY DEF Instances, SetPending
<1> HIDE DEF t
<1>3. Below(t)
  BY <1>2 DEF Core, Typed, Below
<1>4. /\ s.dirty <= s.current_round
      /\ IsFiniteSet(s.waiting_for_parent) /\ IsFiniteSet(s.waiting_for_validation)
      /\ s.active_validator => s.write_wal
  BY DEF Core, Typed, Logged
<1>5. MaxRestarts = 0 /\ ~s.evidence_only =>
        \A x \in a : /\ x.context.timestamp >= StartTimestamp
                     /\ x.parent # NoRound =>
                          \E q \in s.rounds[x.parent].quorum_echoes :
                             HeardFrom(s, q) /\ x.context.timestamp >= q.timestamp + MinBlockTime
  BY DEF Pending
<1>6. Calm(s, t)
  BY <1>1, <1>2, <1>3, <1>4, <1>5, FieldsCalm
<1> QED BY <1>2, <1>6 DEF t, SameVotes

\* A parent that is old enough.
LEMMA RipeParent ==
    ASSUME NEW s, Core(s), NEW parent \in {NoRound} \cup Rounds, NEW time \in Int,
           parent = NoRound \/ Accepted(s, parent), EarliestTime(s, parent) <= time,
           MaxRestarts = 0, ~s.evidence_only
    PROVE  /\ time >= StartTimestamp
           /\ parent # NoRound =>
                \E q \in s.rounds[parent].quorum_echoes :
                    HeardFrom(s, q) /\ time >= q.timestamp + MinBlockTime
<1>1. CASE parent = NoRound
  BY <1>1, TimesAssumption DEF EarliestTime
<1>2. CASE parent # NoRound
  <2> DEFINE q == ProposalIn(s, parent)
  <2>1. /\ s.rounds[parent].quorum_echoes = {q} /\ s.rounds[parent].proposal = {q}
        /\ q \in Proposals
    BY <1>2, AcceptedIs
  <2>2. HeardFrom(s, q) /\ FitsQuorum(s, q)
    BY <1>2, <2>1 DEF Core, Fitting
  <2>3. q.timestamp + MinBlockTime <= time
    BY <1>2 DEF EarliestTime
  <2>4. q.timestamp \in Int /\ q.timestamp >= StartTimestamp
    BY <2>1, <2>2 DEF Proposals, FitsQuorum
  <2> HIDE DEF q
  <2>5. time >= q.timestamp + MinBlockTime /\ time >= StartTimestamp
    BY <2>3, <2>4, TimesAssumption
  <2> QED BY <2>1, <2>2, <2>5
<1> QED BY <1>1, <1>2

LEMMA ProposeIfLeaderCalm ==
    ASSUME NEW s, Core(s), NEW parent \in {NoRound} \cup Rounds, NEW now \in Moments,
           parent = NoRound \/ Accepted(s, parent), parent < s.current_round,
           EarliestTime(s, parent) <= now.time
    PROVE  Calm(s, ProposeIfLeader(s, parent, now)) /\ SameVotes(s, ProposeIfLeader(s, parent, now))
<1> DEFINE r == s.current_round
           values == AncestorValues(s, parent)
           context == [timestamp |-> now.time, ancestors |-> CHOOSE a \in values : TRUE]
           quit == \/ ~s.active_validator
                   \/ Us # Leader[r]
                   \/ \E pending \in s.pending_proposal : pending.round = r
                   \/ s.rounds[r].proposal # {}
           over == parent # NoRound /\ (AcceptedSwitchBlock(s, parent) \/ AcceptedDummy(s, parent))
<1>1. now.time \in Int
  BY TimesAssumption
<1>2. values # {} /\ values \subseteq Seq(Blocks)
  BY AncestorValuesOfAccepted
<1>3. s \in Instances /\ r \in Rounds
  BY DEF Core, Typed, Instances
<1>4. CASE quit
  BY <1>4, CalmReflexive DEF ProposeIfLeader, SameVotes
<1>5. CASE ~quit /\ over
  <2> DEFINE p == Dummy(now.time, parent)
  <2>1. ProposeIfLeader(s, parent, now) = CreateEchoAndProposal(s, p)
    BY <1>5 DEF ProposeIfLeader
  <2>2. /\ p \in Proposals /\ p.parent = parent /\ p.timestamp = now.time /\ p.inactive = {}
    BY <1>1 DEF Dummy, Proposal, Proposals
  <2> HIDE DEF p
  <2>3. ASSUME MaxRestarts = 0, ~s.evidence_only PROVE FitsQuorum(s, p)
    <3>1. /\ now.time >= StartTimestamp
          /\ parent # NoRound =>
                \E q \in s.rounds[parent].quorum_echoes :
                    HeardFrom(s, q) /\ now.time >= q.timestamp + MinBlockTime
      BY <1>1, <2>3, RipeParent
    <3> QED BY <2>2, <3>1 DEF FitsQuorum
  <2>4. Storable(s, r, p)
    BY <2>2, <2>3 DEF Storable
  <2> QED BY <2>1, <2>4, CreateEchoAndProposalCalm
<1>6. CASE ~quit /\ ~over
  <2> DEFINE x == [context |-> context, round |-> r, parent |-> parent]
             b == s.requested \cup {context}
  <2>1. ProposeIfLeader(s, parent, now) =
            [s EXCEPT !.pending_proposal = {x}, !.requested = @ \cup {context}]
    BY <1>2, <1>6 DEF ProposeIfLeader
  <2>2. ProposeIfLeader(s, parent, now) = SetPending(s, {x}, b)
    BY <2>1, <1>3 DEF SetPending, Instances
  <2>3. context \in Contexts /\ context.timestamp = now.time
    <3>1. (CHOOSE a \in values : TRUE) \in Seq(Blocks)
      BY <1>2
    <3> QED BY <1>1, <3>1 DEF Contexts
  <2> HIDE DEF context, values
  <2>4. b \in SUBSET Contexts
    BY <1>3, <2>3 DEF Instances
  <2>5. x \in [context : Contexts, round : Rounds, parent : {NoRound} \cup Rounds]
    BY <1>3, <2>3
  <2>6. x.parent < x.round /\ x.parent = parent /\ x.context.timestamp = now.time
    BY <2>3
  <2> HIDE DEF x, b
  <2>7. Pending(s, x)
    <3> SUFFICES ASSUME MaxRestarts = 0, ~s.evidence_only PROVE Pending(s, x)
      BY DEF Pending
    <3>1. /\ now.time >= StartTimestamp
          /\ parent # NoRound =>
                \E q \in s.rounds[parent].quorum_echoes :
                    HeardFrom(s, q) /\ now.time >= q.timestamp + MinBlockTime
      BY <1>1, RipeParent
    <3> QED BY <2>6, <3>1 DEF Pending
  <2>8. IsOption({x}) /\ \A y \in {x} : y.parent < y.round /\ Pending(s, y)
    BY <2>6, <2>7 DEF IsOption
  <2> QED BY <2>2, <2>4, <2>5, <2>8, SetPendingCalm
<1> QED BY <1>4, <1>5, <1>6

-----------------------------------------------------------------------------
(* The current round                                                        *)

\* A step that only touches what is asked of the node, the timers and the clock.
Ask(s, next, timers, start, paused, requested, lost, blocks) ==
    [s EXCEPT !.next_scheduled_update = next, !.timers = timers, !.current_round_start = start,
              !.paused = paused, !.requested = requested, !.lost_timers = lost,
              !.lost_blocks = blocks]

LEMMA AskFields ==
    ASSUME NEW s \in Instances
    PROVE  /\ s.next_scheduled_update \in SUBSET Int /\ s.timers \in SUBSET Int
           /\ s.current_round_start \in SUBSET Int /\ s.paused \in BOOLEAN
           /\ s.requested \in SUBSET Contexts /\ s.lost_timers \in SUBSET Int
           /\ s.lost_blocks \in SUBSET Rounds
BY DEF Instances

LEMMA AskCalm ==
    ASSUME NEW s, Core(s), NEW a \in SUBSET Int, NEW b \in SUBSET Int, NEW c \in SUBSET Int,
           NEW d \in BOOLEAN, NEW e \in SUBSET Contexts, NEW f \in SUBSET Int, NEW g \in SUBSET Rounds
    PROVE  LET t == Ask(s, a, b, c, d, e, f, g)
           IN  /\ Calm(s, t) /\ SameVotes(s, t)
               /\ t.rounds = s.rounds /\ t.current_round = s.current_round
               /\ t.signed = s.signed
<1> DEFINE t == Ask(s, a, b, c, d, e, f, g)
<1>1. s \in Instances /\ s.dirty <= s.current_round
  BY DEF Core, Typed
<1>2. t \in Instances
  BY <1>1, ZenonT(60) DEF Instances, Ask
<1>3. /\ t.next_scheduled_update = a /\ t.timers = b /\ t.current_round_start = c
      /\ t.paused = d /\ t.requested = e /\ t.lost_timers = f /\ t.lost_blocks = g
      /\ t.rounds = s.rounds /\ t.current_round = s.current_round /\ t.signed = s.signed
      /\ t.dirty = s.dirty /\ t.disk = s.disk
  BY <1>1 DEF Instances, Ask
<1>4. t = [s EXCEPT !.dirty = t.dirty, !.current_round_start = t.current_round_start,
                    !.next_scheduled_update = t.next_scheduled_update, !.timers = t.timers,
                    !.requested = t.requested, !.paused = t.paused, !.disk = t.disk,
                    !.lost_timers = t.lost_timers, !.lost_blocks = t.lost_blocks]
  <2>1. t = [s EXCEPT !.dirty = s.dirty, !.current_round_start = c,
                      !.next_scheduled_update = a, !.timers = b,
                      !.requested = e, !.paused = d, !.disk = s.disk,
                      !.lost_timers = f, !.lost_blocks = g]
    BY <1>1 DEF Instances, Ask
  <2> HIDE DEF t
  <2> QED BY <1>3, <2>1
<1> HIDE DEF t
<1>5. Calm(s, t) /\ SameVotes(s, t)
  BY <1>1, <1>2, <1>3, <1>4, Quiet
<1> QED BY <1>3, <1>5 DEF t

LEMMA ScheduleUpdateCalm ==
    ASSUME NEW s, Core(s), NEW time \in Int
    PROVE  LET t == ScheduleUpdate(s, time)
           IN  Calm(s, t) /\ SameVotes(s, t) /\ t.signed = s.signed
<1> DEFINE b == s.timers \cup {time}
           t == Ask(s, {time}, b, s.current_round_start, s.paused, s.requested,
                    s.lost_timers, s.lost_blocks)
<1>1. s \in Instances
  BY DEF Core, Typed
<1>2. CASE \A next \in s.next_scheduled_update : next > time
  <2>1. ScheduleUpdate(s, time) = [s EXCEPT !.next_scheduled_update = {time}, !.timers = b]
    BY <1>2 DEF ScheduleUpdate
  <2>2. {time} \in SUBSET Int /\ b \in SUBSET Int
    BY <1>1, AskFields
  <2> HIDE DEF b
  <2>3. ScheduleUpdate(s, time) = t
    BY <1>1, <2>1 DEF Instances, Ask
  <2> QED BY <1>1, <2>2, <2>3, AskFields, AskCalm
<1>3. CASE ~ \A next \in s.next_scheduled_update : next > time
  <2>1. ScheduleUpdate(s, time) = s
    BY <1>3 DEF ScheduleUpdate
  <2> QED BY <2>1, CalmReflexive DEF SameVotes
<1> QED BY <1>2, <1>3

LEMMA StartedCalm ==
    ASSUME NEW s, Core(s), NEW c \in SUBSET Int, NEW d \in BOOLEAN
    PROVE  LET t == [s EXCEPT !.paused = d, !.current_round_start = c]
           IN  Calm(s, t) /\ SameVotes(s, t) /\ t.rounds = s.rounds /\ t.current_round = s.current_round
<1> DEFINE t == Ask(s, s.next_scheduled_update, s.timers, c, d, s.requested,
                    s.lost_timers, s.lost_blocks)
<1>1. s \in Instances
  BY DEF Core, Typed
<1>2. [s EXCEPT !.paused = d, !.current_round_start = c] = t
  BY <1>1 DEF Instances, Ask
<1> QED BY <1>1, <1>2, AskFields, AskCalm

\* There is always a parent to build on.
LEMMA ParentExists ==
    ASSUME NEW s, Core(s), ~s.evidence_only
    PROVE  ParentCandidates(s) # {}
<1> DEFINE c == s.current_round
           A == {q \in -1 .. c - 1 : q = NoRound \/ Accepted(s, q)}
<1>1. c \in 0 .. LastRound + 1 /\ LastRound \in Nat /\ c \in Nat
  BY RoundsAssumption DEF Core, Typed, Instances, Rounds
<1>2. NoRound \in A
  BY <1>1 DEF NoRound
<1>3. A \in SUBSET Int /\ A # {} /\ c \in Nat /\ \A q \in A : -1 <= q /\ q <= c
  BY <1>1, <1>2
<1>4. Max(A) \in A /\ \A q \in A : q <= Max(A)
  <2> HIDE DEF A
  <2> QED BY <1>3, MaxIsGreatest
<1>5. ASSUME NEW r \in Max(A) + 1 .. c - 1 PROVE Skippable(s, r)
  <2>1. Max(A) \in -1 .. c - 1
    BY <1>4
  <2>2. r \in 0 .. c - 1 /\ r > Max(A)
    BY <1>1, <2>1
  <2>3. r \notin A
    BY <1>4, <2>1, <2>2
  <2>4. ~Accepted(s, r)
    BY <1>1, <2>2, <2>3
  <2> QED BY <2>2, <2>4 DEF Core, Lowest
<1>6. Max(A) \in ParentCandidates(s)
  BY <1>4, <1>5 DEF ParentCandidates
<1> QED BY <1>6

LEMMA BugsCalm ==
    ASSUME NEW s, Core(s), s.evidence_only, NEW b \in SUBSET Bugs
    PROVE  Calm(s, [s EXCEPT !.bugs = b]) /\ SameVotes(s, [s EXCEPT !.bugs = b])
<1> DEFINE t == [s EXCEPT !.bugs = b]
<1> s \in Instances
  BY DEF Core, Typed
<1>1. t \in Instances
  BY ZenonT(60) DEF Instances
<1>2. /\ t.rounds = s.rounds /\ t.faults = s.faults /\ t.current_round = s.current_round
      /\ t.first_non_finalized = s.first_non_finalized /\ t.finalized = s.finalized
      /\ t.evidence_only = s.evidence_only /\ t.restarts = s.restarts /\ t.signed = s.signed
      /\ t.dirty = s.dirty /\ t.pending_proposal = s.pending_proposal
      /\ t.waiting_for_parent = s.waiting_for_parent
      /\ t.waiting_for_validation = s.waiting_for_validation
      /\ t.active = s.active /\ t.active_validator = s.active_validator
      /\ t.write_wal = s.write_wal /\ t.wal = s.wal
  BY DEF Instances
<1> HIDE DEF t
<1>3. Typed(t) /\ Lowest(t) /\ Sane(t)
  BY <1>1, <1>2 DEF Core, Typed, Below, Lowest, Sane
<1>4. Own(t) = Own(s) /\ Keeps(s, t) /\ Stays(s, t)
  BY <1>2 DEF Own, Keeps, Stays
<1>5. Logged(t)
  BY <1>2, <1>4, LoggedKept DEF Core, Logged
<1>6. Core(t)
  BY <1>2, <1>3, <1>5, FieldsChange
<1>7. Noticing(t)
  BY <1>2 DEF Noticing
<1> QED BY <1>2, <1>4, <1>6, <1>7, SameRoundsRest DEF Calm, Mild, t

\* The round is done, or it is the current one and remains it for a reason.
Passed(s, r) == s.current_round > r \/ Open(s)

LEMMA StillOpen ==
    ASSUME NEW s, Core(s), ~Skippable(s, s.current_round), ~Accepted(s, s.current_round),
           NEW t, Calm(s, t), SameVotes(s, t)
    PROVE  Passed(t, s.current_round)
<1>1. s.current_round \in Rounds /\ t.current_round = s.current_round
  BY DEF Core, Typed, Instances, Calm, Mild, Stays
<1> QED BY <1>1 DEF Passed, Open, SameVotes, Skippable, Calm, Rests

LEMMA LeaveRoundMoves ==
    ASSUME NEW s, Core(s), Skippable(s, s.current_round) \/ Accepted(s, s.current_round)
    PROVE  LET t == [s EXCEPT !.current_round_start = {},
                              !.current_round = RoundAfter(s.current_round)]
           IN  Moves(s, t) /\ Passed(t, s.current_round)
<1> DEFINE r == s.current_round
           t == [s EXCEPT !.current_round_start = {}, !.current_round = RoundAfter(r)]
<1> s \in Instances
  BY DEF Core, Typed
<1>0. r \in Rounds /\ r \in Nat /\ s.first_non_finalized \in Int /\ s.dirty \in Int
  BY RoundsAssumption DEF Instances, Rounds, NoRound
<1>1. RoundAfter(r) \in Rounds /\ RoundAfter(r) \in {r, r + 1}
  BY <1>0, RoundsAssumption DEF RoundAfter, Rounds
<1>2. t \in Instances
  BY <1>1, ZenonT(60) DEF Instances
<1>3. /\ t.rounds = s.rounds /\ t.faults = s.faults /\ t.current_round = RoundAfter(r)
      /\ t.first_non_finalized = s.first_non_finalized /\ t.finalized = s.finalized
      /\ t.evidence_only = s.evidence_only /\ t.restarts = s.restarts /\ t.signed = s.signed
      /\ t.bugs = s.bugs /\ t.dirty = s.dirty /\ t.pending_proposal = s.pending_proposal
      /\ t.waiting_for_parent = s.waiting_for_parent
      /\ t.waiting_for_validation = s.waiting_for_validation
      /\ t.active = s.active /\ t.active_validator = s.active_validator
      /\ t.write_wal = s.write_wal /\ t.wal = s.wal
  BY DEF Instances
<1> HIDE DEF t
<1>4. t.dirty <= t.current_round
  BY <1>0, <1>1, <1>3 DEF Core, Typed
<1>5. Typed(t) /\ Sane(t)
  BY <1>2, <1>3, <1>4 DEF Core, Typed, Below, Sane
<1>6. Lowest(t)
  <2> SUFFICES ASSUME ~s.evidence_only, NEW q \in 0 .. t.current_round - 1
               PROVE  Skippable(t, q) \/ Accepted(t, q)
    BY <1>3 DEF Lowest
  <2>1. q \in 0 .. r - 1 \/ q = r
    BY <1>0, <1>1, <1>3
  <2>2. Skippable(s, q) \/ Accepted(s, q)
    BY <2>1 DEF Core, Lowest
  <2> QED BY <1>3, <2>2, SameRounds
<1>7. Own(t) = Own(s) /\ Keeps(s, t)
  BY <1>3 DEF Own, Keeps
<1>8. Logged(t)
  BY <1>3, <1>7, LoggedKept DEF Core, Logged
<1>9. Core(t)
  BY <1>3, <1>5, <1>6, <1>8, FieldsChange
<1>10. Noticing(s) => Noticing(t)
  BY <1>0, <1>3, NoticingKept
<1>11. Chained(s) => Chained(t)
  <2>1. \A q : /\ Accepted(t, q) <=> Accepted(s, q)
               /\ ProposalIn(t, q) = ProposalIn(s, q)
               /\ Committed(t, q) <=> Committed(s, q)
    BY <1>3 DEF Accepted, ProposalIn, Committed
  <2>2. \A q : /\ AcceptedSwitchBlock(t, q) <=> AcceptedSwitchBlock(s, q)
               /\ AcceptedDummy(t, q) <=> AcceptedDummy(s, q)
    BY <1>3, <2>1 DEF AcceptedSwitchBlock, AcceptedDummy
  <2>3. \A q : /\ LeaderStops(t, q) <=> LeaderStops(s, q)
               /\ LeadsUp(t, q) <=> LeadsUp(s, q)
    BY <1>3, <2>1, <2>2 DEF LeaderStops, LeadsUp
  <2> QED BY <1>3, <2>1, <2>3 DEF Chained, Chain
<1>12. Passed(t, r)
  BY <1>0, <1>3, RoundsAssumption DEF Passed, Open, RoundAfter, Rounds
<1> QED BY <1>7, <1>9, <1>10, <1>11, <1>12 DEF Moves, t

LEMMA FirstOpportunityTyped ==
    ASSUME NEW s, Core(s), ParentCandidates(s) # {}
    PROVE  FirstOpportunity(s) \in Int
<1> DEFINE S == ParentCandidates(s)
           f == [q \in S |-> EarliestTime(s, q)]
           c == s.current_round
<1>1. c \in 0 .. LastRound + 1 /\ LastRound \in Nat /\ c - 1 \in Int
  BY RoundsAssumption DEF Core, Typed, Instances, Rounds
<1>2. S \in SUBSET (-1 .. c - 1) /\ \A q \in S : q = NoRound \/ Accepted(s, q)
  BY DEF ParentCandidates
<1>3. ASSUME NEW q \in S PROVE EarliestTime(s, q) \in Int
  <2>1. CASE q = NoRound
    BY <2>1, TimesAssumption DEF EarliestTime
  <2>2. CASE q # NoRound
    <3>1. q \in Rounds /\ Accepted(s, q)
      <4> HIDE DEF S
      <4> QED BY <1>1, <1>2, <2>2 DEF Rounds, NoRound
    <3>2. ProposalIn(s, q) \in Proposals
      BY <3>1, AcceptedIs
    <3> QED BY <2>2, <3>2, TimesAssumption DEF EarliestTime, Proposals
  <2> QED BY <2>1, <2>2
<1>4. f \in [S -> Int] /\ {f[q] : q \in S} = {EarliestTime(s, q) : q \in S}
  BY <1>3
<1>5. Min({f[q] : q \in S}) \in Int
  <2> HIDE DEF S, f
  <2>1. -1 \in Int
    OBVIOUS
  <2> QED BY <1>1, <1>2, <1>4, <2>1, MinOfValues DEF S
<1> HIDE DEF f
<1> QED BY <1>4, <1>5, TimesAssumption DEF FirstOpportunity

LEMMA StartRoundCalm ==
    ASSUME NEW s, Core(s), NEW q \in {NoRound} \cup Rounds, NEW now \in Moments,
           q = NoRound \/ Accepted(s, q), q < s.current_round, EarliestTime(s, q) <= now.time
    PROVE  Calm(s, StartRound(s, q, now)) /\ SameVotes(s, StartRound(s, q, now))
<1> DEFINE u == [s EXCEPT !.current_round_start = {now.time}]
           v == ProposeIfLeader(u, q, now)
           w == ScheduleUpdate(v, now.time + now.timeout)
<1>1. now.time \in Int /\ now.timeout \in Nat /\ now.time + now.timeout \in Int
  BY TimesAssumption
<1>2. StartRound(s, q, now) = IF now.timeout > 0 THEN w ELSE v
  BY DEF StartRound
<1>3. s \in Instances /\ s.paused \in BOOLEAN
  BY DEF Core, Typed, Instances
<1>4. u = [s EXCEPT !.paused = s.paused, !.current_round_start = {now.time}]
  BY <1>3 DEF Instances
<1>5. Calm(s, u) /\ SameVotes(s, u) /\ u.rounds = s.rounds /\ u.current_round = s.current_round
  <2> DEFINE c == {now.time}
  <2>1. c \in SUBSET Int
    BY <1>1
  <2> HIDE DEF c
  <2>2. u = [s EXCEPT !.paused = s.paused, !.current_round_start = c]
    BY <1>4 DEF c
  <2> HIDE DEF u
  <2> QED BY <1>3, <2>1, <2>2, StartedCalm
<1> HIDE DEF u
<1>6. (q = NoRound \/ Accepted(u, q)) /\ EarliestTime(u, q) <= now.time /\ Core(u)
  BY <1>5, SameRounds DEF EarliestTime, Calm, Mild
<1>7. Calm(u, v) /\ SameVotes(u, v)
  BY <1>5, <1>6, ProposeIfLeaderCalm
<1> HIDE DEF v
<1>8. Calm(v, w) /\ SameVotes(v, w)
  BY <1>1, <1>7, ScheduleUpdateCalm DEF Calm, Mild
<1> HIDE DEF w
<1>9. Calm(s, v) /\ SameVotes(s, v)
  BY <1>5, <1>7, CalmTransitive DEF SameVotes
<1>10. Calm(s, w) /\ SameVotes(s, w)
  BY <1>8, <1>9, CalmTransitive DEF SameVotes
<1> QED BY <1>2, <1>9, <1>10

LEMMA StartOrLeaveRoundMoves ==
    ASSUME NEW s, Core(s), NEW now \in Moments
    PROVE  /\ Moves(s, StartOrLeaveRound(s, now))
           /\ Passed(StartOrLeaveRound(s, now), s.current_round)
<1> DEFINE r == s.current_round
           ripe == {q \in ParentCandidates(s) : EarliestTime(s, q) <= now.time}
           done == Skippable(s, r) \/ Accepted(s, r)
           started == \E start \in s.current_round_start : ~(start > now.time)
           later == now.time + now.timeout
<1>1. CASE done
  <2>1. StartOrLeaveRound(s, now) =
            [s EXCEPT !.current_round_start = {}, !.current_round = RoundAfter(r)]
    BY <1>1 DEF StartOrLeaveRound
  <2> QED BY <1>1, <2>1, LeaveRoundMoves
<1>2. CASE ~done /\ ParentCandidates(s) = {}
  <2>1. StartOrLeaveRound(s, now) =
            [s EXCEPT !.bugs = s.bugs \cup {"No suitable parent for current round"}]
    BY <1>2 DEF StartOrLeaveRound
  <2>2. s.evidence_only
    BY <1>2, ParentExists
  <2>3. s.bugs \cup {"No suitable parent for current round"} \in SUBSET Bugs
    BY DEF Core, Typed, Instances, Bugs
  <2> QED BY <1>2, <2>1, <2>2, <2>3, BugsCalm, CalmMoves, StillOpen
<1>3. CASE ~done /\ ParentCandidates(s) # {}
  <2>0. FirstOpportunity(s) \in Int /\ later \in Int
    BY <1>3, FirstOpportunityTyped, TimesAssumption
  <2>1. CASE ripe = {}
    <3>1. StartOrLeaveRound(s, now) = ScheduleUpdate(s, FirstOpportunity(s))
      BY <1>3, <2>1 DEF StartOrLeaveRound
    <3> QED BY <1>3, <2>0, <3>1, ScheduleUpdateCalm, CalmMoves, StillOpen
  <2>2. CASE ripe # {} /\ started
    <3>1. StartOrLeaveRound(s, now) = IF SkipIsDue(s, now) THEN s ELSE ScheduleUpdate(s, later)
      BY <1>3, <2>2 DEF StartOrLeaveRound
    <3>2. CASE SkipIsDue(s, now)
      BY <1>3, <3>1, <3>2, CalmReflexive, CalmMoves DEF Passed, Open
    <3>3. CASE ~SkipIsDue(s, now)
      <4> HIDE DEF later
      <4> QED BY <1>3, <2>0, <3>1, <3>3, ScheduleUpdateCalm, CalmMoves, StillOpen
    <3> QED BY <3>2, <3>3
  <2>3. CASE ripe # {} /\ ~started
    <3> DEFINE q == Max(ripe)
    <3>1. StartOrLeaveRound(s, now) = StartRound(s, q, now)
      BY <1>3, <2>3 DEF StartOrLeaveRound
    <3>2. r \in Nat /\ r <= LastRound + 1 /\ LastRound \in Nat
      BY RoundsAssumption DEF Core, Typed, Instances, Rounds
    <3>3. ripe \subseteq -1 .. r - 1
      BY DEF ParentCandidates
    <3>4. q \in ripe
      <4>1. ripe \in SUBSET Int /\ \A x \in ripe : -1 <= x /\ x <= r
        BY <3>2, <3>3
      <4> HIDE DEF ripe
      <4> QED BY <2>3, <3>2, <4>1, MaxIsGreatest
    <3>5. /\ q \in {NoRound} \cup Rounds /\ q < r
          /\ q = NoRound \/ Accepted(s, q)
          /\ EarliestTime(s, q) <= now.time
      <4>1. q \in -1 .. r - 1
        BY <3>3, <3>4
      <4>2. q \in {NoRound} \cup Rounds /\ q < r
        <5> HIDE DEF q
        <5> QED BY <3>2, <4>1 DEF NoRound, Rounds
      <4> QED BY <3>4, <4>2 DEF ParentCandidates
    <3> HIDE DEF q
    <3> QED BY <1>3, <3>1, <3>5, StartRoundCalm, CalmMoves, StillOpen
  <2> QED BY <2>1, <2>2, <2>3
<1> QED BY <1>1, <1>2, <1>3

LEMMA VoteToSkipCalm ==
    ASSUME NEW s, Core(s), NEW now
    PROVE  Calm(s, VoteToSkip(s, now))
<1>1. s.current_round \in Rounds
  BY DEF Core, Typed, Instances
<1>2. Vote(FALSE) \in [echo : Proposals] \cup [vote : BOOLEAN]
  BY DEF Vote
<1>3. Calm(s, CreateMessage(s, s.current_round, Vote(FALSE)))
  BY <1>1, <1>2, CreateMessageCalm
<1> QED BY <1>3, CalmReflexive DEF VoteToSkip

LEMMA UpdateIfCurrentMoves ==
    ASSUME NEW s, Core(s), NEW r \in Rounds, r <= s.current_round, NEW now \in Moments
    PROVE  Moves(s, UpdateIfCurrent(s, r, now)) /\ Passed(UpdateIfCurrent(s, r, now), r)
<1> DEFINE u == VoteToSkip(s, now)
<1>1. Calm(s, u)
  BY VoteToSkipCalm
<1>2. UpdateIfCurrent(s, r, now) = IF r = s.current_round THEN StartOrLeaveRound(u, now) ELSE s
  BY DEF UpdateIfCurrent
<1> HIDE DEF u
<1>3. Moves(s, u) /\ Core(u) /\ Moves(s, s)
  BY <1>1, CalmReflexive, CalmMoves DEF Calm, Mild
<1>4. Moves(u, StartOrLeaveRound(u, now)) /\ Passed(StartOrLeaveRound(u, now), u.current_round)
  BY <1>3, StartOrLeaveRoundMoves
<1>5. Moves(s, StartOrLeaveRound(u, now))
  BY <1>3, <1>4, MovesTransitive
<1>6. u.current_round = s.current_round
  BY <1>1 DEF Calm, Mild, Stays
<1>7. r # s.current_round => Passed(s, r)
  BY RoundsAssumption DEF Passed, Core, Typed, Instances, Rounds
<1> QED BY <1>2, <1>3, <1>4, <1>5, <1>6, <1>7

-----------------------------------------------------------------------------
(* Finalization                                                             *)

Pruned(x) == [x EXCEPT !.proposal = {}, !.accepted_height = NoRound]

\* What the finalization of round q and its ancestors makes of s: the rounds
\* that were skipped on the way lose their proposals, and no others.
Finalizes(s, q, t) ==
    /\ t \in Instances
    /\ t = [s EXCEPT !.rounds = t.rounds, !.first_non_finalized = t.first_non_finalized,
                     !.finalized = t.finalized]
    /\ t.first_non_finalized = IF q < s.first_non_finalized THEN s.first_non_finalized ELSE q + 1
    /\ \A x \in Rounds :
        \/ t.rounds[x] = s.rounds[x]
        \/ t.rounds[x] = Pruned(s.rounds[x]) /\ Skippable(s, x) /\ x < q
    /\ \A x \in Rounds : x < t.first_non_finalized => LinkedAt(t, x)
    /\ Chained(s) /\ ~s.evidence_only => Chain(t)

LEMMA PrunedIs ==
    ASSUME NEW x \in RoundStates
    PROVE  /\ Pruned(x) \in RoundStates
           /\ Pruned(x).proposal = {} /\ Pruned(x).accepted_height = NoRound
           /\ Pruned(x).echoes = x.echoes /\ Pruned(x).votes = x.votes
           /\ Pruned(x).quorum_echoes = x.quorum_echoes /\ Pruned(x).quorum_votes = x.quorum_votes
BY DEF Pruned, RoundStates

LEMMA PruneSkippedIs ==
    ASSUME NEW s \in Instances, NEW q \in Rounds
    PROVE  LET t == PruneSkipped(s, q)
           IN  /\ t \in Instances
               /\ t = [s EXCEPT !.rounds = t.rounds, !.first_non_finalized = t.first_non_finalized]
               /\ t.first_non_finalized = q + 1
               /\ \A x \in Rounds :
                    t.rounds[x] = IF s.first_non_finalized <= x /\ x < q
                                  THEN Pruned(s.rounds[x]) ELSE s.rounds[x]
<1> DEFINE rounds == [x \in Rounds |-> IF s.first_non_finalized <= x /\ x < q
                                       THEN Pruned(s.rounds[x]) ELSE s.rounds[x]]
           t == [s EXCEPT !.rounds = rounds, !.first_non_finalized = q + 1]
<1>1. t = PruneSkipped(s, q)
  BY DEF PruneSkipped, Pruned
<1>2. \A x \in Rounds : s.rounds[x] \in RoundStates
  BY DEF Instances
<1>3. rounds \in [Rounds -> RoundStates]
  BY <1>2, PrunedIs
<1>4. \A x \in Rounds : rounds[x] = IF s.first_non_finalized <= x /\ x < q
                                   THEN Pruned(s.rounds[x]) ELSE s.rounds[x]
  OBVIOUS
<1>5. q + 1 \in 0 .. LastRound + 2
  BY RoundsAssumption DEF Rounds
<1> HIDE DEF rounds
<1>6. t \in Instances
  BY <1>3, <1>5, ZenonT(60) DEF Instances
<1>7. t.rounds = rounds /\ t.first_non_finalized = q + 1
  BY DEF Instances
<1> QED BY <1>1, <1>4, <1>6, <1>7

LEMMA AnnounceFinalizedIs ==
    ASSUME NEW s \in Instances, NEW q \in Rounds, s.rounds[q].accepted_height \in Rounds,
           ProposalIn(s, q) \in Proposals
    PROVE  LET t == AnnounceFinalized(s, q)
           IN  /\ t \in Instances /\ t = [s EXCEPT !.finalized = t.finalized]
               /\ t.finalized =
                    IF ProposalIn(s, q).block = NoBlock THEN s.finalized
                    ELSE Append(s.finalized,
                            [round |-> q, block |-> ProposalIn(s, q).block,
                             height |-> s.rounds[q].accepted_height,
                             terminal |-> AcceptedSwitchBlock(s, q)])
<1> DEFINE block == ProposalIn(s, q).block
           e == [round |-> q, block |-> block, height |-> s.rounds[q].accepted_height,
                 terminal |-> AcceptedSwitchBlock(s, q)]
           f == Append(s.finalized, e)
<1>1. CASE block = NoBlock
  BY <1>1 DEF AnnounceFinalized, Instances
<1>2. CASE block # NoBlock
  <2>1. block \in Blocks
    BY <1>2 DEF Proposals
  <2>2. AcceptedSwitchBlock(s, q) \in BOOLEAN
    BY DEF AcceptedSwitchBlock
  <2>3. e \in [round : Rounds, block : Blocks, height : Rounds, terminal : BOOLEAN]
    <3> HIDE DEF block
    <3> QED BY <2>1, <2>2
  <2>4. s.finalized \in Seq([round : Rounds, block : Blocks, height : Rounds, terminal : BOOLEAN])
    BY DEF Instances
  <2> HIDE DEF e
  <2>5. f \in Seq([round : Rounds, block : Blocks, height : Rounds, terminal : BOOLEAN])
    BY <2>3, <2>4
  <2>6. AnnounceFinalized(s, q) = [s EXCEPT !.finalized = f]
    BY <1>2 DEF AnnounceFinalized, e
  <2> HIDE DEF f
  <2>7. [s EXCEPT !.finalized = f] \in Instances
    BY <2>5, ZenonT(60) DEF Instances
  <2>8. [s EXCEPT !.finalized = f].finalized = f
    BY DEF Instances
  <2> QED BY <1>2, <2>6, <2>7, <2>8 DEF f, e
<1> QED BY <1>1, <1>2

\* Skippable does not depend on what is pruned.
LEMMA FinalizesSkippable ==
    ASSUME NEW s \in Instances, NEW q, NEW t, Finalizes(s, q, t), NEW x \in Rounds
    PROVE  /\ t.rounds[x].echoes = s.rounds[x].echoes /\ t.rounds[x].votes = s.rounds[x].votes
           /\ t.rounds[x].quorum_echoes = s.rounds[x].quorum_echoes
           /\ t.rounds[x].quorum_votes = s.rounds[x].quorum_votes
           /\ Skippable(t, x) <=> Skippable(s, x)
           /\ Accepted(t, x) => t.rounds[x] = s.rounds[x]
           /\ t.rounds[x] = s.rounds[x] =>
                (Accepted(t, x) <=> Accepted(s, x)) /\ ProposalIn(t, x) = ProposalIn(s, x)
<1>1. s.rounds[x] \in RoundStates
  BY DEF Instances
<1>2. t.rounds[x] = s.rounds[x] \/ t.rounds[x] = Pruned(s.rounds[x])
  BY DEF Finalizes
<1> QED BY <1>1, <1>2, PrunedIs DEF Skippable, Accepted, ProposalIn

LEMMA FinalizesNothing ==
    ASSUME NEW s, Core(s), NEW q, q < s.first_non_finalized
    PROVE  Finalizes(s, q, s)
<1>1. s \in Instances /\ Linked(s)
  BY DEF Core, Typed
<1>2. s = [s EXCEPT !.rounds = s.rounds, !.first_non_finalized = s.first_non_finalized,
                     !.finalized = s.finalized]
  BY <1>1 DEF Instances
<1> QED BY <1>1, <1>2 DEF Finalizes, Linked, Chained

LEMMA FinalizedSet ==
    ASSUME NEW s \in Instances, NEW t, NEW u, NEW a, NEW b, NEW c, NEW d, NEW e, NEW f,
           t = [s EXCEPT !.rounds = a, !.first_non_finalized = b, !.finalized = c],
           \/ u = [t EXCEPT !.rounds = d, !.first_non_finalized = e]
           \/ u = [t EXCEPT !.finalized = f]
    PROVE  u = [s EXCEPT !.rounds = u.rounds, !.first_non_finalized = u.first_non_finalized,
                         !.finalized = u.finalized]
<1>1. CASE u = [t EXCEPT !.rounds = d, !.first_non_finalized = e]
  <2>1. u = [s EXCEPT !.rounds = d, !.first_non_finalized = e, !.finalized = c]
    BY <1>1 DEF Instances
  <2> QED BY <2>1 DEF Instances
<1>2. CASE u = [t EXCEPT !.finalized = f]
  <2>1. u = [s EXCEPT !.rounds = a, !.first_non_finalized = b, !.finalized = f]
    BY <1>2 DEF Instances
  <2> QED BY <2>1 DEF Instances
<1> QED BY <1>1, <1>2

LEMMA FinalizesOneMore ==
    ASSUME NEW s, Core(s), NEW q \in Rounds, q >= s.first_non_finalized, Accepted(s, q),
           NEW t, Finalizes(s, ProposalIn(s, q).parent, t)
    PROVE  Finalizes(s, q, AnnounceFinalized(PruneSkipped(t, q), q))
<1> DEFINE p == ProposalIn(s, q).parent
           u == PruneSkipped(t, q)
           v == AnnounceFinalized(u, q)
           n == s.first_non_finalized
           k == t.first_non_finalized
<1>1. s \in Instances /\ t \in Instances /\ LinkedAt(s, q)
  BY DEF Core, Typed, Linked, Finalizes
<1>2. p \in -1 .. q - 1 /\ q \in Nat /\ n \in Nat /\ Rounds \subseteq Nat
  BY <1>1, AcceptedIs, RoundsAssumption DEF Rounds, Instances
<1>3. /\ p # NoRound => p \in Rounds /\ Accepted(s, p)
      /\ \A x \in p + 1 .. q - 1 : Skippable(s, x)
  <2>1. p # NoRound => Accepted(s, p)
    BY <1>1 DEF LinkedAt
  <2>2. \A x \in p + 1 .. q - 1 : Skippable(s, x)
    BY <1>1 DEF LinkedAt
  <2>3. p # NoRound => p \in Rounds
    <3> HIDE DEF p
    <3> QED BY <1>2, RoundsAssumption DEF Rounds, NoRound
  <2> QED BY <2>1, <2>2, <2>3
<1>4. k = (IF p < n THEN n ELSE p + 1) /\ p < k /\ k <= q /\ k >= n /\ k \in Int /\ p \in Int
  <2>1. k = IF p < n THEN n ELSE p + 1
    BY DEF Finalizes
  <2> HIDE DEF p
  <2> QED BY <1>2, <2>1
<1>5. \A x \in Rounds : x >= p => t.rounds[x] = s.rounds[x]
  <2> SUFFICES ASSUME NEW x \in Rounds, x >= p PROVE t.rounds[x] = s.rounds[x]
    OBVIOUS
  <2>1. ~(x < p)
    BY <1>2
  <2> QED BY <2>1 DEF Finalizes
<1>6. /\ u \in Instances /\ u.first_non_finalized = q + 1
      /\ u = [t EXCEPT !.rounds = u.rounds, !.first_non_finalized = u.first_non_finalized]
      /\ \A x \in Rounds :
            u.rounds[x] = IF k <= x /\ x < q THEN Pruned(t.rounds[x]) ELSE t.rounds[x]
  BY <1>1, PruneSkippedIs
<1>7. u.rounds[q] = s.rounds[q]
  BY <1>2, <1>5, <1>6
<1>8. u.rounds[q].accepted_height \in Rounds /\ ProposalIn(u, q) = ProposalIn(s, q)
      /\ ProposalIn(u, q) \in Proposals
  <2>1. s.rounds[q].accepted_height \in Rounds
    BY <1>1 DEF Accepted, Instances, RoundStates
  <2>2. ProposalIn(u, q) = ProposalIn(s, q)
    BY <1>7 DEF ProposalIn
  <2> QED BY <1>7, <2>1, <2>2, AcceptedIs
<1> HIDE DEF u
<1>9. /\ v \in Instances /\ v = [u EXCEPT !.finalized = v.finalized]
      /\ v.finalized =
            IF ProposalIn(u, q).block = NoBlock THEN u.finalized
            ELSE Append(u.finalized,
                    [round |-> q, block |-> ProposalIn(u, q).block,
                     height |-> u.rounds[q].accepted_height,
                     terminal |-> AcceptedSwitchBlock(u, q)])
  BY <1>6, <1>8, AnnounceFinalizedIs
<1> HIDE DEF v
<1>10. v.rounds = u.rounds /\ v.first_non_finalized = q + 1
  BY <1>6, <1>9, SMTT(30) DEF Instances
<1>11. v = [s EXCEPT !.rounds = v.rounds, !.first_non_finalized = v.first_non_finalized,
                     !.finalized = v.finalized]
  <2>1. t = [s EXCEPT !.rounds = t.rounds, !.first_non_finalized = t.first_non_finalized,
                      !.finalized = t.finalized]
    BY SMTT(30) DEF Finalizes
  <2>2. u = [s EXCEPT !.rounds = u.rounds, !.first_non_finalized = u.first_non_finalized,
                      !.finalized = u.finalized]
    BY <1>1, <1>6, <2>1, FinalizedSet
  <2> QED BY <1>1, <1>6, <1>9, <2>2, FinalizedSet, ZenonT(60)
<1>12. \A x \in Rounds :
        v.rounds[x] = IF k <= x /\ x < q THEN Pruned(s.rounds[x]) ELSE t.rounds[x]
  <2> SUFFICES ASSUME NEW x \in Rounds
               PROVE  v.rounds[x] = IF k <= x /\ x < q THEN Pruned(s.rounds[x]) ELSE t.rounds[x]
    OBVIOUS
  <2>1. k <= x => x >= p
    <3> HIDE DEF p, k
    <3> QED BY <1>2, <1>4
  <2>2. k <= x => t.rounds[x] = s.rounds[x]
    BY <1>5, <2>1
  <2> QED BY <1>6, <1>10, <2>2
<1>13. \A x \in Rounds :
        \/ v.rounds[x] = s.rounds[x]
        \/ v.rounds[x] = Pruned(s.rounds[x]) /\ Skippable(s, x) /\ x < q
  <2> SUFFICES ASSUME NEW x \in Rounds, v.rounds[x] # s.rounds[x]
               PROVE  v.rounds[x] = Pruned(s.rounds[x]) /\ Skippable(s, x) /\ x < q
    OBVIOUS
  <2>1. CASE k <= x /\ x < q
    <3>1. x \in p + 1 .. q - 1
      <4>1. x \in Int /\ q \in Int
        BY <1>2
      <4> HIDE DEF p, k
      <4> QED BY <1>4, <2>1, <4>1
    <3> QED BY <1>3, <1>12, <2>1, <3>1
  <2>2. CASE ~(k <= x /\ x < q)
    <3>1. t.rounds[x] = Pruned(s.rounds[x]) /\ Skippable(s, x) /\ x < p
      BY <1>12, <2>2 DEF Finalizes
    <3>2. x < q
      <4> HIDE DEF p
      <4> QED BY <1>2, <3>1
    <3> QED BY <1>12, <2>2, <3>1, <3>2
  <2> QED BY <2>1, <2>2
<1>14. \A x \in Rounds : Skippable(v, x) <=> Skippable(s, x)
  <2> SUFFICES ASSUME NEW x \in Rounds PROVE v.rounds[x].quorum_votes = s.rounds[x].quorum_votes
    BY DEF Skippable
  <2>1. s.rounds[x] \in RoundStates
    BY <1>1 DEF Instances
  <2>2. v.rounds[x] = s.rounds[x] \/ v.rounds[x] = Pruned(s.rounds[x])
    BY <1>13
  <2> QED BY <2>1, <2>2, PrunedIs
<1>15. ASSUME NEW x \in Rounds, x < k
       PROVE  /\ v.rounds[x] = t.rounds[x] /\ (Accepted(v, x) <=> Accepted(t, x))
              /\ ProposalIn(v, x) = ProposalIn(t, x)
  <2>1. v.rounds[x] = t.rounds[x]
    <3>1. ~(k <= x)
      <4> HIDE DEF p, k
      <4> QED BY <1>2, <1>4, <1>15
    <3> QED BY <1>12, <3>1
  <2> QED BY <2>1 DEF Accepted, ProposalIn
<1>16. \A x \in Rounds : Skippable(t, x) <=> Skippable(s, x)
  BY <1>1, FinalizesSkippable
<1>17. ASSUME NEW x \in Rounds, x < q + 1 PROVE LinkedAt(v, x)
  <2> SUFFICES ASSUME Accepted(v, x)
               PROVE  LET parent == ProposalIn(v, x).parent
                      IN  /\ parent # NoRound => Accepted(v, parent)
                          /\ v.rounds[x].accepted_height =
                                IF parent = NoRound THEN 0 ELSE v.rounds[parent].accepted_height + 1
                          /\ \A y \in parent + 1 .. x - 1 : Skippable(v, y)
    BY DEF LinkedAt
  <2>1. CASE x = q
    <3>1. v.rounds[q] = s.rounds[q]
      BY <1>7, <1>10
    <3>2. ProposalIn(v, x).parent = p
      BY <2>1, <3>1 DEF ProposalIn
    <3>3. p # NoRound => Accepted(v, p) /\ v.rounds[p] = s.rounds[p]
      <4> SUFFICES ASSUME p # NoRound PROVE Accepted(v, p) /\ v.rounds[p] = s.rounds[p]
        OBVIOUS
      <4>1. p \in Rounds /\ Accepted(s, p) /\ p < k
        BY <1>3, <1>4
      <4>2. t.rounds[p] = s.rounds[p]
        <5>1. ~(p < p)
          <6> HIDE DEF p
          <6> QED BY <1>2
        <5> QED BY <4>1, <5>1 DEF Finalizes
      <4>3. Accepted(t, p)
        BY <4>1, <4>2 DEF Accepted
      <4> HIDE DEF p, k
      <4> QED BY <1>15, <4>1, <4>2, <4>3
    <3>4. \A y \in p + 1 .. x - 1 : y \in Rounds
      <4> HIDE DEF p
      <4> QED BY <1>2, <2>1, RoundsAssumption DEF Rounds
    <3>5. \A y \in p + 1 .. x - 1 : Skippable(v, y)
      <4> HIDE DEF p
      <4> QED BY <1>3, <1>14, <2>1, <3>4
    <3>6. s.rounds[q].accepted_height =
                IF p = NoRound THEN 0 ELSE s.rounds[p].accepted_height + 1
      BY <1>1 DEF LinkedAt
    <3> HIDE DEF p
    <3>7. v.rounds[x].accepted_height =
                IF p = NoRound THEN 0 ELSE v.rounds[p].accepted_height + 1
      BY <2>1, <3>1, <3>3, <3>6
    <3> QED BY <3>2, <3>3, <3>5, <3>7
  <2>2. CASE k <= x /\ x < q
    <3>1. v.rounds[x] = Pruned(s.rounds[x]) /\ s.rounds[x] \in RoundStates
      BY <1>1, <1>12, <2>2 DEF Instances
    <3> QED BY <3>1, PrunedIs DEF Accepted
  <2>3. CASE x < k
    <3>1. Accepted(t, x) /\ LinkedAt(t, x) /\ ProposalIn(v, x) = ProposalIn(t, x)
      BY <1>15, <2>3 DEF Finalizes
    <3>2. t.rounds[x] = s.rounds[x]
      BY <1>1, <3>1, FinalizesSkippable
    <3>3. Accepted(s, x) /\ ProposalIn(t, x) = ProposalIn(s, x)
      BY <3>1, <3>2 DEF Accepted, ProposalIn
    <3> DEFINE y == ProposalIn(t, x).parent
    <3>4. y \in -1 .. x - 1
      BY <3>3, AcceptedIs
    <3>5. /\ y # NoRound => Accepted(t, y)
          /\ t.rounds[x].accepted_height =
                IF y = NoRound THEN 0 ELSE t.rounds[y].accepted_height + 1
          /\ \A z \in y + 1 .. x - 1 : Skippable(t, z)
      BY <3>1 DEF LinkedAt
    <3>6. ProposalIn(v, x).parent = y
      BY <3>1
    <3> HIDE DEF y, p
    <3>7. y # NoRound => y \in Rounds /\ y < k
      BY <1>2, <1>4, <2>3, <3>4, RoundsAssumption DEF Rounds, NoRound
    <3>8. \A z \in y + 1 .. x - 1 : z \in Rounds
      BY <1>2, <3>4, RoundsAssumption DEF Rounds
    <3> HIDE DEF k
    <3>9. y # NoRound => Accepted(v, y) /\ v.rounds[y] = t.rounds[y]
      BY <1>15, <3>5, <3>7
    <3>10. \A z \in y + 1 .. x - 1 : Skippable(v, z)
      BY <1>14, <1>16, <3>5, <3>8
    <3>11. v.rounds[x] = t.rounds[x]
      BY <1>15, <2>3
    <3>12. v.rounds[x].accepted_height =
                IF y = NoRound THEN 0 ELSE v.rounds[y].accepted_height + 1
      BY <3>5, <3>9, <3>11
    <3> QED BY <3>6, <3>9, <3>10, <3>12
  <2>4. x = q \/ (k <= x /\ x < q) \/ x < k
    <3> HIDE DEF p, k
    <3> QED BY <1>2, <1>4, <1>17
  <2> QED BY <2>1, <2>2, <2>3, <2>4
<1>18. v.first_non_finalized = IF q < n THEN n ELSE q + 1
  BY <1>2, <1>10
<1>19. ASSUME Chained(s), ~s.evidence_only PROVE Chain(v)
  <2>1. k = p + 1
    <3> SUFFICES ASSUME p < n, p # n - 1 PROVE FALSE
      <4> HIDE DEF p
      <4> QED BY <1>2, <1>4
    <3>1. n # 0 /\ n - 1 \in p + 1 .. q - 1
      <4> HIDE DEF p
      <4> QED BY <1>2
    <3>2. Committed(s, n - 1) /\ Skippable(s, n - 1)
      BY <1>3, <1>19, <3>1 DEF Chained
    <3>3. n - 1 \in Rounds
      <4> HIDE DEF p
      <4> QED BY <1>2, <3>1, RoundsAssumption DEF Rounds
    <3>4. IsOption(s.rounds[n - 1].quorum_votes)
      BY <3>3 DEF Core, Typed
    <3> QED BY <3>2, <3>4 DEF IsOption, Skippable, Committed
  <2>2. Chain(t)
    BY <1>19 DEF Finalizes
  <2>3. v.rounds[q] = s.rounds[q] /\ v.rounds[q] = u.rounds[q]
    BY <1>7, <1>10
  <2>4. Accepted(v, q) /\ ProposalIn(v, q).parent = p /\ ProposalIn(v, q) = ProposalIn(u, q)
    BY <1>8, <2>3 DEF Accepted, ProposalIn
  <2>5. LinkedAt(v, q)
    BY <1>2, <1>17
  <2>6. \A x \in Rounds : x <= p => v.rounds[x] = t.rounds[x]
    <3> SUFFICES ASSUME NEW x \in Rounds, x <= p PROVE v.rounds[x] = t.rounds[x]
      OBVIOUS
    <3>1. x < k
      <4> HIDE DEF p, k
      <4> QED BY <1>2, <1>4, <2>1
    <3> QED BY <1>15, <3>1
  <2>7. ASSUME NEW x \in Rounds, Accepted(t, x) PROVE ProposalIn(t, x).parent \in -1 .. x - 1
    <3>1. Accepted(s, x) /\ ProposalIn(t, x) = ProposalIn(s, x)
      BY <1>1, <2>7, FinalizesSkippable
    <3> QED BY <3>1, AcceptedIs
  <2>8. u.finalized = t.finalized /\ (AcceptedSwitchBlock(u, q) <=> AcceptedSwitchBlock(v, q))
    <3>1. u.finalized = t.finalized
      BY <1>1, <1>6 DEF Instances
    <3>2. Accepted(u, q) <=> Accepted(v, q)
      BY <2>3 DEF Accepted
    <3> QED BY <2>3, <2>4, <3>1, <3>2 DEF AcceptedSwitchBlock
  <2>9. AcceptedSwitchBlock(u, q) = AcceptedSwitchBlock(v, q)
    <3>1. AcceptedSwitchBlock(u, q) \in BOOLEAN /\ AcceptedSwitchBlock(v, q) \in BOOLEAN
      BY DEF AcceptedSwitchBlock
    <3> QED BY <2>8, <3>1
  <2>10. v.finalized =
            IF ProposalIn(v, q).block = NoBlock THEN t.finalized
            ELSE Append(t.finalized,
                    [round |-> q, block |-> ProposalIn(v, q).block,
                     height |-> v.rounds[q].accepted_height,
                     terminal |-> AcceptedSwitchBlock(v, q)])
    BY <1>9, <2>3, <2>4, <2>8, <2>9
  <2> HIDE DEF p
  <2> QED BY <1>1, <1>2, <1>10, <2>1, <2>2, <2>4, <2>5, <2>6, <2>7, <2>10, ChainGrows
<1> QED BY <1>9, <1>10, <1>11, <1>13, <1>17, <1>18, <1>19 DEF Finalizes, v, u

\* No round after a committed one has a parent before it: that would take a
\* quorum of votes to skip the committed round.
LEMMA FinalizesMoves ==
    ASSUME NEW s, Core(s), NEW r \in Rounds, Accepted(s, r), Committed(s, r),
           NEW t, Finalizes(s, r, t)
    PROVE  Moves(s, t)
<1>1. s \in Instances /\ t \in Instances
  BY DEF Core, Typed, Finalizes
<1>2. /\ t.faults = s.faults /\ t.current_round = s.current_round
      /\ t.evidence_only = s.evidence_only /\ t.restarts = s.restarts /\ t.signed = s.signed
      /\ t.bugs = s.bugs /\ t.dirty = s.dirty /\ t.pending_proposal = s.pending_proposal
      /\ t.waiting_for_parent = s.waiting_for_parent
      /\ t.waiting_for_validation = s.waiting_for_validation
      /\ t.active = s.active /\ t.active_validator = s.active_validator
      /\ t.write_wal = s.write_wal /\ t.wal = s.wal
  <2>1. t = [s EXCEPT !.rounds = t.rounds, !.first_non_finalized = t.first_non_finalized,
                      !.finalized = t.finalized]
    BY DEF Finalizes
  <2> QED BY <1>1, <2>1 DEF Instances
<1>3. \A x \in Rounds :
        /\ t.rounds[x].echoes = s.rounds[x].echoes /\ t.rounds[x].votes = s.rounds[x].votes
        /\ t.rounds[x].quorum_echoes = s.rounds[x].quorum_echoes
        /\ t.rounds[x].quorum_votes = s.rounds[x].quorum_votes
        /\ Skippable(t, x) <=> Skippable(s, x)
        /\ Accepted(t, x) => t.rounds[x] = s.rounds[x]
        /\ t.rounds[x] = s.rounds[x] =>
                (Accepted(t, x) <=> Accepted(s, x)) /\ ProposalIn(t, x) = ProposalIn(s, x)
  BY <1>1, FinalizesSkippable
<1>4. \A x \in Rounds :
        \/ t.rounds[x].proposal = s.rounds[x].proposal
             /\ t.rounds[x].accepted_height = s.rounds[x].accepted_height
        \/ t.rounds[x].proposal = {} /\ t.rounds[x].accepted_height = NoRound
  <2> SUFFICES ASSUME NEW x \in Rounds, t.rounds[x] # s.rounds[x]
               PROVE  t.rounds[x].proposal = {} /\ t.rounds[x].accepted_height = NoRound
    OBVIOUS
  <2>1. t.rounds[x] = Pruned(s.rounds[x]) /\ s.rounds[x] \in RoundStates
    BY <1>1 DEF Finalizes, Instances
  <2> QED BY <2>1, PrunedIs
<1>5. Rounds \subseteq Nat /\ NoRound = -1 /\ s.first_non_finalized \in Nat
  BY <1>1, RoundsAssumption DEF Rounds, NoRound, Instances
<1>6. ~Skippable(s, r)
  <2>1. IsOption(s.rounds[r].quorum_votes)
    BY DEF Core, Typed
  <2> QED BY <2>1 DEF IsOption, Skippable, Committed
<1>7. Typed(t)
  <2>1. ASSUME NEW x \in Rounds
        PROVE  /\ IsOption(t.rounds[x].proposal)
               /\ IsOption(t.rounds[x].quorum_echoes)
               /\ IsOption(t.rounds[x].quorum_votes)
               /\ t.rounds[x].accepted_height <= x
               /\ \A p \in t.rounds[x].proposal : p.parent < x
    <3>1. /\ IsOption(s.rounds[x].proposal)
          /\ IsOption(s.rounds[x].quorum_echoes)
          /\ IsOption(s.rounds[x].quorum_votes)
          /\ s.rounds[x].accepted_height <= x
          /\ \A p \in s.rounds[x].proposal : p.parent < x
      BY DEF Core, Typed, Below
    <3>2. IsOption({}) /\ NoRound <= x
      BY <1>5 DEF IsOption
    <3> QED BY <1>3, <1>4, <3>1, <3>2
  <2> QED BY <1>1, <1>2, <2>1 DEF Core, Typed, Below
<1>8. Settled(t)
  BY <1>3, <1>4 DEF Core, Settled
<1>9. Backed(t)
  <2>1. \A x \in Rounds : \A p : /\ EchoedBy(t, x, p) = EchoedBy(s, x, p)
                                 /\ VotedBy(t, x, p) = VotedBy(s, x, p)
    BY <1>3 DEF EchoedBy, VotedBy
  <2>2. \A S : IsQuorum(t, S) <=> IsQuorum(s, S)
    BY <1>2, SameFaults
  <2> QED BY <1>3, <2>1, <2>2 DEF Core, Backed
<1>10. Own(t) = Own(s) /\ Keeps(s, t)
  BY <1>2, <1>3 DEF Own, Keeps
<1>11. Logged(t)
  BY <1>1, <1>2, <1>10, LoggedKept DEF Core, Logged
<1>12. Linked(t)
  <2> SUFFICES ASSUME NEW x \in Rounds PROVE LinkedAt(t, x)
    BY DEF Linked
  <2>1. CASE x < t.first_non_finalized
    BY <2>1 DEF Finalizes
  <2>2. CASE ~(x < t.first_non_finalized)
    <3> SUFFICES ASSUME Accepted(t, x)
                 PROVE  LET parent == ProposalIn(t, x).parent
                        IN  /\ parent # NoRound => Accepted(t, parent)
                            /\ t.rounds[x].accepted_height =
                                IF parent = NoRound THEN 0 ELSE t.rounds[parent].accepted_height + 1
                            /\ \A y \in parent + 1 .. x - 1 : Skippable(t, y)
      BY DEF LinkedAt
    <3>1. x > r
      <4>1. t.first_non_finalized = IF r < s.first_non_finalized THEN s.first_non_finalized ELSE r + 1
        BY DEF Finalizes
      <4> QED BY <1>5, <2>2, <4>1
    <3>2. Accepted(s, x) /\ ProposalIn(t, x) = ProposalIn(s, x)
      BY <1>3
    <3> DEFINE p == ProposalIn(s, x).parent
    <3>3. /\ p \in -1 .. x - 1
          /\ p # NoRound => Accepted(s, p)
          /\ s.rounds[x].accepted_height =
                IF p = NoRound THEN 0 ELSE s.rounds[p].accepted_height + 1
          /\ \A y \in p + 1 .. x - 1 : Skippable(s, y)
      BY <3>2, AcceptedIs DEF Core, Linked, LinkedAt
    <3> HIDE DEF p
    <3>4. p >= r
      <4> SUFFICES ASSUME p < r PROVE FALSE
        BY <1>5, <3>3
      <4>1. r \in p + 1 .. x - 1
        BY <1>5, <3>1, <3>3
      <4> QED BY <1>6, <3>3, <4>1
    <3>5. p \in Rounds
      BY <1>5, <3>3, <3>4, RoundsAssumption DEF Rounds
    <3>6. t.rounds[p] = s.rounds[p]
      <4>1. ~(p < r)
        BY <1>5, <3>4, <3>5
      <4> QED BY <3>5, <4>1 DEF Finalizes
    <3>7. Accepted(t, p)
      BY <1>3, <1>5, <3>3, <3>4, <3>5, <3>6
    <3>8. \A y \in p + 1 .. x - 1 : y \in Rounds
      BY <1>5, <3>3, RoundsAssumption DEF Rounds
    <3>9. \A y \in p + 1 .. x - 1 : Skippable(t, y)
      BY <1>3, <3>3, <3>8
    <3>10. t.rounds[x].accepted_height = t.rounds[p].accepted_height + 1 /\ p # NoRound
      BY <1>3, <1>5, <3>3, <3>5, <3>6
    <3> QED BY <3>2, <3>7, <3>9, <3>10 DEF p
  <2> QED BY <2>1, <2>2
<1>13. Lowest(t)
  <2> SUFFICES ASSUME ~s.evidence_only, NEW x \in 0 .. s.current_round - 1
               PROVE  Skippable(t, x) \/ Accepted(t, x)
    BY <1>2 DEF Lowest
  <2>1. Skippable(s, x) \/ Accepted(s, x)
    BY DEF Core, Lowest
  <2>2. x \in Rounds
    <3>1. s.current_round \in Rounds
      BY <1>1 DEF Instances
    <3> QED BY <3>1, RoundsAssumption DEF Rounds
  <2>3. t.rounds[x] = s.rounds[x] \/ Skippable(s, x)
    BY <2>2 DEF Finalizes
  <2> QED BY <1>3, <2>1, <2>2, <2>3
<1>14. Sane(t)
  BY <1>2 DEF Core, Sane
<1>15. Fitting(t)
  <2> SUFFICES ASSUME MaxRestarts = 0, ~s.evidence_only
               PROVE  /\ t.wal = <<>>
                      /\ \A x \in Rounds : \A p \in t.rounds[x].proposal : FitsQuorum(t, p)
                      /\ \A x \in Rounds : Accepted(t, x) => HeardFrom(t, ProposalIn(t, x))
                      /\ \A w \in t.waiting_for_validation : FitsQuorum(t, w.proposal)
                      /\ \A x \in t.pending_proposal :
                          /\ x.context.timestamp >= StartTimestamp
                          /\ x.parent # NoRound =>
                              \E q \in t.rounds[x.parent].quorum_echoes :
                                  HeardFrom(t, q) /\ x.context.timestamp >= q.timestamp + MinBlockTime
    BY <1>2 DEF Fitting
  <2>1. Fitting(s)
    BY DEF Core
  <2>2. \A p : HeardFrom(t, p) <=> HeardFrom(s, p)
    BY <1>2 DEF HeardFrom
  <2>3. \A p \in Proposals : FitsQuorum(t, p) <=> FitsQuorum(s, p)
    <3> SUFFICES ASSUME NEW p \in Proposals PROVE FitsQuorum(t, p) <=> FitsQuorum(s, p)
      OBVIOUS
    <3>1. p.parent # NoRound => p.parent \in Rounds
      BY DEF Proposals
    <3> QED BY <1>3, <3>1 DEF FitsQuorum
  <2>4. \A x \in Rounds : \A p \in t.rounds[x].proposal : p \in s.rounds[x].proposal /\ p \in Proposals
    BY <1>1, <1>4 DEF Instances, RoundStates
  <2>5. \A w \in s.waiting_for_validation : w.proposal \in Proposals
    BY <1>1 DEF Instances
  <2>6. \A x \in s.pending_proposal : x.parent # NoRound => x.parent \in Rounds
    BY <1>1 DEF Instances
  <2>7. s.wal = <<>>
    BY <2>1 DEF Fitting
  <2>8. \A x \in Rounds : \A p \in t.rounds[x].proposal : FitsQuorum(t, p)
    BY <2>1, <2>3, <2>4 DEF Fitting
  <2>9. \A x \in Rounds : Accepted(t, x) => HeardFrom(t, ProposalIn(t, x))
    BY <1>3, <2>1, <2>2 DEF Fitting
  <2>10. \A w \in t.waiting_for_validation : FitsQuorum(t, w.proposal)
    BY <1>2, <2>1, <2>3, <2>5 DEF Fitting
  <2>11. ASSUME NEW x \in t.pending_proposal
         PROVE  /\ x.context.timestamp >= StartTimestamp
                /\ x.parent # NoRound =>
                      \E q \in t.rounds[x.parent].quorum_echoes :
                          HeardFrom(t, q) /\ x.context.timestamp >= q.timestamp + MinBlockTime
    BY <1>2, <1>3, <2>1, <2>2, <2>6 DEF Fitting
  <2> QED BY <1>2, <2>7, <2>8, <2>9, <2>10, <2>11
<1>16. Noticing(s) => Noticing(t)
  <2>1. t.first_non_finalized \in Int /\ t.first_non_finalized >= s.first_non_finalized
    <3>1. t.first_non_finalized = IF r < s.first_non_finalized THEN s.first_non_finalized ELSE r + 1
      BY DEF Finalizes
    <3> QED BY <1>5, <3>1
  <2> QED BY <1>2, <1>3, <1>5, <2>1, NoticingKept
<1>17. Chained(s) => Chained(t)
  <2> SUFFICES ASSUME Chained(s), ~s.evidence_only
               PROVE  Chain(t) /\ Committed(t, t.first_non_finalized - 1)
    BY <1>2 DEF Chained
  <2>1. Chain(t)
    BY DEF Finalizes
  <2>2. \A x \in Rounds : Committed(s, x) => Committed(t, x)
    BY <1>3 DEF Committed
  <2>3. CASE r < s.first_non_finalized
    <3>1. t.first_non_finalized = s.first_non_finalized /\ s.first_non_finalized # 0
      BY <1>5, <2>3 DEF Finalizes
    <3>2. s.first_non_finalized - 1 \in Rounds
      BY <1>1, <1>5, <3>1, RoundsAssumption, SMTT(30) DEF Rounds, Instances
    <3> QED BY <2>1, <2>2, <3>1, <3>2 DEF Chained
  <2>4. CASE ~(r < s.first_non_finalized)
    <3>1. t.first_non_finalized = r + 1
      BY <2>4 DEF Finalizes
    <3>2. t.first_non_finalized - 1 = r
      BY <1>5, <3>1
    <3> QED BY <2>1, <2>2, <3>2
  <2> QED BY <2>3, <2>4
<1> QED BY <1>7, <1>8, <1>9, <1>10, <1>11, <1>12, <1>13, <1>14, <1>15, <1>16, <1>17
        DEF Moves, Core

LEMMA FinalizeRoundMoves ==
    ASSUME NEW s, Core(s), NEW r \in Rounds, Accepted(s, r), Committed(s, r)
    PROVE  Moves(s, FinalizeRound(s, r)) /\ Finalizes(s, r, FinalizeRound(s, r))
<1> DEFINE n == s.first_non_finalized
           bug == [s EXCEPT !.bugs = @ \cup {"missing finalized proposal"}]
           G(t, q) == AnnounceFinalized(PruneSkipped(t, q), q)
           Is(f) == f = [q \in -1 .. r |->
                            IF q < n THEN s ELSE IF ~Accepted(s, q) THEN bug
                            ELSE G(f[ProposalIn(s, q).parent], q)]
           after == CHOOSE f : Is(f)
           base == {q \in -1 .. r : q < n \/ ~Accepted(s, q)}
           a == [q \in -1 .. r |-> IF q < n THEN s ELSE bug]
           par == [q \in -1 .. r |-> ProposalIn(s, q).parent]
           Y == Instances \cup {bug}
           Z(q) == {t \in Y : q < n \/ Accepted(s, q) => Finalizes(s, q, t)}
           X == [q \in -1 .. r |-> Z(q)]
           F == [y \in Instances \X (-1 .. r) |-> G(y[1], y[2])]
<1>1. FinalizeRound(s, r) = after[r]
  BY DEF FinalizeRound
<1>2. s \in Instances /\ n \in Nat /\ r \in Nat /\ NoRound = -1
  BY RoundsAssumption DEF Core, Typed, Instances, Rounds, NoRound
<1> HIDE DEF bug
<1>3. ASSUME NEW q \in -1 .. r, q \notin base
      PROVE  /\ q \in Rounds /\ q >= n /\ Accepted(s, q)
             /\ ProposalIn(s, q).parent \in -1 .. q - 1
             /\ ProposalIn(s, q).parent # NoRound => Accepted(s, ProposalIn(s, q).parent)
  <2>1. ~(q < n) /\ Accepted(s, q)
    BY <1>3
  <2>2. q >= n /\ q \in Rounds
    BY <1>2, <2>1, RoundsAssumption DEF Rounds
  <2> QED BY <2>1, <2>2, AcceptedIs DEF Core, Linked, LinkedAt
<1>4. ASSUME NEW q \in -1 .. r, q \notin base, NEW t \in Z(ProposalIn(s, q).parent)
      PROVE  t \in Instances /\ G(t, q) \in Z(q)
  <2> DEFINE p == ProposalIn(s, q).parent
  <2>1. p < n \/ Accepted(s, p)
    BY <1>2, <1>3, <1>4
  <2>2. Finalizes(s, p, t)
    BY <1>4, <2>1
  <2>3. Finalizes(s, q, G(t, q))
    BY <1>3, <1>4, <2>2, FinalizesOneMore
  <2>4. t \in Instances /\ G(t, q) \in Instances
    BY <2>2, <2>3 DEF Finalizes
  <2> HIDE DEF G
  <2> QED BY <2>3, <2>4
<1>5. \A q \in -1 .. r : q \in base => a[q] \in Z(q)
  <2> SUFFICES ASSUME NEW q \in base PROVE a[q] \in Z(q)
    OBVIOUS
  <2>1. CASE q < n
    <3>1. a[q] = s
      BY <2>1
    <3>2. Finalizes(s, q, s)
      BY <2>1, FinalizesNothing
    <3> QED BY <1>2, <3>1, <3>2
  <2>2. CASE ~(q < n)
    <3>1. a[q] = bug
      BY <2>2
    <3>2. ~Accepted(s, q)
      BY <2>2
    <3> HIDE DEF a
    <3> QED BY <2>2, <3>1, <3>2
  <2> QED BY <2>1, <2>2
<1> HIDE DEF G
<1>6. \E f : Is(f)
  <2>1. \A q \in -1 .. r : q \in base => a[q] \in X[q]
    BY <1>5
  <2>2. \A q \in -1 .. r : q \notin base => par[q] \in -1 .. q - 1
    BY <1>3
  <2>3. \A q \in -1 .. r : q \notin base => \A x \in X[par[q]] : F[<<x, q>>] \in X[q] /\ F[<<x, q>>] = G(x, q)
    <3> SUFFICES ASSUME NEW q \in -1 .. r, q \notin base, NEW x \in X[par[q]]
                 PROVE  F[<<x, q>>] \in X[q] /\ F[<<x, q>>] = G(x, q)
      OBVIOUS
    <3>1. par[q] = ProposalIn(s, q).parent /\ par[q] \in -1 .. r
      <4>1. par[q] = ProposalIn(s, q).parent
        OBVIOUS
      <4>2. par[q] \in -1 .. q - 1
        BY <2>2
      <4> HIDE DEF par
      <4> QED BY <4>1, <4>2, <1>2
    <3>2. X[par[q]] = Z(ProposalIn(s, q).parent) /\ X[q] = Z(q)
      <4> HIDE DEF Z, par
      <4> QED BY <3>1
    <3>3. x \in Instances /\ G(x, q) \in Z(q)
      BY <1>4, <3>2
    <3>4. <<x, q>> \in Instances \X (-1 .. r)
      BY <3>3
    <3>5. F[<<x, q>>] = G(x, q)
      BY <3>4
    <3> HIDE DEF F, X, Z
    <3> QED BY <3>2, <3>3, <3>5
  <2> HIDE DEF X, F, a, base, par
  <2>4. -1 \in Int /\ r \in Int
    BY <1>2
  <2>5. PICK f \in [-1 .. r -> UNION {X[i] : i \in -1 .. r}] :
            Follows(f, -1, r, base, a, par, F) /\ \A i \in -1 .. r : f[i] \in X[i]
    <3>1. \A q \in -1 .. r : q \notin base => \A x \in X[par[q]] : F[<<x, q>>] \in X[q]
      BY <2>3
    <3> QED BY <2>1, <2>2, <2>4, <3>1, RecursiveFamily, Zenon
  <2>6. ASSUME NEW q \in -1 .. r
        PROVE  f[q] = IF q < n THEN s ELSE IF ~Accepted(s, q) THEN bug
                      ELSE G(f[ProposalIn(s, q).parent], q)
    <3>1. f[q] = IF q \in base THEN a[q] ELSE F[<<f[par[q]], q>>]
      BY <2>5 DEF Follows
    <3>2. CASE q \in base
      <4>1. a[q] = IF q < n THEN s ELSE bug
        BY DEF a
      <4>2. q < n \/ ~Accepted(s, q)
        BY <3>2 DEF base
      <4> QED BY <3>1, <3>2, <4>1, <4>2
    <3>3. CASE q \notin base
      <4>1. par[q] \in -1 .. r /\ par[q] = ProposalIn(s, q).parent
        <5>1. par[q] \in -1 .. q - 1
          BY <2>2, <3>3
        <5>2. par[q] = ProposalIn(s, q).parent
          BY DEF par
        <5> QED BY <5>1, <5>2, <1>2
      <4>2. f[par[q]] \in X[par[q]]
        BY <2>5, <4>1
      <4>3. F[<<f[par[q]], q>>] = G(f[par[q]], q)
        BY <2>3, <3>3, <4>2
      <4>4. ~(q < n) /\ Accepted(s, q)
        BY <3>3 DEF base
      <4> QED BY <3>1, <3>3, <4>1, <4>3, <4>4
    <3> QED BY <3>2, <3>3
  <2>7. Is(f)
    BY <2>5, <2>6
  <2> QED BY <2>7
<1>7. Is(after)
  BY <1>6, Zenon
<1> HIDE DEF after
<1>8. ASSUME NEW q \in -1 .. r
      PROVE  after[q] = IF q < n THEN s ELSE IF ~Accepted(s, q) THEN bug
                        ELSE G(after[ProposalIn(s, q).parent], q)
  BY <1>7
<1> DEFINE B == {q \in -1 .. r : after[q] \in Z(q)}
<1>9. \A q \in -1 .. r : (\A j \in -1 .. q - 1 : j \in B) => q \in B
  <2> SUFFICES ASSUME NEW q \in -1 .. r, \A j \in -1 .. q - 1 : j \in B
               PROVE  after[q] \in Z(q)
    OBVIOUS
  <2>1. CASE q \in base
    <3>1. after[q] = a[q]
      BY <1>8, <2>1
    <3> HIDE DEF a, Z, base
    <3> QED BY <1>5, <2>1, <3>1
  <2>2. CASE q \notin base
    <3> DEFINE p == ProposalIn(s, q).parent
    <3>1. p \in -1 .. q - 1
      BY <1>3, <2>2
    <3>2. p \in B
      <4> HIDE DEF B, p
      <4> QED BY <3>1
    <3>3. after[p] \in Z(p)
      BY <3>2
    <3>4. after[q] = G(after[p], q)
      BY <1>3, <1>8, <2>2
    <3> HIDE DEF Z, base
    <3> QED BY <1>4, <2>2, <3>3, <3>4
  <2> QED BY <2>1, <2>2
<1>10. \A q \in -1 .. r : q \in B
  <2>1. -1 \in Int /\ r \in Int
    BY <1>2
  <2> HIDE DEF B
  <2> QED BY <1>9, <2>1, Induct, Zenon
<1>11. r \in -1 .. r
  BY <1>2
<1>12. Finalizes(s, r, after[r])
  BY <1>10, <1>11
<1>13. Moves(s, after[r])
  BY <1>12, FinalizesMoves
<1> QED BY <1>1, <1>12, <1>13

LEMMA FinalizesPassed ==
    ASSUME NEW s, Core(s), NEW r \in Rounds, NEW t, Finalizes(s, r, t), NEW q, Passed(s, q)
    PROVE  Passed(t, q)
<1>1. s \in Instances /\ s.current_round \in Rounds
  BY DEF Core, Typed, Instances
<1>2. t.current_round = s.current_round
  BY <1>1 DEF Finalizes, Instances
<1>3. ASSUME NEW x \in Rounds
      PROVE  (Accepted(t, x) => Accepted(s, x)) /\ (Skippable(t, x) => Skippable(s, x))
  <2>1. s.rounds[x] \in RoundStates
    BY <1>1 DEF Instances
  <2>2. CASE t.rounds[x] = s.rounds[x]
    BY <2>2 DEF Accepted, Skippable
  <2>3. CASE t.rounds[x] = Pruned(s.rounds[x])
    <3>1. t.rounds[x].proposal = {} /\ t.rounds[x].quorum_votes = s.rounds[x].quorum_votes
      BY <2>1, <2>3 DEF Pruned, RoundStates
    <3> QED BY <3>1 DEF Accepted, Skippable
  <2> QED BY <2>2, <2>3 DEF Finalizes
<1>4. CASE s.current_round > q
  BY <1>2, <1>4 DEF Passed
<1>5. CASE Open(s)
  <2> DEFINE c == s.current_round
  <2>1. (Accepted(t, c) => Accepted(s, c)) /\ (Skippable(t, c) => Skippable(s, c))
    BY <1>1, <1>3
  <2>2. t.current_round = c
    BY <1>2
  <2>3. Open(t)
    BY <1>5, <2>1, <2>2, Zenon DEF Open
  <2> QED BY <2>3 DEF Passed
<1> QED BY <1>4, <1>5 DEF Passed

-----------------------------------------------------------------------------
(* update                                                                   *)

LEMMA UpdateRoundMoves ==
    ASSUME NEW s, Core(s), NEW r \in Rounds, r <= s.current_round, NEW now \in Moments
    PROVE  Moves(s, UpdateRound(s, r, now)) /\ Passed(UpdateRound(s, r, now), r)
<1> DEFINE t == EchoProposal(s, r)
           u == UpdateAcceptedProposal(t, r)
           v == UpdateIfCurrent(u, r, now)
           w == FinalizeIfCommitted(v, r)
<1>1. UpdateRound(s, r, now) = w
  BY DEF UpdateRound
<1>2. Moves(s, t) /\ Core(t) /\ t.current_round = s.current_round
  BY EchoProposalCalm, CalmMoves DEF Calm, Mild, Stays
<1> HIDE DEF t
<1>3. Moves(t, u) /\ Core(u) /\ u.current_round = t.current_round
  BY <1>2, UpdateAcceptedProposalMild, MildMoves DEF Mild, Stays
<1> HIDE DEF u
<1>4. Moves(u, v) /\ Core(v) /\ Passed(v, r)
  BY <1>2, <1>3, UpdateIfCurrentMoves DEF Moves
<1> HIDE DEF v
<1>5. Moves(v, w) /\ Passed(w, r)
  <2>1. Moves(v, v)
    BY <1>4, CalmReflexive, CalmMoves
  <2> QED BY <1>4, <2>1, FinalizeRoundMoves, FinalizesPassed DEF FinalizeIfCommitted
<1> HIDE DEF w
<1>6. Moves(s, u)
  BY <1>2, <1>3, MovesTransitive
<1>7. Moves(s, v)
  BY <1>4, <1>6, MovesTransitive
<1> QED BY <1>1, <1>5, <1>7, MovesTransitive

LEMMA UpdateIfReachedMoves ==
    ASSUME NEW s, Core(s), NEW r \in Rounds, NEW now \in Moments
    PROVE  /\ Moves(s, UpdateIfReached(s, r, now))
           /\ Passed(s, r - 1) => Passed(UpdateIfReached(s, r, now), r)
<1>1. Moves(s, s)
  BY CalmReflexive, CalmMoves
<1>2. r \in Int /\ s.current_round \in Int
  BY RoundsAssumption DEF Core, Typed, Instances, Rounds
<1>3. CASE r > s.current_round
  BY <1>1, <1>2, <1>3 DEF UpdateIfReached, Passed
<1>4. CASE ~(r > s.current_round)
  BY <1>2, <1>4, UpdateRoundMoves DEF UpdateIfReached
<1> QED BY <1>3, <1>4

LEMMA UpdateFromMoves ==
    ASSUME NEW s, Core(s), NEW r \in Rounds, r <= s.current_round, NEW now \in Moments
    PROVE  Moves(s, UpdateFrom(s, r, now)) /\ Open(UpdateFrom(s, r, now))
<1> DEFINE lo == r - 1
           hi == LastRound + 1
           Is(f) == f = [q \in r - 1 .. LastRound + 1 |->
                            IF q < r THEN s ELSE UpdateIfReached(f[q - 1], q, now)]
           after == CHOOSE f : Is(f)
           X == {x \in Instances : Moves(s, x)}
           F == [y \in X \X Rounds |-> UpdateIfReached(y[1], y[2], now)]
<1>1. UpdateFrom(s, r, now) = after[LastRound + 1]
  BY DEF UpdateFrom
<1>2. lo \in Int /\ hi \in Int /\ lo <= hi /\ r \in Nat
  BY RoundsAssumption DEF Rounds
<1>3. \A i \in lo .. hi : (i < r <=> i = lo) /\ (i # lo => i \in Rounds /\ i - 1 \in lo .. hi)
  BY <1>2, RoundsAssumption DEF Rounds
<1>4. s \in X
  BY CalmReflexive, CalmMoves DEF Core, Typed
<1>5. \A i \in Rounds, x \in X : UpdateIfReached(x, i, now) \in X
  <2> SUFFICES ASSUME NEW i \in Rounds, NEW x \in X PROVE UpdateIfReached(x, i, now) \in X
    OBVIOUS
  <2> DEFINE y == UpdateIfReached(x, i, now)
  <2>1. Moves(s, x) /\ Core(x)
    BY DEF Moves
  <2>2. Moves(x, y)
    BY <2>1, UpdateIfReachedMoves
  <2> HIDE DEF y
  <2>3. Moves(s, y)
    BY <2>1, <2>2, MovesTransitive
  <2>4. y \in Instances
    BY <2>3 DEF Moves, Core, Typed
  <2> QED BY <2>3, <2>4 DEF y
<1>6. \A i \in Rounds, x \in X : F[<<x, i>>] = UpdateIfReached(x, i, now)
  <2> SUFFICES ASSUME NEW i \in Rounds, NEW x \in X PROVE F[<<x, i>>] = UpdateIfReached(x, i, now)
    OBVIOUS
  <2>1. <<x, i>> \in X \X Rounds
    OBVIOUS
  <2> HIDE DEF X
  <2> QED BY <2>1
<1>7. \E f : Is(f)
  <2> HIDE DEF F, X, lo, hi
  <2>1. PICK f \in [lo .. hi -> X] : Iterates(f, lo, hi, s, F)
    <3>1. \A i \in lo .. hi, x \in X : i # lo => F[<<x, i>>] \in X
      BY <1>3, <1>5, <1>6
    <3> QED BY <1>2, <1>4, <3>1, LoopExists, Zenon
  <2>2. ASSUME NEW q \in lo .. hi
        PROVE  f[q] = IF q < r THEN s ELSE UpdateIfReached(f[q - 1], q, now)
    <3>1. f[q] = IF q = lo THEN s ELSE F[<<f[q - 1], q>>]
      BY <2>1 DEF Iterates
    <3>2. q # lo => f[q - 1] \in X /\ q \in Rounds
      BY <1>3, <2>1
    <3> QED BY <1>3, <1>6, <3>1, <3>2
  <2>3. Is(f)
    BY <2>1, <2>2 DEF lo, hi
  <2> QED BY <2>3
<1>8. Is(after)
  BY <1>7, Zenon
<1> HIDE DEF after
<1>9. ASSUME NEW q \in lo .. hi
      PROVE  after[q] = IF q < r THEN s ELSE UpdateIfReached(after[q - 1], q, now)
  BY <1>8
<1>10. \A i \in lo .. hi : after[i] \in X
  <2> HIDE DEF X, lo, hi
  <2>1. after[lo] \in X
    <3>1. lo \in lo .. hi
      BY <1>2
    <3> QED BY <1>3, <1>4, <1>9, <3>1
  <2>2. \A i \in lo .. hi : i # lo /\ after[i - 1] \in X => after[i] \in X
    BY <1>3, <1>5, <1>9
  <2> QED BY <1>2, <2>1, <2>2, LoopStays, Zenon
<1>11. after[hi] \in X
  BY <1>2, <1>10
<1>12. \A i \in lo .. hi : Passed(after[i], i)
  <2> DEFINE B == {i \in lo .. hi : Passed(after[i], i)}
  <2>1. ASSUME NEW i \in lo .. hi, \A j \in lo .. i - 1 : j \in B PROVE i \in B
    <3>1. CASE i = lo
      <4>1. after[i] = s
        BY <1>2, <1>3, <1>9, <3>1
      <4>2. s.current_round \in Int
        BY RoundsAssumption DEF Core, Typed, Instances, Rounds
      <4>3. s.current_round > i
        BY <1>2, <3>1, <4>2
      <4> QED BY <4>1, <4>3 DEF Passed
    <3>2. CASE i # lo
      <4>1. i - 1 \in lo .. i - 1
        <5>1. i \in Int /\ lo <= i /\ lo \in Int
          BY <1>2
        <5> HIDE DEF lo
        <5> QED BY <3>2, <5>1
      <4>2. i \in Rounds /\ i - 1 \in lo .. hi /\ after[i] = UpdateIfReached(after[i - 1], i, now)
        BY <1>3, <1>9, <3>2
      <4>3. Passed(after[i - 1], i - 1) /\ Core(after[i - 1])
        BY <1>10, <2>1, <4>1, <4>2 DEF Moves
      <4> QED BY <4>2, <4>3, UpdateIfReachedMoves
    <3> QED BY <3>1, <3>2
  <2>2. \A i \in lo .. hi : i \in B
    <3> HIDE DEF B
    <3> QED BY <1>2, <2>1, Induct, Zenon
  <2> QED BY <2>2
<1>13. Open(after[hi])
  <2>1. Passed(after[hi], hi)
    BY <1>2, <1>12
  <2>2. after[hi].current_round \in Rounds
    BY <1>11 DEF Instances
  <2>3. ~(after[hi].current_round > hi)
    BY <1>2, <2>2, RoundsAssumption DEF Rounds
  <2> QED BY <2>1, <2>3 DEF Passed
<1> QED BY <1>1, <1>11, <1>13

LEMMA CleanMild ==
    ASSUME NEW s, Core(s)
    PROVE  LET t == [s EXCEPT !.dirty = NoRound]
           IN  Mild(s, t) /\ t.rounds = s.rounds
<1> DEFINE t == [s EXCEPT !.dirty = NoRound]
<1>1. s \in Instances
  BY DEF Core, Typed
<1>2. t \in Instances
  BY <1>1, ZenonT(60) DEF Instances
<1>3. /\ t = [s EXCEPT !.dirty = t.dirty, !.current_round_start = t.current_round_start,
                       !.next_scheduled_update = t.next_scheduled_update, !.timers = t.timers,
                       !.requested = t.requested, !.paused = t.paused, !.disk = t.disk,
                       !.lost_timers = t.lost_timers, !.lost_blocks = t.lost_blocks]
      /\ t.dirty = NoRound /\ t.current_round = s.current_round /\ t.rounds = s.rounds
  BY <1>1 DEF Instances
<1> HIDE DEF t
<1>4. t.dirty <= t.current_round
  BY <1>1, <1>3, RoundsAssumption DEF Instances, Rounds, NoRound
<1>5. Mild(s, t)
  BY <1>2, <1>3, <1>4, Quiet
<1> QED BY <1>3, <1>5 DEF t

LEMMA UpdateMoves ==
    ASSUME NEW s, Core(s), NEW now \in Moments
    PROVE  /\ Moves(s, Update(s, now)) /\ Ends(s, Update(s, now))
           /\ Watched(s) => Watched(Update(s, now))
<1> DEFINE idle == FinalizedSwitchBlock(s) \/ FttExceeded(s) \/ s.dirty = NoRound
           t == UpdateFrom(s, s.dirty, now)
<1>1. CASE idle
  BY <1>1, CalmReflexive, CalmMoves, KeepsReflexive DEF Update
<1>2. CASE ~idle
  <2>1. s.dirty \in Rounds /\ s.dirty <= s.current_round
    BY <1>2 DEF Core, Typed, Instances
  <2>2. Moves(s, t) /\ Open(t)
    BY <2>1, UpdateFromMoves
  <2>3. Update(s, now) = [t EXCEPT !.dirty = NoRound]
    BY <1>2 DEF Update
  <2> HIDE DEF t
  <2>4. /\ Mild(t, [t EXCEPT !.dirty = NoRound])
        /\ [t EXCEPT !.dirty = NoRound].rounds = t.rounds
    BY <2>2, CleanMild DEF Moves
  <2>5. Moves(s, Update(s, now))
    BY <2>2, <2>3, <2>4, MildMoves, MovesTransitive DEF Moves
  <2>6. Watched(Update(s, now))
    BY <2>2, <2>3, <2>4, SameRounds DEF Watched, Open, Mild, Stays
  <2> QED BY <1>2, <2>5, <2>6 DEF Ends
<1> QED BY <1>1, <1>2

-----------------------------------------------------------------------------
(* Handlers                                                                 *)

\* A whole handler.
Handles(s, t) == Good(t) /\ Keeps(s, t) /\ Ends(s, t)

LEMMA HandlesTransitive ==
    ASSUME NEW s, Good(s), NEW t, NEW u, Handles(s, t), Handles(t, u)
    PROVE  Handles(s, u)
<1> s \in Instances /\ t \in Instances
  BY DEF Good, Core, Typed, Handles
<1> QED BY KeepsTransitive, EndsTransitive DEF Handles

LEMMA HandlesReflexive == ASSUME NEW s, Good(s) PROVE Handles(s, s)
BY KeepsReflexive DEF Handles

LEMMA CalmHandles ==
    ASSUME NEW s, Good(s), NEW t, Calm(s, t)
    PROVE  Handles(s, t)
BY StaysEnds, CalmMoves, CalmWatched, InformedKept DEF Handles, Good, Calm, Mild, Moves

LEMMA UpdateHandles ==
    ASSUME NEW s, Good(s), NEW now \in Moments
    PROVE  Handles(s, Update(s, now))
BY UpdateMoves, InformedKept DEF Handles, Good, Moves

\* A calm step, and then update.
LEMMA CalmThenUpdate ==
    ASSUME NEW s, Good(s), NEW t, Calm(s, t), NEW now \in Moments
    PROVE  Handles(s, Update(t, now))
<1>1. Handles(s, t) /\ Good(t)
  BY CalmHandles DEF Handles
<1>2. Handles(t, Update(t, now))
  BY <1>1, UpdateHandles
<1> QED BY <1>1, <1>2, HandlesTransitive

-----------------------------------------------------------------------------
(* Faults                                                                   *)

LEMMA MarkDirectlyFaultyKeeps ==
    ASSUME NEW s, Core(s), NEW v \in Validators
    PROVE  LET t == MarkDirectlyFaulty(s, v)
           IN  Core(t) /\ Keeps(s, t) /\ Stays(s, t) /\ Rests(s, t) /\ t.faults[v] = "Direct"
<1> DEFINE f == [s.faults EXCEPT ![v] = "Direct"]
           a == [s.active EXCEPT ![v] = NoRound]
           b == s.active_validator /\ v # Us
           t == [s EXCEPT !.faults = f, !.active = a, !.active_validator = b]
<1>1. s \in Instances /\ s.faults \in [Validators -> {"None", "Banned", "Indirect", "Direct"}]
      /\ s.active \in [Validators -> {NoRound} \cup Rounds] /\ s.active_validator \in BOOLEAN
  BY DEF Core, Typed, Instances
<1>2. MarkDirectlyFaulty(s, v) = t
  BY <1>1 DEF MarkDirectlyFaulty, Instances
<1>3. f \in [Validators -> {"None", "Banned", "Indirect", "Direct"}]
      /\ a \in [Validators -> {NoRound} \cup Rounds] /\ b \in BOOLEAN
  BY <1>1
<1>4. /\ f[v] = "Direct" /\ \A x \in Validators : x # v => f[x] = s.faults[x] /\ a[x] = s.active[x]
      /\ b => s.active_validator /\ v # Us
  BY <1>1
<1> HIDE DEF f, a, b
<1>5. t \in Instances
  BY <1>1, <1>3, ZenonT(60) DEF Instances
<1>6. /\ t.rounds = s.rounds /\ t.faults = f /\ t.current_round = s.current_round
      /\ t.first_non_finalized = s.first_non_finalized /\ t.finalized = s.finalized
      /\ t.evidence_only = s.evidence_only /\ t.restarts = s.restarts /\ t.signed = s.signed
      /\ t.bugs = s.bugs /\ t.dirty = s.dirty /\ t.pending_proposal = s.pending_proposal
      /\ t.waiting_for_parent = s.waiting_for_parent
      /\ t.waiting_for_validation = s.waiting_for_validation
      /\ t.active = a /\ t.active_validator = b
      /\ t.write_wal = s.write_wal /\ t.wal = s.wal
  BY <1>1 DEF Instances
<1> HIDE DEF t
<1>7. Typed(t) /\ Lowest(t) /\ Sane(t)
  <2>1. Typed(t)
    BY <1>5, <1>6 DEF Core, Typed, Below
  <2>2. Lowest(t) /\ Sane(t)
    BY <1>6, LowestKept DEF Core, Sane
  <2> QED BY <2>1, <2>2
<1>8. Own(t) = Own(s) /\ Keeps(s, t) /\ Stays(s, t)
  <2>1. Own(t) = Own(s)
    BY <1>6 DEF Own
  <2>2. \A x \in Validators : s.faults[x] = "Direct" => t.faults[x] = "Direct"
    BY <1>4, <1>6
  <2>3. Keeps(s, t)
    BY <1>4, <1>6, <2>1, <2>2 DEF Keeps
  <2> QED BY <1>6, <2>1, <2>3 DEF Stays
<1>9. Logged(t)
  <2>1. t.active_validator => s.active_validator /\ t.write_wal /\ t.faults[Us] # "Direct"
    <3> SUFFICES ASSUME b PROVE s.active_validator /\ s.write_wal /\ f[Us] # "Direct"
      BY <1>6
    <3>1. s.active_validator /\ v # Us
      BY <1>4
    <3>2. s.write_wal /\ Us \in Validators /\ s.faults[Us] # "Direct"
      BY <3>1 DEF Core, Logged
    <3> QED BY <1>4, <3>1, <3>2
  <2> QED BY <1>1, <1>6, <1>8, <2>1, LoggedKept DEF Core
<1>10. \A x \in Validators :
            /\ s.faults[x] # "None" => t.faults[x] # "None"
            /\ s.active[x] # NoRound => t.active[x] # NoRound \/ t.faults[x] # "None"
  <2> SUFFICES ASSUME NEW x \in Validators
               PROVE  /\ s.faults[x] # "None" => t.faults[x] # "None"
                      /\ s.active[x] # NoRound => t.active[x] # NoRound \/ t.faults[x] # "None"
    OBVIOUS
  <2>1. CASE x = v
    BY <1>4, <1>6, <2>1
  <2>2. CASE x # v
    BY <1>4, <1>6, <2>2
  <2> QED BY <2>1, <2>2
<1>11. Core(t)
  BY <1>6, <1>7, <1>9, <1>10, FieldsChange
<1> QED BY <1>2, <1>4, <1>6, <1>8, <1>11, SameRoundsRest

LEMMA RemovedIs ==
    ASSUME NEW s \in Instances, NEW v \in Validators
    PROVE  LET t == RemoveVotesAndEchoes(s, v)
           IN  /\ t \in Instances
               /\ t = [s EXCEPT !.rounds = t.rounds]
               /\ \A r \in Rounds :
                    /\ t.rounds[r].echoes = {e \in s.rounds[r].echoes : e[2] # v}
                    /\ t.rounds[r].votes = {e \in s.rounds[r].votes : e[2] # v}
                    /\ t.rounds[r].proposal = s.rounds[r].proposal
                    /\ t.rounds[r].accepted_height = s.rounds[r].accepted_height
                    /\ t.rounds[r].quorum_echoes = s.rounds[r].quorum_echoes
                    /\ t.rounds[r].quorum_votes = s.rounds[r].quorum_votes
<1> DEFINE x(r) == [s.rounds[r] EXCEPT !.echoes = {e \in s.rounds[r].echoes : e[2] # v},
                                       !.votes  = {e \in s.rounds[r].votes : e[2] # v}]
           rounds == [r \in Rounds |-> x(r)]
           t == [s EXCEPT !.rounds = rounds]
<1>1. RemoveVotesAndEchoes(s, v) = t
  BY DEF RemoveVotesAndEchoes, Instances, RoundStates
<1>2. ASSUME NEW r \in Rounds
      PROVE  /\ x(r) \in RoundStates
             /\ x(r).echoes = {e \in s.rounds[r].echoes : e[2] # v}
             /\ x(r).votes = {e \in s.rounds[r].votes : e[2] # v}
             /\ x(r).proposal = s.rounds[r].proposal
             /\ x(r).accepted_height = s.rounds[r].accepted_height
             /\ x(r).quorum_echoes = s.rounds[r].quorum_echoes
             /\ x(r).quorum_votes = s.rounds[r].quorum_votes
  <2>1. s.rounds[r] \in RoundStates
    BY DEF Instances
  <2> QED BY <2>1 DEF RoundStates
<1> HIDE DEF x
<1>3. rounds \in [Rounds -> RoundStates] /\ \A r \in Rounds : rounds[r] = x(r)
  BY <1>2
<1> HIDE DEF rounds
<1>4. t \in Instances /\ t.rounds = rounds
  BY <1>3, ZenonT(60) DEF Instances
<1> QED BY <1>1, <1>2, <1>3, <1>4

\* A faulty validator counts towards every quorum, so none needs its messages.
LEMMA RemoveVotesAndEchoesKeeps ==
    ASSUME NEW s, Core(s), NEW v \in Validators, s.faults[v] = "Direct"
    PROVE  LET t == RemoveVotesAndEchoes(s, v)
           IN  Core(t) /\ Keeps(s, t) /\ Stays(s, t) /\ Rests(s, t) /\ t.faults = s.faults
<1> DEFINE t == RemoveVotesAndEchoes(s, v)
<1>1. s \in Instances
  BY DEF Core, Typed
<1>2. /\ t \in Instances
      /\ t = [s EXCEPT !.rounds = t.rounds]
      /\ \A r \in Rounds :
            /\ t.rounds[r].echoes = {e \in s.rounds[r].echoes : e[2] # v}
            /\ t.rounds[r].votes = {e \in s.rounds[r].votes : e[2] # v}
            /\ t.rounds[r].proposal = s.rounds[r].proposal
            /\ t.rounds[r].accepted_height = s.rounds[r].accepted_height
            /\ t.rounds[r].quorum_echoes = s.rounds[r].quorum_echoes
            /\ t.rounds[r].quorum_votes = s.rounds[r].quorum_votes
  BY <1>1, RemovedIs
<1> HIDE DEF t
<1>3. /\ t.faults = s.faults /\ t.current_round = s.current_round
      /\ t.first_non_finalized = s.first_non_finalized /\ t.finalized = s.finalized
      /\ t.evidence_only = s.evidence_only /\ t.restarts = s.restarts /\ t.signed = s.signed
      /\ t.bugs = s.bugs /\ t.dirty = s.dirty /\ t.pending_proposal = s.pending_proposal
      /\ t.waiting_for_parent = s.waiting_for_parent
      /\ t.waiting_for_validation = s.waiting_for_validation
      /\ t.active = s.active /\ t.active_validator = s.active_validator
      /\ t.write_wal = s.write_wal /\ t.wal = s.wal
  BY <1>1, <1>2 DEF Instances
<1>4. \A r \in Rounds : /\ Skippable(t, r) <=> Skippable(s, r)
                        /\ Accepted(t, r) <=> Accepted(s, r)
                        /\ ProposalIn(t, r) = ProposalIn(s, r)
  BY <1>2 DEF Skippable, Accepted, ProposalIn
<1>5. Typed(t)
  BY <1>1, <1>2, <1>3 DEF Core, Typed, Below
<1>6. Settled(t)
  BY <1>2 DEF Core, Settled
<1>7. Backed(t)
  <2>1. v \in FaultyIn(t) /\ FaultyIn(t) = FaultyIn(s)
    BY <1>3 DEF FaultyIn
  <2> SUFFICES ASSUME NEW r \in Rounds
               PROVE  /\ \A p \in s.rounds[r].quorum_echoes : IsQuorum(t, EchoedBy(t, r, p))
                      /\ \A b \in s.rounds[r].quorum_votes : IsQuorum(t, VotedBy(t, r, b))
    BY <1>2 DEF Backed
  <2>2. ASSUME NEW p \in s.rounds[r].quorum_echoes PROVE IsQuorum(t, EchoedBy(t, r, p))
    <3>1. IsQuorum(s, EchoedBy(s, r, p))
      BY DEF Core, Backed
    <3>2. EchoedBy(t, r, p) \subseteq Validators
      BY <1>2, Signers DEF EchoedBy
    <3>3. EchoedBy(s, r, p) \subseteq EchoedBy(t, r, p) \cup {v}
      BY <1>2 DEF EchoedBy
    <3>4. EchoedBy(s, r, p) \cup FaultyIn(s) \subseteq EchoedBy(t, r, p) \cup FaultyIn(t)
      BY <2>1, <3>3
    <3> QED BY <3>1, <3>2, <3>4, QuorumGrows
  <2>3. ASSUME NEW b \in s.rounds[r].quorum_votes PROVE IsQuorum(t, VotedBy(t, r, b))
    <3>1. IsQuorum(s, VotedBy(s, r, b))
      BY DEF Core, Backed
    <3>2. VotedBy(t, r, b) \subseteq Validators
      BY <1>2, Signers DEF VotedBy
    <3>3. VotedBy(s, r, b) \subseteq VotedBy(t, r, b) \cup {v}
      BY <1>2 DEF VotedBy
    <3>4. VotedBy(s, r, b) \cup FaultyIn(s) \subseteq VotedBy(t, r, b) \cup FaultyIn(t)
      BY <2>1, <3>3
    <3> QED BY <3>1, <3>2, <3>4, QuorumGrows
  <2> QED BY <2>2, <2>3
<1>8. Own(t) = Own(s) /\ Keeps(s, t) /\ Stays(s, t)
  <2>1. Own(t) = Own(s)
    BY <1>3 DEF Own
  <2>2. \A r \in Rounds :
            /\ \A e \in s.rounds[r].echoes : e \in t.rounds[r].echoes \/ t.faults[e[2]] = "Direct"
            /\ \A e \in s.rounds[r].votes : e \in t.rounds[r].votes \/ t.faults[e[2]] = "Direct"
    BY <1>2, <1>3
  <2>3. Keeps(s, t)
    BY <1>3, <2>1, <2>2 DEF Keeps
  <2>4. Stays(s, t)
    BY <1>2, <1>3 DEF Stays
  <2> QED BY <2>1, <2>3, <2>4
<1>9. Logged(t)
  BY <1>1, <1>3, <1>8, LoggedKept DEF Core, Logged
<1>10. Linked(t)
  <2> SUFFICES ASSUME NEW r \in Rounds, Accepted(t, r)
               PROVE  LET parent == ProposalIn(t, r).parent
                      IN  /\ parent # NoRound => Accepted(t, parent)
                          /\ t.rounds[r].accepted_height =
                                IF parent = NoRound THEN 0 ELSE t.rounds[parent].accepted_height + 1
                          /\ \A q \in parent + 1 .. r - 1 : Skippable(t, q)
    BY DEF Linked, LinkedAt
  <2> DEFINE p == ProposalIn(s, r).parent
  <2>1. ProposalIn(t, r).parent = p /\ Accepted(s, r)
    BY <1>4
  <2>2. /\ p \in -1 .. r - 1
        /\ p # NoRound => Accepted(s, p)
        /\ s.rounds[r].accepted_height =
                IF p = NoRound THEN 0 ELSE s.rounds[p].accepted_height + 1
        /\ \A q \in p + 1 .. r - 1 : Skippable(s, q)
    BY <2>1, AcceptedIs DEF Core, Linked, LinkedAt
  <2> HIDE DEF p
  <2>3. (p # NoRound => p \in Rounds) /\ \A q \in p + 1 .. r - 1 : q \in Rounds
    BY <2>2, RoundsAssumption DEF Rounds, NoRound
  <2>4. t.rounds[r].accepted_height = IF p = NoRound THEN 0 ELSE t.rounds[p].accepted_height + 1
    BY <1>2, <2>2, <2>3
  <2> QED BY <1>4, <2>1, <2>2, <2>3, <2>4
<1>11. Lowest(t)
  <2>1. \A r \in 0 .. s.current_round - 1 : r \in Rounds
    BY <1>1, RoundsAssumption DEF Instances, Rounds
  <2> QED BY <1>3, <1>4, <2>1 DEF Core, Lowest
<1>12. Sane(t)
  BY <1>3 DEF Core, Sane
<1>13. Fitting(t)
  <2>1. \A p : HeardFrom(t, p) <=> HeardFrom(s, p)
    BY <1>3 DEF HeardFrom
  <2>2. \A p \in Proposals : FitsQuorum(t, p) <=> FitsQuorum(s, p)
    <3> SUFFICES ASSUME NEW p \in Proposals PROVE FitsQuorum(t, p) <=> FitsQuorum(s, p)
      OBVIOUS
    <3>1. p.parent # NoRound => p.parent \in Rounds
      BY DEF Proposals
    <3> QED BY <1>2, <3>1 DEF FitsQuorum
  <2>3. \A r \in Rounds : \A p \in s.rounds[r].proposal : p \in Proposals
    BY <1>1 DEF Instances, RoundStates
  <2>4. \A w \in s.waiting_for_validation : w.proposal \in Proposals
    BY <1>1 DEF Instances
  <2>5. \A x \in s.pending_proposal : x.parent # NoRound => x.parent \in Rounds
    BY <1>1 DEF Instances
  <2> SUFFICES ASSUME MaxRestarts = 0, ~s.evidence_only
               PROVE  /\ t.wal = <<>>
                      /\ \A x \in Rounds : \A p \in t.rounds[x].proposal : FitsQuorum(t, p)
                      /\ \A x \in Rounds : Accepted(t, x) => HeardFrom(t, ProposalIn(t, x))
                      /\ \A w \in t.waiting_for_validation : FitsQuorum(t, w.proposal)
                      /\ \A x \in t.pending_proposal :
                          /\ x.context.timestamp >= StartTimestamp
                          /\ x.parent # NoRound =>
                              \E q \in t.rounds[x.parent].quorum_echoes :
                                  HeardFrom(t, q) /\ x.context.timestamp >= q.timestamp + MinBlockTime
    BY <1>3 DEF Fitting
  <2>6. Fitting(s)
    BY DEF Core
  <2>7. t.wal = <<>>
    BY <1>3, <2>6 DEF Fitting
  <2>8. \A x \in Rounds : \A p \in t.rounds[x].proposal : FitsQuorum(t, p)
    BY <1>2, <2>2, <2>3, <2>6 DEF Fitting
  <2>9. \A x \in Rounds : Accepted(t, x) => HeardFrom(t, ProposalIn(t, x))
    BY <1>4, <2>1, <2>6 DEF Fitting
  <2>10. \A w \in t.waiting_for_validation : FitsQuorum(t, w.proposal)
    BY <1>3, <2>2, <2>4, <2>6 DEF Fitting
  <2>11. ASSUME NEW x \in t.pending_proposal
         PROVE  /\ x.context.timestamp >= StartTimestamp
                /\ x.parent # NoRound =>
                      \E q \in t.rounds[x.parent].quorum_echoes :
                          HeardFrom(t, q) /\ x.context.timestamp >= q.timestamp + MinBlockTime
    BY <1>2, <1>3, <2>1, <2>5, <2>6 DEF Fitting
  <2> QED BY <2>7, <2>8, <2>9, <2>10, <2>11
<1>14. Core(t)
  BY <1>5, <1>6, <1>7, <1>9, <1>10, <1>11, <1>12, <1>13 DEF Core
<1>15. Rests(s, t)
  BY <1>2, <1>3, <1>4, SameMarks DEF SameVotes
<1> QED BY <1>3, <1>8, <1>14, <1>15 DEF t

LEMMA SameSignaturesReflexive == ASSUME NEW s \in Instances PROVE SameSignatures(s, s)
<1>1. s = [s EXCEPT !.rounds = s.rounds, !.dirty = s.dirty]
  BY DEF Instances
<1> QED BY <1>1 DEF SameSignatures

LEMMA SameSignaturesTransitive ==
    ASSUME NEW s \in Instances, NEW t \in Instances, NEW u, SameSignatures(s, t), SameSignatures(t, u)
    PROVE  SameSignatures(s, u)
<1>1. u = [s EXCEPT !.rounds = u.rounds, !.dirty = u.dirty]
  <2>1. t = [s EXCEPT !.rounds = t.rounds, !.dirty = t.dirty]
    BY DEF SameSignatures
  <2>2. u = [t EXCEPT !.rounds = u.rounds, !.dirty = u.dirty]
    BY DEF SameSignatures
  <2> QED BY <2>1, <2>2 DEF Instances
<1> QED BY <1>1 DEF SameSignatures

LEMMA SameSignaturesNotice ==
    ASSUME NEW s \in Instances, NEW t, SameSignatures(s, t), NEW r \in Rounds
    PROVE  /\ t.faults = s.faults
           /\ Echoed(t, r) = Echoed(s, r) /\ \A p : EchoedBy(t, r, p) = EchoedBy(s, r, p)
           /\ \A b : VotedBy(t, r, b) = VotedBy(s, r, b)
           /\ \A S : IsQuorum(t, S) <=> IsQuorum(s, S)
           /\ s.rounds[r].quorum_echoes \subseteq t.rounds[r].quorum_echoes
           /\ s.rounds[r].quorum_votes \subseteq t.rounds[r].quorum_votes
           /\ Noticed(s, r) => Noticed(t, r)
<1>1. t.faults = s.faults
  BY DEF SameSignatures, Instances
<1>2. Echoed(t, r) = Echoed(s, r) /\ \A p : EchoedBy(t, r, p) = EchoedBy(s, r, p)
  BY DEF SameSignatures, Echoed, EchoedBy
<1>3. \A b : VotedBy(t, r, b) = VotedBy(s, r, b)
  BY DEF SameSignatures, VotedBy
<1>4. \A S : IsQuorum(t, S) <=> IsQuorum(s, S)
  BY <1>1, SameFaults
<1>5. /\ s.rounds[r].quorum_echoes \subseteq t.rounds[r].quorum_echoes
      /\ s.rounds[r].quorum_votes \subseteq t.rounds[r].quorum_votes
  BY DEF SameSignatures
<1>6. Noticed(s, r) => Noticed(t, r)
  BY <1>2, <1>3, <1>4, <1>5 DEF Noticed
<1> QED BY <1>1, <1>2, <1>3, <1>4, <1>5, <1>6

LEMMA CheckNewEchoQuorumsCalm ==
    ASSUME NEW s, Core(s), NEW r \in Rounds
    PROVE  LET t == CheckNewEchoQuorums(s, r)
           IN  /\ Calm(s, t) /\ SameSignatures(s, t)
               /\ \A p \in Echoed(s, r) :
                    IsQuorum(s, EchoedBy(s, r, p)) => t.rounds[r].quorum_echoes # {}
<1> DEFINE quorate == {p \in Echoed(s, r) : IsQuorum(s, EchoedBy(s, r, p))}
           p == CHOOSE x \in quorate : TRUE
<1>1. s \in Instances
  BY DEF Core, Typed
<1>2. CASE quorate = {}
  <2>1. CheckNewEchoQuorums(s, r) = s
    BY <1>2 DEF CheckNewEchoQuorums
  <2> QED BY <1>1, <1>2, <2>1, CalmReflexive, SameSignaturesReflexive
<1>3. CASE quorate # {}
  <2>1. CheckNewEchoQuorums(s, r) = CheckNewEchoQuorum(s, r, p)
    BY <1>3 DEF CheckNewEchoQuorums
  <2>2. p \in quorate
    BY <1>3
  <2> HIDE DEF p
  <2>3. p \in Proposals /\ IsQuorum(s, EchoedBy(s, r, p))
    BY <1>1, <2>2, Signers DEF Echoed
  <2> QED BY <2>1, <2>3, CheckNewEchoQuorumCalm
<1> QED BY <1>2, <1>3

LEMMA CheckNewQuorumsCalm ==
    ASSUME NEW s, Core(s), NEW r \in Rounds
    PROVE  LET t == CheckNewQuorums(s, r)
           IN  Calm(s, t) /\ SameSignatures(s, t) /\ Noticed(t, r)
<1> DEFINE t == CheckNewEchoQuorums(s, r)
           u == CheckNewVoteQuorum(t, r, TRUE)
           w == CheckNewVoteQuorum(u, r, FALSE)
<1>1. CheckNewQuorums(s, r) = w
  BY DEF CheckNewQuorums
<1>2. /\ Calm(s, t) /\ SameSignatures(s, t)
      /\ \A p \in Echoed(s, r) :
            IsQuorum(s, EchoedBy(s, r, p)) => t.rounds[r].quorum_echoes # {}
  BY CheckNewEchoQuorumsCalm
<1> HIDE DEF t
<1>3. Core(t)
  BY <1>2 DEF Calm, Mild
<1>4. /\ Calm(t, u) /\ SameSignatures(t, u)
      /\ IsQuorum(t, VotedBy(t, r, TRUE)) => u.rounds[r].quorum_votes # {}
  BY <1>3, CheckNewVoteQuorumCalm
<1> HIDE DEF u
<1>5. Core(u)
  BY <1>4 DEF Calm, Mild
<1>6. /\ Calm(u, w) /\ SameSignatures(u, w)
      /\ IsQuorum(u, VotedBy(u, r, FALSE)) => w.rounds[r].quorum_votes # {}
  BY <1>5, CheckNewVoteQuorumCalm
<1> HIDE DEF w
<1>7. Calm(s, u) /\ Calm(s, w)
  BY <1>2, <1>4, <1>6, CalmTransitive
<1>8. s \in Instances /\ t \in Instances /\ u \in Instances
  BY <1>3, <1>5 DEF Core, Typed
<1>9. SameSignatures(s, u) /\ SameSignatures(t, w) /\ SameSignatures(s, w)
  BY <1>2, <1>4, <1>6, <1>8, SameSignaturesTransitive
<1>10. Noticed(w, r)
  <2>1. ASSUME NEW p \in Echoed(w, r), IsQuorum(w, EchoedBy(w, r, p))
        PROVE  w.rounds[r].quorum_echoes # {}
    <3>1. p \in Echoed(s, r) /\ IsQuorum(s, EchoedBy(s, r, p))
      BY <1>8, <1>9, <2>1, SameSignaturesNotice
    <3>2. t.rounds[r].quorum_echoes # {}
      BY <1>2, <3>1
    <3> QED BY <1>8, <1>9, <3>2, SameSignaturesNotice
  <2>2. ASSUME NEW b \in BOOLEAN, IsQuorum(w, VotedBy(w, r, b))
        PROVE  w.rounds[r].quorum_votes # {}
    <3>1. CASE b = TRUE
      <4>1. IsQuorum(t, VotedBy(t, r, TRUE))
        <5>1. IsQuorum(t, VotedBy(t, r, b))
          BY <1>8, <1>9, <2>2, SameSignaturesNotice
        <5> QED BY <3>1, <5>1, Zenon
      <4>2. u.rounds[r].quorum_votes # {}
        BY <1>4, <4>1
      <4> QED BY <1>6, <1>8, <4>2, SameSignaturesNotice
    <3>2. CASE b = FALSE
      <4>1. IsQuorum(u, VotedBy(u, r, FALSE))
        <5>1. IsQuorum(u, VotedBy(u, r, b))
          BY <1>6, <1>8, <2>2, SameSignaturesNotice
        <5> QED BY <3>2, <5>1, Zenon
      <4> QED BY <1>6, <4>1
    <3> QED BY <3>1, <3>2
  <2> QED BY <2>1, <2>2 DEF Noticed
<1> QED BY <1>1, <1>7, <1>9, <1>10

LEMMA RecheckQuorumsCalm ==
    ASSUME NEW s, Core(s)
    PROVE  Calm(s, RecheckQuorums(s)) /\ Noticing(RecheckQuorums(s))
<1> DEFINE n == s.first_non_finalized
           hi == LastRound + 1
           Is(f) == f = [r \in -1 .. LastRound + 1 |->
                            IF r < s.first_non_finalized THEN s ELSE CheckNewQuorums(f[r - 1], r)]
           after == CHOOSE f : Is(f)
           X == {x \in Instances : Calm(s, x) /\ SameSignatures(s, x)}
           F == [y \in X \X Rounds |-> CheckNewQuorums(y[1], y[2])]
           base == {r \in -1 .. hi : r < n}
           a == [r \in -1 .. hi |-> s]
           par == [r \in -1 .. hi |-> r - 1]
<1>1. RecheckQuorums(s) = after[LastRound + 1]
  BY DEF RecheckQuorums
<1>2. s \in Instances /\ n \in Nat /\ hi \in Nat /\ -1 \in Int /\ hi \in Int
  BY RoundsAssumption DEF Core, Typed, Instances
<1>3. s \in X
  BY <1>2, CalmReflexive, SameSignaturesReflexive
<1>4. \A r \in -1 .. hi : ~(r < n) => r \in Rounds /\ r - 1 \in -1 .. r - 1 /\ r - 1 \in -1 .. hi
  BY <1>2 DEF Rounds
<1>5. ASSUME NEW r \in Rounds, NEW x \in X
      PROVE  /\ CheckNewQuorums(x, r) \in X /\ SameSignatures(x, CheckNewQuorums(x, r))
             /\ Noticed(CheckNewQuorums(x, r), r)
  <2> DEFINE y == CheckNewQuorums(x, r)
  <2>1. Core(x) /\ Calm(s, x) /\ SameSignatures(s, x)
    BY DEF Calm, Mild
  <2>2. Calm(x, y) /\ SameSignatures(x, y) /\ Noticed(y, r)
    BY <2>1, CheckNewQuorumsCalm
  <2> HIDE DEF y
  <2>3. Calm(s, y)
    BY <2>1, <2>2, CalmTransitive
  <2>4. SameSignatures(s, y)
    BY <1>2, <2>1, <2>2, SameSignaturesTransitive
  <2>5. y \in Instances
    BY <2>3 DEF Calm, Mild, Core, Typed
  <2>6. y \in X
    BY <2>3, <2>4, <2>5
  <2> HIDE DEF X
  <2> QED BY <2>2, <2>6 DEF y
<1>6. \A r \in Rounds, x \in X : F[<<x, r>>] = CheckNewQuorums(x, r)
  <2> SUFFICES ASSUME NEW r \in Rounds, NEW x \in X PROVE F[<<x, r>>] = CheckNewQuorums(x, r)
    OBVIOUS
  <2>1. <<x, r>> \in X \X Rounds
    OBVIOUS
  <2> HIDE DEF X
  <2> QED BY <2>1
<1>7. \E f : Is(f)
  <2>1. \A r \in -1 .. hi : /\ r \in base <=> r < n
                            /\ a[r] = s
                            /\ par[r] = r - 1
    OBVIOUS
  <2> HIDE DEF F, X, base, a, par, hi, n
  <2>2. \A r \in -1 .. hi : r \in base => a[r] \in X
    BY <1>3, <2>1
  <2>3. \A r \in -1 .. hi : r \notin base => par[r] \in -1 .. r - 1
    BY <1>4, <2>1
  <2>4. \A r \in -1 .. hi, x \in X : r \notin base => F[<<x, r>>] \in X
    BY <1>4, <1>5, <1>6, <2>1
  <2>5. PICK f \in [-1 .. hi -> X] : Follows(f, -1, hi, base, a, par, F)
    BY <1>2, <2>2, <2>3, <2>4, RecursiveFunction, Zenon
  <2>6. ASSUME NEW r \in -1 .. hi
        PROVE  f[r] = IF r < n THEN s ELSE CheckNewQuorums(f[r - 1], r)
    <3>1. f[r] = IF r \in base THEN a[r] ELSE F[<<f[par[r]], r>>]
      BY <2>5 DEF Follows
    <3>2. CASE r < n
      BY <2>1, <3>1, <3>2
    <3>3. CASE ~(r < n)
      <4>1. f[r - 1] \in X /\ r \in Rounds
        BY <1>4, <2>5, <3>3
      <4> QED BY <1>6, <2>1, <3>1, <3>3, <4>1
    <3> QED BY <3>2, <3>3
  <2>7. Is(f)
    BY <2>5, <2>6 DEF hi, n
  <2> QED BY <2>7
<1>8. Is(after)
  BY <1>7, Zenon
<1> HIDE DEF after
<1>9. ASSUME NEW r \in -1 .. hi
      PROVE  after[r] = IF r < n THEN s ELSE CheckNewQuorums(after[r - 1], r)
  BY <1>8
<1> DEFINE B == {r \in -1 .. hi : /\ after[r] \in X
                                  /\ \A q \in Rounds : n <= q /\ q <= r => Noticed(after[r], q)}
<1>10. \A r \in -1 .. hi : (\A j \in -1 .. r - 1 : j \in B) => r \in B
  <2> SUFFICES ASSUME NEW r \in -1 .. hi, \A j \in -1 .. r - 1 : j \in B
               PROVE  r \in B
    OBVIOUS
  <2>0. Rounds \subseteq Nat
    BY DEF Rounds
  <2>1. CASE r < n
    <3>1. after[r] = s
      BY <1>9, <2>1
    <3>2. \A q \in Rounds : ~(n <= q /\ q <= r)
      BY <1>2, <2>0, <2>1
    <3> HIDE DEF X
    <3> QED BY <1>3, <3>1, <3>2
  <2>2. CASE ~(r < n)
    <3>1. r - 1 \in B
      <4>1. r - 1 \in -1 .. r - 1
        BY <1>4, <2>2
      <4> HIDE DEF B
      <4> QED BY <4>1
    <3>2. r \in Rounds
      BY <1>4, <2>2
    <3> DEFINE x == after[r - 1]
               y == CheckNewQuorums(x, r)
    <3>3. x \in X /\ \A q \in Rounds : n <= q /\ q <= r - 1 => Noticed(x, q)
      BY <3>1
    <3>4. after[r] = y
      BY <1>9, <2>2
    <3>5. y \in X /\ SameSignatures(x, y) /\ Noticed(y, r)
      BY <1>5, <3>2, <3>3
    <3>6. x \in Instances
      BY <3>3
    <3> HIDE DEF x, y, X
    <3>7. ASSUME NEW q \in Rounds, n <= q, q <= r PROVE Noticed(y, q)
      <4>1. q = r \/ q <= r - 1
        BY <2>0, <3>2, <3>7
      <4> QED BY <3>3, <3>5, <3>6, <3>7, <4>1, SameSignaturesNotice
    <3> QED BY <3>4, <3>5, <3>7
  <2> QED BY <2>1, <2>2
<1>11. \A r \in -1 .. hi : r \in B
  <2> HIDE DEF B, hi
  <2> QED BY <1>2, <1>10, Induct, Zenon
<1>12. hi \in B
  <2>1. hi \in -1 .. hi
    BY <1>2
  <2> HIDE DEF B, hi
  <2> QED BY <1>11, <2>1
<1> DEFINE t == after[hi]
<1>13. Calm(s, t) /\ \A q \in Rounds : n <= q => Noticed(t, q)
  <2>1. \A q \in Rounds : q <= hi /\ q \in Nat
    BY <1>2 DEF Rounds
  <2> QED BY <1>12, <2>1
<1>14. t.first_non_finalized = n
  BY <1>13 DEF Calm, Mild, Stays
<1>15. Noticing(t)
  <2>1. \A q \in Rounds : q >= n => n <= q
    BY <1>2 DEF Rounds
  <2> HIDE DEF t, n
  <2> QED BY <1>13, <1>14, <2>1 DEF Noticing
<1> QED BY <1>1, <1>13, <1>15

\* What follows once v is marked.
LEMMA MarkedHandles ==
    ASSUME NEW s, Good(s), NEW v \in Validators, NEW now \in Moments, NEW t,
           Core(t), Keeps(s, t), Stays(s, t), Rests(s, t), t.faults[v] = "Direct"
    PROVE  LET y == IF FttExceeded(t) THEN t
                    ELSE Update(RecheckQuorums(RemoveVotesAndEchoes(t, v)), now)
           IN  Handles(s, y) /\ y.faults[v] = "Direct"
<1> DEFINE u == RemoveVotesAndEchoes(t, v)
           w == RecheckQuorums(u)
           x == Update(w, now)
           y == IF FttExceeded(t) THEN t ELSE x
<1> SUFFICES Handles(s, y) /\ y.faults[v] = "Direct"
  OBVIOUS
<1>3. CASE FttExceeded(t)
  <2>1. Good(t)
    BY <1>3, StaysChained, CalmWatched, InformedKept DEF Good, Noticing, Keeps
  <2> QED BY <1>3, <2>1, StaysEnds DEF Handles
<1>4. CASE ~FttExceeded(t)
  <2>1. Core(u) /\ Keeps(t, u) /\ Stays(t, u) /\ Rests(t, u) /\ u.faults = t.faults
    BY RemoveVotesAndEchoesKeeps
  <2> HIDE DEF u
  <2>2. Calm(u, w) /\ Noticing(w)
    BY <2>1, RecheckQuorumsCalm
  <2> HIDE DEF w
  <2>3. Core(w) /\ Keeps(u, w) /\ Stays(u, w) /\ Rests(u, w)
    BY <2>2 DEF Calm, Mild
  <2>4. s \in Instances /\ t \in Instances /\ u \in Instances
    BY <2>1 DEF Good, Core, Typed
  <2>5. Keeps(s, w) /\ Stays(s, w)
    BY <2>1, <2>3, <2>4, KeepsTransitive, StaysTransitive
  <2>10. Rests(s, w)
    <3>1. t.current_round = s.current_round /\ u.current_round = t.current_round
      BY <2>1 DEF Stays
    <3> QED BY <2>1, <2>3, <3>1, RestsTransitive
  <2>6. Good(w) /\ Handles(s, w)
    <3>1. Chained(w) /\ Watched(w)
      BY <2>5, <2>10, StaysChained, CalmWatched DEF Good, Keeps
    <3>2. Informed(w)
      BY <2>5, InformedKept DEF Good
    <3> QED BY <2>2, <2>3, <2>5, <3>1, <3>2, StaysEnds DEF Handles, Good
  <2>7. Handles(w, x)
    BY <2>6, UpdateHandles
  <2> HIDE DEF x
  <2>8. Handles(s, x)
    BY <2>6, <2>7, HandlesTransitive
  <2>9. x.faults[v] = "Direct"
    BY <2>1, <2>3, <2>7 DEF Keeps, Handles
  <2> QED BY <1>4, <2>8, <2>9
<1> QED BY <1>3, <1>4

LEMMA HandleFaultNoWalHandles ==
    ASSUME NEW s, Good(s), NEW v \in Validators, NEW now \in Moments
    PROVE  /\ Handles(s, HandleFaultNoWal(s, v, now))
           /\ HandleFaultNoWal(s, v, now).faults[v] = "Direct"
<1> DEFINE t == MarkDirectlyFaulty(s, v)
<1>1. HandleFaultNoWal(s, v, now) =
        IF FttExceeded(t) THEN t ELSE Update(RecheckQuorums(RemoveVotesAndEchoes(t, v)), now)
  BY DEF HandleFaultNoWal
<1>2. Core(t) /\ Keeps(s, t) /\ Stays(s, t) /\ Rests(s, t) /\ t.faults[v] = "Direct"
  BY MarkDirectlyFaultyKeeps DEF Good
<1> HIDE DEF t
<1> QED BY <1>1, <1>2, MarkedHandles

\* It does not matter that the evidence is logged before the validator is marked.
LEMMA MarkFirst ==
    ASSUME NEW s \in Instances, NEW v \in Validators, NEW entry
    PROVE  MarkDirectlyFaulty(RecordEntry(s, entry), v) = RecordEntry(MarkDirectlyFaulty(s, v), entry)
<1> DEFINE Set(f, a, b, c, w, d) ==
                [s EXCEPT !.faults = f, !.active = a, !.active_validator = b,
                          !.write_wal = c, !.wal = w, !.disk = d]
           f == [s.faults EXCEPT ![v] = "Direct"]
           a == [s.active EXCEPT ![v] = NoRound]
           b == s.active_validator /\ v # Us
           t == MarkDirectlyFaulty(s, v)
           logged == IF s.restarts < MaxRestarts THEN Append(s.wal, entry) ELSE s.wal
           kept == IF s.disk.keeps THEN logged ELSE s.wal
           d0 == [s.disk EXCEPT !.keeps = FALSE]
           d1 == [s.disk EXCEPT !.left = IF @ > 0 THEN @ - 1 ELSE @]
<1>1. /\ t = [s EXCEPT !.faults = f, !.active = a, !.active_validator = b]
      /\ t.write_wal = s.write_wal /\ t.disk = s.disk /\ t.wal = s.wal /\ t.restarts = s.restarts
  BY DEF MarkDirectlyFaulty, Instances
<1>2. CASE ~s.write_wal
  BY <1>1, <1>2 DEF RecordEntry
<1>3. CASE s.write_wal /\ s.disk.left = 0
  <2>1. RecordEntry(s, entry) = Set(s.faults, s.active, FALSE, FALSE, kept, d0)
    BY <1>3 DEF RecordEntry, Instances
  <2>2. RecordEntry(t, entry) = Set(f, a, FALSE, FALSE, kept, d0)
    BY <1>1, <1>3 DEF RecordEntry, Instances
  <2> HIDE DEF kept, d0
  <2>3. MarkDirectlyFaulty(Set(s.faults, s.active, FALSE, FALSE, kept, d0), v)
            = Set(f, a, FALSE, FALSE, kept, d0)
    BY DEF MarkDirectlyFaulty, Instances
  <2> QED BY <2>1, <2>2, <2>3
<1>4. CASE s.write_wal /\ s.disk.left # 0
  <2>1. RecordEntry(s, entry) = Set(s.faults, s.active, s.active_validator, s.write_wal, logged, d1)
    BY <1>4 DEF RecordEntry, Instances
  <2>2. RecordEntry(t, entry) = Set(f, a, b, s.write_wal, logged, d1)
    BY <1>1, <1>4 DEF RecordEntry, Instances
  <2> HIDE DEF logged, d1
  <2>3. MarkDirectlyFaulty(Set(s.faults, s.active, s.active_validator, s.write_wal, logged, d1), v)
            = Set(f, a, b, s.write_wal, logged, d1)
    BY DEF MarkDirectlyFaulty, Instances
  <2> QED BY <2>1, <2>2, <2>3
<1> QED BY <1>2, <1>3, <1>4

LEMMA HandleFaultHandles ==
    ASSUME NEW s, Good(s), NEW v \in Validators, NEW now \in Moments
    PROVE  Handles(s, HandleFault(s, v, now))
<1> DEFINE entry == EvidenceEntry(v)
           t == MarkDirectlyFaulty(s, v)
           u == RecordEntry(t, entry)
<1>1. HandleFault(s, v, now) =
        IF FttExceeded(u) THEN u ELSE Update(RecheckQuorums(RemoveVotesAndEchoes(u, v)), now)
  <2>1. s \in Instances
    BY DEF Good, Core, Typed
  <2>2. MarkDirectlyFaulty(RecordEntry(s, entry), v) = u
    BY <2>1, MarkFirst
  <2> HIDE DEF u, entry
  <2> QED BY <2>2 DEF HandleFault, HandleFaultNoWal, entry
<1>2. Core(t) /\ Keeps(s, t) /\ Stays(s, t) /\ Rests(s, t) /\ t.faults[v] = "Direct"
  BY MarkDirectlyFaultyKeeps DEF Good
<1> HIDE DEF t
<1>3. Loggable(t, entry)
  BY <1>2 DEF Loggable, EvidenceEntry, Entries
<1> HIDE DEF entry
<1>4. Core(u) /\ Keeps(t, u) /\ Stays(t, u) /\ Rests(t, u)
  BY <1>2, <1>3, RecordEntryCalm DEF Calm, Mild
<1> HIDE DEF u
<1>5. Keeps(s, u) /\ Stays(s, u) /\ Rests(s, u) /\ u.faults[v] = "Direct"
  <2>1. s \in Instances /\ t \in Instances /\ t.current_round = s.current_round
    BY <1>2 DEF Good, Core, Typed, Stays
  <2>2. u.faults[v] = "Direct"
    BY <1>2, <1>4 DEF Keeps
  <2> QED BY <1>2, <1>4, <2>1, <2>2, KeepsTransitive, StaysTransitive, RestsTransitive
<1> QED BY <1>1, <1>4, <1>5, MarkedHandles

-----------------------------------------------------------------------------
(* Incoming messages                                                        *)

LEMMA HandleSignedMessageHandles ==
    ASSUME NEW s, Good(s), NEW m \in SignedMessages, NEW now \in Moments
    PROVE  Handles(s, HandleSignedMessage(s, m, now))
<1> DEFINE quit == \/ s.faults[m.validator] # "None"
                   \/ m.round > s.current_round + MaxFutureRounds
                   \/ s.evidence_only
                   \/ HasMessage(s, m)
           t == RecordEntry(s, SignedEntry(m))
           u == AddContent(t, m)
<1>1. CASE quit
  BY <1>1, HandlesReflexive DEF HandleSignedMessage
<1>2. CASE ~quit /\ DetectFault(s, m) # {}
  <2>1. m.validator \in Validators
    BY Contents
  <2>2. HandleSignedMessage(s, m, now) = HandleFault(s, m.validator, now)
    BY <1>2 DEF HandleSignedMessage
  <2> QED BY <2>1, <2>2, HandleFaultHandles
<1>3. CASE ~quit /\ DetectFault(s, m) = {}
  <2>1. HandleSignedMessage(s, m, now) = Update(u, now)
    BY <1>3 DEF HandleSignedMessage
  <2>2. Loggable(s, SignedEntry(m))
    BY DEF Loggable, SignedEntry, Entries
  <2>3. Calm(s, t)
    BY <2>2, RecordEntryCalm DEF Good
  <2> HIDE DEF t
  <2>4. Calm(t, u)
    BY <2>3, AddContentCalm DEF Calm, Mild
  <2> HIDE DEF u
  <2>5. Calm(s, u)
    BY <2>3, <2>4, CalmTransitive DEF Good
  <2> QED BY <2>1, <2>5, CalmThenUpdate
<1> QED BY <1>1, <1>2, <1>3

LEMMA HandleEvidenceHandles ==
    ASSUME NEW s, Good(s), NEW v \in Validators, NEW now \in Moments
    PROVE  Handles(s, HandleEvidence(s, v, now))
BY HandlesReflexive, HandleFaultHandles DEF HandleEvidence

LEMMA HandleProposalHandles ==
    ASSUME NEW s, Good(s), NEW r \in Rounds, NEW p \in Proposals, NEW now \in Moments
    PROVE  Handles(s, HandleProposal(s, r, p, now))
<1> DEFINE ancestors == AncestorValues(s, p.parent)
           quit == ~WellFormed(r, p, now) \/ ~HasEchoesFor(s, r, p) \/ s.rounds[r].proposal = {p}
           a == CHOOSE x \in ancestors : TRUE
           t == ValidateProposal(s, r, p, a)
<1>1. Core(s)
  BY DEF Good
<1>2. CASE quit
  BY <1>2, HandlesReflexive DEF HandleProposal
<1>3. CASE ~quit
  <2>1. p.parent < r /\ p.parent \in {NoRound} \cup Rounds
    BY <1>3 DEF WellFormed, Proposals
  <2>2. /\ ancestors \subseteq Seq(Blocks)
        /\ ancestors # {} <=> (p.parent = NoRound \/ Accepted(s, p.parent))
    BY <1>1, <2>1, AncestorValuesOfAccepted
  <2>3. CASE ancestors = {}
    <3> DEFINE w == [round |-> r, proposal |-> p]
               b == s.waiting_for_parent \cup {w}
    <3>1. HandleProposal(s, r, p, now) = [s EXCEPT !.waiting_for_parent = b]
      BY <1>3, <2>3 DEF HandleProposal
    <3>2. HandleProposal(s, r, p, now) = SetWaiting(s, b, s.waiting_for_validation)
      BY <1>1, <3>1 DEF SetWaiting, Core, Typed, Instances
    <3>3. w \in [round : Rounds, proposal : Proposals] /\ w.proposal.parent < w.round
      BY <2>1
    <3>4. IsFiniteSet(b)
      <4> HIDE DEF w
      <4> QED BY <1>1, Waiting, FS_AddElement
    <3>5. /\ b \subseteq [round : Rounds, proposal : Proposals]
          /\ \A x \in b \cup s.waiting_for_validation : x.proposal.parent < x.round
      BY <1>1, <3>3, Waiting
    <3> HIDE DEF b
    <3>6. Calm(s, SetWaiting(s, b, s.waiting_for_validation))
      BY <1>1, <3>4, <3>5, Waiting, SetWaitingCalm
    <3> QED BY <3>2, <3>6, CalmHandles
  <2>4. CASE ancestors # {}
    <3>1. HandleProposal(s, r, p, now) = Update(t, now)
      BY <1>3, <2>4 DEF HandleProposal
    <3>2. a \in Seq(Blocks)
      BY <2>2, <2>4
    <3> HIDE DEF a
    <3>3. Calm(s, t)
      BY <1>1, <2>1, <2>2, <2>4, <3>2, ValidateProposalCalm
    <3> HIDE DEF t
    <3> QED BY <3>1, <3>3, CalmThenUpdate
  <2> QED BY <2>3, <2>4
<1> QED BY <1>2, <1>3

LEMMA HandleTimerHandles ==
    ASSUME NEW s, Good(s), NEW time, NEW now \in Moments
    PROVE  Handles(s, HandleTimer(s, time, now))
<1> DEFINE next == {x \in s.next_scheduled_update : x > time}
           t == [s EXCEPT !.next_scheduled_update = next]
           u == MarkDirty(t, s.current_round)
<1>1. Core(s) /\ s \in Instances /\ s.current_round \in Nat
  BY RoundsAssumption DEF Good, Core, Typed, Instances, Rounds
<1>2. HandleTimer(s, time, now) = Update(u, now)
  BY DEF HandleTimer
<1>3. Calm(s, t)
  <2>1. next \in SUBSET Int
    BY <1>1, AskFields
  <2> HIDE DEF next
  <2>2. t = Ask(s, next, s.timers, s.current_round_start, s.paused, s.requested,
                s.lost_timers, s.lost_blocks)
    BY <1>1 DEF Instances, Ask
  <2> QED BY <1>1, <2>1, <2>2, AskFields, AskCalm
<1> HIDE DEF t
<1>4. Calm(t, u)
  BY <1>1, <1>3, MarkDirtyCalm DEF Calm, Mild
<1> HIDE DEF u
<1>5. Calm(s, u)
  BY <1>1, <1>3, <1>4, CalmTransitive
<1> QED BY <1>2, <1>5, CalmThenUpdate

LEMMA HandleSignedMessagesHandles ==
    ASSUME NEW s, Good(s), NEW messages \in Seq(SignedMessages), NEW now \in Moments
    PROVE  Handles(s, HandleSignedMessages(s, messages, now))
<1> DEFINE n == Len(messages)
           Is(f) == f = [i \in 0 .. Len(messages) |->
                            IF i = 0 THEN s ELSE HandleSignedMessage(f[i - 1], messages[i], now)]
           after == CHOOSE f : Is(f)
           X == {x \in Instances : Handles(s, x)}
           F == [y \in X \X (1 .. n) |-> HandleSignedMessage(y[1], messages[y[2]], now)]
<1>1. HandleSignedMessages(s, messages, now) = after[n]
  BY DEF HandleSignedMessages
<1>2. n \in Nat /\ 0 \in Int /\ n \in Int /\ \A i \in 1 .. n : messages[i] \in SignedMessages
  OBVIOUS
<1>3. s \in X
  BY HandlesReflexive DEF Handles, Good, Core, Typed
<1> HIDE DEF n
<1>4. \A i \in 1 .. n, x \in X : HandleSignedMessage(x, messages[i], now) \in X
  <2> SUFFICES ASSUME NEW i \in 1 .. n, NEW x \in X PROVE HandleSignedMessage(x, messages[i], now) \in X
    OBVIOUS
  <2> DEFINE y == HandleSignedMessage(x, messages[i], now)
  <2>1. Handles(s, x) /\ Good(x)
    BY DEF Handles
  <2>2. Handles(x, y)
    BY <1>2, <2>1, HandleSignedMessageHandles
  <2> HIDE DEF y
  <2>3. Handles(s, y)
    BY <2>1, <2>2, HandlesTransitive
  <2>4. y \in Instances
    BY <2>3 DEF Handles, Good, Core, Typed
  <2> QED BY <2>3, <2>4 DEF y
<1>5. \A i \in 1 .. n, x \in X : F[<<x, i>>] = HandleSignedMessage(x, messages[i], now)
  <2> SUFFICES ASSUME NEW i \in 1 .. n, NEW x \in X PROVE F[<<x, i>>] = HandleSignedMessage(x, messages[i], now)
    OBVIOUS
  <2>1. <<x, i>> \in X \X (1 .. n)
    OBVIOUS
  <2> HIDE DEF X
  <2> QED BY <2>1
<1>6. \A i \in 0 .. n : i # 0 => i \in 1 .. n /\ i - 1 \in 0 .. n
  BY <1>2
<1>7. \E f : Is(f)
  <2> HIDE DEF F, X
  <2>1. PICK f \in [0 .. n -> X] : Iterates(f, 0, n, s, F)
    <3>1. \A i \in 0 .. n, x \in X : i # 0 => F[<<x, i>>] \in X
      BY <1>4, <1>5, <1>6
    <3> QED BY <1>2, <1>3, <3>1, LoopExists, Zenon
  <2>2. ASSUME NEW i \in 0 .. n
        PROVE  f[i] = IF i = 0 THEN s ELSE HandleSignedMessage(f[i - 1], messages[i], now)
    <3>1. f[i] = IF i = 0 THEN s ELSE F[<<f[i - 1], i>>]
      BY <2>1 DEF Iterates
    <3>2. i # 0 => f[i - 1] \in X /\ i \in 1 .. n
      BY <1>6, <2>1
    <3> QED BY <1>5, <3>1, <3>2
  <2>3. Is(f)
    BY <2>1, <2>2 DEF n
  <2> QED BY <2>3
<1>8. Is(after)
  BY <1>7, Zenon
<1> HIDE DEF after
<1>9. ASSUME NEW i \in 0 .. n
      PROVE  after[i] = IF i = 0 THEN s ELSE HandleSignedMessage(after[i - 1], messages[i], now)
  BY <1>8 DEF n
<1>10. \A i \in 0 .. n : after[i] \in X
  <2> HIDE DEF X
  <2>1. after[0] \in X
    <3>1. 0 \in 0 .. n
      BY <1>2
    <3> QED BY <1>3, <1>9, <3>1
  <2>2. \A i \in 0 .. n : i # 0 /\ after[i - 1] \in X => after[i] \in X
    BY <1>4, <1>6, <1>9
  <2> QED BY <1>2, <2>1, <2>2, LoopStays, Zenon
<1>11. after[n] \in X
  BY <1>2, <1>10
<1> QED BY <1>1, <1>11

LEMMA HandleAllEvidenceHandles ==
    ASSUME NEW s, Good(s), NEW evidence \in Seq(Validators), NEW now \in Moments
    PROVE  Handles(s, HandleAllEvidence(s, evidence, now))
<1> DEFINE n == Len(evidence)
           Is(f) == f = [i \in 0 .. Len(evidence) |->
                            IF i = 0 THEN s ELSE HandleEvidence(f[i - 1], evidence[i], now)]
           after == CHOOSE f : Is(f)
           X == {x \in Instances : Handles(s, x)}
           F == [y \in X \X (1 .. n) |-> HandleEvidence(y[1], evidence[y[2]], now)]
<1>1. HandleAllEvidence(s, evidence, now) = after[n]
  BY DEF HandleAllEvidence
<1>2. n \in Nat /\ 0 \in Int /\ n \in Int /\ \A i \in 1 .. n : evidence[i] \in Validators
  OBVIOUS
<1>3. s \in X
  BY HandlesReflexive DEF Handles, Good, Core, Typed
<1> HIDE DEF n
<1>4. \A i \in 1 .. n, x \in X : HandleEvidence(x, evidence[i], now) \in X
  <2> SUFFICES ASSUME NEW i \in 1 .. n, NEW x \in X PROVE HandleEvidence(x, evidence[i], now) \in X
    OBVIOUS
  <2> DEFINE y == HandleEvidence(x, evidence[i], now)
  <2>1. Handles(s, x) /\ Good(x)
    BY DEF Handles
  <2>2. Handles(x, y)
    BY <1>2, <2>1, HandleEvidenceHandles
  <2> HIDE DEF y
  <2>3. Handles(s, y)
    BY <2>1, <2>2, HandlesTransitive
  <2>4. y \in Instances
    BY <2>3 DEF Handles, Good, Core, Typed
  <2> QED BY <2>3, <2>4 DEF y
<1>5. \A i \in 1 .. n, x \in X : F[<<x, i>>] = HandleEvidence(x, evidence[i], now)
  <2> SUFFICES ASSUME NEW i \in 1 .. n, NEW x \in X PROVE F[<<x, i>>] = HandleEvidence(x, evidence[i], now)
    OBVIOUS
  <2>1. <<x, i>> \in X \X (1 .. n)
    OBVIOUS
  <2> HIDE DEF X
  <2> QED BY <2>1
<1>6. \A i \in 0 .. n : i # 0 => i \in 1 .. n /\ i - 1 \in 0 .. n
  BY <1>2
<1>7. \E f : Is(f)
  <2> HIDE DEF F, X
  <2>1. PICK f \in [0 .. n -> X] : Iterates(f, 0, n, s, F)
    <3>1. \A i \in 0 .. n, x \in X : i # 0 => F[<<x, i>>] \in X
      BY <1>4, <1>5, <1>6
    <3> QED BY <1>2, <1>3, <3>1, LoopExists, Zenon
  <2>2. ASSUME NEW i \in 0 .. n
        PROVE  f[i] = IF i = 0 THEN s ELSE HandleEvidence(f[i - 1], evidence[i], now)
    <3>1. f[i] = IF i = 0 THEN s ELSE F[<<f[i - 1], i>>]
      BY <2>1 DEF Iterates
    <3>2. i # 0 => f[i - 1] \in X /\ i \in 1 .. n
      BY <1>6, <2>1
    <3> QED BY <1>5, <3>1, <3>2
  <2>3. Is(f)
    BY <2>1, <2>2 DEF n
  <2> QED BY <2>3
<1>8. Is(after)
  BY <1>7, Zenon
<1> HIDE DEF after
<1>9. ASSUME NEW i \in 0 .. n
      PROVE  after[i] = IF i = 0 THEN s ELSE HandleEvidence(after[i - 1], evidence[i], now)
  BY <1>8 DEF n
<1>10. \A i \in 0 .. n : after[i] \in X
  <2> HIDE DEF X
  <2>1. after[0] \in X
    <3>1. 0 \in 0 .. n
      BY <1>2
    <3> QED BY <1>3, <1>9, <3>1
  <2>2. \A i \in 0 .. n : i # 0 /\ after[i - 1] \in X => after[i] \in X
    BY <1>4, <1>6, <1>9
  <2> QED BY <1>2, <2>1, <2>2, LoopStays, Zenon
<1>11. after[n] \in X
  BY <1>2, <1>10
<1> QED BY <1>1, <1>11

\* Dropping what a call asked of the node changes nothing that the invariant is about.
LEMMA WithoutRequestsCalm ==
    ASSUME NEW s \in Instances, NEW t, Core(t)
    PROVE  Calm(t, WithoutRequests(s, t)) /\ WithoutRequests(s, t).signed = t.signed
<1> DEFINE lost == t.lost_timers \cup (t.timers \ s.timers)
<1>1. t \in Instances
  BY DEF Core, Typed
<1>2. lost \in SUBSET Int /\ s.timers \in SUBSET Int /\ s.requested \in SUBSET Contexts
  BY <1>1, AskFields
<1>3. WithoutRequests(s, t) = [t EXCEPT !.timers = s.timers, !.requested = s.requested,
                                        !.lost_timers = lost]
  BY <1>1 DEF WithoutRequests, Instances
<1> HIDE DEF lost
<1>4. WithoutRequests(s, t) = Ask(t, t.next_scheduled_update, s.timers, t.current_round_start,
                                  t.paused, s.requested, lost, t.lost_blocks)
  BY <1>1, <1>3 DEF Instances, Ask
<1> QED BY <1>1, <1>2, <1>4, AskFields, AskCalm

LEMMA DiscardCalm ==
    ASSUME NEW s \in Instances, NEW t, Core(t)
    PROVE  Calm(t, Discard(s, t)) /\ Discard(s, t).signed = t.signed
<1> DEFINE u == WithoutRequests(s, t)
           told == {t.finalized[i].round : i \in Len(s.finalized) + 1 .. Len(t.finalized)}
           lost == u.lost_blocks \cup told
<1>1. t \in Instances
  BY DEF Core, Typed
<1>2. Calm(t, u) /\ u.signed = t.signed
  BY WithoutRequestsCalm
<1>3. Discard(s, t) = [u EXCEPT !.lost_blocks = u.lost_blocks \cup told]
  BY DEF Discard
<1>4. told \in SUBSET Rounds
  <2> DEFINE T == [round : Rounds, block : Blocks, height : Rounds, terminal : BOOLEAN]
  <2>1. t.finalized \in Seq(T) /\ Len(s.finalized) \in Nat
    BY <1>1 DEF Instances
  <2>2. ASSUME NEW i \in Len(s.finalized) + 1 .. Len(t.finalized) PROVE t.finalized[i].round \in Rounds
    <3>1. i \in 1 .. Len(t.finalized)
      BY <2>1
    <3>2. t.finalized[i] \in T
      <4> HIDE DEF T
      <4> QED BY <2>1, <3>1
    <3> QED BY <3>2
  <2> QED BY <2>2
<1> HIDE DEF told, u
<1>5. Core(u) /\ u \in Instances
  BY <1>2 DEF Calm, Mild, Core, Typed
<1>6. lost \in SUBSET Rounds
  BY <1>4, <1>5, AskFields
<1>7. Discard(s, t) = [u EXCEPT !.lost_blocks = lost]
  BY <1>3
<1> HIDE DEF lost
<1>8. Discard(s, t) = Ask(u, u.next_scheduled_update, u.timers, u.current_round_start,
                          u.paused, u.requested, u.lost_timers, lost)
  BY <1>5, <1>7 DEF Instances, Ask
<1>9. Calm(u, Discard(s, t)) /\ Discard(s, t).signed = u.signed
  BY <1>5, <1>6, <1>8, AskFields, AskCalm
<1> QED BY <1>2, <1>9, CalmTransitive

LEMMA HandleMessageHandles ==
    ASSUME NEW s, Good(s), NEW msg \in Network, NEW now \in Moments
    PROVE  Handles(s, HandleMessage(s, msg, now))
<1> DEFINE t == HandleSignedMessages(s, msg.signed, now)
           u == HandleAllEvidence(t, msg.evidence, now)
           p == CHOOSE x \in msg.proposal : TRUE
           v == HandleProposal(u, msg.round, p, now)
           w == Discard(s, u)
<1>1. /\ msg.signed \in Seq(SignedMessages) /\ msg.evidence \in Seq(Validators)
      /\ msg.proposal # {} => msg.round \in Rounds /\ p \in Proposals
  BY NetworkAssumption
<1>2. HandleMessage(s, msg, now) =
        IF FaultySender(msg, now) THEN w ELSE IF msg.proposal = {} THEN u ELSE v
  BY DEF HandleMessage
<1> HIDE DEF p
<1>3. Handles(s, t)
  BY <1>1, HandleSignedMessagesHandles
<1> HIDE DEF t
<1>4. Handles(t, u)
  BY <1>1, <1>3, HandleAllEvidenceHandles DEF Handles
<1> HIDE DEF u
<1>5. Handles(s, u)
  BY <1>3, <1>4, HandlesTransitive
<1>6. msg.proposal # {} => Handles(u, v)
  BY <1>1, <1>5, HandleProposalHandles DEF Handles
<1> HIDE DEF v
<1>7. msg.proposal # {} => Handles(s, v)
  BY <1>5, <1>6, HandlesTransitive
<1>8. Handles(s, w)
  <2>1. s \in Instances /\ Good(u) /\ Core(u)
    BY <1>5 DEF Good, Core, Typed, Handles
  <2>2. Handles(u, w)
    BY <2>1, DiscardCalm, CalmHandles
  <2> QED BY <1>5, <2>2, HandlesTransitive
<1> QED BY <1>2, <1>5, <1>7, <1>8

-----------------------------------------------------------------------------
(* Calls from the rest of the node                                          *)

\* The validators that our own proposal calls inactive have been silent since
\* its parent, too.
LEMMA ProposeBlockHandles ==
    ASSUME NEW s, Good(s), NEW context, NEW block \in OwnBlocks, NEW now \in Moments
    PROVE  Handles(s, ProposeBlock(s, context, block, now))
<1> DEFINE current == {pending \in s.pending_proposal :
                        pending.context = context /\ pending.round = s.current_round}
           x == CHOOSE pending \in current : TRUE
           inactive == {v \in Validators : s.active[v] = NoRound /\ s.faults[v] = "None"}
           p == Proposal(context.timestamp, block, x.parent,
                         IF x.parent = NoRound THEN {} ELSE {inactive})
           t == [s EXCEPT !.pending_proposal = {}]
           u == CreateEchoAndProposal(t, p)
<1>1. Core(s) /\ s \in Instances
  BY DEF Good, Core, Typed
<1>2. CASE current = {}
  BY <1>2, HandlesReflexive DEF ProposeBlock
<1>3. CASE current # {}
  <2>1. ProposeBlock(s, context, block, now) = Update(u, now)
    BY <1>3 DEF ProposeBlock
  <2>2. x \in s.pending_proposal /\ x.context = context /\ x.round = s.current_round
    BY <1>3
  <2>3. /\ context \in Contexts /\ context.timestamp \in Int
        /\ x.parent \in {NoRound} \cup Rounds /\ x.parent < s.current_round
    <3>1. x \in [context : Contexts, round : Rounds, parent : {NoRound} \cup Rounds]
      BY <1>1, <2>2 DEF Instances
    <3>2. x.parent < x.round
      BY <1>1, <2>2 DEF Core, Typed, Below
    <3> HIDE DEF x
    <3> QED BY <2>2, <3>1, <3>2 DEF Contexts
  <2> HIDE DEF x
  <2>4. /\ p \in Proposals /\ p.parent = x.parent /\ p.timestamp = context.timestamp
        /\ \A i \in p.inactive : i = inactive
    <3>1. block \in Blocks /\ inactive \in SUBSET Validators
      BY NodeAssumption
    <3> QED BY <2>3, <3>1 DEF Proposal, Proposals
  <2> HIDE DEF p
  <2>5. ASSUME MaxRestarts = 0, ~s.evidence_only PROVE FitsQuorum(s, p)
    <3>1. /\ x.context.timestamp >= StartTimestamp
          /\ x.parent # NoRound =>
                \E q \in s.rounds[x.parent].quorum_echoes :
                    HeardFrom(s, q) /\ x.context.timestamp >= q.timestamp + MinBlockTime
      BY <1>1, <2>2, <2>5 DEF Core, Fitting
    <3>2. ASSUME NEW q, HeardFrom(s, q), NEW j \in q.inactive PROVE inactive \subseteq j
      BY <3>2 DEF HeardFrom
    <3>3. x.parent # NoRound =>
            \E q \in s.rounds[x.parent].quorum_echoes :
                /\ p.timestamp >= q.timestamp + MinBlockTime
                /\ \A i \in p.inactive, j \in q.inactive : i \subseteq j
      <4> HIDE DEF inactive
      <4> QED BY <2>2, <2>4, <3>1, <3>2
    <3> QED BY <2>2, <2>4, <3>1, <3>3 DEF FitsQuorum
  <2>6. Storable(s, s.current_round, p)
    BY <2>3, <2>4, <2>5 DEF Storable
  <2>7. t = SetPending(s, {}, s.requested) /\ s.requested \in SUBSET Contexts
    BY <1>1 DEF SetPending, Instances
  <2>8. Calm(s, SetPending(s, {}, s.requested))
    <3>1. IsOption({})
      BY DEF IsOption
    <3> QED BY <1>1, <2>7, <3>1, SetPendingCalm
  <2>9. Calm(s, t)
    BY <2>7, <2>8
  <2> HIDE DEF t
  <2>10. Core(t) /\ Storable(t, t.current_round, p)
    <3>1. Keeps(s, t) /\ Stays(s, t) /\ Core(t) /\ t.current_round = s.current_round
      BY <2>9 DEF Calm, Mild, Stays
    <3> QED BY <2>6, <3>1, StorableKept
  <2>11. Calm(t, u)
    BY <2>10, CreateEchoAndProposalCalm
  <2> HIDE DEF u
  <2>12. Calm(s, u)
    BY <1>1, <2>9, <2>11, CalmTransitive
  <2> QED BY <2>1, <2>12, CalmThenUpdate
<1> QED BY <1>2, <1>3

LEMMA DeactivateValidatorCalm ==
    ASSUME NEW s, Core(s)
    PROVE  Calm(s, DeactivateValidator(s))
<1> DEFINE t == [s EXCEPT !.active_validator = FALSE]
<1>1. s \in Instances
  BY DEF Core, Typed
<1>2. t \in Instances
  BY <1>1, ZenonT(60) DEF Instances
<1>3. /\ t.rounds = s.rounds /\ t.faults = s.faults /\ t.current_round = s.current_round
      /\ t.first_non_finalized = s.first_non_finalized /\ t.finalized = s.finalized
      /\ t.evidence_only = s.evidence_only /\ t.restarts = s.restarts /\ t.signed = s.signed
      /\ t.bugs = s.bugs /\ t.dirty = s.dirty /\ t.pending_proposal = s.pending_proposal
      /\ t.waiting_for_parent = s.waiting_for_parent
      /\ t.waiting_for_validation = s.waiting_for_validation
      /\ t.active = s.active /\ t.active_validator = FALSE
      /\ t.write_wal = s.write_wal /\ t.wal = s.wal
  BY <1>1 DEF Instances
<1> HIDE DEF t
<1>4. Below(t) /\ t.dirty <= t.current_round /\ IsOption(t.pending_proposal)
      /\ IsFiniteSet(t.waiting_for_parent) /\ IsFiniteSet(t.waiting_for_validation)
  BY <1>3 DEF Core, Typed, Below
<1>5. Calm(s, t)
  BY <1>2, <1>3, <1>4, FieldsCalm
<1> QED BY <1>5 DEF t, DeactivateValidator

LEMMA SetPausedHandles ==
    ASSUME NEW s, Good(s), NEW paused \in BOOLEAN, NEW now \in Moments
    PROVE  Handles(s, SetPaused(s, paused, now))
<1> DEFINE t == [s EXCEPT !.paused = FALSE, !.current_round_start = {}]
           u == MarkDirty(t, s.current_round)
<1>1. Core(s) /\ s \in Instances
  BY DEF Good, Core, Typed
<1>2. CASE s.paused /\ ~paused
  <2>1. SetPaused(s, paused, now) = Update(u, now)
    BY <1>2 DEF SetPaused
  <2>2. Calm(s, t)
    <3>1. FALSE \in BOOLEAN /\ {} \in SUBSET Int
      OBVIOUS
    <3> QED BY <1>1, <3>1, StartedCalm
  <2> HIDE DEF t
  <2>3. s.current_round \in Nat
    BY <1>1, RoundsAssumption DEF Instances, Rounds
  <2>4. Calm(t, u)
    BY <2>2, <2>3, MarkDirtyCalm DEF Calm, Mild
  <2> HIDE DEF u
  <2>5. Calm(s, u)
    BY <1>1, <2>2, <2>4, CalmTransitive
  <2> QED BY <2>1, <2>5, CalmThenUpdate
<1>3. CASE ~(s.paused /\ ~paused)
  <2>1. SetPaused(s, paused, now) = [s EXCEPT !.paused = paused, !.current_round_start = s.current_round_start]
    <3>1. SetPaused(s, paused, now) = [s EXCEPT !.paused = paused]
      BY <1>3 DEF SetPaused
    <3> QED BY <1>1, <3>1 DEF Instances
  <2>2. Calm(s, [s EXCEPT !.paused = paused, !.current_round_start = s.current_round_start])
    BY <1>1, AskFields, StartedCalm
  <2> QED BY <2>1, <2>2, CalmHandles
<1> QED BY <1>2, <1>3

LEMMA InsertAllCalm ==
    ASSUME NEW s, Core(s), NEW waiting, IsFiniteSet(waiting),
           \A w \in waiting : w.round \in Rounds /\ Storable(s, w.round, w.proposal)
    PROVE  Calm(s, InsertAll(s, waiting))
<1> DEFINE order == SetToSeq(waiting)
           n == Len(order)
           G(x, i) == InsertAndRecord(x, order[i].round, order[i].proposal)
           Is(f) == f = [i \in 0 .. n |-> IF i = 0 THEN s ELSE G(f[i - 1], i)]
           after == CHOOSE f : Is(f)
           X == {x \in Instances : Calm(s, x)}
           F == [y \in X \X (1 .. n) |-> G(y[1], y[2])]
<1>1. InsertAll(s, waiting) = after[n]
  BY DEF InsertAll
<1>2. n \in Nat /\ 0 \in Int /\ n \in Int /\ \A i \in 1 .. n : order[i] \in waiting
  BY SetToSeqIs
<1>3. s \in X
  BY CalmReflexive DEF Core, Typed
<1> HIDE DEF n, order
<1>4. \A i \in 1 .. n, x \in X : G(x, i) \in X
  <2> SUFFICES ASSUME NEW i \in 1 .. n, NEW x \in X PROVE G(x, i) \in X
    OBVIOUS
  <2> DEFINE y == G(x, i)
  <2>1. Calm(s, x) /\ Core(x)
    BY DEF Calm, Mild
  <2>2. order[i].round \in Rounds /\ Storable(x, order[i].round, order[i].proposal)
    BY <1>2, <2>1, StorableKept DEF Calm, Mild
  <2>3. Calm(x, y)
    BY <2>1, <2>2, InsertAndRecordCalm
  <2> HIDE DEF y
  <2>4. Calm(s, y)
    BY <2>1, <2>3, CalmTransitive
  <2>5. y \in Instances
    BY <2>4 DEF Calm, Mild, Core, Typed
  <2> QED BY <2>4, <2>5 DEF y
<1> HIDE DEF G
<1>5. \A i \in 1 .. n, x \in X : F[<<x, i>>] = G(x, i)
  <2> SUFFICES ASSUME NEW i \in 1 .. n, NEW x \in X PROVE F[<<x, i>>] = G(x, i)
    OBVIOUS
  <2>1. <<x, i>> \in X \X (1 .. n)
    OBVIOUS
  <2> HIDE DEF X
  <2> QED BY <2>1
<1>6. \A i \in 0 .. n : i # 0 => i \in 1 .. n /\ i - 1 \in 0 .. n
  BY <1>2
<1>7. \E f : Is(f)
  <2> HIDE DEF F, X
  <2>1. PICK f \in [0 .. n -> X] : Iterates(f, 0, n, s, F)
    <3>1. \A i \in 0 .. n, x \in X : i # 0 => F[<<x, i>>] \in X
      BY <1>4, <1>5, <1>6
    <3> QED BY <1>2, <1>3, <3>1, LoopExists, Zenon
  <2>2. ASSUME NEW i \in 0 .. n PROVE f[i] = IF i = 0 THEN s ELSE G(f[i - 1], i)
    <3>1. f[i] = IF i = 0 THEN s ELSE F[<<f[i - 1], i>>]
      BY <2>1 DEF Iterates
    <3>2. i # 0 => f[i - 1] \in X /\ i \in 1 .. n
      BY <1>6, <2>1
    <3> QED BY <1>5, <3>1, <3>2
  <2>3. Is(f)
    BY <2>1, <2>2
  <2> QED BY <2>3
<1>8. Is(after)
  BY <1>7, Zenon
<1> HIDE DEF after
<1>9. ASSUME NEW i \in 0 .. n PROVE after[i] = IF i = 0 THEN s ELSE G(after[i - 1], i)
  BY <1>8
<1>10. \A i \in 0 .. n : after[i] \in X
  <2> HIDE DEF X
  <2>1. after[0] \in X
    <3>1. 0 \in 0 .. n
      BY <1>2
    <3> QED BY <1>3, <1>9, <3>1
  <2>2. \A i \in 0 .. n : i # 0 /\ after[i - 1] \in X => after[i] \in X
    BY <1>4, <1>6, <1>9
  <2> QED BY <1>2, <2>1, <2>2, LoopStays, Zenon
<1>11. after[n] \in X
  BY <1>2, <1>10
<1> QED BY <1>1, <1>11

LEMMA ResolveValidityHandles ==
    ASSUME NEW s, Good(s), NEW proposed, NEW valid, NEW now \in Moments
    PROVE  Handles(s, ResolveValidity(s, proposed, valid, now))
<1> DEFINE resolved == {w \in s.waiting_for_validation : w.proposed = proposed}
           b == s.waiting_for_validation \ resolved
           t == [s EXCEPT !.waiting_for_validation = @ \ resolved]
           u == InsertAll(t, resolved)
<1>1. Core(s) /\ s \in Instances
  BY DEF Good, Core, Typed
<1>2. ResolveValidity(s, proposed, valid, now) = IF valid THEN Update(u, now) ELSE t
  BY DEF ResolveValidity
<1>3. IsFiniteSet(resolved) /\ IsFiniteSet(b)
  <2>1. resolved \subseteq s.waiting_for_validation /\ b \subseteq s.waiting_for_validation
    OBVIOUS
  <2> HIDE DEF resolved, b
  <2> QED BY <1>1, <2>1, Waiting, FS_Subset
<1>4. t = SetWaiting(s, s.waiting_for_parent, b)
  BY <1>1 DEF SetWaiting, Instances
<1>5. b \subseteq s.waiting_for_validation
  OBVIOUS
<1>6. \A w \in resolved : w.round \in Rounds /\ Storable(s, w.round, w.proposal)
  <2> SUFFICES ASSUME NEW w \in resolved
               PROVE  w.round \in Rounds /\ Storable(s, w.round, w.proposal)
    OBVIOUS
  <2>1. w \in s.waiting_for_validation
    OBVIOUS
  <2>2. /\ w \in [proposed : ProposedBlocks, round : Rounds, proposal : Proposals]
        /\ w.proposal.parent < w.round
        /\ MaxRestarts = 0 /\ ~s.evidence_only => FitsQuorum(s, w.proposal)
    BY <1>1, <2>1, Waiting
  <2> QED BY <2>2 DEF Storable
<1> HIDE DEF b, t, resolved
<1>7. Calm(s, SetWaiting(s, s.waiting_for_parent, b))
  BY <1>1, <1>3, <1>5, Waiting, SetWaitingCalm
<1>8. Calm(s, t)
  BY <1>4, <1>7
<1>9. Core(t) /\ \A w \in resolved : w.round \in Rounds /\ Storable(t, w.round, w.proposal)
  BY <1>6, <1>8, StorableKept DEF Calm, Mild
<1>10. Calm(t, u)
  BY <1>3, <1>9, InsertAllCalm
<1> HIDE DEF u
<1>11. Calm(s, u)
  BY <1>1, <1>8, <1>10, CalmTransitive
<1>12. Handles(s, Update(u, now)) /\ Handles(s, t)
  BY <1>8, <1>11, CalmThenUpdate, CalmHandles
<1> QED BY <1>2, <1>12

LEMMA MarkFaultyHandles ==
    ASSUME NEW s, Good(s), NEW v \in Validators
    PROVE  Handles(s, MarkFaulty(s, v))
<1> DEFINE f == [s.faults EXCEPT ![v] = "Indirect"]
           t == [s EXCEPT !.faults = f]
<1>1. Core(s) /\ s \in Instances
      /\ s.faults \in [Validators -> {"None", "Banned", "Indirect", "Direct"}]
  BY DEF Good, Core, Typed, Instances
<1>2. CASE s.faults[v] # "None"
  BY <1>2, HandlesReflexive DEF MarkFaulty
<1>3. CASE s.faults[v] = "None"
  <2>1. MarkFaulty(s, v) = t
    BY <1>1, <1>3 DEF MarkFaulty, Instances
  <2>2. /\ f \in [Validators -> {"None", "Banned", "Indirect", "Direct"}]
        /\ f[v] = "Indirect" /\ \A x \in Validators : x # v => f[x] = s.faults[x]
    BY <1>1
  <2> HIDE DEF f
  <2>3. t \in Instances
    BY <1>1, <2>2, ZenonT(60) DEF Instances
  <2>4. /\ t.rounds = s.rounds /\ t.faults = f /\ t.current_round = s.current_round
        /\ t.first_non_finalized = s.first_non_finalized /\ t.finalized = s.finalized
        /\ t.evidence_only = s.evidence_only /\ t.restarts = s.restarts /\ t.signed = s.signed
        /\ t.bugs = s.bugs /\ t.dirty = s.dirty /\ t.pending_proposal = s.pending_proposal
        /\ t.waiting_for_parent = s.waiting_for_parent
        /\ t.waiting_for_validation = s.waiting_for_validation
        /\ t.active = s.active /\ t.active_validator = s.active_validator
        /\ t.write_wal = s.write_wal /\ t.wal = s.wal
    BY <1>1 DEF Instances
  <2> HIDE DEF t
  <2>5. Typed(t) /\ Lowest(t) /\ Sane(t)
    <3>1. Typed(t)
      BY <1>1, <2>3, <2>4 DEF Core, Typed, Below
    <3>2. Lowest(t) /\ Sane(t)
      BY <1>1, <2>4, LowestKept DEF Core, Sane
    <3> QED BY <3>1, <3>2
  <2>6. \A x \in Validators : /\ s.faults[x] = "Direct" => f[x] = "Direct"
                              /\ s.faults[x] # "Direct" => f[x] # "Direct"
                              /\ s.faults[x] # "None" => f[x] # "None"
    BY <1>3, <2>2
  <2>7. Own(t) = Own(s) /\ Keeps(s, t) /\ Stays(s, t)
    <3>1. Own(t) = Own(s)
      BY <2>4 DEF Own
    <3>2. Keeps(s, t)
      BY <2>4, <2>6, <3>1 DEF Keeps
    <3> QED BY <2>4, <3>1, <3>2 DEF Stays
  <2>8. Logged(t)
    <3>1. Logged(s)
      BY <1>1 DEF Core
    <3>2. t.active_validator => s.active_validator /\ t.write_wal /\ t.faults[Us] # "Direct"
      BY <2>4, <2>6, <3>1 DEF Logged
    <3> QED BY <1>1, <2>4, <2>7, <3>1, <3>2, LoggedKept
  <2>9. Core(t)
    BY <1>1, <2>4, <2>5, <2>6, <2>8, FieldsChange
  <2>10. Noticing(t)
    BY <2>2, <2>4 DEF Noticing
  <2>11. Chained(t)
    BY <1>1, <2>4, <2>7, StaysChained DEF Good
  <2>12. Watched(t)
    BY <1>1, <2>4, <2>7, SameRoundsRest, CalmWatched DEF Good
  <2>13. Informed(t)
    BY <2>7, InformedKept DEF Good
  <2> QED BY <2>1, <2>7, <2>9, <2>10, <2>11, <2>12, <2>13, StaysEnds DEF Handles, Good
<1> QED BY <1>2, <1>3

LEMMA SetEvidenceOnlyGood ==
    ASSUME NEW s, Good(s), ~s.active_validator
    PROVE  LET t == SetEvidenceOnly(s)
           IN  /\ Good(t) /\ Own(t) = Own(s) /\ t.finalized = s.finalized
               /\ t.current_round = s.current_round
<1> DEFINE e == [r \in Rounds |-> EmptyRound]
           b == TRUE
           t == [s EXCEPT !.evidence_only = b, !.rounds = e,
                          !.waiting_for_parent = {}, !.waiting_for_validation = {}]
<1>1. Core(s) /\ s \in Instances
  BY DEF Good, Core, Typed
<1>2. SetEvidenceOnly(s) = t
  BY DEF SetEvidenceOnly
<1>3. /\ EmptyRound \in RoundStates
      /\ EmptyRound.proposal = {} /\ EmptyRound.accepted_height = NoRound
      /\ EmptyRound.quorum_echoes = {} /\ EmptyRound.quorum_votes = {}
  BY DEF EmptyRound, RoundStates
<1>4. e \in [Rounds -> RoundStates] /\ \A r \in Rounds : e[r] = EmptyRound
  BY <1>3
<1>5. b \in BOOLEAN
  OBVIOUS
<1> HIDE DEF e
<1>6. t \in Instances
  BY <1>1, <1>4, <1>5, ZenonT(60) DEF Instances
<1>7. /\ t.rounds = e /\ t.faults = s.faults /\ t.current_round = s.current_round
      /\ t.first_non_finalized = s.first_non_finalized /\ t.finalized = s.finalized
      /\ t.evidence_only /\ t.restarts = s.restarts /\ t.signed = s.signed
      /\ t.bugs = s.bugs /\ t.dirty = s.dirty /\ t.pending_proposal = s.pending_proposal
      /\ t.waiting_for_parent = {}
      /\ t.waiting_for_validation = {}
      /\ t.active = s.active /\ t.active_validator = s.active_validator
      /\ t.write_wal = s.write_wal /\ t.wal = s.wal
  BY <1>1 DEF Instances
<1> HIDE DEF t
<1>8. Typed(t)
  <2>1. IsOption({}) /\ IsFiniteSet({}) /\ \A r \in Rounds : NoRound <= r
    BY FS_EmptySet, RoundsAssumption DEF IsOption, Rounds, NoRound
  <2>2. ASSUME NEW r \in Rounds
        PROVE  /\ IsOption(t.rounds[r].proposal)
               /\ IsOption(t.rounds[r].quorum_echoes)
               /\ IsOption(t.rounds[r].quorum_votes)
               /\ t.rounds[r].accepted_height <= r
               /\ t.rounds[r].proposal = {}
    BY <1>3, <1>4, <1>7, <2>1
  <2>3. Below(t)
    BY <1>1, <1>7, <2>2 DEF Core, Typed, Below
  <2> QED BY <1>1, <1>6, <1>7, <2>1, <2>2, <2>3 DEF Core, Typed
<1>9. Settled(t) /\ Backed(t)
  BY <1>3, <1>4, <1>7 DEF Settled, Backed
<1>10. Linked(t)
  BY <1>3, <1>4, <1>7 DEF Linked, LinkedAt, Accepted
<1>11. Lowest(t) /\ Sane(t) /\ Fitting(t) /\ Noticing(t) /\ Chained(t)
  BY <1>7 DEF Lowest, Sane, Fitting, Noticing, Chained
<1>12. Own(t) = Own(s)
  BY <1>7 DEF Own
<1>13. Logged(t)
  <2>1. InLog(s) => InLog(t)
    BY <1>7, <1>12 DEF InLog
  <2> QED BY <1>1, <1>7, <1>12, <2>1 DEF Core, Logged
<1>14. Watched(t)
  <2>1. t.current_round \in Rounds \/ t.current_round = LastRound + 1
    BY <1>6, RoundsAssumption DEF Instances, Rounds
  <2>2. \A r \in Rounds : ~Skippable(t, r) /\ ~Accepted(t, r)
    BY <1>3, <1>4, <1>7 DEF Skippable, Accepted
  <2> QED BY <2>1, <2>2 DEF Watched, Open
<1>15. Informed(t)
  BY <1>7 DEF Informed, Good
<1> QED BY <1>2, <1>7, <1>8, <1>9, <1>10, <1>11, <1>12, <1>13, <1>14, <1>15 DEF Good, Core

-----------------------------------------------------------------------------
(* Reading the log                                                          *)

LEMMA EntryIs ==
    ASSUME NEW entry \in Entries
    PROVE  /\ "evidence" \in DOMAIN entry => entry.evidence \in Validators
           /\ "signed" \in DOMAIN entry =>
                entry.signed \in SignedMessages /\ "evidence" \notin DOMAIN entry
                /\ entry = SignedEntry(entry.signed)
           /\ "evidence" \notin DOMAIN entry /\ "signed" \notin DOMAIN entry =>
                "proposal" \in DOMAIN entry /\ entry.proposal \in Proposals /\ entry.round \in Rounds
<1>1. CASE entry \in [signed : SignedMessages]
  <2>1. DOMAIN entry = {"signed"} /\ entry.signed \in SignedMessages
        /\ entry = [signed |-> entry.signed]
    BY <1>1
  <2> QED BY <2>1 DEF SignedEntry
<1>2. CASE entry \in [proposal : Proposals, round : Rounds]
  <2>1. DOMAIN entry = {"proposal", "round"} /\ entry.proposal \in Proposals /\ entry.round \in Rounds
    BY <1>2
  <2> QED BY <2>1
<1>3. CASE entry \in [evidence : Validators]
  <2>1. DOMAIN entry = {"evidence"} /\ entry.evidence \in Validators
    BY <1>3
  <2> QED BY <2>1
<1> QED BY <1>1, <1>2, <1>3 DEF Entries

\* What one more entry of the log brings.
Replayed(s, entry) ==
    /\ "signed" \in DOMAIN entry =>
            HasMessage(s, entry.signed) \/ s.faults[entry.signed.validator] = "Direct"
    /\ "evidence" \in DOMAIN entry => s.faults[entry.evidence] = "Direct"

LEMMA ReplayHandles ==
    ASSUME NEW s, Good(s), NEW i \in DOMAIN s.wal, NEW now \in Moments
    PROVE  LET t == Replay(s, s.wal[i], now)
           IN  Handles(s, t) /\ Replayed(t, s.wal[i])
<1> DEFINE entry == s.wal[i]
           r == entry.round
           p == entry.proposal
<1>1. Core(s) /\ s \in Instances /\ entry \in Entries
  BY DEF Good, Core, Typed, Instances
<1>2. CASE "evidence" \in DOMAIN entry
  <2>1. entry.evidence \in Validators /\ "signed" \notin DOMAIN entry
    BY <1>1, <1>2, EntryIs
  <2> DEFINE v == entry.evidence
             t == HandleFaultNoWal(s, v, now)
             u == WithoutRequests(s, t)
  <2>2. Replay(s, entry, now) = u
    BY <1>2 DEF Replay, ReplayFault
  <2>3. Handles(s, t) /\ t.faults[v] = "Direct"
    BY <2>1, HandleFaultNoWalHandles
  <2> HIDE DEF t
  <2>4. Good(t) /\ Core(t)
    BY <2>3 DEF Handles, Good
  <2>5. Calm(t, u)
    BY <1>1, <2>4, WithoutRequestsCalm
  <2> HIDE DEF u
  <2>6. Handles(t, u) /\ u.faults[v] = "Direct"
    BY <2>1, <2>3, <2>4, <2>5, CalmHandles DEF Calm, Mild, Keeps
  <2>7. Handles(s, u)
    BY <2>3, <2>6, HandlesTransitive
  <2> QED BY <2>1, <2>2, <2>6, <2>7 DEF Replayed
<1>3. CASE "evidence" \notin DOMAIN entry /\ "signed" \in DOMAIN entry
  <2>1. entry.signed \in SignedMessages
    BY <1>1, <1>3, EntryIs
  <2>2. Replay(s, entry, now) = AddContent(s, entry.signed)
    BY <1>3 DEF Replay
  <2>3. Calm(s, AddContent(s, entry.signed)) /\ HasMessage(AddContent(s, entry.signed), entry.signed)
    BY <1>1, <2>1, AddContentCalm
  <2> QED BY <1>3, <2>2, <2>3, CalmHandles DEF Replayed
<1>4. CASE "evidence" \notin DOMAIN entry /\ "signed" \notin DOMAIN entry
  <2>1. p \in Proposals /\ r \in Rounds /\ "proposal" \in DOMAIN entry
    BY <1>1, <1>4, EntryIs
  <2>2. p.parent < r
    BY <1>1, <2>1 DEF Core, Typed, Below
  <2>3. ~(MaxRestarts = 0 /\ ~s.evidence_only)
    <3> SUFFICES ASSUME MaxRestarts = 0, ~s.evidence_only PROVE FALSE
      OBVIOUS
    <3>1. s.wal = <<>>
      BY <1>1 DEF Core, Fitting
    <3> QED BY <3>1
  <2>4. Storable(s, r, p)
    BY <2>1, <2>2, <2>3 DEF Storable
  <2> DEFINE t == InsertProposal(s, r, p)
  <2>5. CASE MayInsert(s, r, p)
    <3>1. Replay(s, entry, now) = MarkDirty(t, r)
      BY <1>4, <2>5 DEF Replay
    <3>2. Calm(s, t)
      BY <1>1, <2>1, <2>4, <2>5, InsertProposalCalm
    <3> HIDE DEF t
    <3>3. r \in Nat
      BY <2>1, RoundsAssumption DEF Rounds
    <3>4. Calm(t, MarkDirty(t, r))
      BY <3>2, <3>3, MarkDirtyCalm DEF Calm, Mild
    <3>5. Calm(s, MarkDirty(t, r))
      BY <1>1, <3>2, <3>4, CalmTransitive
    <3> QED BY <1>4, <3>1, <3>5, CalmHandles DEF Replayed
  <2>6. CASE ~MayInsert(s, r, p)
    <3>1. Replay(s, entry, now) = s
      BY <1>4, <2>6 DEF Replay
    <3> QED BY <1>4, <3>1, HandlesReflexive DEF Replayed
  <2> QED BY <2>5, <2>6
<1> QED BY <1>2, <1>3, <1>4

LEMMA ReplayedKept ==
    ASSUME NEW s \in Instances, NEW t, Keeps(s, t), NEW entry \in Entries, Replayed(s, entry)
    PROVE  Replayed(t, entry)
<1>0. "evidence" \in DOMAIN entry => t.faults[entry.evidence] = "Direct"
  BY EntryIs DEF Replayed, Keeps
<1> SUFFICES ASSUME "signed" \in DOMAIN entry
             PROVE  HasMessage(t, entry.signed) \/ t.faults[entry.signed.validator] = "Direct"
  BY <1>0 DEF Replayed
<1>1. entry.signed \in SignedMessages /\ entry.signed.validator \in Validators
  BY EntryIs, Contents
<1>2. HasMessage(s, entry.signed) \/ s.faults[entry.signed.validator] = "Direct"
  BY DEF Replayed
<1>3. s.faults[entry.signed.validator] = "Direct" => t.faults[entry.signed.validator] = "Direct"
  BY <1>1 DEF Keeps
<1> QED BY <1>1, <1>2, <1>3, MessagesKept

\* A log that was read, up to entry i.
HasRead(s, i, result) ==
    /\ Handles(s, result.state)
    /\ result.readable => \A j \in 1 .. i : Replayed(result.state, s.wal[j])

LEMMA ReadEntryReads ==
    ASSUME NEW s, Good(s), ~s.write_wal, NEW i \in DOMAIN s.wal, NEW now \in Moments,
           NEW result \in [readable : BOOLEAN, state : Instances], HasRead(s, i - 1, result)
    PROVE  /\ ReadEntry(result, s.wal[i], now) \in [readable : BOOLEAN, state : Instances]
           /\ HasRead(s, i, ReadEntry(result, s.wal[i], now))
<1> DEFINE x == result.state
           y == Replay(x, s.wal[i], now)
           b == FALSE
<1>1. Good(x) /\ Keeps(s, x) /\ x \in Instances /\ s \in Instances
  BY DEF HasRead, Handles, Good, Core, Typed
<1>2. x.wal = s.wal
  BY <1>1 DEF Keeps
<1>3. s.wal \in Seq(Entries) /\ i \in 1 .. Len(s.wal) /\ Len(s.wal) \in Nat
  BY <1>1 DEF Instances
<1>4. CASE ~result.readable \/ Unreadable(x, s.wal[i])
  <2>1. ReadEntry(result, s.wal[i], now) = [result EXCEPT !.readable = b]
    BY <1>4 DEF ReadEntry
  <2>2. b \in BOOLEAN /\ ~b
    OBVIOUS
  <2> HIDE DEF b
  <2>3. /\ [result EXCEPT !.readable = b] \in [readable : BOOLEAN, state : Instances]
        /\ [result EXCEPT !.readable = b].readable = b /\ [result EXCEPT !.readable = b].state = x
    BY <2>2
  <2> QED BY <2>1, <2>2, <2>3 DEF HasRead
<1>5. CASE ~(~result.readable \/ Unreadable(x, s.wal[i]))
  <2> DEFINE t == [result EXCEPT !.state = y]
  <2>1. ReadEntry(result, s.wal[i], now) = t
    BY <1>5 DEF ReadEntry
  <2>2. Handles(x, y) /\ Replayed(y, s.wal[i])
    BY <1>1, <1>2, ReplayHandles
  <2> HIDE DEF y
  <2>3. y \in Instances /\ Keeps(x, y)
    BY <2>2 DEF Handles, Good, Core, Typed
  <2>4. Handles(s, x)
    BY DEF HasRead
  <2>5. Handles(s, y)
    BY <2>2, <2>4, HandlesTransitive
  <2>6. t \in [readable : BOOLEAN, state : Instances] /\ t.state = y /\ t.readable = result.readable
    BY <2>3
  <2>7. ASSUME NEW j \in 1 .. i PROVE Replayed(y, s.wal[j])
    <3>1. CASE j = i
      BY <2>2, <3>1
    <3>2. CASE j # i
      <4>1. j \in 1 .. i - 1 /\ s.wal[j] \in Entries
        BY <1>3, <3>2
      <4>2. Replayed(x, s.wal[j])
        BY <1>5, <4>1 DEF HasRead
      <4> QED BY <1>1, <2>3, <4>1, <4>2, ReplayedKept
    <3> QED BY <3>1, <3>2
  <2> HIDE DEF t
  <2> QED BY <2>1, <2>5, <2>6, <2>7 DEF HasRead
<1> QED BY <1>4, <1>5

\* What opening the log, and becoming active, never undoes.
Opens(s, t) ==
    /\ Good(t) /\ Own(t) = Own(s) /\ Ends(s, t)
    /\ t.restarts = s.restarts /\ t.evidence_only = s.evidence_only

LEMMA OpensTransitive ==
    ASSUME NEW s, NEW t, NEW u, Opens(s, t), Opens(t, u)
    PROVE  Opens(s, u)
BY EndsTransitive DEF Opens

\* After the log was read, our messages are in the state: they were there
\* before, or they are in the log.
LEMMA WriteWalOpens ==
    ASSUME NEW s, Good(s), ~s.write_wal, NEW result \in [readable : BOOLEAN, state : Instances],
           HasRead(s, Len(s.wal), result)
    PROVE  LET t == [result.state EXCEPT !.write_wal = result.readable]
           IN  Opens(s, t) /\ ~t.active_validator
<1> DEFINE x == result.state
           b == result.readable
           t == [x EXCEPT !.write_wal = b]
<1>1. Handles(s, x) /\ Good(x) /\ Core(x) /\ Keeps(s, x) /\ Ends(s, x) /\ x \in Instances /\ b \in BOOLEAN
  BY DEF HasRead, Handles, Good
<1>2. ~s.active_validator
  BY DEF Good, Core, Logged
<1>3. Own(x) = Own(s) /\ x.wal = s.wal /\ ~x.active_validator
      /\ x.restarts = s.restarts /\ x.evidence_only = s.evidence_only
  BY <1>1, <1>2 DEF Keeps
<1>4. b => InState(x) \/ x.evidence_only
  <2> SUFFICES ASSUME b, ~x.evidence_only PROVE InState(x)
    OBVIOUS
  <2>1. InState(x) \/ InLog(x)
    BY <1>1 DEF Core, Logged
  <2>2. ASSUME InLog(x), NEW m \in Own(x) PROVE HasMessage(x, m) \/ x.faults[Us] = "Direct"
    <3>1. PICK j \in DOMAIN s.wal : s.wal[j] = SignedEntry(m)
      BY <1>3, <2>2 DEF InLog
    <3>2. j \in 1 .. Len(s.wal)
      BY DEF Good, Core, Typed, Instances
    <3>3. Replayed(x, SignedEntry(m))
      BY <3>1, <3>2 DEF HasRead
    <3>4. "signed" \in DOMAIN SignedEntry(m) /\ SignedEntry(m).signed = m
      BY DEF SignedEntry
    <3>5. m.validator = Us
      BY DEF Own
    <3> QED BY <3>3, <3>4, <3>5 DEF Replayed
  <2> QED BY <2>1, <2>2 DEF InState
<1>16. b => \A v \in Against(x.wal) : x.faults[v] = "Direct"
  <2> SUFFICES ASSUME b, NEW v \in Against(x.wal) PROVE x.faults[v] = "Direct"
    OBVIOUS
  <2>1. PICK j \in DOMAIN s.wal : s.wal[j] = EvidenceEntry(v)
    BY <1>3 DEF Against
  <2>2. j \in 1 .. Len(s.wal)
    BY DEF Good, Core, Typed, Instances
  <2>3. Replayed(x, EvidenceEntry(v))
    BY <2>1, <2>2 DEF HasRead
  <2>4. "evidence" \in DOMAIN EvidenceEntry(v) /\ EvidenceEntry(v).evidence = v
    BY DEF EvidenceEntry
  <2> QED BY <2>3, <2>4 DEF Replayed
<1> HIDE DEF x, b
<1>5. t \in Instances
  BY <1>1, ZenonT(60) DEF Instances
<1>6. /\ t.rounds = x.rounds /\ t.faults = x.faults /\ t.current_round = x.current_round
      /\ t.first_non_finalized = x.first_non_finalized /\ t.finalized = x.finalized
      /\ t.evidence_only = x.evidence_only /\ t.restarts = x.restarts /\ t.signed = x.signed
      /\ t.bugs = x.bugs /\ t.dirty = x.dirty /\ t.pending_proposal = x.pending_proposal
      /\ t.waiting_for_parent = x.waiting_for_parent
      /\ t.waiting_for_validation = x.waiting_for_validation
      /\ t.active = x.active /\ t.active_validator = x.active_validator
      /\ t.write_wal = b /\ t.wal = x.wal
  BY <1>1 DEF Instances
<1> HIDE DEF t
<1>7. Typed(t) /\ Lowest(t) /\ Sane(t)
  <2>1. Typed(t)
    BY <1>1, <1>5, <1>6 DEF Core, Typed, Below
  <2>2. Lowest(t) /\ Sane(t)
    BY <1>1, <1>6, LowestKept DEF Core, Sane
  <2> QED BY <2>1, <2>2
<1>8. Own(t) = Own(x) /\ Stays(x, t)
  BY <1>6 DEF Own, Stays
<1>9. Logged(t)
  <2>1. (InState(t) <=> InState(x)) /\ (InLog(t) <=> InLog(x))
    BY <1>6, <1>8, SameRounds DEF InState, InLog
  <2> QED BY <1>1, <1>3, <1>4, <1>6, <1>8, <2>1 DEF Core, Logged
<1>10. Core(t)
  BY <1>1, <1>6, <1>7, <1>9, FieldsChange
<1>11. Noticing(t)
  <2>1. x.first_non_finalized \in Int /\ Noticing(x)
    BY <1>1 DEF Good, Instances
  <2> QED BY <1>6, <2>1, NoticingKept
<1>12. Ends(s, t)
  BY <1>1, <1>8, StaysEnds, EndsTransitive
<1>13. Chained(t)
  BY <1>1, <1>6, <1>8, StaysChained DEF Good
<1>14. Watched(t)
  BY <1>1, <1>6, <1>8, SameRoundsRest, CalmWatched DEF Good
<1>15. Opens(s, t) /\ ~t.active_validator
  <2>1. Informed(t)
    BY <1>6, <1>16 DEF Informed
  <2> QED BY <1>3, <1>6, <1>8, <1>10, <1>11, <1>12, <1>13, <1>14, <2>1 DEF Opens, Good
<1> QED BY <1>15 DEF t, x, b

LEMMA OpenWalOpens ==
    ASSUME NEW s, Good(s), ~s.write_wal, NEW now \in Moments
    PROVE  Opens(s, OpenWal(s, now)) /\ ~OpenWal(s, now).active_validator
<1> DEFINE n == Len(s.wal)
           start == [readable |-> TRUE, state |-> s]
           G(x, i) == ReadEntry(x, s.wal[i], now)
           Is(f) == f = [i \in 0 .. Len(s.wal) |-> IF i = 0 THEN start ELSE G(f[i - 1], i)]
           after == CHOOSE f : Is(f)
           R == [readable : BOOLEAN, state : Instances]
           Z(i) == {x \in R : HasRead(s, i, x)}
           X == [i \in 0 .. n |-> Z(i)]
           F == [y \in R \X (0 .. n) |-> G(y[1], y[2])]
           base == {0}
           a == [i \in 0 .. n |-> start]
           par == [i \in 0 .. n |-> i - 1]
<1>1. OpenWal(s, now) = [after[n].state EXCEPT !.write_wal = after[n].readable]
  BY DEF OpenWal
<1>2. s \in Instances /\ n \in Nat /\ 0 \in Int /\ n \in Int /\ DOMAIN s.wal = 1 .. n
  BY DEF Good, Core, Typed, Instances
<1>3. start \in Z(0)
  <2>1. start \in R /\ start.state = s
    BY <1>2
  <2>2. Handles(s, s) /\ ~ \E j \in 1 .. 0 : TRUE
    BY HandlesReflexive
  <2> HIDE DEF start, R
  <2> QED BY <2>1, <2>2 DEF HasRead
<1>4. ASSUME NEW i \in 1 .. n, NEW x \in Z(i - 1) PROVE x \in R /\ G(x, i) \in Z(i)
  <2>1. i \in DOMAIN s.wal /\ x \in R /\ HasRead(s, i - 1, x)
    BY <1>2
  <2> QED BY <2>1, ReadEntryReads
<1> HIDE DEF G, start, R, n
<1>5. \A i \in 0 .. n : i # 0 => i \in 1 .. n /\ i - 1 \in 0 .. n /\ i - 1 \in 0 .. i - 1
  BY <1>2
<1>6. \E f : Is(f)
  <2>1. \A i \in 0 .. n : X[i] = Z(i) /\ a[i] = start /\ par[i] = i - 1 /\ (i \in base <=> i = 0)
    OBVIOUS
  <2>2. \A i \in 0 .. n, x \in R : F[<<x, i>>] = G(x, i)
    OBVIOUS
  <2> HIDE DEF X, F, base, a, par
  <2>3. \A i \in 0 .. n : i \in base => a[i] \in X[i]
    <3> HIDE DEF Z
    <3> QED BY <1>3, <2>1
  <2>4. \A i \in 0 .. n : i \notin base => par[i] \in 0 .. i - 1
    <3> HIDE DEF Z
    <3> QED BY <1>5, <2>1
  <2>5. \A i \in 0 .. n : i \notin base => \A x \in X[par[i]] : F[<<x, i>>] \in X[i]
    <3> SUFFICES ASSUME NEW i \in 0 .. n, i \notin base, NEW x \in X[par[i]] PROVE F[<<x, i>>] \in X[i]
      OBVIOUS
    <3> HIDE DEF Z
    <3>1. i \in 1 .. n /\ par[i] = i - 1 /\ i - 1 \in 0 .. n
      BY <1>5, <2>1
    <3>2. X[par[i]] = Z(i - 1)
      BY <2>1, <3>1
    <3> QED BY <1>4, <2>1, <2>2, <3>1, <3>2
  <2>6. PICK f \in [0 .. n -> UNION {X[i] : i \in 0 .. n}] :
            Follows(f, 0, n, base, a, par, F) /\ \A i \in 0 .. n : f[i] \in X[i]
    BY <1>2, <2>3, <2>4, <2>5, RecursiveFamily, Zenon
  <2>7. ASSUME NEW i \in 0 .. n PROVE f[i] = IF i = 0 THEN start ELSE G(f[i - 1], i)
    <3>1. f[i] = IF i \in base THEN a[i] ELSE F[<<f[par[i]], i>>]
      BY <2>6 DEF Follows
    <3>2. CASE i = 0
      <4> HIDE DEF Z
      <4> QED BY <2>1, <3>1, <3>2
    <3>3. CASE i # 0
      <4> HIDE DEF Z
      <4>1. i - 1 \in 0 .. n /\ i \in 1 .. n
        BY <1>5, <3>3
      <4>2. f[i - 1] \in Z(i - 1)
        BY <2>1, <2>6, <4>1
      <4>3. f[i - 1] \in R
        BY <1>4, <4>1, <4>2
      <4> QED BY <2>1, <2>2, <3>1, <3>3, <4>3
    <3> QED BY <3>2, <3>3
  <2>8. Is(f)
    BY <2>6, <2>7 DEF n
  <2> QED BY <2>8
<1>7. Is(after)
  BY <1>6, Zenon
<1> HIDE DEF after
<1>8. ASSUME NEW i \in 0 .. n PROVE after[i] = IF i = 0 THEN start ELSE G(after[i - 1], i)
  BY <1>7 DEF n
<1> HIDE DEF Z
<1> DEFINE B == {i \in 0 .. n : after[i] \in Z(i)}
<1>9. \A i \in 0 .. n : (\A j \in 0 .. i - 1 : j \in B) => i \in B
  <2> SUFFICES ASSUME NEW i \in 0 .. n, \A j \in 0 .. i - 1 : j \in B PROVE after[i] \in Z(i)
    OBVIOUS
  <2>1. CASE i = 0
    BY <1>3, <1>8, <2>1
  <2>2. CASE i # 0
    <3>1. i - 1 \in B
      <4>1. i - 1 \in 0 .. i - 1
        BY <1>5, <2>2
      <4> HIDE DEF B
      <4> QED BY <4>1
    <3>2. after[i - 1] \in Z(i - 1)
      BY <3>1
    <3> QED BY <1>4, <1>5, <1>8, <2>2, <3>2
  <2> QED BY <2>1, <2>2
<1>10. \A i \in 0 .. n : i \in B
  <2> HIDE DEF B
  <2> QED BY <1>2, <1>9, Induct, Zenon
<1>11. after[n] \in Z(n)
  <2>1. n \in 0 .. n
    BY <1>2
  <2> QED BY <1>10, <2>1
<1>12. after[n] \in [readable : BOOLEAN, state : Instances] /\ HasRead(s, Len(s.wal), after[n])
  BY <1>11 DEF Z, R, n
<1> DEFINE result == after[n]
<1> HIDE DEF result
<1>13. Opens(s, [result.state EXCEPT !.write_wal = result.readable])
       /\ ~[result.state EXCEPT !.write_wal = result.readable].active_validator
  BY <1>12, WriteWalOpens DEF result
<1> QED BY <1>1, <1>13 DEF result

LEMMA SetActiveOpens ==
    ASSUME NEW s, Good(s), ~s.evidence_only, s.write_wal, Us \in Validators, s.faults[Us] = "None"
    PROVE  Opens(s, [s EXCEPT !.active_validator = TRUE])
<1> DEFINE t == [s EXCEPT !.active_validator = TRUE]
<1>1. Core(s) /\ s \in Instances
  BY DEF Good, Core, Typed
<1>2. t \in Instances
  BY <1>1, ZenonT(60) DEF Instances
<1>3. /\ t.rounds = s.rounds /\ t.faults = s.faults /\ t.current_round = s.current_round
      /\ t.first_non_finalized = s.first_non_finalized /\ t.finalized = s.finalized
      /\ t.evidence_only = s.evidence_only /\ t.restarts = s.restarts /\ t.signed = s.signed
      /\ t.bugs = s.bugs /\ t.dirty = s.dirty /\ t.pending_proposal = s.pending_proposal
      /\ t.waiting_for_parent = s.waiting_for_parent
      /\ t.waiting_for_validation = s.waiting_for_validation
      /\ t.active = s.active /\ t.write_wal = s.write_wal /\ t.wal = s.wal
  BY <1>1 DEF Instances
<1> HIDE DEF t
<1>4. Typed(t) /\ Lowest(t) /\ Sane(t)
  <2>1. Typed(t)
    BY <1>1, <1>2, <1>3 DEF Core, Typed, Below
  <2>2. Lowest(t) /\ Sane(t)
    BY <1>1, <1>3, LowestKept DEF Core, Sane
  <2> QED BY <2>1, <2>2
<1>5. Own(t) = Own(s) /\ Stays(s, t)
  BY <1>3 DEF Own, Stays
<1>6. Logged(t)
  <2>1. (InState(t) <=> InState(s)) /\ (InLog(t) <=> InLog(s))
    BY <1>3, <1>5, SameRounds DEF InState, InLog
  <2> QED BY <1>1, <1>3, <1>5, <2>1 DEF Core, Logged
<1>7. Core(t)
  BY <1>1, <1>3, <1>4, <1>6, FieldsChange
<1>8. Noticing(t)
  <2>1. s.first_non_finalized \in Int /\ Noticing(s)
    BY <1>1 DEF Good, Instances
  <2> QED BY <1>3, <2>1, NoticingKept
<1>9. Chained(t)
  BY <1>1, <1>3, <1>5, StaysChained DEF Good
<1>10. Watched(t)
  BY <1>1, <1>3, <1>5, SameRoundsRest, CalmWatched DEF Good
<1>11. Informed(t)
  BY <1>3 DEF Informed, Good
<1> QED BY <1>3, <1>5, <1>7, <1>8, <1>9, <1>10, <1>11, StaysEnds DEF Opens, Good, t

LEMMA CalmOpens ==
    ASSUME NEW s, Good(s), NEW t, Calm(s, t), t.signed = s.signed
    PROVE  Opens(s, t)
<1>1. Own(t) = Own(s)
  BY DEF Own
<1>2. Handles(s, t)
  BY CalmHandles
<1> QED BY <1>1, <1>2 DEF Opens, Handles, Keeps

LEMMA StartVotingOpens ==
    ASSUME NEW s, Good(s), ~s.evidence_only, s.write_wal, Us \in Validators, s.faults[Us] = "None",
           NEW now \in Moments
    PROVE  Opens(s, StartVoting(s, now))
<1> DEFINE t == [s EXCEPT !.active_validator = TRUE]
           time == Max({StartTimestamp, now.time})
           u == ScheduleUpdate(t, time)
<1>1. StartVoting(s, now) = u
  BY DEF StartVoting
<1>2. time \in Int
  <2>1. StartTimestamp \in Int /\ now.time \in Int
    BY TimesAssumption
  <2> QED BY <2>1, MaxOfTwo
<1> HIDE DEF time
<1>3. Opens(s, t)
  BY SetActiveOpens
<1> HIDE DEF t
<1>4. Good(t) /\ Core(t)
  BY <1>3 DEF Opens, Good
<1>5. Opens(t, u)
  BY <1>2, <1>4, ScheduleUpdateCalm, CalmOpens
<1> QED BY <1>1, <1>3, <1>5, OpensTransitive

LEMMA ActivateValidatorOpens ==
    ASSUME NEW s, Good(s), ~s.evidence_only, NEW now \in Moments
    PROVE  Opens(s, ActivateValidator(s, now))
<1> DEFINE t == IF s.write_wal THEN s ELSE OpenWal(s, now)
           may == t.write_wal /\ Us \in Validators /\ t.faults[Us] = "None"
<1>1. ActivateValidator(s, now) =
        IF ~t.write_wal THEN Discard(s, t) ELSE IF may THEN StartVoting(t, now) ELSE t
  BY DEF ActivateValidator
<1>2. Opens(s, t)
  <2>1. CASE s.write_wal
    BY <2>1, KeepsReflexive DEF Opens
  <2>2. CASE ~s.write_wal
    BY <2>2, OpenWalOpens
  <2> QED BY <2>1, <2>2
<1> HIDE DEF t
<1>3. Good(t) /\ Core(t) /\ ~t.evidence_only /\ s \in Instances
  BY <1>2 DEF Opens, Good, Core, Typed
<1>4. may => Opens(t, StartVoting(t, now))
  BY <1>3, StartVotingOpens
<1>5. Opens(t, Discard(s, t))
  BY <1>3, DiscardCalm, CalmOpens
<1> QED BY <1>1, <1>2, <1>4, <1>5, OpensTransitive

\* What outlives a restart.
Persisted(wal, signed, restarts) ==
    /\ wal \in Seq(Entries) /\ signed \in SUBSET SignedMessages /\ restarts \in Nat
    /\ MaxRestarts = 0 => wal = <<>>
    /\ \A i \in DOMAIN wal : "proposal" \in DOMAIN wal[i] => wal[i].proposal.parent < wal[i].round
    /\ \A m, d \in {m \in signed : m.validator = Us} : ~Contradiction(m, d)
    /\ \A m \in {m \in signed : m.validator = Us} : \E i \in DOMAIN wal : wal[i] = SignedEntry(m)

LEMMA NewZugGood ==
    ASSUME NEW wal, NEW signed, NEW restarts, NEW disk \in Disks, Persisted(wal, signed, restarts)
    PROVE  LET s == NewZug(wal, signed, restarts, disk)
           IN  /\ Good(s) /\ Own(s) = {m \in signed : m.validator = Us}
               /\ ~s.write_wal /\ ~s.active_validator /\ ~s.evidence_only /\ s.restarts = restarts
<1> DEFINE e == [r \in Rounds |-> EmptyRound]
           f == [v \in Validators |-> IF v \in Banned THEN "Banned" ELSE "None"]
           a == [v \in Validators |-> NoRound]
           s == NewZug(wal, signed, restarts, disk)
<1>1. /\ EmptyRound \in RoundStates
      /\ EmptyRound.proposal = {} /\ EmptyRound.accepted_height = NoRound
      /\ EmptyRound.echoes = {} /\ EmptyRound.votes = {}
      /\ EmptyRound.quorum_echoes = {} /\ EmptyRound.quorum_votes = {}
  BY DEF EmptyRound, RoundStates
<1>2. /\ e \in [Rounds -> RoundStates] /\ \A r \in Rounds : e[r] = EmptyRound
      /\ f \in [Validators -> {"None", "Banned", "Indirect", "Direct"}]
      /\ a \in [Validators -> {NoRound} \cup Rounds]
  BY <1>1
<1>3. /\ s.rounds = e /\ s.faults = f /\ s.current_round = 0
      /\ s.first_non_finalized = 0 /\ s.finalized = <<>>
      /\ ~s.evidence_only /\ s.restarts = restarts /\ s.signed = signed
      /\ s.bugs = {} /\ s.dirty = NoRound /\ s.pending_proposal = {}
      /\ s.waiting_for_parent = {}
      /\ s.waiting_for_validation = {}
      /\ s.active = a /\ ~s.active_validator
      /\ ~s.write_wal /\ s.wal = wal
  BY DEF NewZug
<1>4. s \in Instances
  <2>1. wal \in Seq(Entries) /\ signed \in SUBSET SignedMessages /\ restarts \in Nat
        /\ disk \in [left : Int, keeps : BOOLEAN] /\ 0 \in Rounds /\ 0 \in 0 .. LastRound + 2
    BY RoundsAssumption, NodeAssumption DEF Persisted, Rounds
  <2> DEFINE T == [round : Rounds, block : Blocks, height : Rounds, terminal : BOOLEAN]
  <2>2. <<>> \in Seq(T)
    OBVIOUS
  <2> HIDE DEF e, f, a
  <2> QED BY <1>2, <2>1, <2>2 DEF NewZug, Instances
<1> HIDE DEF e, f, a, s
<1>5. \A r \in Rounds : s.rounds[r] = EmptyRound
  BY <1>2, <1>3
<1>6. Typed(s)
  <2>1. IsOption({}) /\ IsFiniteSet({}) /\ \A r \in Rounds : NoRound <= r
    BY FS_EmptySet, RoundsAssumption DEF IsOption, Rounds, NoRound
  <2>2. Below(s)
    BY <1>1, <1>3, <1>5 DEF Below, Persisted
  <2>3. s.dirty <= s.current_round
    BY <1>3 DEF NoRound
  <2>4. ASSUME NEW r \in Rounds
        PROVE  /\ IsOption(s.rounds[r].proposal)
               /\ IsOption(s.rounds[r].quorum_echoes)
               /\ IsOption(s.rounds[r].quorum_votes)
               /\ s.rounds[r].accepted_height <= r
    BY <1>1, <1>5, <2>1
  <2> QED BY <1>3, <1>4, <2>1, <2>2, <2>3, <2>4 DEF Typed
<1>7. Settled(s) /\ Backed(s)
  BY <1>1, <1>5 DEF Settled, Backed
<1>8. \A r \in Rounds : ~Accepted(s, r)
  BY <1>1, <1>5 DEF Accepted
<1>9. Linked(s)
  BY <1>8 DEF Linked, LinkedAt
<1>10. Lowest(s) /\ Sane(s)
  BY <1>3 DEF Lowest, Sane
<1>11. Own(s) = {m \in signed : m.validator = Us}
  BY <1>3 DEF Own
<1>12. Logged(s)
  <2>1. InLog(s)
    BY <1>3, <1>11 DEF InLog, Persisted
  <2> QED BY <1>3, <1>11, <2>1 DEF Logged, Persisted
<1>13. Fitting(s)
  BY <1>1, <1>3, <1>5, <1>8 DEF Fitting, Persisted
<1>14. Noticing(s)
  <2> SUFFICES ASSUME ~FttExceeded(s), NEW r \in Rounds PROVE Noticed(s, r)
    BY DEF Noticing
  <2>1. ~IsQuorum(s, {})
    BY NoQuorumOfFaulty
  <2>2. Echoed(s, r) = {} /\ \A b : VotedBy(s, r, b) = {}
    BY <1>1, <1>5 DEF Echoed, VotedBy
  <2> QED BY <2>1, <2>2 DEF Noticed
<1>15. Chained(s)
  <2>1. s.first_non_finalized = 0 /\ s.first_non_finalized - 1 = NoRound
    BY <1>3 DEF NoRound
  <2>2. LeadsUp(s, NoRound)
    <3>1. Len(s.finalized) = 0
      BY <1>3
    <3>2. Consecutive(s.finalized)
      BY <3>1 DEF Consecutive
    <3> QED BY <1>3, <3>2 DEF LeadsUp
  <2> QED BY <2>1, <2>2 DEF Chained, Chain
<1>16. Watched(s)
  <2>1. s.current_round \in Rounds
    BY <1>3, RoundsAssumption DEF Rounds
  <2> QED BY <1>1, <1>5, <1>8, <2>1 DEF Watched, Open, Skippable
<1>18. Informed(s)
  BY <1>3 DEF Informed
<1>17. Good(s)
  BY <1>18, <1>6, <1>7, <1>9, <1>10, <1>12, <1>13, <1>14, <1>15, <1>16 DEF Good, Core
<1> QED BY <1>3, <1>11, <1>17 DEF s

LEMMA StartGood ==
    ASSUME NEW wal, NEW signed, NEW restarts, NEW disk \in Disks, NEW now \in Moments,
           Persisted(wal, signed, restarts)
    PROVE  LET t == Start(wal, signed, restarts, disk, now)
           IN  Good(t) /\ Own(t) = {m \in signed : m.validator = Us} /\ t.restarts = restarts
<1> DEFINE s == NewZug(wal, signed, restarts, disk)
           t == OpenWal(s, now)
           u == ActivateValidator(t, now)
<1>1. Start(wal, signed, restarts, disk, now) = u
  BY DEF Start
<1>2. /\ Good(s) /\ Own(s) = {m \in signed : m.validator = Us}
      /\ ~s.write_wal /\ ~s.evidence_only /\ s.restarts = restarts
  BY NewZugGood
<1> HIDE DEF s
<1>3. Opens(s, t)
  BY <1>2, OpenWalOpens
<1> HIDE DEF t
<1>4. Opens(t, u)
  BY <1>2, <1>3, ActivateValidatorOpens DEF Opens
<1> HIDE DEF u
<1>5. Opens(s, u)
  BY <1>3, <1>4, OpensTransitive
<1> QED BY <1>1, <1>2, <1>5 DEF Opens

-----------------------------------------------------------------------------
(* The steps of the specification                                           *)

\* What other validators sign does not concern what we may sign.
LEMMA SeenCalm ==
    ASSUME NEW s, Core(s), NEW seen \in SUBSET SignedMessages,
           \A m \in seen : m.validator = Us => m \in s.signed
    PROVE  Calm(s, [s EXCEPT !.signed = @ \cup seen])
<1> DEFINE both == s.signed \cup seen
           t == [s EXCEPT !.signed = @ \cup seen]
<1> s \in Instances
  BY DEF Core, Typed
<1>1. t \in Instances
  <2>1. both \in SUBSET SignedMessages
    BY DEF Instances
  <2>2. t = [s EXCEPT !.signed = both]
    OBVIOUS
  <2> HIDE DEF both
  <2>3. [s EXCEPT !.signed = both] \in Instances
    BY <2>1, ZenonT(60) DEF Instances
  <2> QED BY <2>2, <2>3
<1>2. /\ t.rounds = s.rounds /\ t.faults = s.faults /\ t.current_round = s.current_round
      /\ t.first_non_finalized = s.first_non_finalized /\ t.finalized = s.finalized
      /\ t.evidence_only = s.evidence_only /\ t.restarts = s.restarts
      /\ t.bugs = s.bugs /\ t.dirty = s.dirty /\ t.pending_proposal = s.pending_proposal
      /\ t.waiting_for_parent = s.waiting_for_parent
      /\ t.waiting_for_validation = s.waiting_for_validation
      /\ t.active = s.active /\ t.wal = s.wal /\ t.write_wal = s.write_wal
      /\ t.active_validator = s.active_validator /\ t.signed = s.signed \cup seen
  BY DEF Instances
<1> HIDE DEF t
<1>3. Own(t) = Own(s)
  BY <1>2 DEF Own
<1>4. Keeps(s, t)
  BY <1>2, <1>3 DEF Keeps
<1>5. Logged(t)
  <2>1. Logged(s)
    BY DEF Core
  <2>2. s.active_validator => s.write_wal /\ s.faults[Us] # "Direct"
    BY <2>1 DEF Logged
  <2> QED BY <1>2, <1>3, <1>4, <2>1, <2>2, LoggedKept
<1>6. Typed(t)
  BY <1>1, <1>2 DEF Core, Typed, Below
<1>7. Lowest(t) /\ Sane(t)
  BY <1>2, LowestKept DEF Core, Sane
<1>8. Core(t)
  BY <1>2, <1>5, <1>6, <1>7, FieldsChange
<1>9. Stays(s, t)
  BY <1>2 DEF Stays
<1>10. s.first_non_finalized \in Int
  BY DEF Instances
<1>11. Noticing(s) => Noticing(t)
  BY <1>2, <1>10, NoticingKept
<1> QED BY <1>2, <1>4, <1>8, <1>9, <1>11, SameRoundsRest DEF Calm, Mild, t

\* What every step does: it keeps the invariant, it signs nothing with evidence
\* against us in the state or in the log, and it does not go on after the switch block.
Allowed(s, t) ==
    /\ Good(t)
    /\ Us \in Validators /\ (s.faults[Us] = "Direct" \/ Us \in Against(s.wal)) => Own(t) = Own(s)
    /\ FinalizedSwitchBlock(s) /\ t.restarts = s.restarts =>
            t.finalized = s.finalized /\ t.current_round = s.current_round

LEMMA HandlesSteps ==
    ASSUME NEW s, Good(s), NEW t, Handles(s, t)
    PROVE  Allowed(s, t)
<1>1. s.faults[Us] = "Direct" \/ Us \in Against(s.wal) => ~s.active_validator
  BY DEF Good, Core, Logged, Informed
<1> QED BY <1>1 DEF Allowed, Handles, Keeps, Ends

LEMMA OpensSteps ==
    ASSUME NEW s, Good(s), NEW t, Opens(s, t)
    PROVE  Allowed(s, t)
BY DEF Allowed, Opens, Ends

LEMMA ReceiveMessageSteps ==
    ASSUME Good(zug), NEW msg \in Network, NEW now \in Moments, ReceiveMessage(msg, now)
    PROVE  Allowed(zug, zug')
<1> DEFINE seen == {m \in ToSet(msg.signed) : m.validator \in Correct}
           s == [zug EXCEPT !.signed = @ \cup seen]
<1>1. seen \in SUBSET SignedMessages
  BY NetworkAssumption DEF ToSet
<1>2. \A m \in seen : m.validator = Us => m \in zug.signed
  BY DEF ReceiveMessage, Genuine
<1>3. zug' = HandleMessage(s, msg, now)
  BY DEF ReceiveMessage, Step
<1>4. Core(zug)
  BY DEF Good
<1> HIDE DEF seen
<1>5. Calm(zug, s)
  BY <1>1, <1>2, <1>4, SeenCalm
<1> HIDE DEF s
<1>6. Handles(zug, s)
  BY <1>5, CalmHandles
<1>7. Handles(s, zug')
  BY <1>3, <1>6, HandleMessageHandles DEF Handles
<1> QED BY <1>6, <1>7, HandlesTransitive, HandlesSteps

LEMMA SetRequestsCalm ==
    ASSUME NEW s, Core(s), NEW b \in SUBSET Int, NEW e \in SUBSET Contexts
    PROVE  Calm(s, [s EXCEPT !.timers = b, !.requested = e])
<1>1. s \in Instances
  BY DEF Core, Typed
<1>2. [s EXCEPT !.timers = b, !.requested = e] =
        Ask(s, s.next_scheduled_update, b, s.current_round_start, s.paused, e,
            s.lost_timers, s.lost_blocks)
  BY <1>1 DEF Instances, Ask
<1> QED BY <1>1, <1>2, AskFields, AskCalm

LEMMA UpdateTimerSteps ==
    ASSUME Good(zug), NEW time, NEW now \in Moments, UpdateTimer(time, now)
    PROVE  Allowed(zug, zug')
<1>1. PICK left \in {zug.timers, zug.timers \ {time}} :
        zug' = HandleTimer([zug EXCEPT !.timers = left], time, now)
  BY DEF UpdateTimer, Step
<1> DEFINE s == [zug EXCEPT !.timers = left]
<1>2. Core(zug) /\ zug \in Instances
  BY DEF Good, Core, Typed
<1>3. left \in SUBSET Int
  BY <1>1, <1>2, AskFields
<1>4. s = [zug EXCEPT !.timers = left, !.requested = zug.requested]
  BY <1>2 DEF Instances
<1>5. Calm(zug, s)
  BY <1>2, <1>3, <1>4, AskFields, SetRequestsCalm
<1> HIDE DEF s
<1>6. Handles(zug, s)
  BY <1>5, CalmHandles
<1>7. Handles(s, zug')
  BY <1>1, <1>6, HandleTimerHandles DEF Handles, s
<1> QED BY <1>6, <1>7, HandlesTransitive, HandlesSteps

LEMMA ProposeSteps ==
    ASSUME Good(zug), NEW context, NEW block \in OwnBlocks, NEW now \in Moments,
           Propose(context, block, now)
    PROVE  Allowed(zug, zug')
<1> DEFINE left == zug.requested \ {context}
           s == [zug EXCEPT !.requested = left]
<1>1. zug' = ProposeBlock(s, context, block, now)
  BY DEF Propose, Step
<1>2. Core(zug) /\ zug \in Instances
  BY DEF Good, Core, Typed
<1>3. left \in SUBSET Contexts
  BY <1>2, AskFields
<1> HIDE DEF left
<1>4. s = [zug EXCEPT !.timers = zug.timers, !.requested = left]
  BY <1>2 DEF Instances
<1>5. Calm(zug, s)
  BY <1>2, <1>3, <1>4, AskFields, SetRequestsCalm
<1> HIDE DEF s
<1>6. Handles(zug, s)
  BY <1>5, CalmHandles
<1>7. Handles(s, zug')
  BY <1>1, <1>6, ProposeBlockHandles DEF Handles
<1> QED BY <1>6, <1>7, HandlesTransitive, HandlesSteps

LEMMA RestartSteps ==
    ASSUME Good(zug), NEW disk \in Disks, NEW now \in Moments, Restart(disk, now)
    PROVE  Allowed(zug, zug')
<1> DEFINE restarts == zug.restarts + 1
<1>1. zug \in Instances /\ Below(zug) /\ Logged(zug) /\ zug.restarts < MaxRestarts
  BY DEF Good, Core, Typed, Restart
<1>2. zug' = Start(zug.wal, zug.signed, restarts, disk, now)
  BY DEF Restart, Step
<1>3. /\ zug.wal \in Seq(Entries) /\ zug.signed \in SUBSET SignedMessages /\ zug.restarts \in Nat
      /\ MaxRestarts \in Nat /\ MaxRestarts # 0 /\ restarts \in Nat /\ restarts # zug.restarts
  BY <1>1, NodeAssumption DEF Instances
<1> HIDE DEF restarts
<1>4. Persisted(zug.wal, zug.signed, restarts)
  BY <1>1, <1>3 DEF Persisted, Below, Logged, InLog, Own
<1>5. Good(zug') /\ Own(zug') = Own(zug) /\ zug'.restarts = restarts
  BY <1>2, <1>4, StartGood DEF Own
<1> QED BY <1>3, <1>5 DEF Allowed

LEMMA NextSteps ==
    ASSUME Good(zug), [Next]_zug
    PROVE  Allowed(zug, zug')
<1> USE DEF Step
<1>1. ASSUME NEW now \in Moments, NEW m \in zug.signed, ReceiveOwn(m, now)
      PROVE  Allowed(zug, zug')
  <2>1. m \in SignedMessages
    BY DEF Good, Core, Typed, Instances
  <2> QED BY <1>1, <2>1, HandleSignedMessageHandles, HandlesSteps DEF ReceiveOwn
<1>2. ASSUME NEW now \in Moments, NEW proposed, NEW valid, Resolve(proposed, valid, now)
      PROVE  Allowed(zug, zug')
  BY <1>2, ResolveValidityHandles, HandlesSteps DEF Resolve
<1>3. ASSUME NEW now \in Moments, Activate(now)
      PROVE  Allowed(zug, zug')
  BY <1>3, ActivateValidatorOpens, OpensSteps DEF Activate
<1>4. ASSUME NEW now \in Moments, NEW paused \in BOOLEAN, Pause(paused, now)
      PROVE  Allowed(zug, zug')
  BY <1>4, SetPausedHandles, HandlesSteps DEF Pause
<1>5. ASSUME Deactivate PROVE Allowed(zug, zug')
  <2>1. Core(zug)
    BY DEF Good
  <2> QED BY <1>5, <2>1, DeactivateValidatorCalm, CalmHandles, HandlesSteps DEF Deactivate
<1>6. ASSUME NEW v \in EarlierEvidence, LearnEarlierFault(v)
      PROVE  Allowed(zug, zug')
  <2>1. v \in Validators
    BY NodeAssumption
  <2> QED BY <1>6, <2>1, MarkFaultyHandles, HandlesSteps DEF LearnEarlierFault
<1>7. ASSUME BecomeEvidenceOnly PROVE Allowed(zug, zug')
  BY <1>7, SetEvidenceOnlyGood DEF BecomeEvidenceOnly, Allowed
<1>8. ASSUME UNCHANGED zug PROVE Allowed(zug, zug')
  BY <1>8, HandlesReflexive, HandlesSteps
<1> QED
  BY <1>1, <1>2, <1>3, <1>4, <1>5, <1>6, <1>7, <1>8, ReceiveMessageSteps, UpdateTimerSteps,
     ProposeSteps, RestartSteps DEF Next

-----------------------------------------------------------------------------
(* The theorems                                                             *)

LEMMA InitGood == ASSUME Init PROVE Good(zug)
<1>1. PICK disk \in Disks, now \in Moments : zug = Start(<<>>, {}, 0, disk, now)
  BY DEF Init
<1>2. Persisted(<<>>, {}, 0)
  <2>1. <<>> \in Seq(Entries) /\ DOMAIN <<>> = {}
    OBVIOUS
  <2> QED BY <2>1 DEF Persisted
<1> QED BY <1>1, <1>2, StartGood

\* Every reachable state of the instance satisfies the invariant, after each of
\* its handlers and after each restart.
THEOREM Safety == Spec => []Good(zug)
<1>1. Good(zug) /\ [Next]_zug => Good(zug)'
  BY NextSteps DEF Allowed
<1> QED BY <1>1, InitGood, PTL DEF Spec

\* The instance's data has its type whatever arrives: at most one proposal and
\* quorum of each kind in a round, and no round dirty beyond the current one.
THEOREM TypeCorrect == Spec => []TypeOK
<1>1. Good(zug) => TypeOK
  BY DEF Good, Core, Typed, TypeOK
<1> QED BY <1>1, Safety, PTL

\* We never sign two contradicting messages, for any number of crashes at any
\* point and any failing writes (create_message, record_entry, open_wal).
THEOREM NeverDoubleSigns == Spec => []NoDoubleSign
<1>1. Good(zug) => NoDoubleSign
  BY DEF Good, Core, Logged, NoDoubleSign, OwnSigned, Own
<1> QED BY <1>1, Safety, PTL

\* With evidence against ourselves, in the state or in the log, we never sign again
\* (handle_fault_no_wal, activate_validator), however often we restart and whether
\* the log can be read to its end or not (open_wal).
THEOREM FaultySignsNothing == Spec => SilentOnceFaulty
<1>1. ASSUME Good(zug), [Next]_zug
      PROVE  [(Us \in Validators /\ Convicted) => OwnSigned' = OwnSigned]_zug
  <2> SUFFICES ASSUME Us \in Validators, Convicted PROVE OwnSigned' = OwnSigned
    OBVIOUS
  <2>1. zug.faults[Us] = "Direct" \/ Us \in Against(zug.wal)
    <3>1. zug.wal \in Seq(Entries)
      BY <1>1 DEF Good, Core, Typed, Instances
    <3>2. EvidenceEntry(Us) \in ToSet(zug.wal) => \E i \in DOMAIN zug.wal : zug.wal[i] = EvidenceEntry(Us)
      BY <3>1 DEF ToSet
    <3> QED BY <3>2 DEF Convicted, Against
  <2> QED BY <1>1, <2>1, NextSteps DEF Allowed, OwnSigned, Own
<1>2. Good(zug) /\ [Next]_zug => [(Us \in Validators /\ Convicted) => OwnSigned' = OwnSigned]_zug
  BY <1>1
<1> QED BY <1>2, Safety, PTL DEF Spec, SilentOnceFaulty

\* A memoized quorum stays one, for messages, evidence and pruning in any order
\* (check_new_echo_quorum, check_new_vote_quorum, handle_fault_no_wal).
THEOREM MemoizedAreQuorums == Spec => []QuorumsBacked
<1>1. Good(zug) => QuorumsBacked
  BY DEF Good, Core, Backed, QuorumsBacked
<1> QED BY <1>1, Safety, PTL

\* No quorum is missed, wherever the last signature or the fault that completes
\* it comes from (add_content, handle_fault_no_wal).
THEOREM QuorumsAreMemoized == Spec => []QuorumsNoticed
<1>1. ASSUME Good(zug) PROVE QuorumsNoticed
  <2> SUFFICES ASSUME Ongoing, \A v \in Validators : zug.faults[v] # "Indirect",
                      NEW r \in zug.first_non_finalized .. LastRound + 1
               PROVE  Noticed(zug, r)
    BY DEF QuorumsNoticed, Noticed
  <2>1. zug.first_non_finalized \in 0 .. LastRound + 2
    BY <1>1 DEF Good, Core, Typed, Instances
  <2>2. r \in Rounds /\ r >= zug.first_non_finalized
    BY <2>1, RoundsAssumption DEF Rounds
  <2> QED BY <1>1, <2>2 DEF Good, Noticing, Ongoing
<1> QED BY <1>1, Safety, PTL

\* The branches of finalize_round, propose_if_leader and update_round that the
\* source takes to be unreachable are unreachable.
THEOREM BugsUnreachable == Spec => []NoBug
<1>1. Good(zug) => NoBug
  BY DEF Good, Core, Sane, NoBug
<1> QED BY <1>1, Safety, PTL

\* After the switch block update changes neither the round nor what is
\* finalized, whichever handler calls it.
THEOREM EndIsFinal == Spec => EndedForGood
<1>1. Good(zug) /\ [Next]_zug =>
        [FinalizedSwitchBlock(zug) /\ zug'.restarts = zug.restarts =>
            /\ zug'.finalized = zug.finalized
            /\ zug'.current_round = zug.current_round]_zug
  BY NextSteps DEF Allowed
<1> QED BY <1>1, Safety, PTL DEF Spec, EndedForGood

\* As long as the node does not restart, an accepted proposal fits its parent
\* (validate_proposal, insert_proposal), although its parent is often accepted
\* after it was checked and may have been another proposal then.
THEOREM AcceptedFits == ASSUME MaxRestarts = 0 PROVE Spec => []AcceptedFitsParent
<1>1. ASSUME Good(zug) PROVE AcceptedFitsParent
  <2> SUFFICES ASSUME NEW r \in Rounds, Accepted(zug, r), ~zug.evidence_only
               PROVE  FitsParent(zug, ProposalIn(zug, r))
    BY DEF AcceptedFitsParent
  <2> DEFINE p == ProposalIn(zug, r)
  <2>1. Core(zug)
    BY <1>1 DEF Good
  <2>2. zug.rounds[r].proposal = {p} /\ p \in Proposals /\ p.parent \in -1 .. r - 1
    BY <2>1, AcceptedIs
  <2>3. FitsQuorum(zug, p)
    BY <2>1, <2>2 DEF Core, Fitting
  <2>4. p.parent # NoRound => p.parent \in Rounds
    BY <2>2, RoundsAssumption DEF Rounds, NoRound
  <2>5. ASSUME p.parent # NoRound, Accepted(zug, p.parent)
        PROVE  zug.rounds[p.parent].quorum_echoes = {ProposalIn(zug, p.parent)}
    BY <2>1, <2>4, <2>5, AcceptedIs
  <2> HIDE DEF p
  <2>6. FitsParent(zug, p)
    BY <2>3, <2>5 DEF FitsQuorum, FitsParent
  <2> QED BY <2>6 DEF p
<1> QED BY <1>1, Safety, PTL

\* The current round is the lowest one that is neither skippable nor accepted,
\* unless update has yet to look at it, whatever made it skippable: a vote, a
\* fault that completed a quorum, or the log (update, handle_fault_no_wal).  The
\* protocol has no last round; in the model's last one there is nowhere to go.
THEOREM CurrentRoundIsLowest == Spec => [](zug.current_round <= LastRound => CurrentRoundLowest)
<1>1. ASSUME Good(zug), zug.current_round <= LastRound PROVE CurrentRoundLowest
  <2>1. zug.current_round # LastRound + 1
    BY <1>1, RoundsAssumption DEF Good, Core, Typed, Instances, Rounds
  <2>2. ~zug.evidence_only =>
            \A r \in 0 .. zug.current_round - 1 : Skippable(zug, r) \/ Accepted(zug, r)
    BY <1>1 DEF Good, Core, Lowest
  <2>3. \/ Dirty(zug.current_round)
        \/ ~Skippable(zug, zug.current_round) /\ ~Accepted(zug, zug.current_round)
    BY <1>1, <2>1 DEF Good, Watched, Marked, Open, Dirty
  <2> QED BY <2>2, <2>3 DEF CurrentRoundLowest, Ongoing
<1>2. Good(zug) => (zug.current_round <= LastRound => CurrentRoundLowest)
  BY <1>1
<1> QED BY <1>2, Safety, PTL

\* Leaders propose blocks only on top of blocks that do not end the era.
LeadersStop == \A r \in Rounds : LeaderStops(zug, r)

\* Given such leaders, blocks are finalized in the order of their rounds, at
\* consecutive heights and none after the switch block (finalize_round), however
\* many rounds are skipped and in whatever order they become committed; as long
\* as the rounds are kept.  This is about the instance's own chain: the announcements
\* that a refused message takes with it (lost_blocks) are gaps in what the rest of the
\* node is told.
THEOREM FinalizesInOrder ==
    Spec => [](LeadersStop /\ ~zug.evidence_only => FinalizedInOrder)
<1>1. ASSUME Good(zug), LeadersStop, ~zug.evidence_only PROVE FinalizedInOrder
  <2>1. Chain(zug)
    BY <1>1 DEF Good, Chained
  <2>2. Consecutive(zug.finalized)
    BY <1>1, <2>1 DEF Chain, LeadsUp, LeadersStop
  <2> QED BY <2>2 DEF Consecutive, FinalizedInOrder
<1>2. Good(zug) => (LeadersStop /\ ~zug.evidence_only => FinalizedInOrder)
  BY <1>1
<1> QED BY <1>2, Safety, PTL
=============================================================================

-------------------------------- MODULE Zug --------------------------------
(***************************************************************************)
(* One node's instance of the Zug consensus protocol in one era            *)
(* (protocols/zug.rs), among validators that may sign and send anything.   *)
(*                                                                         *)
(* The node's fields are the record zug; every handler of the source is an *)
(* operator from the state before to the state after, and one action calls *)
(* it.  Peers are the set Network of messages that may arrive, in any      *)
(* order, any number of times or never; validators in Correct never sign   *)
(* two contradicting ones.  A call reads the clock, which need not be      *)
(* monotonic, and proposal_timeout(), which adapts from call to call.      *)
(*                                                                         *)
(* An Option of the source is a set with at most one element, or NoRound   *)
(* for round IDs and heights.  A proposal is its own hash.                 *)
(***************************************************************************)
EXTENDS Integers, Sequences, FiniteSets, SequencesExt

CONSTANTS
    Validators,         \* the validators of the era
    Us,                 \* our own validator, or none of them: an observer
    Correct,            \* validators that never sign contradicting messages
    Weight,             \* the validators' weights
    Ftt,                \* params.ftt
    Banned,             \* validators banned in this era
    LastRound,          \* the last round peers send messages for
    Leader,             \* leader_sequence: the leader of each round
    MaxFutureRounds,    \* MAX_FUTURE_ROUNDS
    StartTimestamp, MinBlockTime, EndHeight, EndTimestamp,   \* params
    Blocks,             \* the blocks there are
    NoBlock,            \* the content of a dummy proposal
    NeedsValidation,    \* blocks that the block validator has to look at
    OwnBlocks,          \* blocks the node may be given to propose
    Network,            \* the messages that peers may send us
    EarlierEvidence,    \* validators for whom earlier eras may have evidence
    Moments,            \* the time and the proposal timeout that a call may see
    ClockTolerance,     \* config.clock_tolerance
    Disks,              \* disks: how many writes succeed, see RecordEntry
    Controls,           \* what else the node may do: "pause", "deactivate"
    MaxRestarts

NoRound == -1

\* One more round than peers talk about: where the node ends up waiting.
Rounds == 0 .. LastRound + 1

ASSUME ValidatorsAssumption ==
    IsFiniteSet(Validators) /\ Weight \in [Validators -> Nat]
ASSUME RoundsAssumption == LastRound \in Nat /\ Leader \in [Rounds -> Validators]
ASSUME TimesAssumption ==
    /\ {StartTimestamp, EndHeight, EndTimestamp, ClockTolerance} \subseteq Int
    /\ MinBlockTime \in Nat
    /\ Moments \subseteq [time : Int, timeout : Nat]
ASSUME NodeAssumption ==
    /\ OwnBlocks \subseteq Blocks
    /\ EarlierEvidence \subseteq Validators
    /\ Disks \subseteq [left : Int, keeps : BOOLEAN]
    /\ MaxRestarts \in Nat

VARIABLE zug

-----------------------------------------------------------------------------
(***************************************************************************)
(* Messages.                                                               *)
(***************************************************************************)

Echo(p) == [echo |-> p]
Vote(b) == [vote |-> b]
IsEcho(content) == "echo" \in DOMAIN content

SignedMessage(r, content, v) == [round |-> r, content |-> content, validator |-> v]

Contradicts(c, d) == c # d /\ (IsEcho(c) <=> IsEcho(d))

Proposal(time, block, parent, inactive) ==
    [timestamp |-> time, block |-> block, parent |-> parent, inactive |-> inactive]

Dummy(time, parent) == Proposal(time, NoBlock, parent, {})

Proposals ==
    [timestamp : Int, block : Blocks \cup {NoBlock}, parent : {NoRound} \cup Rounds,
     inactive : SUBSET SUBSET Validators]
SignedMessages ==
    [round : Rounds, content : [echo : Proposals] \cup [vote : BOOLEAN], validator : Validators]

ASSUME NetworkAssumption ==
    \A msg \in Network :
        /\ msg.signed \in Seq(SignedMessages)
        /\ msg.evidence \in Seq(Validators)
        /\ msg.proposal \subseteq Proposals
        /\ msg.proposal # {} => msg.round \in Rounds
        /\ msg.invalid \in BOOLEAN

-----------------------------------------------------------------------------
(***************************************************************************)
(* The state and what is read from it.                                     *)
(***************************************************************************)

EmptyRound ==
    [proposal |-> {}, echoes |-> {}, votes |-> {},
     accepted_height |-> NoRound, quorum_echoes |-> {}, quorum_votes |-> {}]

\* A new instance, with what outlives a restart: the log on disk and the
\* signatures of correct validators and of ours that exist.
NewZug(wal, signed, restarts, disk) ==
    [rounds |-> [r \in Rounds |-> EmptyRound],
     faults |-> [v \in Validators |-> IF v \in Banned THEN "Banned" ELSE "None"],
     active |-> [v \in Validators |-> NoRound],
     first_non_finalized |-> 0, dirty |-> NoRound,
     current_round |-> 0, current_round_start |-> {},
     next_scheduled_update |-> {}, timers |-> {},
     active_validator |-> FALSE, paused |-> FALSE, evidence_only |-> FALSE,
     pending_proposal |-> {}, requested |-> {},
     waiting_for_parent |-> {}, waiting_for_validation |-> {},
     write_wal |-> FALSE, wal |-> wal, disk |-> disk,
     finalized |-> <<>>, bugs |-> {}, lost_blocks |-> {}, lost_timers |-> {},
     signed |-> signed, restarts |-> restarts]

\* The sum of the weights, as the number of all units of weight.
TotalWeight(S) == Cardinality(UNION {{v} \X (1 .. Weight[v]) : v \in S})

ASSUME FttAssumption == Ftt \in Nat /\ Ftt <= TotalWeight(Validators)

FaultyIn(s) == {v \in Validators : s.faults[v] # "None"}
FttExceeded(s) == TotalWeight(FaultyIn(s)) > Ftt

QuorumThreshold == (TotalWeight(Validators) + Ftt) \div 2
IsQuorum(s, S) == TotalWeight(S \cup FaultyIn(s)) > QuorumThreshold

EchoedBy(s, r, p) == {e[2] : e \in {e \in s.rounds[r].echoes : e[1] = p}}
VotedBy(s, r, b)  == {e[2] : e \in {e \in s.rounds[r].votes : e[1] = b}}
Echoed(s, r)      == {e[1] : e \in s.rounds[r].echoes}

HasEchoed(s, r, v) == \E e \in s.rounds[r].echoes : e[2] = v
HasVoted(s, r, v)  == \E e \in s.rounds[r].votes : e[2] = v

Skippable(s, r) == FALSE \in s.rounds[r].quorum_votes
Committed(s, r) == TRUE \in s.rounds[r].quorum_votes
Accepted(s, r) ==
    s.rounds[r].accepted_height # NoRound /\ s.rounds[r].proposal # {}
ProposalIn(s, r) == CHOOSE p \in s.rounds[r].proposal : TRUE

HasMessage(s, m) ==
    IF IsEcho(m.content)
    THEN <<m.content.echo, m.validator>> \in s.rounds[m.round].echoes
    ELSE <<m.content.vote, m.validator>> \in s.rounds[m.round].votes

\* Contents that the node has a signature for and that contradict m.
DetectFault(s, m) ==
    IF IsEcho(m.content)
    THEN {Echo(p) : p \in {p \in Echoed(s, m.round) :
                            p # m.content.echo /\ m.validator \in EchoedBy(s, m.round, p)}}
    ELSE {Vote(b) : b \in {b \in BOOLEAN :
                            b # m.content.vote /\ m.validator \in VotedBy(s, m.round, b)}}

\* A proposal is justified by the echo of the leader or by a quorum of echoes.
HasEchoesFor(s, r, p) ==
    IF s.rounds[r].quorum_echoes # {}
    THEN p \in s.rounds[r].quorum_echoes
    ELSE Leader[r] \in EchoedBy(s, r, p)

AcceptedDummy(s, r) == Accepted(s, r) /\ ProposalIn(s, r).block = NoBlock
AcceptedSwitchBlock(s, r) ==
    /\ Accepted(s, r)
    /\ ProposalIn(s, r).block # NoBlock
    /\ s.rounds[r].accepted_height + 1 >= EndHeight
    /\ ProposalIn(s, r).timestamp >= EndTimestamp

FinalizedSwitchBlock(s) ==
    LET r == s.first_non_finalized - 1
    IN  r \in Rounds /\ (AcceptedSwitchBlock(s, r) \/ AcceptedDummy(s, r))

\* The blocks of the accepted proposal of a round and of its ancestors, if all
\* of them are there.
AncestorValues(s, r) ==
    LET values[q \in -1 .. r] ==
            IF q = NoRound THEN {<<>>}
            ELSE IF ~Accepted(s, q) THEN {}
            ELSE LET p == ProposalIn(s, q)
                     own == IF p.block = NoBlock THEN <<>> ELSE <<p.block>>
                 IN  {own \o rest : rest \in values[p.parent]}
    IN  values[r]

-----------------------------------------------------------------------------
(***************************************************************************)
(* Adding signatures.                                                      *)
(***************************************************************************)

\* Mutant: the current round itself is never marked.
MarkDirtyBelow(s, r) ==
    IF r < s.current_round /\ (s.dirty = NoRound \/ r < s.dirty)
    THEN [s EXCEPT !.dirty = r]
    ELSE s

MarkDirty(s, r) ==
    IF r <= s.current_round /\ (s.dirty = NoRound \/ r < s.dirty)
    THEN [s EXCEPT !.dirty = r]
    ELSE s

\* Mutant: echoes for other proposals count as well.
CheckNewEchoQuorumOfAny(s, r, p) ==
    IF s.rounds[r].quorum_echoes = {} /\ IsQuorum(s, {e[2] : e \in s.rounds[r].echoes})
    THEN MarkDirty([s EXCEPT !.rounds[r].quorum_echoes = {p},
                             !.rounds[r].proposal = @ \cap {p}], r)
    ELSE s

\* set_quorum_echoes drops the round's proposal if it is another one.
CheckNewEchoQuorum(s, r, p) ==
    IF s.rounds[r].quorum_echoes = {} /\ IsQuorum(s, EchoedBy(s, r, p))
    THEN MarkDirty([s EXCEPT !.rounds[r].quorum_echoes = {p},
                             !.rounds[r].proposal = @ \cap {p}], r)
    ELSE s

CheckNewVoteQuorum(s, r, b) ==
    IF s.rounds[r].quorum_votes = {} /\ IsQuorum(s, VotedBy(s, r, b))
    THEN MarkDirty([s EXCEPT !.rounds[r].quorum_votes = {b}], r)
    ELSE s

\* Mutant: no round is looked at again.
NoteActiveOnly(s, m) ==
    IF s.active[m.validator] >= m.round THEN s
    ELSE [s EXCEPT !.active[m.validator] = m.round]

\* A validator that was inactive so far may have kept proposals from being
\* accepted, so all rounds have to be looked at again.
NoteActive(s, m) ==
    IF s.active[m.validator] >= m.round THEN s
    ELSE [(IF s.active[m.validator] = NoRound
           THEN MarkDirty(s, s.first_non_finalized) ELSE s)
          EXCEPT !.active[m.validator] = m.round]

AddContent(s, m) ==
    LET t == NoteActive(s, m)
        r == m.round
        c == m.content
    IN  IF IsEcho(c)
        THEN CheckNewEchoQuorum(
                [t EXCEPT !.rounds[r].echoes = @ \cup {<<c.echo, m.validator>>}], r, c.echo)
        ELSE CheckNewVoteQuorum(
                [t EXCEPT !.rounds[r].votes = @ \cup {<<c.vote, m.validator>>}], r, c.vote)

\* A write to the log; it worked if the log is still open.  After disk.left
\* writes they fail (never, if that is negative), and disk.keeps says whether
\* the entry of the first failed write is found in the file later.  The log is only
\* kept in the state as long as there may be another restart to read it.
RecordEntry(s, entry) ==
    LET logged == IF s.restarts < MaxRestarts THEN Append(s.wal, entry) ELSE s.wal
    IN  IF ~s.write_wal THEN s
        ELSE IF s.disk.left = 0
        THEN [s EXCEPT !.active_validator = FALSE, !.write_wal = FALSE,
                       !.wal = IF s.disk.keeps THEN logged ELSE @, !.disk.keeps = FALSE]
        ELSE [s EXCEPT !.wal = logged,
                       !.disk.left = IF @ > 0 THEN @ - 1 ELSE @]

SignedEntry(m)      == [signed |-> m]
ProposalEntry(p, r) == [proposal |-> p, round |-> r]
EvidenceEntry(v)    == [evidence |-> v]
Entries ==
    [signed : SignedMessages] \cup [proposal : Proposals, round : Rounds] \cup [evidence : Validators]

MaySign(s, r, content) ==
    /\ s.active_validator
    /\ ~s.paused
    /\ IF IsEcho(content) THEN ~HasEchoed(s, r, Us) ELSE ~HasVoted(s, r, Us)

\* Mutant: the message is sent even if it could not be logged.
AddSignedUnlogged(s, m) == [AddContent(s, m) EXCEPT !.signed = @ \cup {m}]

\* Our message goes neither to the state nor to the network if it could not be
\* logged.
AddSigned(s, m) ==
    IF s.write_wal THEN [AddContent(s, m) EXCEPT !.signed = @ \cup {m}] ELSE s

\* Signs a message, if that is allowed, and writes it to the log first.
CreateMessage(s, r, content) ==
    LET m == SignedMessage(r, content, Us)
    IN  IF MaySign(s, r, content) THEN AddSigned(RecordEntry(s, SignedEntry(m)), m) ELSE s

-----------------------------------------------------------------------------
(***************************************************************************)
(* Proposals.                                                              *)
(***************************************************************************)

InsertProposal(s, r, p) == [s EXCEPT !.rounds[r].proposal = {p}]

MayInsert(s, r, p) == HasEchoesFor(s, r, p) /\ s.rounds[r].proposal # {p}

InsertAndRecord(s, r, p) ==
    IF MayInsert(s, r, p)
    THEN MarkDirty(RecordEntry(InsertProposal(s, r, p), ProposalEntry(p, r)), r)
    ELSE s

\* The proposal's timestamp, and the inactive validators it lists, must fit
\* those of its accepted parent.
FitsParent(s, p) ==
    /\ p.timestamp >= StartTimestamp
    /\ p.parent # NoRound /\ Accepted(s, p.parent) =>
        LET q == ProposalIn(s, p.parent)
        IN  /\ p.timestamp >= q.timestamp + MinBlockTime
            /\ \A i \in p.inactive, j \in q.inactive : i \subseteq j

ProposedBlock(p, ancestors) ==
    [block |-> p.block, timestamp |-> p.timestamp, ancestors |-> ancestors]

\* Mutant: a proposal whose block needs no validation is not looked at.
ValidateProposalUnchecked(s, r, p, ancestors) ==
    IF p.block \in NeedsValidation
    THEN [s EXCEPT !.waiting_for_validation = @ \cup
            {[proposed |-> ProposedBlock(p, ancestors), round |-> r, proposal |-> p]}]
    ELSE InsertAndRecord(s, r, p)

ValidateProposal(s, r, p, ancestors) ==
    IF ~FitsParent(s, p) THEN s
    ELSE IF p.block \in NeedsValidation
    THEN [s EXCEPT !.waiting_for_validation = @ \cup
            {[proposed |-> ProposedBlock(p, ancestors), round |-> r, proposal |-> p]}]
    ELSE InsertAndRecord(s, r, p)

\* Once r has an accepted proposal its descendants can be validated, one after
\* the other.
ReleaseWaiting(s, r) ==
    LET ready == {w \in s.waiting_for_parent : w.proposal.parent = r}
        values == AncestorValues(s, r)
        t == [s EXCEPT !.waiting_for_parent = @ \ ready]
        order == SetToSeq(ready)
        after[i \in 0 .. Len(order)] ==
            IF i = 0 THEN t
            ELSE ValidateProposal(after[i - 1], order[i].round, order[i].proposal,
                                  CHOOSE a \in values : TRUE)
    IN  IF ready = {} THEN s
        ELSE IF values = {} THEN [t EXCEPT !.bugs = @ \cup {"missing ancestors of accepted proposal"}]
        ELSE after[Len(order)]

\* Mutant: the rounds since the parent need not be skippable.
AcceptableUnskipped(s, r) ==
    /\ ~Accepted(s, r)
    /\ \E p \in s.rounds[r].proposal :
        /\ p \in s.rounds[r].quorum_echoes
        /\ p.parent # NoRound => Accepted(s, p.parent)

\* The node has a proposal with a quorum of echoes, has heard from everyone the
\* proposal calls active, the parent is accepted and all rounds since are
\* skippable.
Acceptable(s, r) ==
    /\ ~Accepted(s, r)
    /\ \E p \in s.rounds[r].proposal :
        /\ p \in s.rounds[r].quorum_echoes
        /\ \A inactive \in p.inactive : \A v \in Validators \ inactive :
                s.active[v] # NoRound \/ s.faults[v] # "None"
        /\ p.parent # NoRound => Accepted(s, p.parent)
        /\ \A q \in p.parent + 1 .. r - 1 : Skippable(s, q)

\* Mutant: the first height is 1.
AcceptFromOne(s, r) ==
    LET parent == ProposalIn(s, r).parent
    IN  [s EXCEPT !.rounds[r].accepted_height =
            IF parent = NoRound THEN 1 ELSE s.rounds[parent].accepted_height + 1]

Accept(s, r) ==
    LET parent == ProposalIn(s, r).parent
    IN  [s EXCEPT !.rounds[r].accepted_height =
            IF parent = NoRound THEN 0 ELSE s.rounds[parent].accepted_height + 1]

InsertIfLogged(s, r, p) ==
    IF s.write_wal /\ MayInsert(s, r, p) THEN MarkDirty(InsertProposal(s, r, p), r) ELSE s

RecordOwnProposal(s, r, p) ==
    IF HasEchoed(s, r, Us) THEN InsertIfLogged(RecordEntry(s, ProposalEntry(p, r)), r, p)
    ELSE s

\* Signs an echo for our own proposal in the current round and inserts it, if
\* both could be logged.
CreateEchoAndProposal(s, p) ==
    LET r == s.current_round
    IN  IF HasEchoed(s, r, Us) THEN s
        ELSE RecordOwnProposal(CreateMessage(s, r, Echo(p)), r, p)

\* If we lead the current round: without a block, if an ancestor is the switch
\* block, and otherwise by asking for a block.
ProposeIfLeader(s, parent, now) ==
    LET r == s.current_round
        values == AncestorValues(s, parent)
        context == [timestamp |-> now.time, ancestors |-> CHOOSE a \in values : TRUE]
    IN  IF \/ ~s.active_validator
           \/ Us # Leader[r]
           \/ \E pending \in s.pending_proposal : pending.round = r
           \/ s.rounds[r].proposal # {}
        THEN s
        ELSE IF parent # NoRound /\ (AcceptedSwitchBlock(s, parent) \/ AcceptedDummy(s, parent))
        THEN CreateEchoAndProposal(s, Dummy(now.time, parent))
        ELSE IF values = {} THEN [s EXCEPT !.bugs = @ \cup {"missing ancestor value"}]
        ELSE [s EXCEPT !.pending_proposal = {[context |-> context, round |-> r, parent |-> parent]},
                       !.requested = @ \cup {context}]

-----------------------------------------------------------------------------
(***************************************************************************)
(* update: what follows from the signatures and proposals.                 *)
(***************************************************************************)

\* Mutant: only accepted proposals are parents.
ParentCandidatesAccepted(s) ==
    {q \in 0 .. s.current_round - 1 :
        Accepted(s, q) /\ \A r \in q + 1 .. s.current_round - 1 : Skippable(s, r)}

\* The rounds before the current one that have an accepted proposal and only
\* skippable rounds after it; NoRound, the start of the era, if all rounds are
\* skippable.
ParentCandidates(s) ==
    {q \in -1 .. s.current_round - 1 :
        /\ q = NoRound \/ Accepted(s, q)
        /\ \A r \in q + 1 .. s.current_round - 1 : Skippable(s, r)}

EarliestTime(s, q) ==
    IF q = NoRound THEN StartTimestamp ELSE ProposalIn(s, q).timestamp + MinBlockTime

\* When a proposal can first be made, while none can be: suitable_parent_round
\* prefers the start of the era to the times of accepted proposals.
FirstOpportunity(s) ==
    IF NoRound \in ParentCandidates(s) THEN StartTimestamp
    ELSE Min({EarliestTime(s, q) : q \in ParentCandidates(s)})

\* Sets an update timer, "unless an earlier timer is already set".
ScheduleUpdate(s, time) ==
    IF \A next \in s.next_scheduled_update : next > time
    THEN [s EXCEPT !.next_scheduled_update = {time}, !.timers = @ \cup {time}]
    ELSE s

\* The current round has started and its timeout has passed.
TimedOut(s, now) == \E start \in s.current_round_start : now.time >= start + now.timeout

\* A vote to skip the current round is due: after the timeout, or if the leader
\* is faulty.
SkipIsDue(s, now) == TimedOut(s, now) \/ s.faults[Leader[s.current_round]] # "None"

VoteToSkip(s, now) ==
    IF SkipIsDue(s, now) THEN CreateMessage(s, s.current_round, Vote(FALSE)) ELSE s

\* The round after r, or r itself at the end of the modelled rounds.
RoundAfter(r) == IF r <= LastRound THEN r + 1 ELSE r

\* A proposal can be made from now on: the leader has until the timeout.
StartRound(s, parent, now) ==
    LET t == ProposeIfLeader([s EXCEPT !.current_round_start = {now.time}], parent, now)
    IN  IF now.timeout > 0 THEN ScheduleUpdate(t, now.time + now.timeout) ELSE t

\* Go to the next round if this one is done, and otherwise start it as soon as
\* some parent is old enough, and look at it again after the timeout.
StartOrLeaveRound(s, now) ==
    LET r == s.current_round
        ripe == {q \in ParentCandidates(s) : EarliestTime(s, q) <= now.time}
    IN  IF Skippable(s, r) \/ Accepted(s, r)
        THEN [s EXCEPT !.current_round_start = {}, !.current_round = RoundAfter(r)]
        ELSE IF ParentCandidates(s) = {}
        THEN [s EXCEPT !.bugs = @ \cup {"No suitable parent for current round"}]
        ELSE IF ripe = {} THEN ScheduleUpdate(s, FirstOpportunity(s))
        ELSE IF \A start \in s.current_round_start : start > now.time
        THEN StartRound(s, Max(ripe), now)
        ELSE IF SkipIsDue(s, now) THEN s ELSE ScheduleUpdate(s, now.time + now.timeout)

UpdateIfCurrent(s, r, now) ==
    IF r = s.current_round THEN StartOrLeaveRound(VoteToSkip(s, now), now) ELSE s

\* The rounds that were skipped on the way to r lose their proposals.
PruneSkipped(s, r) ==
    [s EXCEPT !.rounds = [q \in Rounds |->
                    IF s.first_non_finalized <= q /\ q < r
                    THEN [s.rounds[q] EXCEPT !.proposal = {}, !.accepted_height = NoRound]
                    ELSE s.rounds[q]],
              !.first_non_finalized = r + 1]

AnnounceFinalized(s, r) ==
    LET block == ProposalIn(s, r).block
    IN  IF block = NoBlock THEN s
        ELSE [s EXCEPT !.finalized = Append(@,
                [round |-> r, block |-> block, height |-> s.rounds[r].accepted_height,
                 terminal |-> AcceptedSwitchBlock(s, r)])]

\* Finalizes the ancestors, then the round.
FinalizeRound(s, r) ==
    LET after[q \in -1 .. r] ==
            IF q < s.first_non_finalized THEN s
            ELSE IF ~Accepted(s, q) THEN [s EXCEPT !.bugs = @ \cup {"missing finalized proposal"}]
            ELSE AnnounceFinalized(PruneSkipped(after[ProposalIn(s, q).parent], q), q)
    IN  after[r]

EchoProposal(s, r) ==
    IF s.rounds[r].proposal = {} THEN s ELSE CreateMessage(s, r, Echo(ProposalIn(s, r)))

UpdateAcceptedProposal(s, r) ==
    IF Acceptable(s, r) THEN ReleaseWaiting(CreateMessage(Accept(s, r), r, Vote(TRUE)), r) ELSE s

FinalizeIfCommitted(s, r) ==
    IF Accepted(s, r) /\ Committed(s, r) THEN FinalizeRound(s, r) ELSE s

UpdateRound(s, r, now) ==
    FinalizeIfCommitted(
        UpdateIfCurrent(UpdateAcceptedProposal(EchoProposal(s, r), r), r, now), r)

UpdateIfReached(s, r, now) == IF r > s.current_round THEN s ELSE UpdateRound(s, r, now)

\* The loop over the rounds from the dirty one to the current one.
UpdateFrom(s, r, now) ==
    LET after[q \in r - 1 .. LastRound + 1] ==
            IF q < r THEN s ELSE UpdateIfReached(after[q - 1], q, now)
    IN  after[LastRound + 1]

\* Mutant: it goes on after the end of the era.
UpdateAlways(s, now) ==
    IF FttExceeded(s) \/ s.dirty = NoRound THEN s
    ELSE [UpdateFrom(s, s.dirty, now) EXCEPT !.dirty = NoRound]

Update(s, now) ==
    IF FinalizedSwitchBlock(s) \/ FttExceeded(s) \/ s.dirty = NoRound THEN s
    ELSE [UpdateFrom(s, s.dirty, now) EXCEPT !.dirty = NoRound]

-----------------------------------------------------------------------------
(***************************************************************************)
(* Faults.                                                                 *)
(***************************************************************************)

RemoveVotesAndEchoes(s, v) ==
    [s EXCEPT !.rounds = [r \in Rounds |->
        [s.rounds[r] EXCEPT !.echoes = {e \in @ : e[2] # v},
                            !.votes  = {e \in @ : e[2] # v}]]]

\* Memoizes the quorum of echoes of the round, if there is one.
CheckNewEchoQuorums(s, r) ==
    LET quorate == {p \in Echoed(s, r) : IsQuorum(s, EchoedBy(s, r, p))}
    IN  IF quorate = {} THEN s ELSE CheckNewEchoQuorum(s, r, CHOOSE p \in quorate : TRUE)

\* Mutant: votes for skipping the round are forgotten.
CheckNewQuorumsTrue(s, r) == CheckNewVoteQuorum(CheckNewEchoQuorums(s, r), r, TRUE)

CheckNewQuorums(s, r) ==
    CheckNewVoteQuorum(CheckNewVoteQuorum(CheckNewEchoQuorums(s, r), r, TRUE), r, FALSE)

RecheckQuorums(s) ==
    LET after[r \in -1 .. LastRound + 1] ==
            IF r < s.first_non_finalized THEN s ELSE CheckNewQuorums(after[r - 1], r)
    IN  after[LastRound + 1]

MarkDirectlyFaulty(s, v) ==
    [s EXCEPT !.faults[v] = "Direct", !.active[v] = NoRound, !.active_validator = @ /\ v # Us]

\* The faulty validator counts towards every quorum from now on, instead of
\* its messages, unless there are too many faulty ones already.
HandleFaultNoWal(s, v, now) ==
    LET t == MarkDirectlyFaulty(s, v)
    IN  IF FttExceeded(t) THEN t
        ELSE Update(RecheckQuorums(RemoveVotesAndEchoes(t, v)), now)

HandleFault(s, v, now) == HandleFaultNoWal(RecordEntry(s, EvidenceEntry(v)), v, now)

-----------------------------------------------------------------------------
(***************************************************************************)
(* Incoming messages.                                                      *)
(***************************************************************************)

\* Mutant: messages are logged before looking for duplicates.
HandleSignedMessageLogFirst(s, m, now) ==
    LET t == RecordEntry(s, SignedEntry(m))
    IN  IF s.faults[m.validator] # "None" \/ m.round > s.current_round + MaxFutureRounds
           \/ s.evidence_only
        THEN s
        ELSE IF HasMessage(s, m) THEN t
        ELSE IF DetectFault(s, m) # {} THEN HandleFault(t, m.validator, now)
        ELSE Update(AddContent(t, m), now)

HandleSignedMessage(s, m, now) ==
    IF \/ s.faults[m.validator] # "None"
       \/ m.round > s.current_round + MaxFutureRounds
       \/ s.evidence_only
       \/ HasMessage(s, m)
    THEN s
    ELSE IF DetectFault(s, m) # {} THEN HandleFault(s, m.validator, now)
    ELSE Update(AddContent(RecordEntry(s, SignedEntry(m)), m), now)

HandleEvidence(s, v, now) ==
    IF s.faults[v] = "Direct" THEN s ELSE HandleFault(s, v, now)

\* What can be said of a proposal without looking at our own state.
WellFormed(r, p, now) ==
    /\ p.parent < r
    /\ p.timestamp <= now.time + ClockTolerance
    /\ (p.parent = NoRound \/ p.block = NoBlock) <=> p.inactive = {}
    /\ \A inactive \in p.inactive : Leader[r] \notin inactive

HandleProposal(s, r, p, now) ==
    LET ancestors == AncestorValues(s, p.parent)
    IN  IF \/ ~WellFormed(r, p, now)
           \/ ~HasEchoesFor(s, r, p)
           \/ s.rounds[r].proposal = {p}
        THEN s
        ELSE IF ancestors = {}
        THEN [s EXCEPT !.waiting_for_parent = @ \cup {[round |-> r, proposal |-> p]}]
        ELSE Update(ValidateProposal(s, r, p, CHOOSE a \in ancestors : TRUE), now)

\* The network's messages.  A sync response carries what its sender has of a
\* round: signatures first, then evidence, then the proposal; the other kinds
\* of messages are special cases of it.
SyncResponse(r, signed, evidence, proposal) ==
    [round |-> r, signed |-> signed, evidence |-> evidence, proposal |-> proposal,
     invalid |-> FALSE]

\* The same up to a signature that is no validator's or of another instance.
Spoilt(msg) == [msg EXCEPT !.proposal = {}, !.invalid = TRUE]
SignedMsg(m)         == SyncResponse(m.round, <<m>>, <<>>, {})
ProposalMsg(r, p, m) == SyncResponse(r, <<m>>, <<>>, {p})
EvidenceMsg(v)       == SyncResponse(NoRound, <<>>, <<v>>, {})

HandleSignedMessages(s, messages, now) ==
    LET after[i \in 0 .. Len(messages)] ==
            IF i = 0 THEN s ELSE HandleSignedMessage(after[i - 1], messages[i], now)
    IN  after[Len(messages)]

HandleAllEvidence(s, evidence, now) ==
    LET after[i \in 0 .. Len(evidence)] ==
            IF i = 0 THEN s ELSE HandleEvidence(after[i - 1], evidence[i], now)
    IN  after[Len(evidence)]

\* Some part of the message is its sender's fault.  A proposal with a timestamp in
\* the future is not.
FaultySender(msg, now) ==
    \/ msg.invalid
    \/ \E p \in msg.proposal :
        ~WellFormed(msg.round, p, now) /\ (p.parent < msg.round => p.timestamp <= now.time + ClockTolerance)

\* Timers and requests for a block that t adds to s are not made.
WithoutRequests(s, t) ==
    [t EXCEPT !.timers = s.timers, !.requested = s.requested,
              !.lost_timers = @ \cup (t.timers \ s.timers)]

\* outcomes_or_disconnect: a call that ends with an error has changed s to t, but all
\* that it asked of the node is dropped: timers, requests for a block and the
\* announcement of finalized blocks.  (A validation that was not asked for is asked
\* for again with another peer's copy of the proposal.)
Discard(s, t) ==
    [WithoutRequests(s, t) EXCEPT !.lost_blocks = @ \cup
        {t.finalized[i].round : i \in Len(s.finalized) + 1 .. Len(t.finalized)}]

HandleMessage(s, msg, now) ==
    LET t == HandleAllEvidence(HandleSignedMessages(s, msg.signed, now), msg.evidence, now)
    IN  IF FaultySender(msg, now) THEN Discard(s, t)
        ELSE IF msg.proposal = {} THEN t
        ELSE HandleProposal(t, msg.round, CHOOSE p \in msg.proposal : TRUE, now)

-----------------------------------------------------------------------------
(***************************************************************************)
(* Calls from the rest of the node.                                        *)
(***************************************************************************)

\* Mutant: the update stays scheduled.
HandleTimerUnreset(s, time, now) == Update(MarkDirty(s, s.current_round), now)

\* TIMER_ID_UPDATE, of a timer that was set for the given time.
HandleTimer(s, time, now) ==
    LET t == [s EXCEPT !.next_scheduled_update = {next \in @ : next > time}]
    IN  Update(MarkDirty(t, s.current_round), now)

\* The block we asked for, unless we have gone on to another round.
ProposeBlock(s, context, block, now) ==
    LET current == {pending \in s.pending_proposal :
                        pending.context = context /\ pending.round = s.current_round}
        parent == (CHOOSE pending \in current : TRUE).parent
        inactive == {v \in Validators : s.active[v] = NoRound /\ s.faults[v] = "None"}
        p == Proposal(context.timestamp, block, parent,
                      IF parent = NoRound THEN {} ELSE {inactive})
    IN  IF current = {} THEN s
        ELSE Update(CreateEchoAndProposal([s EXCEPT !.pending_proposal = {}], p), now)

\* Inserts all of the proposals, one after the other.
InsertAll(s, waiting) ==
    LET order == SetToSeq(waiting)
        after[i \in 0 .. Len(order)] ==
            IF i = 0 THEN s ELSE InsertAndRecord(after[i - 1], order[i].round, order[i].proposal)
    IN  after[Len(order)]

ResolveValidity(s, proposed, valid, now) ==
    LET resolved == {w \in s.waiting_for_validation : w.proposed = proposed}
        t == [s EXCEPT !.waiting_for_validation = @ \ resolved]
    IN  IF valid THEN Update(InsertAll(t, resolved), now) ELSE t

\* The proposals of a round and of its ancestors are all there and have a
\* quorum of echoes.
AncestorsLogged(s, r) ==
    LET logged[q \in -1 .. r] ==
            \/ q = NoRound
            \/ /\ s.rounds[q].proposal # {}
               /\ s.rounds[q].quorum_echoes = s.rounds[q].proposal
               /\ logged[ProposalIn(s, q).parent]
    IN  logged[r]

\* The log cannot be read on: an entry does not fit what was read before it.
Unreadable(s, entry) ==
    \/ "signed" \in DOMAIN entry /\ HasMessage(s, entry.signed)
    \/ /\ "proposal" \in DOMAIN entry
       /\ s.rounds[entry.round].proposal # {entry.proposal}
       /\ ~AncestorsLogged(s, entry.proposal.parent)

\* Mutant: evidence in the log is not looked at.
ReplayFaultForgotten(s, v, now) == s

\* Evidence from the log, without most of the outcomes ("These have been processed
\* before the restart"): no timer is set and no block requested.
ReplayFault(s, v, now) ==
    WithoutRequests(s, HandleFaultNoWal(s, v, now))

\* The state after one more entry of the log.
Replay(s, entry, now) ==
    IF "evidence" \in DOMAIN entry THEN ReplayFault(s, entry.evidence, now)
    ELSE IF "signed" \in DOMAIN entry THEN AddContent(s, entry.signed)
    ELSE IF MayInsert(s, entry.round, entry.proposal)
    THEN MarkDirty(InsertProposal(s, entry.round, entry.proposal), entry.round)
    ELSE s

\* One more entry, unless an earlier one could not be read.
ReadEntry(result, entry, now) ==
    IF ~result.readable \/ Unreadable(result.state, entry)
    THEN [result EXCEPT !.readable = FALSE]
    ELSE [result EXCEPT !.state = Replay(@, entry, now)]

\* Reads the log; what had been read of an unreadable log stays in the state.
OpenWal(s, now) ==
    LET after[i \in 0 .. Len(s.wal)] ==
            IF i = 0 THEN [readable |-> TRUE, state |-> s]
            ELSE ReadEntry(after[i - 1], s.wal[i], now)
        result == after[Len(s.wal)]
    IN  [result.state EXCEPT !.write_wal = result.readable]

\* Voting begins, with an update at the start of the era or at once.
StartVoting(s, now) ==
    ScheduleUpdate([s EXCEPT !.active_validator = TRUE], Max({StartTimestamp, now.time}))

\* We only become active with an open log, and not if we are faulty.
ActivateValidator(s, now) ==
    LET t == IF s.write_wal THEN s ELSE OpenWal(s, now)
    IN  IF ~t.write_wal THEN Discard(s, t)
        ELSE IF Us \in Validators /\ t.faults[Us] = "None" THEN StartVoting(t, now)
        ELSE t

DeactivateValidator(s) == [s EXCEPT !.active_validator = FALSE]

\* After a pause the leader gets the full timeout again.
SetPaused(s, paused, now) ==
    IF s.paused /\ ~paused
    THEN Update(MarkDirty([s EXCEPT !.paused = FALSE, !.current_round_start = {}],
                          s.current_round), now)
    ELSE [s EXCEPT !.paused = paused]

\* There is evidence against v in an earlier era.
MarkFaulty(s, v) ==
    IF s.faults[v] = "None" THEN [s EXCEPT !.faults[v] = "Indirect"] ELSE s

SetEvidenceOnly(s) ==
    [s EXCEPT !.evidence_only = TRUE, !.rounds = [r \in Rounds |-> EmptyRound],
              !.waiting_for_parent = {}, !.waiting_for_validation = {}]

-----------------------------------------------------------------------------
(***************************************************************************)
(* The specification: one action per call of the protocol instance.        *)
(***************************************************************************)

Step(s) == zug' = s

\* A new instance reads the log, and create_new_era activates it at once.
Start(wal, signed, restarts, disk, now) ==
    ActivateValidator(OpenWal(NewZug(wal, signed, restarts, disk), now), now)

Init ==
    \E disk \in Disks, now \in Moments : zug = Start(<<>>, {}, 0, disk, now)

Contradiction(m, d) ==
    m.validator = d.validator /\ m.round = d.round /\ Contradicts(m.content, d.content)

\* Signatures of correct validators never contradict each other, ours are only
\* those that we have made, and the proposal of a correct leader is echoed by
\* correct validators only after its leader.
Genuine(m) ==
    m.validator \in Correct =>
        IF m.validator = Us THEN m \in zug.signed
        ELSE /\ \A d \in zug.signed : ~Contradiction(m, d)
             /\ (IsEcho(m.content) /\ Leader[m.round] = Us /\ Us \in Correct)
                    => [m EXCEPT !.validator = Us] \in zug.signed

ReceiveMessage(msg, now) ==
    /\ \A m \in ToSet(msg.signed) : Genuine(m)
    /\ LET seen == {m \in ToSet(msg.signed) : m.validator \in Correct}
       IN  Step(HandleMessage([zug EXCEPT !.signed = @ \cup seen], msg, now))

\* Our own signatures come back to us.
ReceiveOwn(m, now) ==
    /\ m.validator = Us
    /\ Step(HandleSignedMessage(zug, m, now))

\* A timer fires, at its time or later.  It may not be the only one for that time.
UpdateTimer(time, now) ==
    /\ time \in zug.timers
    /\ time <= now.time
    /\ \E left \in {zug.timers, zug.timers \ {time}} :
            Step(HandleTimer([zug EXCEPT !.timers = left], time, now))

\* The answer to a request for a block; it may come late or never.
Propose(context, block, now) ==
    Step(ProposeBlock([zug EXCEPT !.requested = @ \ {context}], context, block, now))

\* The block validator's answer.
Resolve(proposed, valid, now) == Step(ResolveValidity(zug, proposed, valid, now))

\* activate_latest_era_if_needed
Activate(now) ==
    /\ ~zug.active_validator
    /\ ~zug.evidence_only
    /\ Step(ActivateValidator(zug, now))

Deactivate ==
    /\ "deactivate" \in Controls
    /\ zug.active_validator
    /\ Step(DeactivateValidator(zug))

\* The era supervisor pauses voting while execution lags behind.
Pause(paused, now) ==
    /\ "pause" \in Controls
    /\ zug.paused # paused
    /\ Step(SetPaused(zug, paused, now))

\* Evidence against v is found in an earlier era.
LearnEarlierFault(v) ==
    /\ zug.faults[v] = "None"
    /\ Step(MarkFaulty(zug, v))

\* The era supervisor closes an old era after it stopped voting in it.
BecomeEvidenceOnly ==
    /\ FinalizedSwitchBlock(zug)
    /\ ~zug.active_validator
    /\ Step(SetEvidenceOnly(zug))

\* A crash loses everything but the log, whichever step it falls between.
Restart(disk, now) ==
    /\ zug.restarts < MaxRestarts
    /\ Step(Start(zug.wal, zug.signed, zug.restarts + 1, disk, now))

Next ==
    \/ \E now \in Moments :
        \/ \E msg \in Network : ReceiveMessage(msg, now)
        \/ \E m \in zug.signed : ReceiveOwn(m, now)
        \/ \E time \in zug.timers : UpdateTimer(time, now)
        \/ \E context \in zug.requested, block \in OwnBlocks : Propose(context, block, now)
        \/ \E w \in zug.waiting_for_validation, valid \in BOOLEAN :
                Resolve(w.proposed, valid, now)
        \/ Activate(now)
        \/ \E paused \in BOOLEAN : Pause(paused, now)
        \/ \E disk \in Disks : Restart(disk, now)
    \/ Deactivate
    \/ \E v \in EarlierEvidence : LearnEarlierFault(v)
    \/ BecomeEvidenceOnly

Spec == Init /\ [][Next]_zug

\* Every timer fires, and in the end the clock shows the last of the modelled times:
\* weak fairness of these steps, with ENABLED written out as a state predicate.
LateMoment == CHOOSE now \in Moments : \A then \in Moments : then.time <= now.time

FairSpec ==
    /\ Spec
    /\ \A time \in StartTimestamp .. LateMoment.time :
            []<>(time \notin zug.timers) \/ []<><<UpdateTimer(time, LateMoment)>>_zug

-----------------------------------------------------------------------------
(***************************************************************************)
(* Properties.                                                             *)
(***************************************************************************)

IsOption(S) == \A x, y \in S : x = y

RoundStates ==
    [proposal : SUBSET Proposals, echoes : SUBSET (Proposals \X Validators),
     votes : SUBSET (BOOLEAN \X Validators), accepted_height : {NoRound} \cup Rounds,
     quorum_echoes : SUBSET Proposals, quorum_votes : SUBSET BOOLEAN]

Contexts == [timestamp : Int, ancestors : Seq(Blocks)]
ProposedBlocks == [block : Blocks \cup {NoBlock}, timestamp : Int, ancestors : Seq(Blocks)]

\* The branches that the source takes to be unreachable.
Bugs ==
    {"missing ancestors of accepted proposal", "missing ancestor value",
     "No suitable parent for current round", "missing finalized proposal"}

Instances ==
    [rounds : [Rounds -> RoundStates],
     faults : [Validators -> {"None", "Banned", "Indirect", "Direct"}],
     active : [Validators -> {NoRound} \cup Rounds],
     first_non_finalized : 0 .. LastRound + 2, dirty : {NoRound} \cup Rounds,
     current_round : Rounds, current_round_start : SUBSET Int,
     next_scheduled_update : SUBSET Int, timers : SUBSET Int,
     active_validator : BOOLEAN, paused : BOOLEAN, evidence_only : BOOLEAN,
     pending_proposal : SUBSET [context : Contexts, round : Rounds, parent : {NoRound} \cup Rounds],
     requested : SUBSET Contexts,
     waiting_for_parent : SUBSET [round : Rounds, proposal : Proposals],
     waiting_for_validation :
        SUBSET [proposed : ProposedBlocks, round : Rounds, proposal : Proposals],
     write_wal : BOOLEAN, wal : Seq(Entries), disk : [left : Int, keeps : BOOLEAN],
     finalized : Seq([round : Rounds, block : Blocks, height : Rounds, terminal : BOOLEAN]),
     bugs : SUBSET Bugs, lost_blocks : SUBSET Rounds, lost_timers : SUBSET Int,
     signed : SUBSET SignedMessages, restarts : Nat]

TypeOK ==
    /\ zug \in Instances
    /\ \A r \in Rounds :
        /\ IsOption(zug.rounds[r].proposal)
        /\ IsOption(zug.rounds[r].quorum_echoes)
        /\ IsOption(zug.rounds[r].quorum_votes)
        /\ zug.rounds[r].accepted_height <= r
    /\ zug.dirty <= zug.current_round
    /\ IsOption(zug.pending_proposal)

OwnSigned == {m \in zug.signed : m.validator = Us}

\* The log keeps us from signing two contradicting messages (create_message and
\* record_entry, "such that we can avoid double signing upon recovery"),
\* wherever we crash and whichever writes fail.
NoDoubleSign == \A m, d \in OwnSigned : ~Contradiction(m, d)

\* The branches for "this is a bug" and the expect() calls of finalize_round,
\* propose_if_leader and update_round are never reached.
NoBug == zug.evidence_only \/ zug.bugs = {}

\* The instance is still making progress: update does not return early.
Ongoing ==
    ~FinalizedSwitchBlock(zug) /\ ~FttExceeded(zug) /\ ~zug.evidence_only

\* The memoized quorums are quorums: removing a faulty validator's messages
\* (handle_fault_no_wal) never takes one away.
QuorumsBacked ==
    \A r \in Rounds :
        /\ \A p \in zug.rounds[r].quorum_echoes : IsQuorum(zug, EchoedBy(zug, r, p))
        /\ \A b \in zug.rounds[r].quorum_votes : IsQuorum(zug, VotedBy(zug, r, b))

\* Every quorum is memoized, however it came about, unless it needs a validator
\* that is only known to be faulty from an earlier era (mark_faulty does not
\* look for new quorums).
QuorumsNoticed ==
    Ongoing /\ (\A v \in Validators : zug.faults[v] # "Indirect") =>
        \A r \in zug.first_non_finalized .. LastRound + 1 :
            /\ \A p \in Echoed(zug, r) :
                IsQuorum(zug, EchoedBy(zug, r, p)) => zug.rounds[r].quorum_echoes # {}
            /\ \A b \in BOOLEAN :
                IsQuorum(zug, VotedBy(zug, r, b)) => zug.rounds[r].quorum_votes # {}

Dirty(r) == zug.dirty # NoRound /\ zug.dirty <= r

HeardFromActive(r) ==
    \A inactive \in ProposalIn(zug, r).inactive, v \in Validators :
        v \in inactive \/ zug.active[v] # NoRound

\* No progress is missed: a round up to the current one whose proposal can be
\* accepted or finalized is marked for the next update, given that we have heard
\* from all validators that the proposal calls active (add_content, "Mark all
\* relevant rounds as dirty").
RipeRoundsDirty ==
    Ongoing =>
        \A r \in 0 .. zug.current_round :
            /\ Acceptable(zug, r) /\ HeardFromActive(r) => Dirty(r)
            /\ Accepted(zug, r) /\ Committed(zug, r) =>
                    Dirty(r) \/ r < zug.first_non_finalized

\* The current round is "the lowest non-skippable round without an accepted
\* value", unless it is marked for the next update.
CurrentRoundLowest ==
    Ongoing =>
        /\ \A r \in 0 .. zug.current_round - 1 : Skippable(zug, r) \/ Accepted(zug, r)
        /\ \/ Dirty(zug.current_round)
           \/ ~Skippable(zug, zug.current_round) /\ ~Accepted(zug, zug.current_round)

\* An accepted proposal fits its parent, in time and in the validators it calls
\* inactive, however and in which order the two arrived (validate_proposal).
AcceptedFitsParent ==
    \A r \in Rounds :
        Accepted(zug, r) /\ ~zug.evidence_only => FitsParent(zug, ProposalIn(zug, r))

\* The log can be read back after every restart (open_wal, "consumes all of the
\* signed messages we've previously recorded ... and sets up the log for
\* appending future messages"), in an era without faults from earlier ones.
ReplaySucceeds == Us \in Validators => zug.write_wal \/ zug.disk.left = 0

\* The blocks of the rounds that are finalized have consecutive heights and increasing
\* rounds, and none comes after the switch block (finalize_round), given leaders that
\* propose no block after it (proposal.rs: "This must be `None` after the switch
\* block", which no handler tests).  So the rest of the node is told of blocks in
\* order, and what it is not told of are the rounds in lost_blocks, whose
\* announcements were dropped with the other outcomes of a refused message.
FinalizedInOrder ==
    LET blocks == zug.finalized
    IN  \A i \in 1 .. Len(blocks) :
            /\ blocks[i].height = i - 1
            /\ i < Len(blocks) => /\ blocks[i].round < blocks[i + 1].round
                                  /\ ~blocks[i].terminal

\* Once the switch block is finalized the instance stands still (update, "This
\* era has ended"), until it is started anew.
EndedForGood ==
    [][FinalizedSwitchBlock(zug) /\ zug'.restarts = zug.restarts =>
            /\ zug'.finalized = zug.finalized
            /\ zug'.current_round = zug.current_round]_zug

\* We know of evidence against ourselves, from a message or from the log, and from
\* the log even before we have read it.
Convicted == zug.faults[Us] = "Direct" \/ EvidenceEntry(Us) \in ToSet(zug.wal)

\* Having evidence against ourselves ("we are faulty; deactivating") we sign nothing
\* more, even if the node activates the instance again, and not after a restart
\* either if the evidence is in the log, whichever entries come before it.
SilentOnceFaulty == [][(Us \in Validators /\ Convicted) => OwnSigned' = OwnSigned]_zug

\* The next update is out of reach: its timer is among the outcomes that were dropped,
\* or it is later than the modelled clock goes.
UpdateOutOfReach ==
    \E next \in zug.next_scheduled_update :
        next \in zug.lost_timers \ zug.timers \/ next > LateMoment.time

\* "If there is no accepted proposal all correct validators will eventually vote
\* `false`": through all the early returns of schedule_update and the resets of
\* next_scheduled_update we do not get stuck in a round without having voted in it,
\* unless a refused message took the timer with it that was to wake us.
EventuallyVotes ==
    \A r \in Rounds :
        (zug.current_round = r /\ zug.active_validator /\ ~zug.paused /\ Ongoing) ~>
            \/ zug.current_round > r \/ HasVoted(zug, r, Us)
            \/ ~zug.active_validator \/ zug.paused \/ ~Ongoing
            \/ UpdateOutOfReach
=============================================================================

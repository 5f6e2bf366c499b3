---------------------------- MODULE ZugProtocol ----------------------------
(***************************************************************************)
(* What one era of the Zug consensus protocol promises, stated over the    *)
(* signatures that exist and the conclusions nodes draw from them.         *)
(*                                                                         *)
(* A validator signs echoes (for a proposal) and votes (TRUE to commit a   *)
(* round, FALSE to skip it).  Correct validators sign at most one echo and *)
(* at most one vote per round; nothing else is assumed of them.  Faulty    *)
(* ones have every signature ready from the start.  Nodes (validators or   *)
(* mere observers) see signatures in any order and at any time: a node     *)
(* notices quorums, accepts proposals, and finalizes chains of accepted    *)
(* proposals, by the rules of protocols/zug.rs.                            *)
(*                                                                         *)
(* An Option of the source is a set with at most one element.              *)
(***************************************************************************)
EXTENDS Integers

CONSTANTS
    Validators,     \* the validators of the era
    Correct,        \* those that never sign contradicting messages
    Nodes,          \* the nodes that follow the protocol instance
    Rounds,         \* round IDs
    Blocks,         \* proposed contents, the ones without a block included
    WeightOf,       \* sum_weights: the total weight of a set of validators
    Ftt             \* the fault tolerance threshold, a weight

Faulty == Validators \ Correct

\* Validators have non-negative weights and the weight of a set is the sum
\* over its members; the faulty ones weigh at most Ftt.
ASSUME ConstantsAssumption ==
    /\ Correct \subseteq Validators
    /\ Rounds \subseteq Nat
    /\ Ftt \in Nat
    /\ WeightOf \in [SUBSET Validators -> Nat]
    /\ WeightOf[{}] = 0
    /\ WeightOf[Faulty] <= Ftt

ASSUME WeightsAdd ==
    \A S, T \in SUBSET Validators :
        WeightOf[S \cup T] + WeightOf[S \cap T] = WeightOf[S] + WeightOf[T]

NoParent == -1

\* A proposal names the round of its parent; its content is opaque.
Proposals == [parent : Rounds \cup {NoParent}, block : Blocks]

\* One element of a chain: a proposal and the round it was made in.
Links == [round : Rounds, proposal : Proposals]
Link(r, p) == [round |-> r, proposal |-> p]

VARIABLES
    echoes,         \* echoes[r][v]: the proposals v has signed echoes for
    votes,          \* votes[r][v]: the votes v has signed
    faults,         \* faults[n]: the validators n knows to be faulty
    quorum_echoes,  \* quorum_echoes[n][r]: the proposal with an echo quorum
    quorum_votes,   \* quorum_votes[n][r]: the vote with a quorum
    chain,          \* chain[n][r]: the proposal accepted in r and its ancestors
    finalized       \* finalized[n]: the proposals n has finalized

vars == <<echoes, votes, faults, quorum_echoes, quorum_votes, chain, finalized>>

-----------------------------------------------------------------------------
QuorumThreshold == (WeightOf[Validators] + Ftt) \div 2

\* Known faulty validators count towards every quorum.
IsQuorum(n, S) == WeightOf[S \cup faults[n]] > QuorumThreshold

EchoedBy(r, p) == {v \in Validators : p \in echoes[r][v]}
VotedBy(r, b)  == {v \in Validators : b \in votes[r][v]}

Skippable(n, r) == FALSE \in quorum_votes[n][r]
Committed(n, r) == TRUE \in quorum_votes[n][r]
Accepted(n, r)  == chain[n][r] # {}

DoubleSigned(v) ==
    \E r \in Rounds :
        \/ \E p, q \in echoes[r][v] : p # q
        \/ votes[r][v] = {TRUE, FALSE}

-----------------------------------------------------------------------------
Init ==
    /\ echoes = [r \in Rounds |-> [v \in Validators |->
                    IF v \in Faulty THEN Proposals ELSE {}]]
    /\ votes  = [r \in Rounds |-> [v \in Validators |->
                    IF v \in Faulty THEN BOOLEAN ELSE {}]]
    /\ faults = [n \in Nodes |-> {}]
    /\ quorum_echoes = [n \in Nodes |-> [r \in Rounds |-> {}]]
    /\ quorum_votes  = [n \in Nodes |-> [r \in Rounds |-> {}]]
    /\ chain = [n \in Nodes |-> [r \in Rounds |-> {}]]
    /\ finalized = [n \in Nodes |-> {}]

\* A correct validator signs an echo, or a vote, the first time in a round.
SignEcho(v, r, p) ==
    /\ echoes[r][v] = {}
    /\ p.parent < r
    /\ echoes' = [echoes EXCEPT ![r][v] = {p}]
    /\ UNCHANGED <<votes, faults, quorum_echoes, quorum_votes, chain, finalized>>

\* Mutant: a validator votes again after having voted.
SignVoteAgain(v, r, b) ==
    /\ b \notin votes[r][v]
    /\ votes' = [votes EXCEPT ![r][v] = @ \cup {b}]
    /\ UNCHANGED <<echoes, faults, quorum_echoes, quorum_votes, chain, finalized>>

SignVote(v, r, b) ==
    /\ votes[r][v] = {}
    /\ votes' = [votes EXCEPT ![r][v] = {b}]
    /\ UNCHANGED <<echoes, faults, quorum_echoes, quorum_votes, chain, finalized>>

\* A node gets evidence against a validator: from then on it counts towards
\* every quorum.
LearnFault(n, v) ==
    /\ v \notin faults[n]
    /\ DoubleSigned(v)
    /\ faults' = [faults EXCEPT ![n] = @ \cup {v}]
    /\ UNCHANGED <<echoes, votes, quorum_echoes, quorum_votes, chain, finalized>>

\* The first proposal, or vote, a node sees a quorum for is memoized.
NoticeEchoQuorum(n, r, p) ==
    /\ quorum_echoes[n][r] = {}
    /\ IsQuorum(n, EchoedBy(r, p))
    /\ quorum_echoes' = [quorum_echoes EXCEPT ![n][r] = {p}]
    /\ UNCHANGED <<echoes, votes, faults, quorum_votes, chain, finalized>>

NoticeVoteQuorum(n, r, b) ==
    /\ quorum_votes[n][r] = {}
    /\ IsQuorum(n, VotedBy(r, b))
    /\ quorum_votes' = [quorum_votes EXCEPT ![n][r] = {b}]
    /\ UNCHANGED <<echoes, votes, faults, quorum_echoes, chain, finalized>>

\* Mutant: the rounds between the parent and r are not looked at.
AcceptableUnskipped(n, r, p) ==
    /\ p \in quorum_echoes[n][r]
    /\ p.parent < r
    /\ p.parent # NoParent => Accepted(n, p.parent)

\* Mutant: there need not be a quorum of echoes.
AcceptableUnechoed(n, r, p) ==
    /\ \E v \in Validators : p \in echoes[r][v]
    /\ p.parent < r
    /\ p.parent # NoParent => Accepted(n, p.parent)
    /\ \A s \in Rounds : p.parent < s /\ s < r => Skippable(n, s)

\* All rounds between the parent and r are skippable, and the parent, if there
\* is one, is accepted.
Acceptable(n, r, p) ==
    /\ p \in quorum_echoes[n][r]
    /\ p.parent < r
    /\ p.parent # NoParent => Accepted(n, p.parent)
    /\ \A s \in Rounds : p.parent < s /\ s < r => Skippable(n, s)

ParentChain(n, p) == IF p.parent = NoParent THEN {} ELSE chain[n][p.parent]

Accept(n, r, p) ==
    /\ ~Accepted(n, r)
    /\ Acceptable(n, r, p)
    /\ chain' = [chain EXCEPT ![n][r] = ParentChain(n, p) \cup {Link(r, p)}]
    /\ UNCHANGED <<echoes, votes, faults, quorum_echoes, quorum_votes, finalized>>

\* An accepted proposal in a committed round is finalized with its ancestors.
Finalize(n, r) ==
    /\ Accepted(n, r)
    /\ Committed(n, r)
    /\ ~(chain[n][r] \subseteq finalized[n])
    /\ finalized' = [finalized EXCEPT ![n] = @ \cup chain[n][r]]
    /\ UNCHANGED <<echoes, votes, faults, quorum_echoes, quorum_votes, chain>>

Next ==
    \/ \E v \in Correct, r \in Rounds :
        \/ \E p \in Proposals : SignEcho(v, r, p)
        \/ \E b \in BOOLEAN : SignVote(v, r, b)
    \/ \E n \in Nodes :
        \/ \E v \in Validators : LearnFault(n, v)
        \/ \E r \in Rounds :
            \/ \E p \in Proposals : NoticeEchoQuorum(n, r, p)
            \/ \E b \in BOOLEAN : NoticeVoteQuorum(n, r, b)
            \/ \E p \in Proposals : Accept(n, r, p)
            \/ Finalize(n, r)

Spec == Init /\ [][Next]_vars

-----------------------------------------------------------------------------
(***************************************************************************)
(* Properties.                                                             *)
(***************************************************************************)

TypeOK ==
    /\ echoes \in [Rounds -> [Validators -> SUBSET Proposals]]
    /\ votes \in [Rounds -> [Validators -> SUBSET BOOLEAN]]
    /\ faults \in [Nodes -> SUBSET Validators]
    /\ quorum_echoes \in [Nodes -> [Rounds -> SUBSET Proposals]]
    /\ quorum_votes \in [Nodes -> [Rounds -> SUBSET BOOLEAN]]
    /\ chain \in [Nodes -> [Rounds -> SUBSET Links]]
    /\ finalized \in [Nodes -> SUBSET Links]

\* Agreement (zug.rs, "no two conflicting blocks can become finalized"): of any
\* two nodes, each has finalized everything the other one has finalized up to
\* any round in which it has finalized a proposal itself.
Agreement ==
    \A n, m \in Nodes : \A x \in finalized[n], y \in finalized[m] :
        x.round <= y.round => x \in finalized[m]

\* What two nodes accept in a round is the same proposal, with the same ancestors
\* (zug.rs, "at most one proposal can get `Echo`s signed by a quorum"), although they
\* see different messages of faulty validators and count them towards the quorum from
\* different moments on.
SameChains ==
    \A n, m \in Nodes, r \in Rounds :
        Accepted(n, r) /\ Accepted(m, r) => chain[n][r] = chain[m][r]

\* A round is never committed in the eyes of one node and skippable in the
\* eyes of another (zug.rs, "a round can be either committed or skippable but
\* not both").
CommittedNotSkippable ==
    \A n, m \in Nodes, r \in Rounds : ~(Committed(n, r) /\ Skippable(m, r))

\* Finalization only appends (finalize_round outputs blocks in chain order):
\* a node never finalizes a proposal of a round at or below one it already
\* finalized.
FinalizeAppends ==
    [][\A n \in Nodes : \A x \in finalized[n], y \in finalized'[n] \ finalized[n] :
            x.round < y.round]_vars

=============================================================================

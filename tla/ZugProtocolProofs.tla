-------------------------- MODULE ZugProtocolProofs --------------------------
(***************************************************************************)
(* Proofs that ZugProtocol agrees on one chain of finalized proposals, for *)
(* every set of validators, weights, rounds, proposals and nodes.          *)
(*                                                                         *)
(* The inductive invariant says, from the bottom up: correct validators    *)
(* sign once, so evidence is only ever found against faulty ones; what a   *)
(* node memoized is backed by a quorum of signatures; every accepted chain *)
(* is made of accepted chains; and every round below an accepted one is on *)
(* its chain or skippable.  The last part is what makes a committed round, *)
(* which no node sees as skippable, an ancestor of all that comes later.   *)
(***************************************************************************)
EXTENDS ZugProtocol, TLAPS

\* A correct validator has signed at most one echo and one vote per round.
SignOnce ==
    \A v \in Correct, r \in Rounds :
        /\ \A p, q \in echoes[r][v] : p = q
        /\ \A b, c \in votes[r][v] : b = c

\* Nodes only ever hold evidence against faulty validators.
FaultsAreFaulty == \A n \in Nodes : faults[n] \subseteq Faulty

\* A memoized quorum is a quorum of signatures.
QuorumsBacked ==
    \A n \in Nodes, r \in Rounds :
        /\ \A p \in quorum_echoes[n][r] : IsQuorum(n, EchoedBy(r, p))
        /\ \A b \in quorum_votes[n][r] : IsQuorum(n, VotedBy(r, b))

\* The top of an accepted chain has a quorum and extends its parent's chain.
ChainTop(n, r) ==
    \E p \in quorum_echoes[n][r] :
        /\ p.parent < r
        /\ p.parent # NoParent => Accepted(n, p.parent)
        /\ chain[n][r] = ParentChain(n, p) \cup {Link(r, p)}

ChainTops == \A n \in Nodes, r \in Rounds : Accepted(n, r) => ChainTop(n, r)

\* Cutting an accepted chain at one of its rounds gives that round's chain.
ChainCuts ==
    \A n \in Nodes, r \in Rounds : \A x \in chain[n][r] :
        /\ x.round <= r
        /\ chain[n][x.round] = {y \in chain[n][r] : y.round <= x.round}

\* Every round below an accepted one is skippable or on its chain.
OnChain(n, r, s) == \E x \in chain[n][r] : x.round = s

Covered ==
    \A n \in Nodes, r, s \in Rounds :
        Accepted(n, r) /\ s < r => Skippable(n, s) \/ OnChain(n, r, s)

\* What is finalized is the chain of a committed round.
FinalizedSound ==
    \A n \in Nodes : \A x \in finalized[n] : \E r \in Rounds :
        /\ Committed(n, r)
        /\ x \in chain[n][r]
        /\ chain[n][r] \subseteq finalized[n]

Inv ==
    /\ TypeOK
    /\ SignOnce
    /\ FaultsAreFaulty
    /\ QuorumsBacked
    /\ ChainTops
    /\ ChainCuts
    /\ Covered
    /\ SameChains
    /\ FinalizedSound

-----------------------------------------------------------------------------
(***************************************************************************)
(* Weights and quorums.                                                    *)
(***************************************************************************)

\* Round IDs can be compared with NoParent and with each other.
LEMMA RoundsAreInts == \A r \in Rounds : r \in Int
BY ConstantsAssumption

\* A larger set of validators weighs at least as much.
LEMMA WeightMonotone ==
    ASSUME NEW S \in SUBSET Validators, NEW T \in SUBSET Validators, S \subseteq T
    PROVE  WeightOf[S] <= WeightOf[T]
<1>1. T \ S \in SUBSET Validators /\ S \cup (T \ S) = T /\ S \cap (T \ S) = {}
  OBVIOUS
<1>2. WeightOf[T] + WeightOf[{}] = WeightOf[S] + WeightOf[T \ S]
  BY <1>1, WeightsAdd
<1>3. WeightOf[T \ S] \in Nat /\ WeightOf[S] \in Nat /\ WeightOf[T] \in Nat
  BY <1>1, ConstantsAssumption
<1> QED BY <1>2, <1>3, ConstantsAssumption

\* Any two sets heavier than the threshold share a correct validator
\* (quorum_threshold: "any two quorums have at least one correct validator in
\* common").
LEMMA QuorumsIntersect ==
    ASSUME NEW S \in SUBSET Validators, NEW T \in SUBSET Validators,
           WeightOf[S] > QuorumThreshold, WeightOf[T] > QuorumThreshold
    PROVE  \E v \in Correct : v \in S /\ v \in T
<1> SUFFICES ASSUME S \cap T \subseteq Faulty PROVE FALSE
  BY DEF Faulty
<1>1. S \cap T \in SUBSET Validators /\ S \cup T \in SUBSET Validators
      /\ Faulty \in SUBSET Validators /\ Validators \in SUBSET Validators
  BY DEF Faulty
<1>2. WeightOf[S \cap T] <= WeightOf[Faulty]
  BY <1>1, WeightMonotone
<1>3. WeightOf[S \cup T] <= WeightOf[Validators]
  BY <1>1, WeightMonotone
<1>4. WeightOf[S \cup T] + WeightOf[S \cap T] = WeightOf[S] + WeightOf[T]
  BY WeightsAdd
<1>5. /\ WeightOf[S] \in Nat /\ WeightOf[T] \in Nat /\ WeightOf[S \cap T] \in Nat
      /\ WeightOf[S \cup T] \in Nat /\ WeightOf[Validators] \in Nat
      /\ WeightOf[Faulty] \in Nat
  BY <1>1, ConstantsAssumption
<1> QED BY <1>2, <1>3, <1>4, <1>5, ConstantsAssumption DEF QuorumThreshold

\* Two nodes that see quorums see one correct validator in both.
LEMMA SharedSigner ==
    ASSUME Inv, NEW n \in Nodes, NEW m \in Nodes,
           NEW S \in SUBSET Validators, NEW T \in SUBSET Validators,
           IsQuorum(n, S), IsQuorum(m, T)
    PROVE  \E v \in Correct : v \in S /\ v \in T
<1>1. faults[n] \in SUBSET Faulty /\ faults[m] \in SUBSET Faulty
  BY DEF Inv, FaultsAreFaulty
<1>2. S \cup faults[n] \in SUBSET Validators /\ T \cup faults[m] \in SUBSET Validators
  BY <1>1 DEF Faulty
<1>3. \E v \in Correct : v \in S \cup faults[n] /\ v \in T \cup faults[m]
  BY <1>2, QuorumsIntersect DEF IsQuorum
<1> QED BY <1>1, <1>3 DEF Faulty

\* All nodes memoize the same proposal and the same vote for a round.
LEMMA SameQuorums ==
    ASSUME Inv, NEW n \in Nodes, NEW m \in Nodes, NEW r \in Rounds
    PROVE  /\ \A p \in quorum_echoes[n][r], q \in quorum_echoes[m][r] : p = q
           /\ \A b \in quorum_votes[n][r], c \in quorum_votes[m][r] : b = c
<1>1. ASSUME NEW p \in quorum_echoes[n][r], NEW q \in quorum_echoes[m][r]
      PROVE  p = q
  <2>1. IsQuorum(n, EchoedBy(r, p)) /\ IsQuorum(m, EchoedBy(r, q))
    BY <1>1 DEF Inv, QuorumsBacked
  <2>2. EchoedBy(r, p) \in SUBSET Validators /\ EchoedBy(r, q) \in SUBSET Validators
    BY DEF EchoedBy
  <2>3. PICK v \in Correct : v \in EchoedBy(r, p) /\ v \in EchoedBy(r, q)
    BY <2>1, <2>2, SharedSigner
  <2> QED BY <2>3 DEF EchoedBy, Inv, SignOnce
<1>2. ASSUME NEW b \in quorum_votes[n][r], NEW c \in quorum_votes[m][r]
      PROVE  b = c
  <2>1. IsQuorum(n, VotedBy(r, b)) /\ IsQuorum(m, VotedBy(r, c))
    BY <1>2 DEF Inv, QuorumsBacked
  <2>2. VotedBy(r, b) \in SUBSET Validators /\ VotedBy(r, c) \in SUBSET Validators
    BY DEF VotedBy
  <2>3. PICK v \in Correct : v \in VotedBy(r, b) /\ v \in VotedBy(r, c)
    BY <2>1, <2>2, SharedSigner
  <2> QED BY <2>3 DEF VotedBy, Inv, SignOnce
<1> QED BY <1>1, <1>2

-----------------------------------------------------------------------------
(***************************************************************************)
(* Type correctness.                                                       *)
(***************************************************************************)

\* Steps of the protocol keep every variable in its type.
LEMMA TypeStep == TypeOK /\ [Next]_vars => TypeOK'
<1> SUFFICES ASSUME TypeOK, [Next]_vars PROVE TypeOK'
  OBVIOUS
<1>1. ASSUME NEW v \in Correct, NEW r \in Rounds, NEW p \in Proposals,
             SignEcho(v, r, p)
      PROVE  TypeOK'
  BY <1>1, ConstantsAssumption DEF TypeOK, SignEcho
<1>2. ASSUME NEW v \in Correct, NEW r \in Rounds, NEW b \in BOOLEAN,
             SignVote(v, r, b)
      PROVE  TypeOK'
  BY <1>2, ConstantsAssumption DEF TypeOK, SignVote
<1>3. ASSUME NEW n \in Nodes, NEW v \in Validators, LearnFault(n, v)
      PROVE  TypeOK'
  BY <1>3 DEF TypeOK, LearnFault
<1>4. ASSUME NEW n \in Nodes, NEW r \in Rounds, NEW p \in Proposals,
             NoticeEchoQuorum(n, r, p)
      PROVE  TypeOK'
  BY <1>4 DEF TypeOK, NoticeEchoQuorum
<1>5. ASSUME NEW n \in Nodes, NEW r \in Rounds, NEW b \in BOOLEAN,
             NoticeVoteQuorum(n, r, b)
      PROVE  TypeOK'
  BY <1>5 DEF TypeOK, NoticeVoteQuorum
<1>6. ASSUME NEW n \in Nodes, NEW r \in Rounds, NEW p \in Proposals,
             Accept(n, r, p)
      PROVE  TypeOK'
  <2>1. ParentChain(n, p) \subseteq Links
    BY DEF TypeOK, ParentChain, Proposals
  <2>2. Link(r, p) \in Links
    BY DEF Link, Links
  <2> QED BY <1>6, <2>1, <2>2 DEF TypeOK, Accept
<1>7. ASSUME NEW n \in Nodes, NEW r \in Rounds, Finalize(n, r)
      PROVE  TypeOK'
  BY <1>7 DEF TypeOK, Finalize
<1>8. CASE UNCHANGED vars
  BY <1>8 DEF TypeOK, vars
<1> QED
  BY <1>1, <1>2, <1>3, <1>4, <1>5, <1>6, <1>7, <1>8 DEF Next

-----------------------------------------------------------------------------
(***************************************************************************)
(* The inductive invariant.                                                *)
(***************************************************************************)

\* Memoized quorums stay quorums: signatures and evidence are never lost.
LEMMA QuorumsGrow ==
    ASSUME Inv, TypeOK',
           \A r \in Rounds, v \in Validators :
               echoes[r][v] \subseteq echoes'[r][v] /\ votes[r][v] \subseteq votes'[r][v],
           \A n \in Nodes : faults[n] \subseteq faults'[n],
           UNCHANGED <<quorum_echoes, quorum_votes>>
    PROVE  QuorumsBacked'
<1> SUFFICES ASSUME NEW n \in Nodes, NEW r \in Rounds
             PROVE  /\ \A p \in quorum_echoes[n][r] : IsQuorum(n, EchoedBy(r, p))'
                    /\ \A b \in quorum_votes[n][r] : IsQuorum(n, VotedBy(r, b))'
  BY DEF QuorumsBacked
<1>1. faults[n] \in SUBSET Validators /\ faults'[n] \in SUBSET Validators
  BY DEF Inv, TypeOK
<1>2. ASSUME NEW S \in SUBSET Validators, NEW T \in SUBSET Validators,
             S \subseteq T, IsQuorum(n, S)
      PROVE  WeightOf[T \cup faults'[n]] > QuorumThreshold
  <2>1. S \cup faults[n] \in SUBSET Validators /\ T \cup faults'[n] \in SUBSET Validators
        /\ S \cup faults[n] \subseteq T \cup faults'[n]
    BY <1>1, <1>2
  <2>2. WeightOf[S \cup faults[n]] <= WeightOf[T \cup faults'[n]]
    BY <2>1, WeightMonotone
  <2>3. WeightOf[S \cup faults[n]] > QuorumThreshold
    BY <1>2 DEF IsQuorum
  <2>4. /\ WeightOf[S \cup faults[n]] \in Nat /\ WeightOf[T \cup faults'[n]] \in Nat
        /\ QuorumThreshold \in Int
    <3>1. WeightOf[Validators] \in Nat /\ Ftt \in Nat
      BY ConstantsAssumption
    <3> QED BY <2>1, <3>1, ConstantsAssumption DEF QuorumThreshold
  <2> QED BY <2>2, <2>3, <2>4
<1>3. ASSUME NEW p \in quorum_echoes[n][r]
      PROVE  IsQuorum(n, EchoedBy(r, p))'
  <2>1. IsQuorum(n, EchoedBy(r, p))
    BY DEF Inv, QuorumsBacked
  <2>2. EchoedBy(r, p) \subseteq EchoedBy(r, p)' /\ EchoedBy(r, p) \in SUBSET Validators
        /\ EchoedBy(r, p)' \in SUBSET Validators
    BY DEF EchoedBy
  <2> QED BY <1>2, <2>1, <2>2 DEF IsQuorum
<1>4. ASSUME NEW b \in quorum_votes[n][r]
      PROVE  IsQuorum(n, VotedBy(r, b))'
  <2>1. IsQuorum(n, VotedBy(r, b))
    BY DEF Inv, QuorumsBacked
  <2>2. VotedBy(r, b) \subseteq VotedBy(r, b)' /\ VotedBy(r, b) \in SUBSET Validators
        /\ VotedBy(r, b)' \in SUBSET Validators
    BY DEF VotedBy
  <2> QED BY <1>2, <2>1, <2>2 DEF IsQuorum
<1> QED BY <1>3, <1>4

\* The parts of the invariant about chains only depend on what nodes memoized.
ChainInv == ChainTops /\ ChainCuts /\ Covered /\ SameChains /\ FinalizedSound

\* Noticing a further quorum keeps the chains in order.
LEMMA ChainsKept ==
    ASSUME Inv,
           \A n \in Nodes, r \in Rounds :
               /\ quorum_echoes[n][r] \subseteq quorum_echoes'[n][r]
               /\ quorum_votes[n][r] \subseteq quorum_votes'[n][r],
           UNCHANGED chain
    PROVE  ChainTops' /\ ChainCuts' /\ Covered' /\ SameChains'
<1>1. ChainTops'
  <2> SUFFICES ASSUME NEW n \in Nodes, NEW r \in Rounds, Accepted(n, r)
               PROVE  ChainTop(n, r)'
    BY DEF ChainTops, Accepted
  <2>1. PICK p \in quorum_echoes[n][r] :
            /\ p.parent < r
            /\ p.parent # NoParent => Accepted(n, p.parent)
            /\ chain[n][r] = ParentChain(n, p) \cup {Link(r, p)}
    BY DEF Inv, ChainTops, ChainTop
  <2> QED BY <2>1 DEF ChainTop, Accepted, ParentChain
<1>2. ChainCuts' /\ SameChains'
  BY DEF Inv, ChainCuts, SameChains, Accepted
<1>3. Covered'
  <2> SUFFICES ASSUME NEW n \in Nodes, NEW r \in Rounds, NEW s \in Rounds,
                      Accepted(n, r), s < r
               PROVE  Skippable(n, s)' \/ OnChain(n, r, s)'
    BY DEF Covered, Accepted
  <2>1. Skippable(n, s) \/ OnChain(n, r, s)
    BY Zenon DEF Inv, Covered
  <2>2. Skippable(n, s) => Skippable(n, s)'
    BY DEF Skippable
  <2>3. OnChain(n, r, s) => OnChain(n, r, s)'
    BY DEF OnChain
  <2> QED BY <2>1, <2>2, <2>3
<1> QED BY <1>1, <1>2, <1>3

\* The same for the steps that memoize a quorum (check_new_echo_quorum and
\* check_new_vote_quorum).
LEMMA ChainsNotice ==
    ASSUME Inv,
           \A n \in Nodes, r \in Rounds :
               /\ quorum_echoes[n][r] \subseteq quorum_echoes'[n][r]
               /\ quorum_votes[n][r] \subseteq quorum_votes'[n][r],
           UNCHANGED <<chain, finalized>>
    PROVE  ChainInv'
<1>1. ChainTops' /\ ChainCuts' /\ Covered' /\ SameChains'
  BY ChainsKept
<1>2. FinalizedSound'
  BY DEF Inv, FinalizedSound, Committed
<1> QED BY <1>1, <1>2 DEF ChainInv

\* Accepting a proposal adds one chain, on top of its parent's, to a node.
LEMMA ChainsAccept ==
    ASSUME Inv, TypeOK', NEW n \in Nodes, NEW r \in Rounds, NEW p \in Proposals,
           Accept(n, r, p)
    PROVE  ChainInv'
<1> DEFINE C == ParentChain(n, p)
<1>1. /\ chain'[n][r] = C \cup {Link(r, p)}
      /\ \A m \in Nodes, s \in Rounds : m # n \/ s # r => chain'[m][s] = chain[m][s]
      /\ UNCHANGED <<quorum_echoes, quorum_votes, finalized>>
      /\ chain[n][r] = {}
  BY DEF Accept, Accepted, Inv, TypeOK
<1>2. /\ p \in quorum_echoes[n][r]
      /\ p.parent < r
      /\ p.parent # NoParent => p.parent \in Rounds /\ Accepted(n, p.parent)
      /\ \A s \in Rounds : p.parent < s /\ s < r => Skippable(n, s)
  BY DEF Accept, Acceptable, Proposals
<1>3. /\ \A s \in Rounds : s \in Int /\ s > NoParent
      /\ r \in Int /\ p.parent \in Int
  <2>1. \A s \in Rounds : s \in Int /\ s > NoParent
    BY ConstantsAssumption DEF NoParent
  <2>2. p.parent \in Rounds \cup {NoParent} /\ NoParent \in Int
    BY DEF Proposals, NoParent
  <2> QED BY <2>1, <2>2
<1>4. ASSUME NEW x \in C
      PROVE  /\ p.parent # NoParent
             /\ x \in Links /\ x.round \in Rounds
             /\ x.round <= p.parent
             /\ chain[n][x.round] = {y \in C : y.round <= x.round}
  BY <1>2, <1>4 DEF ParentChain, Inv, ChainCuts, TypeOK, Links
<1>5. ParentChain(n, p)' = C
  BY <1>1, <1>2, <1>3 DEF ParentChain
<1>6. ChainTops'
  <2> SUFFICES ASSUME NEW m \in Nodes, NEW s \in Rounds, Accepted(m, s)'
               PROVE  ChainTop(m, s)'
    BY DEF ChainTops
  <2>1. CASE m = n /\ s = r
    <3>1. p.parent # NoParent => Accepted(n, p.parent)'
      BY <1>1, <1>2, <1>3 DEF Accepted
    <3> QED BY <2>1, <3>1, <1>1, <1>2, <1>5 DEF ChainTop
  <2>2. CASE m # n \/ s # r
    <3>1. PICK q \in quorum_echoes[m][s] :
              /\ q.parent < s
              /\ q.parent # NoParent => Accepted(m, q.parent)
              /\ chain[m][s] = ParentChain(m, q) \cup {Link(s, q)}
      BY <2>2, <1>1 DEF Inv, ChainTops, ChainTop, Accepted
    <3>2. q \in Proposals /\ (q.parent # NoParent => q.parent \in Rounds)
      BY DEF Inv, TypeOK, Proposals
    <3>3. q.parent # NoParent => chain'[m][q.parent] = chain[m][q.parent]
      BY <3>1, <3>2, <1>1 DEF Accepted
    <3> QED BY <2>2, <3>1, <3>3, <1>1 DEF ChainTop, Accepted, ParentChain
  <2> QED BY <2>1, <2>2
<1>7. ChainCuts'
  <2> SUFFICES ASSUME NEW m \in Nodes, NEW s \in Rounds, NEW x \in chain'[m][s]
               PROVE  /\ x.round <= s
                      /\ chain'[m][x.round] = {y \in chain'[m][s] : y.round <= x.round}
    BY DEF ChainCuts
  <2>1. CASE m # n \/ s # r
    <3>1. x \in chain[m][s] /\ chain'[m][s] = chain[m][s] /\ x.round \in Rounds
      BY <2>1, <1>1 DEF Inv, TypeOK, Links
    <3>2. x.round <= s /\ chain[m][x.round] = {y \in chain[m][s] : y.round <= x.round}
      BY <3>1 DEF Inv, ChainCuts
    <3>3. x \in chain[m][x.round]
      <4>1. \A i \in Int : i <= i
        OBVIOUS
      <4>2. x.round <= x.round
        BY <3>1, <1>3, <4>1, Zenon
      <4> QED BY <3>1, <3>2, <4>2
    <3>4. chain'[m][x.round] = chain[m][x.round]
      BY <3>1, <3>3, <1>1
    <3> QED BY <3>1, <3>2, <3>4
  <2>2. CASE m = n /\ s = r /\ x \in C
    <3>1. x.round \in Rounds /\ x.round <= p.parent /\ p.parent < r
      BY <2>2, <1>2, <1>4
    <3>2. x.round < r /\ x.round # r
      BY <3>1, <1>3
    <3>3. chain'[n][x.round] = {y \in C : y.round <= x.round}
      BY <2>2, <3>1, <3>2, <1>1, <1>4
    <3>4. Link(r, p).round = r /\ ~(r <= x.round)
      BY <3>1, <3>2, <1>3 DEF Link
    <3>5. {y \in C \cup {Link(r, p)} : y.round <= x.round} = {y \in C : y.round <= x.round}
      BY <3>4
    <3>6. x.round <= r
      <4>1. x.round \in Int
        BY <3>1, <1>3
      <4> QED BY <3>2, <4>1, <1>3
    <3> QED BY <2>2, <3>3, <3>5, <3>6, <1>1
  <2>3. CASE m = n /\ s = r /\ x \notin C
    <3>1. x = Link(r, p) /\ x.round = r /\ r <= r
      BY <2>3, <1>1, <1>3 DEF Link
    <3>2. ASSUME NEW y \in C PROVE y.round <= r
      <4>1. y.round \in Int /\ y.round <= p.parent
        BY <1>3, <1>4
      <4> QED BY <4>1, <1>2, <1>3
    <3>3. chain'[n][r] = {y \in chain'[n][r] : y.round <= r}
      BY <3>1, <3>2, <1>1
    <3> QED BY <2>3, <3>1, <3>3
  <2> QED BY <2>1, <2>2, <2>3
<1>8. Covered'
  <2> SUFFICES ASSUME NEW m \in Nodes, NEW t \in Rounds, NEW s \in Rounds,
                      Accepted(m, t)', s < t
               PROVE  Skippable(m, s)' \/ OnChain(m, t, s)'
    BY DEF Covered
  <2>1. CASE m # n \/ t # r
    <3>1. chain'[m][t] = chain[m][t] /\ quorum_votes' = quorum_votes
      BY <2>1, <1>1
    <3>2. Skippable(m, s) \/ OnChain(m, t, s)
      BY <3>1, Zenon DEF Inv, Covered, Accepted
    <3>3. Skippable(m, s) => Skippable(m, s)'
      BY <3>1 DEF Skippable
    <3>4. OnChain(m, t, s) => OnChain(m, t, s)'
      BY <3>1 DEF OnChain
    <3> QED BY <3>2, <3>3, <3>4
  <2>2. CASE m = n /\ t = r
    <3>1. CASE p.parent < s
      BY <2>2, <3>1, <1>1, <1>2 DEF Skippable
    <3>2. CASE s = p.parent
      <4>1. p.parent # NoParent /\ ChainTop(n, s)
        BY <3>2, <1>2, <1>3 DEF Inv, ChainTops
      <4>2. PICK q \in quorum_echoes[n][s] : Link(s, q) \in chain[n][s]
        BY <4>1 DEF ChainTop
      <4>3. Link(s, q) \in C /\ Link(s, q).round = s
        BY <3>2, <4>1, <4>2 DEF ParentChain, Link
      <4> QED BY <2>2, <4>3, <1>1 DEF OnChain
    <3>3. CASE s < p.parent
      <4>1. p.parent # NoParent
        BY <3>3, <1>3 DEF NoParent
      <4>2. Skippable(n, s) \/ \E x \in C : x.round = s
        BY <3>3, <4>1, <1>2 DEF Inv, Covered, ParentChain, OnChain
      <4> QED BY <2>2, <4>2, <1>1 DEF OnChain, Skippable
    <3> QED BY ConstantsAssumption, <3>1, <3>2, <3>3, <1>3
  <2> QED BY <2>1, <2>2
<1>9. SameChains'
  <2>1. ASSUME NEW m \in Nodes, m # n, Accepted(m, r)
        PROVE  chain[m][r] = C \cup {Link(r, p)}
    <3>1. PICK q \in quorum_echoes[m][r] :
              /\ q.parent # NoParent => Accepted(m, q.parent)
              /\ chain[m][r] = ParentChain(m, q) \cup {Link(r, q)}
      BY <2>1 DEF Inv, ChainTops, ChainTop
    <3>2. q = p
      BY <1>2, SameQuorums
    <3>3. ParentChain(m, p) = C
      BY <3>1, <3>2, <1>2 DEF ParentChain, Inv, SameChains
    <3> QED BY <3>1, <3>2, <3>3
  <2> SUFFICES ASSUME NEW k \in Nodes, NEW m \in Nodes, NEW s \in Rounds,
                      Accepted(k, s)', Accepted(m, s)'
               PROVE  chain'[k][s] = chain'[m][s]
    BY DEF SameChains
  <2>2. CASE s # r
    BY <2>2, <1>1 DEF Inv, SameChains, Accepted
  <2>3. CASE s = r
    <3>1. ASSUME NEW i \in Nodes, Accepted(i, r)'
          PROVE  chain'[i][r] = C \cup {Link(r, p)}
      BY <2>1, <3>1, <1>1 DEF Accepted
    <3> QED BY <2>3, <3>1
  <2> QED BY <2>2, <2>3
<1>10. FinalizedSound'
  <2> SUFFICES ASSUME NEW m \in Nodes, NEW x \in finalized[m]
               PROVE  \E s \in Rounds :
                         /\ Committed(m, s)
                         /\ x \in chain'[m][s]
                         /\ chain'[m][s] \subseteq finalized[m]
    BY <1>1 DEF FinalizedSound, Committed
  <2>1. PICK s \in Rounds :
            Committed(m, s) /\ x \in chain[m][s] /\ chain[m][s] \subseteq finalized[m]
    BY DEF Inv, FinalizedSound
  <2>2. chain'[m][s] = chain[m][s]
    BY <2>1, <1>1
  <2> QED BY <2>1, <2>2
<1> QED BY <1>6, <1>7, <1>8, <1>9, <1>10 DEF ChainInv

\* Finalizing adds the chain of a committed round to a node's output.
LEMMA ChainsFinalize ==
    ASSUME Inv, NEW n \in Nodes, NEW r \in Rounds, Finalize(n, r)
    PROVE  ChainInv'
<1>0. UNCHANGED <<quorum_echoes, quorum_votes, chain>>
  BY DEF Finalize
<1>1. ChainTops' /\ ChainCuts' /\ Covered' /\ SameChains'
  BY <1>0, ChainsKept
<1>2. FinalizedSound'
  <2> SUFFICES ASSUME NEW m \in Nodes, NEW x \in finalized'[m]
               PROVE  \E s \in Rounds :
                         /\ Committed(m, s)
                         /\ x \in chain[m][s]
                         /\ chain[m][s] \subseteq finalized'[m]
    BY DEF FinalizedSound, Committed, Finalize
  <2>1. finalized[m] \subseteq finalized'[m]
        /\ (x \notin finalized[m] => m = n)
        /\ finalized'[n] = finalized[n] \cup chain[n][r]
    BY DEF Finalize, Inv, TypeOK
  <2>2. CASE x \in finalized[m]
    BY <2>1, <2>2 DEF Inv, FinalizedSound
  <2>3. CASE x \notin finalized[m]
    BY <2>1, <2>3 DEF Finalize
  <2> QED BY <2>2, <2>3
<1> QED BY <1>1, <1>2 DEF ChainInv

\* Before anything is signed by a correct validator the invariant holds.
LEMMA InvInit == Init => Inv
<1> SUFFICES ASSUME Init PROVE Inv
  OBVIOUS
<1>1. TypeOK /\ FaultsAreFaulty
  BY ConstantsAssumption DEF Init, TypeOK, FaultsAreFaulty, Faulty
<1>2. SignOnce
  BY ConstantsAssumption DEF Init, SignOnce, Faulty
<1>3. QuorumsBacked
  BY DEF Init, QuorumsBacked
<1>4. ChainTops /\ ChainCuts /\ Covered /\ SameChains /\ FinalizedSound
  BY DEF Init, ChainTops, ChainCuts, Covered, SameChains, FinalizedSound, Accepted
<1> QED BY <1>1, <1>2, <1>3, <1>4 DEF Inv

\* Correct validators keep signing once, so evidence stays limited to faulty
\* ones.
LEMMA SigningStep ==
    ASSUME Inv, [Next]_vars
    PROVE  SignOnce' /\ FaultsAreFaulty'
<1>1. ASSUME NEW v \in Correct, NEW r \in Rounds, NEW p \in Proposals,
             SignEcho(v, r, p)
      PROVE  SignOnce' /\ FaultsAreFaulty'
  <2>1. \A s \in Rounds, w \in Validators :
            echoes'[s][w] = IF s = r /\ w = v THEN {p} ELSE echoes[s][w]
    BY <1>1, ConstantsAssumption DEF SignEcho, Inv, TypeOK
  <2> QED BY <1>1, <2>1, ConstantsAssumption
          DEF SignEcho, Inv, SignOnce, FaultsAreFaulty
<1>2. ASSUME NEW v \in Correct, NEW r \in Rounds, NEW b \in BOOLEAN,
             SignVote(v, r, b)
      PROVE  SignOnce' /\ FaultsAreFaulty'
  <2>1. \A s \in Rounds, w \in Validators :
            votes'[s][w] = IF s = r /\ w = v THEN {b} ELSE votes[s][w]
    BY <1>2, ConstantsAssumption DEF SignVote, Inv, TypeOK
  <2> QED BY <1>2, <2>1, ConstantsAssumption
          DEF SignVote, Inv, SignOnce, FaultsAreFaulty
<1>3. ASSUME NEW n \in Nodes, NEW v \in Validators, LearnFault(n, v)
      PROVE  SignOnce' /\ FaultsAreFaulty'
  <2>1. v \in Faulty
    <3>1. TRUE # FALSE
      OBVIOUS
    <3> QED BY <1>3, <3>1 DEF LearnFault, DoubleSigned, Inv, SignOnce, Faulty
  <2>2. \A m \in Nodes : faults'[m] = IF m = n THEN faults[m] \cup {v} ELSE faults[m]
    BY <1>3 DEF LearnFault, Inv, TypeOK
  <2> QED BY <1>3, <2>1, <2>2 DEF LearnFault, Inv, SignOnce, FaultsAreFaulty
<1>4. CASE UNCHANGED <<echoes, votes, faults>>
  BY <1>4 DEF Inv, SignOnce, FaultsAreFaulty
<1> QED
  BY <1>1, <1>2, <1>3, <1>4
  DEF Next, vars, NoticeEchoQuorum, NoticeVoteQuorum, Accept, Finalize

\* Every step keeps the invariant: one case per action.
LEMMA InvStep == Inv /\ [Next]_vars => Inv'
<1> SUFFICES ASSUME Inv, [Next]_vars PROVE QuorumsBacked' /\ ChainInv'
  BY TypeStep, SigningStep DEF Inv, ChainInv
<1>0. TypeOK'
  BY TypeStep DEF Inv
<1>1. CASE /\ UNCHANGED <<quorum_echoes, quorum_votes, chain, finalized>>
           /\ \A r \in Rounds, v \in Validators :
                echoes[r][v] \subseteq echoes'[r][v] /\ votes[r][v] \subseteq votes'[r][v]
           /\ \A n \in Nodes : faults[n] \subseteq faults'[n]
  <2>1. QuorumsBacked'
    <3>1. UNCHANGED <<quorum_echoes, quorum_votes>>
      BY <1>1
    <3>2. \A r \in Rounds, v \in Validators :
              echoes[r][v] \subseteq echoes'[r][v] /\ votes[r][v] \subseteq votes'[r][v]
      BY <1>1
    <3>3. \A n \in Nodes : faults[n] \subseteq faults'[n]
      BY <1>1
    <3> QED BY <1>0, <3>1, <3>2, <3>3, QuorumsGrow
  <2>2. ChainInv'
    BY <1>1, ChainsNotice
  <2> QED BY <2>1, <2>2
<1>2. ASSUME NEW v \in Correct, NEW r \in Rounds, NEW p \in Proposals,
             SignEcho(v, r, p)
      PROVE  QuorumsBacked' /\ ChainInv'
  BY <1>1, <1>2 DEF SignEcho, Inv, TypeOK
<1>3. ASSUME NEW v \in Correct, NEW r \in Rounds, NEW b \in BOOLEAN,
             SignVote(v, r, b)
      PROVE  QuorumsBacked' /\ ChainInv'
  BY <1>1, <1>3 DEF SignVote, Inv, TypeOK
<1>4. ASSUME NEW n \in Nodes, NEW v \in Validators, LearnFault(n, v)
      PROVE  QuorumsBacked' /\ ChainInv'
  BY <1>1, <1>4 DEF LearnFault, Inv, TypeOK
<1>5. ASSUME NEW n \in Nodes, NEW r \in Rounds, NEW p \in Proposals,
             NoticeEchoQuorum(n, r, p)
      PROVE  QuorumsBacked' /\ ChainInv'
  <2>1. \A m \in Nodes, s \in Rounds :
            quorum_echoes'[m][s] = IF m = n /\ s = r THEN {p} ELSE quorum_echoes[m][s]
    BY <1>5 DEF NoticeEchoQuorum, Inv, TypeOK
  <2>2. UNCHANGED <<echoes, votes, faults, quorum_votes, chain, finalized>>
        /\ quorum_echoes[n][r] = {} /\ IsQuorum(n, EchoedBy(r, p))
    BY <1>5 DEF NoticeEchoQuorum
  <2>3. QuorumsBacked'
    <3>1. \A m \in Nodes, s \in Rounds : \A q :
              /\ IsQuorum(m, EchoedBy(s, q))' = IsQuorum(m, EchoedBy(s, q))
              /\ IsQuorum(m, VotedBy(s, q))' = IsQuorum(m, VotedBy(s, q))
      BY <2>2 DEF IsQuorum, EchoedBy, VotedBy
    <3> QED BY <2>1, <2>2, <3>1 DEF Inv, QuorumsBacked
  <2>4. ChainInv'
    BY <2>1, <2>2, ChainsNotice
  <2> QED BY <2>3, <2>4
<1>6. ASSUME NEW n \in Nodes, NEW r \in Rounds, NEW b \in BOOLEAN,
             NoticeVoteQuorum(n, r, b)
      PROVE  QuorumsBacked' /\ ChainInv'
  <2>1. \A m \in Nodes, s \in Rounds :
            quorum_votes'[m][s] = IF m = n /\ s = r THEN {b} ELSE quorum_votes[m][s]
    BY <1>6 DEF NoticeVoteQuorum, Inv, TypeOK
  <2>2. UNCHANGED <<echoes, votes, faults, quorum_echoes, chain, finalized>>
        /\ quorum_votes[n][r] = {} /\ IsQuorum(n, VotedBy(r, b))
    BY <1>6 DEF NoticeVoteQuorum
  <2>3. QuorumsBacked'
    <3>1. \A m \in Nodes, s \in Rounds : \A q :
              /\ IsQuorum(m, EchoedBy(s, q))' = IsQuorum(m, EchoedBy(s, q))
              /\ IsQuorum(m, VotedBy(s, q))' = IsQuorum(m, VotedBy(s, q))
      BY <2>2 DEF IsQuorum, EchoedBy, VotedBy
    <3> QED BY <2>1, <2>2, <3>1 DEF Inv, QuorumsBacked
  <2>4. ChainInv'
    BY <2>1, <2>2, ChainsNotice
  <2> QED BY <2>3, <2>4
<1>7. ASSUME NEW n \in Nodes, NEW r \in Rounds, NEW p \in Proposals,
             Accept(n, r, p)
      PROVE  QuorumsBacked' /\ ChainInv'
  BY <1>0, <1>7, QuorumsGrow, ChainsAccept DEF Accept
<1>8. ASSUME NEW n \in Nodes, NEW r \in Rounds, Finalize(n, r)
      PROVE  QuorumsBacked' /\ ChainInv'
  BY <1>0, <1>8, QuorumsGrow, ChainsFinalize DEF Finalize
<1>9. CASE UNCHANGED vars
  BY <1>1, <1>9 DEF vars
<1> QED
  BY <1>2, <1>3, <1>4, <1>5, <1>6, <1>7, <1>8, <1>9 DEF Next

\* All parts of the invariant hold in every reachable state.
THEOREM Invariance == Spec => []Inv
BY InvInit, InvStep, PTL DEF Spec

-----------------------------------------------------------------------------
(***************************************************************************)
(* Safety.                                                                 *)
(***************************************************************************)

\* No node sees as skippable a round that another sees as committed: the two
\* vote quorums would share a correct validator.
THEOREM CommittedNotSkippableHolds == Spec => []CommittedNotSkippable
<1>1. Inv => CommittedNotSkippable
  <2> SUFFICES ASSUME Inv, NEW n \in Nodes, NEW m \in Nodes, NEW r \in Rounds,
                      Committed(n, r), Skippable(m, r)
               PROVE  FALSE
    BY DEF CommittedNotSkippable
  <2>1. TRUE = FALSE
    BY SameQuorums DEF Committed, Skippable
  <2> QED BY <2>1
<1> QED BY <1>1, Invariance, PTL

\* Nodes that accept a proposal in a round accept the same one on the same chain
\* (update_accepted_proposal), for any number of nodes, each with its own view of the
\* faulty validators' messages.
THEOREM SameChainsHold == Spec => []SameChains
<1>1. Inv => SameChains
  BY DEF Inv
<1> QED BY <1>1, Invariance, PTL

\* A committed round is on every chain that is accepted above it: there, the
\* chain below is the one of the committed round.
LEMMA CommittedIsAncestor ==
    ASSUME Inv, NEW n \in Nodes, NEW m \in Nodes, NEW r \in Rounds, NEW s \in Rounds,
           Committed(n, r), Accepted(n, r), Accepted(m, s), r <= s
    PROVE  chain[n][r] = {x \in chain[m][s] : x.round <= r}
<1>1. ~Skippable(m, r)
  <2>1. SUFFICES ASSUME Skippable(m, r) PROVE TRUE = FALSE
    BY Zenon
  <2> QED BY <2>1, SameQuorums DEF Committed, Skippable
<1>2. r \in Int /\ s \in Int
  BY ConstantsAssumption
<1>3. OnChain(m, s, r)
  <2>1. CASE r < s
    BY <1>1, <2>1 DEF Inv, Covered
  <2>2. CASE r = s
    <3>1. PICK q \in quorum_echoes[m][s] : Link(s, q) \in chain[m][s]
      BY DEF Inv, ChainTops, ChainTop
    <3> QED BY <2>2, <3>1 DEF OnChain, Link
  <2> QED BY <1>2, <2>1, <2>2
<1>4. PICK x \in chain[m][s] : x.round = r
  BY <1>3 DEF OnChain
<1>5. chain[m][r] = {y \in chain[m][s] : y.round <= r}
  BY <1>4 DEF Inv, ChainCuts
<1>6. \A i \in Int : i <= i
  OBVIOUS
<1>7. x \in chain[m][r]
  BY <1>2, <1>4, <1>5, <1>6
<1>8. chain[m][r] = chain[n][r]
  BY <1>7 DEF Inv, SameChains, Accepted
<1> QED BY <1>5, <1>8

\* Of two chains of committed rounds, one is a prefix of the other.
LEMMA CommittedChains ==
    ASSUME Inv, NEW n \in Nodes, NEW m \in Nodes, NEW r \in Rounds, NEW s \in Rounds,
           Committed(n, r), Committed(m, s),
           NEW x \in chain[n][r], NEW y \in chain[m][s], x.round <= y.round
    PROVE  x \in chain[m][s]
<1>1. Accepted(n, r) /\ Accepted(m, s)
  BY DEF Accepted
<1>2. x.round \in Int /\ y.round \in Int /\ r \in Int /\ s \in Int /\ y.round <= s
  <2>1. x \in Links /\ y \in Links /\ y.round <= s
    BY DEF Inv, TypeOK, ChainCuts
  <2>2. x.round \in Rounds /\ y.round \in Rounds
    BY <2>1 DEF Links
  <2> QED BY <2>1, <2>2, RoundsAreInts, Zenon
<1>3. CASE r <= s
  BY <1>1, <1>3, CommittedIsAncestor
<1>4. CASE s <= r
  <2>1. chain[m][s] = {z \in chain[n][r] : z.round <= s}
    BY <1>1, <1>4, CommittedIsAncestor
  <2>2. x.round <= s
    BY <1>2
  <2> QED BY <2>1, <2>2
<1> QED BY <1>2, <1>3, <1>4

\* Nodes never finalize conflicting proposals: what two nodes have finalized
\* up to a common round is the same.
THEOREM AgreementHolds == Spec => []Agreement
<1>1. Inv => Agreement
  <2> SUFFICES ASSUME Inv, NEW n \in Nodes, NEW m \in Nodes,
                      NEW x \in finalized[n], NEW y \in finalized[m],
                      x.round <= y.round
               PROVE  x \in finalized[m]
    BY DEF Agreement
  <2>1. PICK r \in Rounds : Committed(n, r) /\ x \in chain[n][r]
    BY DEF Inv, FinalizedSound
  <2>2. PICK s \in Rounds :
            Committed(m, s) /\ y \in chain[m][s] /\ chain[m][s] \subseteq finalized[m]
    BY DEF Inv, FinalizedSound
  <2> QED BY <2>1, <2>2, CommittedChains
<1> QED BY <1>1, Invariance, PTL

\* A node's finalized chain only ever grows at its upper end.
THEOREM FinalizeAppendsHolds == Spec => FinalizeAppends
<1> DEFINE Appends ==
        \A n \in Nodes : \A x \in finalized[n], y \in finalized'[n] \ finalized[n] :
            x.round < y.round
<1>1. Inv /\ [Next]_vars => [Appends]_vars
  <2> SUFFICES ASSUME Inv, Next, NEW n \in Nodes, NEW x \in finalized[n],
                      NEW y \in finalized'[n] \ finalized[n]
               PROVE  x.round < y.round
    OBVIOUS
  <2>1. PICK r \in Rounds : Finalize(n, r) /\ y \in chain[n][r]
    BY ZenonT(60) DEF Next, SignEcho, SignVote, LearnFault, NoticeEchoQuorum, NoticeVoteQuorum,
           Accept, Finalize, Inv, TypeOK
  <2>2. PICK s \in Rounds :
            Committed(n, s) /\ x \in chain[n][s] /\ chain[n][s] \subseteq finalized[n]
    BY DEF Inv, FinalizedSound
  <2>3. ~(y.round <= x.round)
    BY <2>1, <2>2, CommittedChains DEF Finalize
  <2>4. x.round \in Int /\ y.round \in Int
    <3>1. x \in Links /\ y \in Links
      BY <2>1, <2>2 DEF Inv, TypeOK
    <3>2. x.round \in Rounds /\ y.round \in Rounds
      BY <3>1 DEF Links
    <3> QED BY <3>2, RoundsAreInts, Zenon
  <2> QED BY <2>3, <2>4
<1> QED BY <1>1, Invariance, PTL DEF Spec, FinalizeAppends
=============================================================================

------------------------------- MODULE MCZug -------------------------------
(***************************************************************************)
(* Small instances of Zug.  We weigh 1, b weighs 2 and c, the faulty one,  *)
(* weighs 1, with the threshold 1: together with b either of the others is *)
(* a quorum, and we and c are none.                                        *)
(***************************************************************************)
EXTENDS Zug, TLC

MCValidators == {"us", "b", "c"}
MCWeight == ("us" :> 1) @@ ("b" :> 2) @@ ("c" :> 1)

EchoMsg(r, p, v) == SignedMsg(SignedMessage(r, Echo(p), v))
VoteMsg(r, b, v) == SignedMsg(SignedMessage(r, Vote(b), v))
LeaderMsg(r, p)  == ProposalMsg(r, p, SignedMessage(r, Echo(p), Leader[r]))

X == Proposal(0, "x", NoRound, {})
Y == Proposal(0, "y", NoRound, {})

\* Children of X in round 1: they call c active, and the second one is early.
XX    == Proposal(1, "xx", 0, {{}})
Early == Proposal(0, "xx", 0, {{}})

At(times) == [time : times, timeout : {1}]
AtOne  == At({1})
AtZeroOrOne == At({0, 1})
AtZeroOrTwo == At({0, 2})

Reliable == {[left |-> -1, keeps |-> FALSE]}
Failing  == Reliable \cup [left : {1}, keeps : BOOLEAN]

\* One round with an equivocating leader, and a peer whose message is refused after
\* a vote in it has counted.
OneRoundLeader == (0 :> "c") @@ (1 :> "us")
OneRoundNetwork ==
    {EchoMsg(0, X, "b"), LeaderMsg(0, X), LeaderMsg(0, Y), Spoilt(VoteMsg(0, FALSE, "b")),
     VoteMsg(0, FALSE, "c")}
    \cup {VoteMsg(0, b, "b") : b \in BOOLEAN}

\* Two rounds, whose leader builds on the first block or on none.  With two
\* blocks the era is at its end, and we lead the third round.  A peer's message may
\* be refused after a vote in it that finalizes the first block.
ChainLeader == (0 :> "b") @@ (1 :> "b") @@ (2 :> "us") @@ (3 :> "b")
ChainNetwork ==
    {LeaderMsg(0, X), LeaderMsg(1, XX), LeaderMsg(1, Early), LeaderMsg(1, Y),
     EvidenceMsg("c"), VoteMsg(0, FALSE, "c"), VoteMsg(1, TRUE, "c"),
     EchoMsg(2, Dummy(2, 1), "b"), VoteMsg(2, TRUE, "b"), Spoilt(VoteMsg(0, TRUE, "b"))}
    \cup {VoteMsg(r, b, "b") : r \in 0 .. 1, b \in BOOLEAN}

\* Restarts while we lead the first round and are given different blocks.  We
\* are not in Correct: another machine has our key, and there may be evidence.
\* Our block ends the era, and the next proposal has none.
Z == Proposal(1, "z", NoRound, {})
W == Proposal(1, "w", NoRound, {})
D == Dummy(1, 0)
RestartLeader == (0 :> "us") @@ (1 :> "b") @@ (2 :> "b")
RestartNetwork ==
    {EchoMsg(0, Z, "b"), EchoMsg(0, W, "b"), LeaderMsg(1, D), EvidenceMsg("us"),
     VoteMsg(0, FALSE, "b"), VoteMsg(0, TRUE, "b")}
=============================================================================

--------------------------- MODULE MCZugProtocol ---------------------------
(***************************************************************************)
(* A small instance of ZugProtocol: correct validators of weights 1 and 2, *)
(* a faulty one of weight 1, the largest threshold with n > 3 f, so that   *)
(* both correct validators, or the heavier one with the faulty one, make a *)
(* quorum.                                                                 *)
(***************************************************************************)
EXTENDS ZugProtocol, FiniteSetsExt, TLC

CONSTANTS v1, v2, f, n1, n2

MCValidators == {v1, v2, f}
MCCorrect == {v1, v2}
MCNodes == {n1, n2}
Weight == (v1 :> 1) @@ (v2 :> 2) @@ (f :> 1)
MCWeightOf ==
    [S \in SUBSET MCValidators |-> MapThenSumSet(LAMBDA v : Weight[v], S)]
MCTwoRounds == 0 .. 1

\* Nodes are interchangeable.
Symmetry == Permutations(MCNodes)
=============================================================================

----------------------------- MODULE MCGossiper -----------------------------
EXTENDS Gossiper

\* Peers differ only in whether they answer.
PeerSymmetry == Permutations(Peers \ Silent) \cup Permutations(Silent)
=============================================================================

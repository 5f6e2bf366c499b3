----------------------------- MODULE MCBlockFlow -----------------------------
EXTENDS BlockFlow

CONSTANTS us, them, nobody

\* The others decide without us.
MCWeight == (us :> 1) @@ (them :> 3)

\* Somebody who is no validator signs too.
MCSignatures == {<<1, them>>, <<2, them>>, <<2, nobody>>}
=============================================================================

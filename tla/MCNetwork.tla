------------------------------ MODULE MCNetwork ------------------------------
EXTENDS Network

CONSTANTS a1, a2, p1, p2

\* A known address at which one node takes the place of another, and a second
\* address, at which there is nobody; or one node, and ourselves.
MCNeighbourhoods ==
    {[a \in Addrs |-> IF a = a1 THEN {p} ELSE {}] : p \in {p1, p2}}
        \cup {[a \in Addrs |-> IF a = a1 THEN {p1} ELSE {Self}]}

\* One node, at the known address.
MCOneNode == {[a \in Addrs |-> IF a = a1 THEN {p1} ELSE {}]}
=============================================================================

-------------------------- MODULE ConnectionSymmetry --------------------------
(***************************************************************************)
(* Whether a peer is connected to us, we to it, or both                    *)
(* (node/src/components/network/symmetry.rs), and from which addresses it  *)
(* is connected to us.                                                     *)
(***************************************************************************)
EXTENDS FiniteSets

Symmetry(kind, peer_addrs) == [kind |-> kind, peer_addrs |-> peer_addrs]

Gone == Symmetry("Gone", {})

HasOutgoing(sym) == sym.kind \in {"OutgoingOnly", "Symmetric"}

\* add_incoming
AddIncoming(sym, addr) ==
    Symmetry(IF HasOutgoing(sym) THEN "Symmetric" ELSE "IncomingOnly", sym.peer_addrs \cup {addr})

\* remove_incoming: without an incoming connection left, the peer is gone or
\* outgoing-only.
RemoveIncoming(sym, addr) ==
    LET left == sym.peer_addrs \ {addr}
    IN  CASE sym.kind = "IncomingOnly" -> IF left = {} THEN Gone ELSE Symmetry("IncomingOnly", left)
          [] sym.kind = "Symmetric" ->
                Symmetry(IF left = {} THEN "OutgoingOnly" ELSE "Symmetric", left)
          [] OTHER -> sym

\* mark_outgoing
MarkOutgoing(sym) ==
    Symmetry(IF sym.kind \in {"Gone", "OutgoingOnly"} THEN "OutgoingOnly" ELSE "Symmetric",
             sym.peer_addrs)

\* unmark_outgoing
UnmarkOutgoing(sym) ==
    CASE sym.kind = "OutgoingOnly" -> Gone
      [] sym.kind = "Symmetric" -> Symmetry("IncomingOnly", sym.peer_addrs)
      [] OTHER -> sym

\* What remove_incoming and unmark_outgoing return for the symmetry they leave:
\* FALSE if it should be removed.
Remains(sym) == sym.kind # "Gone"
=============================================================================

--------------------------- MODULE OutgoingManager ---------------------------
(***************************************************************************)
(* The bookkeeping of one node's outgoing connections                      *)
(* (node/src/components/network/outgoing.rs): the state of every known     *)
(* address, and the routes, which say at which address a peer is reached.  *)
(*                                                                         *)
(* Each operation takes the manager and returns the manager it leaves      *)
(* together with `dial`, the addresses it asks the network to dial.  The   *)
(* handle of a connection lives in the Connected state, so that a          *)
(* DialRequest::Disconnect, which only drops the handle, shows as leaving  *)
(* that state.  Time shows only in which timers have run out.              *)
(***************************************************************************)
EXTENDS Naturals

CONSTANTS
    Addrs,              \* socket addresses
    Peers,              \* node ids of the other nodes
    NoPeer, NoAddr,     \* the missing peer and the missing route
    RetryAttempts       \* retry_attempts

ASSUME RetryAssumption == RetryAttempts \in Nat
ASSUME NoneAssumption == NoPeer \notin Peers /\ NoAddr \notin Addrs

-----------------------------------------------------------------------------
(* States of an address                                                     *)

Entry(state, failures, peer) ==
    [state |-> state, failures |-> failures, peer |-> peer, unforgettable |-> FALSE]

\* An address the manager has no entry for.
Unknown              == Entry("Unknown", 0, NoPeer)
Connecting(failures) == Entry("Connecting", failures, NoPeer)
Waiting(failures)    == Entry("Waiting", failures, NoPeer)
Connected(peer)      == Entry("Connected", 0, peer)
Blocked              == Entry("Blocked", 0, NoPeer)
Loopback             == Entry("Loopback", 0, NoPeer)

\* The state of an address changes, and whether it may be forgotten does not.
Become(entry, new) == [new EXCEPT !.unforgettable = entry.unforgettable]

\* An address fails at most once more than the manager retries it.
Outgoing ==
    [state : {"Unknown", "Connecting", "Waiting", "Connected", "Blocked", "Loopback"},
     failures : 0 .. RetryAttempts + 1, peer : Peers \cup {NoPeer}, unforgettable : BOOLEAN]

IsConnected(entry) == entry.state = "Connected"

\* The manager: the state of each address, and the address of each peer with a
\* route.
Managers ==
    [outgoing : [Addrs -> Outgoing], routes : [Peers -> Addrs \cup {NoAddr}], dial : SUBSET Addrs]

NewManager ==
    [outgoing |-> [a \in Addrs |-> Unknown], routes |-> [p \in Peers |-> NoAddr], dial |-> {}]

State(m, a) == m.outgoing[a].state

-----------------------------------------------------------------------------
(* Changing the state of an address                                         *)

\* Mutant of UpdatedRoutes: the route of a connection that was left stays.
UpdatedRoutesKept(routes, a, old, new) ==
    IF ~IsConnected(old) /\ IsConnected(new) THEN [routes EXCEPT ![new.peer] = a] ELSE routes

\* Entering and leaving Connected adds and removes the peer's route, whatever
\* address that route leads to; a connection that replaces another at the same
\* address leaves the routes alone.
UpdatedRoutes(routes, a, old, new) ==
    IF IsConnected(old)
    THEN IF IsConnected(new) THEN routes ELSE [routes EXCEPT ![old.peer] = NoAddr]
    ELSE IF IsConnected(new) THEN [routes EXCEPT ![new.peer] = a] ELSE routes

\* change_outgoing_state, with the addresses that are to be dialled after it.  A
\* new entry can be forgotten; a known one stays as forgettable as it was.
ChangeState(m, a, new, dial) ==
    [outgoing |-> [m.outgoing EXCEPT ![a] = Become(@, new)],
     routes |-> UpdatedRoutes(m.routes, a, m.outgoing[a], new),
     dial |-> m.dial \cup dial]

-----------------------------------------------------------------------------
(* Operations                                                               *)

\* learn_addr: an unknown address is dialled at once.
LearnAddr(m, a, unforgettable) ==
    IF State(m, a) # "Unknown" THEN m
    ELSE [ChangeState(m, a, Connecting(0), {a}) EXCEPT !.outgoing[a].unforgettable = unforgettable]

\* block_addr: whatever the address does, unless it is blocked already or ours.
BlockAddr(m, a) ==
    IF State(m, a) \in {"Blocked", "Loopback"} THEN m ELSE ChangeState(m, a, Blocked, {})

\* handle_dial_outcome(Successful): only a blocked address refuses.
DialSuccessful(m, a, peer) ==
    IF State(m, a) = "Blocked" THEN m ELSE ChangeState(m, a, Connected(peer), {})

\* handle_dial_outcome(Failed): only an address that is connecting takes notice.
DialFailed(m, a) ==
    IF State(m, a) # "Connecting" THEN m
    ELSE ChangeState(m, a, Waiting(m.outgoing[a].failures + 1), {})

\* handle_dial_outcome(Loopback): the address is our own, whatever it was before.
DialLoopback(m, a) == ChangeState(m, a, Loopback, {})

\* Mutant of ConnectionDrop: the address connects, but nobody dials it.
ConnectionDropUndialled(m, a) ==
    IF State(m, a) # "Connected" THEN m ELSE ChangeState(m, a, Connecting(0), {})

\* handle_connection_drop: a connected address is dialled again at once.
ConnectionDrop(m, a) ==
    IF State(m, a) # "Connected" THEN m ELSE ChangeState(m, a, Connecting(0), {a})

\* Mutant of Housekept: known addresses are given up like others.
HousekeptForgetful(entry, due) ==
    CASE entry.state = "Waiting" /\ entry.failures > RetryAttempts -> Unknown
      [] entry.state = "Waiting" /\ entry.failures <= RetryAttempts /\ due ->
            Become(entry, Connecting(entry.failures))
      [] entry.state = "Connecting" /\ due -> Become(entry, Waiting(entry.failures + 1))
      [] entry.state \in {"Blocked", "Connected"} /\ due -> Become(entry, Connecting(0))
      [] OTHER -> entry

\* Mutant of Housekept: the failures before a redial are not counted.
HousekeptAnew(entry, due) ==
    CASE entry.state = "Waiting" /\ entry.failures > RetryAttempts ->
            IF entry.unforgettable THEN Become(entry, Connecting(0)) ELSE Unknown
      [] entry.state \in {"Waiting", "Blocked", "Connected"} /\ due -> Become(entry, Connecting(0))
      [] entry.state = "Connecting" /\ due -> Become(entry, Waiting(entry.failures + 1))
      [] OTHER -> entry

\* Mutant of Housekept: one failure too many is allowed.
HousekeptPatient(entry, due) ==
    CASE entry.state = "Waiting" /\ entry.failures > RetryAttempts + 1 ->
            IF entry.unforgettable THEN Become(entry, Connecting(0)) ELSE Unknown
      [] entry.state = "Waiting" /\ entry.failures <= RetryAttempts + 1 /\ due ->
            Become(entry, Connecting(entry.failures))
      [] entry.state = "Connecting" /\ due -> Become(entry, Waiting(entry.failures + 1))
      [] entry.state \in {"Blocked", "Connected"} /\ due -> Become(entry, Connecting(0))
      [] OTHER -> entry

\* What perform_housekeeping makes of an address whose timer has run out (`due`)
\* or not: the back-off of a waiting address, the penalty of a blocked one, the
\* time to connect, or the health check that gives up after unanswered pings.
Housekept(entry, due) ==
    CASE entry.state = "Waiting" /\ entry.failures > RetryAttempts ->
            IF entry.unforgettable THEN Become(entry, Connecting(0)) ELSE Unknown
      [] entry.state = "Waiting" /\ entry.failures <= RetryAttempts /\ due ->
            Become(entry, Connecting(entry.failures))
      [] entry.state = "Connecting" /\ due -> Become(entry, Waiting(entry.failures + 1))
      [] entry.state \in {"Blocked", "Connected"} /\ due -> Become(entry, Connecting(0))
      [] OTHER -> entry

\* perform_housekeeping.  A connection that is given up is dialled again, as is
\* an address whose wait is over.  Routes are only ever removed here.
Housekeeping(m, due) ==
    LET after == [a \in Addrs |-> Housekept(m.outgoing[a], a \in due)]
    IN  [outgoing |-> after,
         routes |-> [p \in Peers |->
             IF \E a \in Addrs : m.outgoing[a].peer = p /\ ~IsConnected(after[a])
             THEN NoAddr ELSE m.routes[p]],
         dial |-> m.dial \cup
             {a \in Addrs : after[a].state = "Connecting" /\ State(m, a) # "Connecting"}]
=============================================================================

------------------------------- MODULE Network -------------------------------
(***************************************************************************)
(* The connections of one node's networking component                      *)
(* (node/src/components/network.rs): the outgoing manager, the symmetry of *)
(* the connections with each peer, and around them the tasks that dial an  *)
(* address, that write to an outgoing connection and that read from an     *)
(* incoming one.  A task ends with an event for the component, at a time   *)
(* nobody controls: a dial may end long after its address was swept,       *)
(* blocked or forgotten, and the writer of a connection we have given up   *)
(* may be stuck in the socket while the next connection is already up.     *)
(***************************************************************************)
EXTENDS OutgoingManager, ConnectionSymmetry

CONSTANTS
    KnownAddrs,         \* known_addresses of the configuration
    InAddrs,            \* addresses and ports peers connect from
    Callers,            \* the peers that connect to us
    Self,               \* our own node, when we dial our own address
    Neighbourhoods,     \* what may be at the addresses: functions to sets of nodes
    MaxIncoming,        \* max_incoming_peer_connections, 0 if there is no limit
    MaxDials,           \* bound: dials of one address under way
    MaxSenders          \* bound: writers of connections to one peer at one address

ASSUME KnownAssumption == KnownAddrs \subseteq Addrs
ASSUME SelfAssumption == Self \notin Peers /\ Callers \subseteq Peers
ASSUME NodesAssumption == Neighbourhoods \subseteq [Addrs -> SUBSET (Peers \cup {Self})]
ASSUME BoundsAssumption == {MaxIncoming, MaxSenders} \subseteq Nat /\ MaxDials \in Nat \ {0}

VARIABLES
    outgoing,       \* outgoing_manager.outgoing
    routes,         \* outgoing_manager.routes
    symmetries,     \* connection_symmetries
    dials,          \* number of connect_outgoing tasks for each address
    senders,        \* number of message_sender tasks for each address and peer
    incoming,       \* peers and addresses with a message_reader task
    nodes,          \* the nodes that answer at each address
    calm            \* whether the network has stopped misbehaving

vars == <<outgoing, routes, symmetries, dials, senders, incoming, nodes, calm>>

Manager == [outgoing |-> outgoing, routes |-> routes, dial |-> {}]

\* A peer that has no entry in connection_symmetries.
NoEntry == Symmetry("None", {})

\* The symmetry of a peer, for `entry(peer_id).or_default()`.
SymmetryOf(p) == IF symmetries[p] = NoEntry THEN Gone ELSE symmetries[p]

\* handle_incoming_closed and handle_outgoing_dropped remove the entry exactly
\* when the symmetry says that it is to remain.
Reduced(sym) == IF Remains(sym) THEN NoEntry ELSE sym

-----------------------------------------------------------------------------
(* Dial requests                                                            *)

\* process_dial_requests: a task for every address the manager wants dialled,
\* after the dials in `ended` have ended.
ProcessDialRequests(m, ended) ==
    /\ outgoing' = m.outgoing
    /\ routes' = m.routes
    /\ dials' = [a \in Addrs |-> (dials[a] - (IF a \in ended THEN 1 ELSE 0))
                                 + (IF a \in m.dial THEN 1 ELSE 0)]
    /\ \A a \in Addrs : dials'[a] <= MaxDials

-----------------------------------------------------------------------------
(* Events                                                                   *)

\* Event::PeerAddressReceived: gossip brings the address of some node.
PeerAddressReceived(a) ==
    /\ ~calm
    /\ ProcessDialRequests(LearnAddr(Manager, a, FALSE), {})
    /\ UNCHANGED <<symmetries, senders, incoming, nodes, calm>>

\* Event::IncomingConnection: peer p has connected from address i, and says that
\* it listens at a, whether or not it does.  A peer with too many connections is
\* turned away.
IncomingConnection(p, i, a) ==
    /\ p \in Callers /\ <<p, i>> \notin incoming
    /\ MaxIncoming # 0 => Cardinality(SymmetryOf(p).peer_addrs) < MaxIncoming
    /\ ProcessDialRequests(LearnAddr(Manager, a, FALSE), {})
    /\ symmetries' = [symmetries EXCEPT ![p] = AddIncoming(SymmetryOf(p), i)]
    /\ incoming' = incoming \cup {<<p, i>>}
    /\ UNCHANGED <<senders, nodes, calm>>

\* Event::IncomingClosed
IncomingClosed(p, i) ==
    /\ <<p, i>> \in incoming
    /\ incoming' = incoming \ {<<p, i>>}
    /\ symmetries' = [symmetries EXCEPT ![p] =
           IF @ = NoEntry THEN @ ELSE Reduced(RemoveIncoming(@, i))]
    /\ UNCHANGED <<outgoing, routes, dials, senders, nodes, calm>>

\* Event::OutgoingConnection, Established: the writer is started, and the peer
\* marked as one we are connected to, even if the manager refuses the connection.
OutgoingEstablished(a, p) ==
    /\ dials[a] > 0
    /\ p \in nodes[a] \cap Peers
    /\ senders[<<a, p>>] < MaxSenders
    /\ ProcessDialRequests(DialSuccessful(Manager, a, p), {a})
    /\ symmetries' = [symmetries EXCEPT ![p] = MarkOutgoing(SymmetryOf(p))]
    /\ senders' = [senders EXCEPT ![<<a, p>>] = @ + 1]
    /\ UNCHANGED <<incoming, nodes, calm>>

\* Event::OutgoingConnection, Failed or FailedEarly.  An offense (the node
\* belongs to another network) blocks the address before the failure is counted.
OutgoingFailed(a, offense) ==
    /\ dials[a] > 0
    /\ calm => nodes[a] = {} /\ ~offense
    /\ ProcessDialRequests(DialFailed(IF offense THEN BlockAddr(Manager, a) ELSE Manager, a), {a})
    /\ UNCHANGED <<symmetries, senders, incoming, nodes, calm>>

\* Event::OutgoingConnection, Loopback
OutgoingLoopback(a) ==
    /\ dials[a] > 0
    /\ Self \in nodes[a]
    /\ ProcessDialRequests(DialLoopback(Manager, a), {a})
    /\ UNCHANGED <<symmetries, senders, incoming, nodes, calm>>

\* A writer whose handle is gone: there are more than the manager holds one of.
Abandoned(a, p) ==
    senders[<<a, p>>] > (IF outgoing[a].state = "Connected" /\ outgoing[a].peer = p THEN 1 ELSE 0)

\* Event::OutgoingDropped: a writer has ended, because its handle was dropped or
\* because the connection broke.
OutgoingDropped(a, p) ==
    /\ senders[<<a, p>>] > 0
    /\ calm => Abandoned(a, p) \/ p \notin nodes[a]
    /\ ProcessDialRequests(ConnectionDrop(Manager, a), {})
    /\ senders' = [senders EXCEPT ![<<a, p>>] = @ - 1]
    /\ symmetries' = [symmetries EXCEPT ![p] =
           IF @ = NoEntry THEN @ ELSE Reduced(UnmarkOutgoing(@))]
    /\ UNCHANGED <<incoming, nodes, calm>>

\* Event::BlocklistAnnouncement: the address we reach the offender at is blocked.
BlocklistAnnouncement(p) ==
    /\ ~calm
    /\ routes[p] # NoAddr
    /\ ProcessDialRequests(BlockAddr(Manager, routes[p]), {})
    /\ UNCHANGED <<symmetries, senders, incoming, nodes, calm>>

\* Event::SweepOutgoing.  In a calm network the peers that are there answer pings.
SweepOutgoing(due) ==
    /\ calm => \A a \in due : outgoing[a].peer \notin nodes[a]
    /\ ProcessDialRequests(Housekeeping(Manager, due), {})
    /\ UNCHANGED <<symmetries, senders, incoming, nodes, calm>>

\* Nodes come, go and restart under another identity, so that another node, or
\* none, answers at an address we know or are dialling.  We keep our own.
AddressChangesHands ==
    /\ ~calm
    /\ nodes' \in Neighbourhoods
    /\ \A a \in Addrs : Self \in nodes'[a] <=> Self \in nodes[a]
    /\ UNCHANGED <<outgoing, routes, symmetries, dials, senders, incoming, calm>>

\* From here on nodes stay and answer, connections hold and no peer offends.
Settle ==
    /\ ~calm
    /\ calm' = TRUE
    /\ UNCHANGED <<outgoing, routes, symmetries, dials, senders, incoming, nodes>>

-----------------------------------------------------------------------------

\* initialize learns the known addresses, as unforgettable, and dials them.
Init ==
    /\ outgoing = [a \in Addrs |-> IF a \in KnownAddrs
                      THEN [Connecting(0) EXCEPT !.unforgettable = TRUE] ELSE Unknown]
    /\ routes = NewManager.routes
    /\ symmetries = [p \in Peers |-> NoEntry]
    /\ dials = [a \in Addrs |-> IF a \in KnownAddrs THEN 1 ELSE 0]
    /\ senders = [c \in Addrs \X Peers |-> 0]
    /\ incoming = {}
    /\ nodes \in Neighbourhoods
    /\ calm = FALSE

\* A dial ends in one of three ways.
DialEnds(a) ==
    \/ \E p \in Peers : OutgoingEstablished(a, p)
    \/ \E offense \in BOOLEAN : OutgoingFailed(a, offense)
    \/ OutgoingLoopback(a)

Next ==
    \/ \E a \in Addrs : PeerAddressReceived(a)
    \/ \E a \in Addrs : DialEnds(a)
    \/ \E p \in Peers, i \in InAddrs, a \in Addrs : IncomingConnection(p, i, a)
    \/ \E p \in Peers, i \in InAddrs : IncomingClosed(p, i)
    \/ \E a \in Addrs, p \in Peers : OutgoingDropped(a, p)
    \/ \E p \in Peers : BlocklistAnnouncement(p)
    \/ \E due \in SUBSET Addrs : SweepOutgoing(due)
    \/ AddressChangesHands
    \/ Settle

\* Dials and abandoned writers end, and the periodic sweep comes to see the
\* timer of every address run out: a timer that has run out stays so.
Fairness ==
    \A a \in Addrs :
        /\ WF_vars(DialEnds(a))
        /\ SF_vars(\E due \in SUBSET Addrs : a \in due /\ SweepOutgoing(due))
        /\ \A p \in Peers : WF_vars(Abandoned(a, p) /\ OutgoingDropped(a, p))

Spec == Init /\ [][Next]_vars /\ Fairness

-----------------------------------------------------------------------------
(* Properties                                                               *)

\* What an entry of connection_symmetries may be, or be missing.
Symmetries ==
    [kind : {"None", "Gone", "IncomingOnly", "OutgoingOnly", "Symmetric"},
     peer_addrs : SUBSET InAddrs]

TypeOK ==
    /\ Manager \in Managers
    /\ symmetries \in [Peers -> Symmetries]
    /\ dials \in [Addrs -> 0 .. MaxDials]
    /\ senders \in [Addrs \X Peers -> 0 .. MaxSenders]
    /\ incoming \subseteq Peers \X InAddrs
    /\ nodes \in Neighbourhoods
    /\ calm \in BOOLEAN

\* The route of p, if there is one, leads to a connection with p: get_route finds
\* the handle that connected_peers promises.
LeadsToPeer(p) ==
    routes[p] # NoAddr => outgoing[routes[p]].state = "Connected" /\ outgoing[routes[p]].peer = p

\* The step replaces the connection that p's route leads to by one to another peer.
Replaced(p) ==
    /\ routes[p] # NoAddr
    /\ outgoing[routes[p]].state = "Connected" /\ outgoing'[routes[p]].state = "Connected"
    /\ outgoing'[routes[p]].peer # outgoing[routes[p]].peer

\* A route stops leading to its peer in one way only: a second dial of the address
\* ends after the first and reaches another node, and change_outgoing_state leaves
\* the routes alone ("route unchanged, already connected").  No drop, block, sweep,
\* failure or loopback, and no dial of another address, does that to any peer.
RoutesKept == [][\A p \in Peers : LeadsToPeer(p) => LeadsToPeer(p)' \/ Replaced(p)]_vars

\* Every address in use has a task that will report: a connecting one a dial,
\* and a connected one the writer of a connection to that very peer.  Otherwise
\* handle_connection_drop would never be called for it.
ReportOutstanding ==
    \A a \in Addrs :
        /\ outgoing[a].state = "Connecting" => dials[a] > 0
        /\ outgoing[a].state = "Connected" => senders[<<a, outgoing[a].peer>>] > 0

\* A known address at which a node answers is connected to it again, once the network
\* is calm, whatever has happened to it: it is never given up.
KnownAddressReconnects ==
    \A a \in KnownAddrs :
        (calm /\ nodes[a] # {} /\ nodes[a] \subseteq Peers)
            ~> (outgoing[a].state = "Connected" /\ outgoing[a].peer \in nodes[a])

\* An address learned from a peer at which nobody answers is forgotten: the
\* failures add up over sweeps and redials until the retries are used up.
DeadAddressForgotten ==
    \A a \in Addrs \ KnownAddrs :
        (calm /\ nodes[a] = {}) ~> (outgoing[a].state = "Unknown")

\* "Maximum number of incoming connections per unique peer" (config.rs, on
\* max_incoming_peer_connections): no peer has more of them open, although entries
\* of connection_symmetries, which are counted, come and go while connections last.
IncomingLimited ==
    MaxIncoming # 0 =>
        \A p \in Peers : Cardinality({i \in InAddrs : <<p, i>> \in incoming}) <= MaxIncoming

=============================================================================

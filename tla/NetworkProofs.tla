--------------------------- MODULE NetworkProofs ---------------------------
(***************************************************************************)
(* For any addresses, peers and bounds: a route of the outgoing manager   *)
(* stops leading to its peer only when the connection there is replaced by *)
(* one to another peer, and every address in use has a task that will      *)
(* report on it.                                                           *)
(*                                                                         *)
(* Neither follows from the types alone: the route of a peer is removed    *)
(* with the connection of that peer only if an entry's peer is known       *)
(* exactly while it is connected (EntryOK).                                *)
(***************************************************************************)
EXTENDS Network, TLAPS

-----------------------------------------------------------------------------
(* The manager                                                              *)

\* An address has a peer exactly while it is connected, and connects only while
\* its retries are not used up.
EntryOK(entry) ==
    /\ entry \in Outgoing
    /\ entry.state = "Connecting" => entry.failures <= RetryAttempts
    /\ entry.state = "Connected" <=> entry.peer \in Peers

ManagerOK(m) ==
    /\ m \in Managers
    /\ \A a \in Addrs : EntryOK(m.outgoing[a])

\* LeadsToPeer, of a manager.
RoutedTo(m, p) ==
    m.routes[p] # NoAddr =>
        /\ IsConnected(m.outgoing[m.routes[p]])
        /\ m.outgoing[m.routes[p]].peer = p

\* No route that leads to its peer in m leads astray in n.
KeepsRoutes(m, n) == \A p \in Peers : RoutedTo(m, p) => RoutedTo(n, p)

\* An operation makes the manager n of m: it dials the addresses that begin to
\* connect, and none becomes connected but those in `reached`.
Operates(m, n, reached) ==
    /\ ManagerOK(n)
    /\ \A a \in Addrs :
           /\ State(n, a) = "Connecting" => a \in n.dial \/ State(m, a) = "Connecting"
           /\ State(n, a) = "Connected" /\ a \notin reached =>
                  /\ State(m, a) = "Connected"
                  /\ n.outgoing[a].peer = m.outgoing[a].peer

\* The states an address may be given.
LEMMA EntriesOK ==
    /\ \A failures \in 0 .. RetryAttempts : EntryOK(Connecting(failures))
    /\ \A failures \in 0 .. RetryAttempts + 1 : EntryOK(Waiting(failures))
    /\ \A peer \in Peers : EntryOK(Connected(peer))
    /\ EntryOK(Blocked) /\ EntryOK(Loopback) /\ EntryOK(Unknown)
BY RetryAssumption, NoneAssumption
   DEF EntryOK, Outgoing, Entry, Connecting, Waiting, Connected, Blocked, Loopback, Unknown

\* Whether an address may be forgotten does not matter to its state.
LEMMA BecomeOK ==
    ASSUME NEW entry \in Outgoing, NEW new, EntryOK(new)
    PROVE  /\ EntryOK(Become(entry, new))
           /\ Become(entry, new).state = new.state
           /\ Become(entry, new).failures = new.failures
           /\ Become(entry, new).peer = new.peer
BY DEF EntryOK, Become, Outgoing

\* change_outgoing_state changes one address.
LEMMA ChangeStateEffect ==
    ASSUME NEW m, ManagerOK(m), NEW a \in Addrs, NEW new, EntryOK(new), NEW dial \in SUBSET Addrs
    PROVE  LET n == ChangeState(m, a, new, dial)
           IN  /\ ManagerOK(n)
               /\ n.outgoing[a].state = new.state /\ n.outgoing[a].peer = new.peer
               /\ \A b \in Addrs \ {a} : n.outgoing[b] = m.outgoing[b]
               /\ n.routes = UpdatedRoutes(m.routes, a, m.outgoing[a], new)
               /\ n.dial = m.dial \cup dial
<1> DEFINE n == ChangeState(m, a, new, dial)
<1>1. /\ m.outgoing \in [Addrs -> Outgoing] /\ m.routes \in [Peers -> Addrs \cup {NoAddr}]
      /\ m.dial \in SUBSET Addrs
    BY DEF ManagerOK, Managers
<1>2. /\ n.outgoing = [m.outgoing EXCEPT ![a] = Become(m.outgoing[a], new)]
      /\ n.routes = UpdatedRoutes(m.routes, a, m.outgoing[a], new)
      /\ n.dial = m.dial \cup dial
    BY DEF ChangeState
<1>3. /\ EntryOK(Become(m.outgoing[a], new))
      /\ Become(m.outgoing[a], new).state = new.state
      /\ Become(m.outgoing[a], new).peer = new.peer
    BY <1>1, BecomeOK
<1>4. n.outgoing[a] = Become(m.outgoing[a], new) /\ \A b \in Addrs \ {a} : n.outgoing[b] = m.outgoing[b]
    BY <1>1, <1>2
<1>5. \A b \in Addrs : EntryOK(n.outgoing[b])
    BY <1>3, <1>4 DEF ManagerOK
<1>6. n.outgoing \in [Addrs -> Outgoing]
    BY <1>1, <1>2, <1>3 DEF EntryOK
<1>7. n.routes \in [Peers -> Addrs \cup {NoAddr}]
    <2>1. (IsConnected(m.outgoing[a]) => m.outgoing[a].peer \in Peers)
          /\ (IsConnected(new) => new.peer \in Peers)
        BY DEF ManagerOK, EntryOK, IsConnected
    <2> QED
        BY <1>1, <1>2, <2>1 DEF UpdatedRoutes
<1>8. n \in Managers
    BY <1>1, <1>2, <1>6, <1>7 DEF Managers, ChangeState
<1> QED
    BY <1>2, <1>3, <1>4, <1>5, <1>8 DEF ManagerOK

\* Routes follow the change, unless one peer takes the place of another.
LEMMA ChangeStateRouted ==
    ASSUME NEW m, ManagerOK(m), NEW a \in Addrs, NEW new, EntryOK(new), NEW dial \in SUBSET Addrs,
           NEW p \in Peers, RoutedTo(m, p),
           IsConnected(m.outgoing[a]) /\ IsConnected(new) /\ m.routes[p] = a
               => m.outgoing[a].peer = new.peer
    PROVE  RoutedTo(ChangeState(m, a, new, dial), p)
<1> DEFINE n == ChangeState(m, a, new, dial)
           old == m.outgoing[a]
<1>1. /\ n.outgoing[a].state = new.state /\ n.outgoing[a].peer = new.peer
      /\ \A b \in Addrs \ {a} : n.outgoing[b] = m.outgoing[b]
      /\ n.routes = UpdatedRoutes(m.routes, a, old, new)
    BY ChangeStateEffect
<1>2. /\ m.routes \in [Peers -> Addrs \cup {NoAddr}]
      /\ IsConnected(old) => old.peer \in Peers
      /\ IsConnected(new) => new.peer \in Peers
    BY DEF ManagerOK, Managers, EntryOK, IsConnected
<1> SUFFICES ASSUME n.routes[p] # NoAddr
             PROVE  IsConnected(n.outgoing[n.routes[p]]) /\ n.outgoing[n.routes[p]].peer = p
    BY DEF RoutedTo
<1>3. CASE IsConnected(old) /\ IsConnected(new)
    <2>1. n.routes = m.routes
        BY <1>1, <1>3 DEF UpdatedRoutes
    <2>2. IsConnected(m.outgoing[m.routes[p]]) /\ m.outgoing[m.routes[p]].peer = p
        BY <2>1 DEF RoutedTo
    <2>3. CASE n.routes[p] = a
        BY <1>1, <1>3, <2>1, <2>2, <2>3 DEF IsConnected
    <2>4. CASE n.routes[p] # a
        BY <1>1, <1>2, <2>1, <2>2, <2>4
    <2> QED
        BY <2>3, <2>4
<1>4. CASE IsConnected(old) /\ ~IsConnected(new)
    <2>1. n.routes = [m.routes EXCEPT ![old.peer] = NoAddr]
        BY <1>1, <1>4 DEF UpdatedRoutes
    <2>2. p # old.peer /\ n.routes[p] = m.routes[p]
        BY <1>2, <1>4, <2>1
    <2>3. IsConnected(m.outgoing[m.routes[p]]) /\ m.outgoing[m.routes[p]].peer = p
        BY <2>2 DEF RoutedTo
    <2>4. m.routes[p] \in Addrs \ {a}
        BY <1>2, <2>2, <2>3
    <2> QED
        BY <1>1, <2>2, <2>3, <2>4
<1>5. CASE ~IsConnected(old) /\ IsConnected(new)
    <2>1. n.routes = [m.routes EXCEPT ![new.peer] = a]
        BY <1>1, <1>5 DEF UpdatedRoutes
    <2>2. CASE p = new.peer
        BY <1>1, <1>2, <1>5, <2>1, <2>2 DEF IsConnected
    <2>3. CASE p # new.peer
        <3>1. n.routes[p] = m.routes[p]
            BY <1>2, <2>1, <2>3
        <3>2. IsConnected(m.outgoing[m.routes[p]]) /\ m.outgoing[m.routes[p]].peer = p
            BY <3>1 DEF RoutedTo
        <3>3. m.routes[p] \in Addrs \ {a}
            BY <1>2, <1>5, <3>1, <3>2
        <3> QED
            BY <1>1, <3>1, <3>2, <3>3
    <2> QED
        BY <2>2, <2>3
<1>6. CASE ~IsConnected(old) /\ ~IsConnected(new)
    <2>1. n.routes = m.routes
        BY <1>1, <1>6 DEF UpdatedRoutes
    <2>2. IsConnected(m.outgoing[m.routes[p]]) /\ m.outgoing[m.routes[p]].peer = p
        BY <2>1 DEF RoutedTo
    <2>3. m.routes[p] \in Addrs \ {a}
        BY <1>2, <1>6, <2>1, <2>2
    <2> QED
        BY <1>1, <2>1, <2>2, <2>3
<1> QED
    BY <1>3, <1>4, <1>5, <1>6

\* The operations that change at most one address, and never to connected.
LEMMA OneAddressOperates ==
    ASSUME NEW m, ManagerOK(m), NEW a \in Addrs
    PROVE  /\ \A unforgettable \in BOOLEAN : Operates(m, LearnAddr(m, a, unforgettable), {})
           /\ Operates(m, BlockAddr(m, a), {})
           /\ Operates(m, DialFailed(m, a), {}) /\ State(DialFailed(m, a), a) # "Connecting"
           /\ Operates(m, DialLoopback(m, a), {}) /\ State(DialLoopback(m, a), a) # "Connecting"
           /\ Operates(m, ConnectionDrop(m, a), {}) /\ State(ConnectionDrop(m, a), a) # "Connected"
<1>1. Operates(m, m, {})
    BY DEF Operates, State
<1>2. ASSUME NEW new, EntryOK(new), new.state # "Connected", NEW dial \in SUBSET Addrs,
             new.state = "Connecting" => a \in dial
      PROVE  /\ Operates(m, ChangeState(m, a, new, dial), {})
             /\ State(ChangeState(m, a, new, dial), a) = new.state
    <2>1. LET n == ChangeState(m, a, new, dial)
          IN  /\ ManagerOK(n)
              /\ n.outgoing[a].state = new.state
              /\ \A b \in Addrs \ {a} : n.outgoing[b] = m.outgoing[b]
              /\ n.dial = m.dial \cup dial
        BY <1>2, ChangeStateEffect
    <2> QED
        BY <1>2, <2>1 DEF Operates, State
<1>3. 0 \in 0 .. RetryAttempts
    BY RetryAssumption
<1>4. ASSUME NEW unforgettable \in BOOLEAN
      PROVE  Operates(m, LearnAddr(m, a, unforgettable), {})
    <2> DEFINE n == ChangeState(m, a, Connecting(0), {a})
               learnt == [n EXCEPT !.outgoing[a].unforgettable = unforgettable]
    <2>1. EntryOK(Connecting(0)) /\ Connecting(0).state = "Connecting"
        BY <1>3, EntriesOK DEF Connecting, Entry
    <2>2. ManagerOK(n) /\ Operates(m, n, {})
        BY <2>1, <1>2, ChangeStateEffect
    <2> HIDE DEF n
    <2>3. n \in Managers /\ n.outgoing[a] \in Outgoing
        BY <2>2 DEF ManagerOK, Managers
    <2>4. /\ learnt.routes = n.routes /\ learnt.dial = n.dial
          /\ learnt.outgoing = [n.outgoing EXCEPT ![a].unforgettable = unforgettable]
        BY <2>3 DEF Managers
    <2>5. \A b \in Addrs : /\ learnt.outgoing[b] \in Outgoing
                           /\ learnt.outgoing[b].state = n.outgoing[b].state
                           /\ learnt.outgoing[b].failures = n.outgoing[b].failures
                           /\ learnt.outgoing[b].peer = n.outgoing[b].peer
        BY <2>3, <2>4 DEF Managers, Outgoing
    <2>6. learnt.outgoing \in [Addrs -> Outgoing]
        BY <2>3, <2>4, <2>5 DEF Managers
    <2>7. learnt \in Managers
        BY <2>3, <2>4, <2>6 DEF Managers
    <2>8. ManagerOK(learnt)
        BY <2>2, <2>5, <2>7 DEF ManagerOK, EntryOK
    <2>9. Operates(m, learnt, {})
        BY <2>2, <2>4, <2>5, <2>8 DEF Operates, State
    <2> QED
        BY <2>9, <1>1 DEF LearnAddr, n
<1>5. Operates(m, BlockAddr(m, a), {})
    <2>1. EntryOK(Blocked) /\ Blocked.state = "Blocked"
        BY EntriesOK DEF Blocked, Entry
    <2> QED
        BY <2>1, <1>1, <1>2 DEF BlockAddr
<1>6. Operates(m, DialFailed(m, a), {}) /\ State(DialFailed(m, a), a) # "Connecting"
    <2>1. CASE State(m, a) # "Connecting"
        BY <2>1, <1>1 DEF DialFailed
    <2>2. CASE State(m, a) = "Connecting"
        <3> DEFINE new == Waiting(m.outgoing[a].failures + 1)
        <3>1. m.outgoing[a].failures + 1 \in 0 .. RetryAttempts + 1
            BY <2>2, RetryAssumption DEF ManagerOK, EntryOK, Outgoing, State
        <3>2. EntryOK(new) /\ new.state = "Waiting"
            BY <3>1, EntriesOK DEF Waiting, Entry
        <3> HIDE DEF new
        <3>3. Operates(m, ChangeState(m, a, new, {}), {}) /\ State(ChangeState(m, a, new, {}), a) = "Waiting"
            BY <3>2, <1>2
        <3>4. DialFailed(m, a) = ChangeState(m, a, new, {})
            BY <2>2 DEF DialFailed, new
        <3> QED
            BY <3>3, <3>4
    <2> QED
        BY <2>1, <2>2
<1>7. Operates(m, DialLoopback(m, a), {}) /\ State(DialLoopback(m, a), a) # "Connecting"
    <2>1. EntryOK(Loopback) /\ Loopback.state = "Loopback"
        BY EntriesOK DEF Loopback, Entry
    <2> QED
        BY <2>1, <1>2 DEF DialLoopback
<1>8. Operates(m, ConnectionDrop(m, a), {}) /\ State(ConnectionDrop(m, a), a) # "Connected"
    <2>1. EntryOK(Connecting(0)) /\ Connecting(0).state = "Connecting"
        BY <1>3, EntriesOK DEF Connecting, Entry
    <2>2. Operates(m, ChangeState(m, a, Connecting(0), {a}), {})
          /\ State(ChangeState(m, a, Connecting(0), {a}), a) = "Connecting"
        BY <2>1, <1>2
    <2> QED
        BY <2>2, <1>1 DEF ConnectionDrop
<1> QED
    BY <1>4, <1>5, <1>6, <1>7, <1>8

\* The same operations, and the routes.
LEMMA OneAddressRouted ==
    ASSUME NEW m, ManagerOK(m), NEW a \in Addrs
    PROVE  /\ \A unforgettable \in BOOLEAN : KeepsRoutes(m, LearnAddr(m, a, unforgettable))
           /\ KeepsRoutes(m, BlockAddr(m, a))
           /\ KeepsRoutes(m, DialFailed(m, a))
           /\ KeepsRoutes(m, DialLoopback(m, a))
           /\ KeepsRoutes(m, ConnectionDrop(m, a))
<1>1. ASSUME NEW new, EntryOK(new), new.state # "Connected", NEW dial \in SUBSET Addrs
      PROVE  KeepsRoutes(m, ChangeState(m, a, new, dial))
    BY <1>1, ChangeStateRouted DEF KeepsRoutes, IsConnected
<1>2. 0 \in 0 .. RetryAttempts
    BY RetryAssumption
<1>3. ASSUME NEW unforgettable \in BOOLEAN
      PROVE  KeepsRoutes(m, LearnAddr(m, a, unforgettable))
    <2> DEFINE n == ChangeState(m, a, Connecting(0), {a})
               learnt == [n EXCEPT !.outgoing[a].unforgettable = unforgettable]
    <2>1. EntryOK(Connecting(0)) /\ Connecting(0).state = "Connecting"
        BY <1>2, EntriesOK DEF Connecting, Entry
    <2>2. ManagerOK(n) /\ KeepsRoutes(m, n)
        BY <2>1, <1>1, ChangeStateEffect
    <2> HIDE DEF n
    <2>3. n \in Managers
        BY <2>2 DEF ManagerOK
    <2>4. /\ learnt.routes = n.routes
          /\ learnt.outgoing = [n.outgoing EXCEPT ![a].unforgettable = unforgettable]
        BY <2>3 DEF Managers
    <2>5. \A b \in Addrs : /\ learnt.outgoing[b].state = n.outgoing[b].state
                           /\ learnt.outgoing[b].peer = n.outgoing[b].peer
        BY <2>3, <2>4 DEF Managers, Outgoing
    <2>6. n.routes \in [Peers -> Addrs \cup {NoAddr}]
        BY <2>3 DEF Managers
    <2>7. KeepsRoutes(m, learnt)
        BY <2>2, <2>4, <2>5, <2>6 DEF KeepsRoutes, RoutedTo, IsConnected
    <2> QED
        BY <2>7 DEF LearnAddr, KeepsRoutes, n
<1>4. KeepsRoutes(m, BlockAddr(m, a))
    <2>1. EntryOK(Blocked) /\ Blocked.state = "Blocked"
        BY EntriesOK DEF Blocked, Entry
    <2> QED
        BY <2>1, <1>1 DEF BlockAddr, KeepsRoutes
<1>5. KeepsRoutes(m, DialFailed(m, a))
    <2>1. CASE State(m, a) # "Connecting"
        BY <2>1 DEF DialFailed, KeepsRoutes
    <2>2. CASE State(m, a) = "Connecting"
        <3> DEFINE new == Waiting(m.outgoing[a].failures + 1)
        <3>1. m.outgoing[a].failures + 1 \in 0 .. RetryAttempts + 1
            BY <2>2, RetryAssumption DEF ManagerOK, EntryOK, Outgoing, State
        <3>2. EntryOK(new) /\ new.state = "Waiting"
            BY <3>1, EntriesOK DEF Waiting, Entry
        <3> HIDE DEF new
        <3>3. KeepsRoutes(m, ChangeState(m, a, new, {}))
            BY <3>2, <1>1
        <3> QED
            BY <3>3, <2>2 DEF DialFailed, new
    <2> QED
        BY <2>1, <2>2
<1>6. KeepsRoutes(m, DialLoopback(m, a))
    <2>1. EntryOK(Loopback) /\ Loopback.state = "Loopback"
        BY EntriesOK DEF Loopback, Entry
    <2> QED
        BY <2>1, <1>1 DEF DialLoopback
<1>7. KeepsRoutes(m, ConnectionDrop(m, a))
    <2>1. EntryOK(Connecting(0)) /\ Connecting(0).state = "Connecting"
        BY <1>2, EntriesOK DEF Connecting, Entry
    <2> QED
        BY <2>1, <1>1 DEF ConnectionDrop, KeepsRoutes
<1> QED
    BY <1>3, <1>4, <1>5, <1>6, <1>7

\* A dial that succeeds.
LEMMA DialSuccessfulOperates ==
    ASSUME NEW m, ManagerOK(m), NEW a \in Addrs, NEW p \in Peers
    PROVE  /\ Operates(m, DialSuccessful(m, a, p), {a})
           /\ State(DialSuccessful(m, a, p), a) # "Connecting"
           /\ State(DialSuccessful(m, a, p), a) = "Connected" =>
                  DialSuccessful(m, a, p).outgoing[a].peer = p
           /\ \A q \in Peers : RoutedTo(m, q) =>
                  \/ RoutedTo(DialSuccessful(m, a, p), q)
                  \/ /\ m.routes[q] = a /\ State(m, a) = "Connected" /\ m.outgoing[a].peer # p
                     /\ State(DialSuccessful(m, a, p), a) = "Connected"
<1>1. CASE State(m, a) = "Blocked"
    BY <1>1 DEF DialSuccessful, Operates, State
<1>2. CASE State(m, a) # "Blocked"
    <2> DEFINE new == Connected(p)
               n == ChangeState(m, a, new, {})
    <2>1. EntryOK(new) /\ new.state = "Connected" /\ new.peer = p
        BY EntriesOK DEF Connected, Entry
    <2> HIDE DEF new
    <2>2. /\ ManagerOK(n)
          /\ n.outgoing[a].state = "Connected" /\ n.outgoing[a].peer = p
          /\ \A b \in Addrs \ {a} : n.outgoing[b] = m.outgoing[b]
          /\ n.dial = m.dial \cup {}
        <3>1. ASSUME NEW dial \in SUBSET Addrs
              PROVE  LET c == ChangeState(m, a, new, dial)
                     IN  /\ ManagerOK(c)
                         /\ c.outgoing[a].state = "Connected" /\ c.outgoing[a].peer = p
                         /\ \A b \in Addrs \ {a} : c.outgoing[b] = m.outgoing[b]
                         /\ c.dial = m.dial \cup dial
            BY <2>1, ChangeStateEffect
        <3> QED
            BY <3>1
    <2>3. ASSUME NEW q \in Peers, RoutedTo(m, q),
                 ~(m.routes[q] = a /\ State(m, a) = "Connected" /\ m.outgoing[a].peer # p)
          PROVE  RoutedTo(n, q)
        BY <2>1, <2>3, ChangeStateRouted DEF State, IsConnected
    <2>4. DialSuccessful(m, a, p) = n
        BY <1>2 DEF DialSuccessful, new
    <2> QED
        BY <2>2, <2>3, <2>4 DEF Operates, State
<1> QED
    BY <1>1, <1>2

\* perform_housekeeping, of one address.
LEMMA HousekeptOK ==
    ASSUME NEW entry, EntryOK(entry), NEW due \in BOOLEAN
    PROVE  /\ EntryOK(Housekept(entry, due))
           /\ Housekept(entry, due).state = "Connected" => Housekept(entry, due) = entry
<1>1. entry \in Outgoing
    BY DEF EntryOK
<1>2. CASE entry.state = "Waiting" /\ entry.failures > RetryAttempts
    <2>1. EntryOK(Connecting(0)) /\ Connecting(0).state = "Connecting"
        BY RetryAssumption, EntriesOK DEF Connecting, Entry
    <2>2. EntryOK(Unknown) /\ Unknown.state = "Unknown"
        BY EntriesOK DEF Unknown, Entry
    <2>3. Housekept(entry, due) = IF entry.unforgettable THEN Become(entry, Connecting(0)) ELSE Unknown
        BY <1>1, <1>2, RetryAssumption DEF Housekept, Outgoing
    <2> QED
        BY <1>1, <2>1, <2>2, <2>3, BecomeOK
<1>3. CASE entry.state = "Waiting" /\ entry.failures <= RetryAttempts /\ due
    <2>1. entry.failures \in 0 .. RetryAttempts
        BY <1>1, <1>3, RetryAssumption DEF Outgoing
    <2>2. EntryOK(Connecting(entry.failures)) /\ Connecting(entry.failures).state = "Connecting"
        BY <2>1, EntriesOK DEF Connecting, Entry
    <2>3. Housekept(entry, due) = Become(entry, Connecting(entry.failures))
        BY <2>1, <1>3, RetryAssumption DEF Housekept
    <2> QED
        BY <1>1, <2>2, <2>3, BecomeOK
<1>4. CASE entry.state = "Connecting" /\ due
    <2>1. entry.failures + 1 \in 0 .. RetryAttempts + 1
        BY <1>1, <1>4, RetryAssumption DEF EntryOK, Outgoing
    <2>2. EntryOK(Waiting(entry.failures + 1)) /\ Waiting(entry.failures + 1).state = "Waiting"
        BY <2>1, EntriesOK DEF Waiting, Entry
    <2>3. Housekept(entry, due) = Become(entry, Waiting(entry.failures + 1))
        BY <1>4 DEF Housekept
    <2> QED
        BY <1>1, <2>2, <2>3, BecomeOK
<1>5. CASE entry.state \in {"Blocked", "Connected"} /\ due
    <2>1. EntryOK(Connecting(0)) /\ Connecting(0).state = "Connecting"
        BY RetryAssumption, EntriesOK DEF Connecting, Entry
    <2>2. Housekept(entry, due) = Become(entry, Connecting(0))
        BY <1>5 DEF Housekept
    <2> QED
        BY <1>1, <2>1, <2>2, BecomeOK
<1>6. CASE /\ ~(entry.state = "Waiting" /\ entry.failures > RetryAttempts)
           /\ ~(entry.state = "Waiting" /\ entry.failures <= RetryAttempts /\ due)
           /\ ~(entry.state = "Connecting" /\ due)
           /\ ~(entry.state \in {"Blocked", "Connected"} /\ due)
    BY <1>6 DEF Housekept
<1> QED
    BY <1>2, <1>3, <1>4, <1>5, <1>6

\* perform_housekeeping
LEMMA HousekeepingOperates ==
    ASSUME NEW m, ManagerOK(m), NEW due \in SUBSET Addrs
    PROVE  /\ Operates(m, Housekeeping(m, due), {})
           /\ KeepsRoutes(m, Housekeeping(m, due))
<1> DEFINE after == [a \in Addrs |-> Housekept(m.outgoing[a], a \in due)]
           n == Housekeeping(m, due)
<1>1. /\ n.outgoing = after
      /\ n.dial = m.dial \cup {a \in Addrs : after[a].state = "Connecting" /\ State(m, a) # "Connecting"}
      /\ n.routes = [p \in Peers |->
             IF \E a \in Addrs : m.outgoing[a].peer = p /\ ~IsConnected(after[a])
             THEN NoAddr ELSE m.routes[p]]
      /\ n = [outgoing |-> n.outgoing, routes |-> n.routes, dial |-> n.dial]
    BY DEF Housekeeping
<1>2. \A a \in Addrs : /\ EntryOK(after[a])
                       /\ after[a].state = "Connected" => after[a] = m.outgoing[a]
    <2> TAKE a \in Addrs
    <2>1. EntryOK(m.outgoing[a]) /\ (a \in due) \in BOOLEAN
        BY DEF ManagerOK
    <2>2. /\ EntryOK(Housekept(m.outgoing[a], a \in due))
          /\ Housekept(m.outgoing[a], a \in due).state = "Connected"
                 => Housekept(m.outgoing[a], a \in due) = m.outgoing[a]
        BY <2>1, HousekeptOK
    <2> QED
        BY <2>2
<1>3. m.routes \in [Peers -> Addrs \cup {NoAddr}] /\ m.dial \in SUBSET Addrs
    BY DEF ManagerOK, Managers
<1>4. after \in [Addrs -> Outgoing]
    BY <1>2 DEF EntryOK
<1> HIDE DEF n, after
<1>5. n \in Managers
    BY <1>1, <1>3, <1>4 DEF Managers
<1>6. Operates(m, n, {})
    BY <1>1, <1>2, <1>5 DEF Operates, ManagerOK, State
<1>7. KeepsRoutes(m, n)
    <2> SUFFICES ASSUME NEW p \in Peers, RoutedTo(m, p), n.routes[p] # NoAddr
                 PROVE  IsConnected(n.outgoing[n.routes[p]]) /\ n.outgoing[n.routes[p]].peer = p
        BY DEF KeepsRoutes, RoutedTo
    <2>1. /\ n.routes[p] = m.routes[p]
          /\ \A a \in Addrs : m.outgoing[a].peer = p => IsConnected(after[a])
        BY <1>1
    <2>2. m.routes[p] \in Addrs /\ m.outgoing[m.routes[p]].peer = p
        BY <1>3, <2>1 DEF RoutedTo
    <2> QED
        BY <1>1, <1>2, <2>1, <2>2 DEF IsConnected
<1> QED
    BY <1>6, <1>7 DEF n

-----------------------------------------------------------------------------
(* The component                                                            *)

Inv == TypeOK /\ ManagerOK(Manager) /\ ReportOutstanding

\* What holds of the tasks once the dial requests of an operation are processed.
LEMMA ProcessKeeps ==
    ASSUME Inv, NEW m, NEW reached, Operates(Manager, m, reached),
           NEW ended \in SUBSET Addrs, \A a \in ended : dials[a] > 0,
           ProcessDialRequests(m, ended)
    PROVE  /\ ManagerOK(Manager)' /\ (Manager \in Managers)'
           /\ dials' \in [Addrs -> 0 .. MaxDials]
           /\ outgoing' = m.outgoing /\ routes' = m.routes
           /\ \A a \in Addrs \ ended : outgoing'[a].state = "Connecting" => dials'[a] > 0
           /\ \A a \in Addrs : outgoing'[a].state = "Connected" /\ a \notin reached =>
                  /\ outgoing[a].state = "Connected"
                  /\ outgoing'[a].peer = outgoing[a].peer
<1>1. /\ outgoing' = m.outgoing /\ routes' = m.routes
      /\ dials' = [a \in Addrs |-> (dials[a] - (IF a \in ended THEN 1 ELSE 0))
                                   + (IF a \in m.dial THEN 1 ELSE 0)]
      /\ \A a \in Addrs : dials'[a] <= MaxDials
    BY DEF ProcessDialRequests
<1>2. ManagerOK(m) /\ m \in Managers
    BY DEF Operates, ManagerOK
<1>3. Manager' = [outgoing |-> m.outgoing, routes |-> m.routes, dial |-> {}]
    BY <1>1 DEF Manager
<1>4. Manager' \in Managers /\ Manager'.outgoing = m.outgoing
    BY <1>2, <1>3 DEF Managers
<1>5. ManagerOK(Manager')
    BY <1>2, <1>4 DEF ManagerOK
<1>6. dials \in [Addrs -> 0 .. MaxDials] /\ MaxDials \in Nat
    BY BoundsAssumption DEF Inv, TypeOK
<1>7. \A a \in Addrs : dials'[a] \in 0 .. MaxDials
    <2> TAKE a \in Addrs
    <2>1. dials[a] \in Nat /\ (a \in ended => dials[a] > 0)
        BY <1>6
    <2>2. dials'[a] = (dials[a] - (IF a \in ended THEN 1 ELSE 0)) + (IF a \in m.dial THEN 1 ELSE 0)
        BY <1>1
    <2> QED
        BY <1>1, <1>6, <2>1, <2>2
<1>8. dials' \in [Addrs -> 0 .. MaxDials]
    BY <1>1, <1>7
<1>9. ASSUME NEW a \in Addrs \ ended, outgoing'[a].state = "Connecting"
      PROVE  dials'[a] > 0
    <2>1. a \in m.dial \/ outgoing[a].state = "Connecting"
        BY <1>1, <1>9 DEF Operates, State, Manager
    <2>2. outgoing[a].state = "Connecting" => dials[a] > 0
        BY DEF Inv, ReportOutstanding
    <2>3. dials[a] \in Nat /\ dials'[a] = dials[a] + (IF a \in m.dial THEN 1 ELSE 0)
        BY <1>1, <1>6
    <2> QED
        BY <2>1, <2>2, <2>3
<1>10. \A a \in Addrs : outgoing'[a].state = "Connected" /\ a \notin reached =>
                  /\ outgoing[a].state = "Connected"
                  /\ outgoing'[a].peer = outgoing[a].peer
    BY <1>1 DEF Operates, State, Manager
<1> QED
    BY <1>1, <1>4, <1>5, <1>8, <1>9, <1>10

\* The symmetry of a peer stays one of its kinds.
LEMMA SymmetriesOK ==
    /\ NoEntry \in Symmetries
    /\ symmetries \in [Peers -> Symmetries] => \A p \in Peers : SymmetryOf(p) \in Symmetries
    /\ \A sym \in Symmetries :
           /\ \A i \in InAddrs : AddIncoming(sym, i) \in Symmetries
           /\ \A i \in InAddrs : Reduced(RemoveIncoming(sym, i)) \in Symmetries
           /\ MarkOutgoing(sym) \in Symmetries
           /\ Reduced(UnmarkOutgoing(sym)) \in Symmetries
<1>1. NoEntry \in Symmetries /\ Gone \in Symmetries
    BY DEF NoEntry, Gone, Symmetry, Symmetries
<1>2. ASSUME NEW sym \in Symmetries
      PROVE  Reduced(sym) \in Symmetries
    BY <1>1 DEF Reduced
<1>3. ASSUME NEW sym \in Symmetries, NEW i \in InAddrs
      PROVE  AddIncoming(sym, i) \in Symmetries
    BY DEF AddIncoming, Symmetry, Symmetries
<1>4. ASSUME NEW sym \in Symmetries, NEW i \in InAddrs
      PROVE  RemoveIncoming(sym, i) \in Symmetries
    <2>1. sym.peer_addrs \ {i} \in SUBSET InAddrs
        BY DEF Symmetries
    <2> QED
        BY <2>1, <1>1 DEF RemoveIncoming, Symmetry, Symmetries
<1>5. ASSUME NEW sym \in Symmetries
      PROVE  MarkOutgoing(sym) \in Symmetries
    BY DEF MarkOutgoing, Symmetry, Symmetries
<1>6. ASSUME NEW sym \in Symmetries
      PROVE  UnmarkOutgoing(sym) \in Symmetries
    BY <1>1 DEF UnmarkOutgoing, Symmetry, Symmetries
<1> QED
    BY <1>1, <1>2, <1>3, <1>4, <1>5, <1>6 DEF SymmetryOf

\* The component starts with the known addresses being dialled.
LEMMA InitInv ==
    ASSUME Init
    PROVE  Inv
<1>1. EntryOK([Connecting(0) EXCEPT !.unforgettable = TRUE]) /\ EntryOK(Unknown)
    <2>1. EntryOK(Connecting(0)) /\ EntryOK(Unknown)
        BY EntriesOK, RetryAssumption
    <2> QED
        BY <2>1 DEF EntryOK, Outgoing
<1>2. /\ outgoing \in [Addrs -> Outgoing]
      /\ \A a \in Addrs : EntryOK(outgoing[a]) /\ outgoing[a].state # "Connected"
      /\ \A a \in Addrs : outgoing[a].state = "Connecting" => a \in KnownAddrs
    BY <1>1 DEF Init, EntryOK, Connecting, Unknown, Entry
<1>3. routes = [p \in Peers |-> NoAddr]
    BY DEF Init, NewManager
<1>4. Manager \in Managers /\ Manager.outgoing = outgoing /\ Manager.routes = routes
    BY <1>2, <1>3 DEF Manager, Managers
<1>5. ManagerOK(Manager)
    BY <1>2, <1>3, <1>4 DEF ManagerOK
<1>6. dials \in [Addrs -> 0 .. MaxDials] /\ \A a \in KnownAddrs : a \in Addrs => dials[a] > 0
    BY BoundsAssumption DEF Init
<1>7. senders \in [Addrs \X Peers -> 0 .. MaxSenders]
    BY BoundsAssumption DEF Init
<1>8. symmetries \in [Peers -> Symmetries] /\ incoming \subseteq Peers \X InAddrs
      /\ nodes \in Neighbourhoods /\ calm \in BOOLEAN
    BY SymmetriesOK DEF Init
<1>9. TypeOK
    BY <1>4, <1>6, <1>7, <1>8 DEF TypeOK
<1>10. ReportOutstanding
    BY <1>2, <1>6 DEF ReportOutstanding
<1> QED
    BY <1>5, <1>9, <1>10 DEF Inv

\* What RoutesKept says of a step.
RoutesStep == \A p \in Peers : LeadsToPeer(p) => LeadsToPeer(p)' \/ Replaced(p)

\* LeadsToPeer, in terms of the manager.
LEMMA LeadsRouted ==
    ASSUME NEW p
    PROVE  LeadsToPeer(p) <=> RoutedTo(Manager, p)
BY DEF LeadsToPeer, RoutedTo, Manager, IsConnected

\* An action that handles one event with one operation of the manager, which
\* connects to nobody, keeps the invariant if it keeps the rest in its type.
LEMMA OperationKeeps ==
    ASSUME Inv, NEW m, Operates(Manager, m, {}),
           NEW ended \in SUBSET Addrs,
           \A a \in ended : dials[a] > 0 /\ State(m, a) # "Connecting",
           ProcessDialRequests(m, ended), nodes' \in Neighbourhoods,
           senders' \in [Addrs \X Peers -> 0 .. MaxSenders],
           \A a \in Addrs : outgoing'[a].state = "Connected" =>
               senders'[<<a, outgoing'[a].peer>>] = senders[<<a, outgoing'[a].peer>>],
           symmetries' \in [Peers -> Symmetries], incoming' \subseteq Peers \X InAddrs,
           calm' \in BOOLEAN
    PROVE  Inv' /\ (KeepsRoutes(Manager, m) => RoutesStep)
<1>1. /\ ManagerOK(Manager)' /\ (Manager \in Managers)'
      /\ dials' \in [Addrs -> 0 .. MaxDials]
      /\ outgoing' = m.outgoing /\ routes' = m.routes
      /\ \A a \in Addrs \ ended : outgoing'[a].state = "Connecting" => dials'[a] > 0
      /\ \A a \in Addrs : outgoing'[a].state = "Connected" =>
             /\ outgoing[a].state = "Connected"
             /\ outgoing'[a].peer = outgoing[a].peer
    BY ProcessKeeps
<1>2. TypeOK'
    BY <1>1 DEF Inv, TypeOK
<1>3. \A a \in Addrs : outgoing'[a].state = "Connecting" => dials'[a] > 0
    BY <1>1 DEF State
<1>4. ASSUME NEW a \in Addrs, outgoing'[a].state = "Connected"
      PROVE  senders'[<<a, outgoing'[a].peer>>] > 0
    <2>1. outgoing[a].state = "Connected" /\ outgoing'[a].peer = outgoing[a].peer
        BY <1>1, <1>4
    <2>2. senders[<<a, outgoing[a].peer>>] > 0
        BY <2>1 DEF Inv, ReportOutstanding
    <2> QED
        BY <1>4, <2>1, <2>2
<1>5. ReportOutstanding'
    BY <1>3, <1>4 DEF ReportOutstanding
<1>6. \A p \in Peers : RoutedTo(m, p) => LeadsToPeer(p)'
    BY <1>1 DEF RoutedTo, LeadsToPeer, IsConnected
<1>7. KeepsRoutes(Manager, m) => RoutesStep
    BY <1>6, LeadsRouted DEF KeepsRoutes, RoutesStep
<1> QED
    BY <1>1, <1>2, <1>5, <1>7 DEF Inv

\* Every step keeps the accounts, and the routes as RoutesKept says.
LEMMA NextInv ==
    ASSUME Inv, [Next]_vars
    PROVE  Inv' /\ RoutesStep
<1>1. /\ ManagerOK(Manager) /\ Manager.dial = {} /\ Manager.outgoing = outgoing
      /\ dials \in [Addrs -> 0 .. MaxDials] /\ senders \in [Addrs \X Peers -> 0 .. MaxSenders]
      /\ symmetries \in [Peers -> Symmetries] /\ incoming \subseteq Peers \X InAddrs
      /\ nodes \in Neighbourhoods /\ calm \in BOOLEAN
    BY DEF Inv, TypeOK, Manager
<1>2. \A a \in Addrs : outgoing[a].state = "Connected" => outgoing[a].peer \in Peers
    BY <1>1 DEF ManagerOK, EntryOK
<1>3. ASSUME NEW m, Operates(Manager, m, {}), KeepsRoutes(Manager, m),
             NEW ended \in SUBSET Addrs,
             \A a \in ended : dials[a] > 0 /\ State(m, a) # "Connecting",
             ProcessDialRequests(m, ended), UNCHANGED <<senders, nodes, calm>>,
             symmetries' \in [Peers -> Symmetries], incoming' \subseteq Peers \X InAddrs
      PROVE  Inv' /\ RoutesStep
    BY <1>1, <1>3, OperationKeeps
<1>4. ASSUME NEW a \in Addrs, PeerAddressReceived(a)
      PROVE  Inv' /\ RoutesStep
    <2> DEFINE m == LearnAddr(Manager, a, FALSE)
    <2>1. Operates(Manager, m, {}) /\ KeepsRoutes(Manager, m)
        BY <1>1, OneAddressOperates, OneAddressRouted
    <2>2. ProcessDialRequests(m, {}) /\ UNCHANGED <<symmetries, senders, incoming, nodes, calm>>
        BY <1>4 DEF PeerAddressReceived
    <2> HIDE DEF m
    <2> QED
        BY <1>1, <2>1, <2>2, <1>3
<1>5. ASSUME NEW p \in Peers, NEW i \in InAddrs, NEW a \in Addrs, IncomingConnection(p, i, a)
      PROVE  Inv' /\ RoutesStep
    <2> DEFINE m == LearnAddr(Manager, a, FALSE)
    <2>1. Operates(Manager, m, {}) /\ KeepsRoutes(Manager, m)
        BY <1>1, OneAddressOperates, OneAddressRouted
    <2>2. /\ ProcessDialRequests(m, {}) /\ UNCHANGED <<senders, nodes, calm>>
          /\ symmetries' = [symmetries EXCEPT ![p] = AddIncoming(SymmetryOf(p), i)]
          /\ incoming' = incoming \cup {<<p, i>>}
        BY <1>5 DEF IncomingConnection
    <2>3. symmetries' \in [Peers -> Symmetries] /\ incoming' \subseteq Peers \X InAddrs
        <3>1. SymmetryOf(p) \in Symmetries
            BY <1>1, SymmetriesOK
        <3>2. AddIncoming(SymmetryOf(p), i) \in Symmetries
            BY <3>1, SymmetriesOK
        <3> QED
            BY <1>1, <2>2, <3>2
    <2> HIDE DEF m
    <2> QED
        BY <2>1, <2>2, <2>3, <1>3
<1>6. ASSUME NEW p \in Peers, NEW i \in InAddrs, IncomingClosed(p, i)
      PROVE  Inv' /\ RoutesStep
    <2>1. /\ UNCHANGED <<outgoing, routes, dials, senders, nodes, calm>>
          /\ incoming' = incoming \ {<<p, i>>}
          /\ symmetries' = [symmetries EXCEPT ![p] =
                 IF @ = NoEntry THEN @ ELSE Reduced(RemoveIncoming(@, i))]
        BY <1>6 DEF IncomingClosed
    <2>2. symmetries' \in [Peers -> Symmetries] /\ incoming' \subseteq Peers \X InAddrs
        BY <1>1, <2>1, SymmetriesOK
    <2>3. Manager' = Manager
        BY <2>1 DEF Manager
    <2>4. TypeOK'
        BY <2>1, <2>2, <2>3 DEF Inv, TypeOK
    <2>5. ReportOutstanding'
        BY <2>1 DEF Inv, ReportOutstanding
    <2>6. RoutesStep
        BY <2>1 DEF RoutesStep, LeadsToPeer
    <2> QED
        BY <2>3, <2>4, <2>5, <2>6 DEF Inv
<1>7. ASSUME NEW a \in Addrs, NEW p \in Peers, OutgoingEstablished(a, p)
      PROVE  Inv' /\ RoutesStep
    <2> DEFINE m == DialSuccessful(Manager, a, p)
    <2>1. /\ dials[a] > 0 /\ p \in nodes[a] /\ UNCHANGED <<incoming, nodes, calm>>
          /\ senders[<<a, p>>] < MaxSenders
          /\ senders' = [senders EXCEPT ![<<a, p>>] = @ + 1]
          /\ symmetries' = [symmetries EXCEPT ![p] = MarkOutgoing(SymmetryOf(p))]
          /\ ProcessDialRequests(m, {a})
        BY <1>7 DEF OutgoingEstablished
    <2>2. /\ Operates(Manager, m, {a})
          /\ State(m, a) # "Connecting"
          /\ State(m, a) = "Connected" => m.outgoing[a].peer = p
          /\ \A q \in Peers : RoutedTo(Manager, q) =>
                 \/ RoutedTo(m, q)
                 \/ /\ Manager.routes[q] = a /\ State(Manager, a) = "Connected"
                    /\ Manager.outgoing[a].peer # p /\ State(m, a) = "Connected"
        BY <1>1, DialSuccessfulOperates
    <2> HIDE DEF m
    <2>3. /\ ManagerOK(Manager)' /\ (Manager \in Managers)'
          /\ dials' \in [Addrs -> 0 .. MaxDials]
          /\ outgoing' = m.outgoing /\ routes' = m.routes
          /\ \A b \in Addrs \ {a} : outgoing'[b].state = "Connecting" => dials'[b] > 0
          /\ \A b \in Addrs : outgoing'[b].state = "Connected" /\ b \notin {a} =>
                 /\ outgoing[b].state = "Connected"
                 /\ outgoing'[b].peer = outgoing[b].peer
        BY <2>1, <2>2, ProcessKeeps
    <2>4. senders' \in [Addrs \X Peers -> 0 .. MaxSenders]
        BY <1>1, <2>1, BoundsAssumption
    <2>5. symmetries' \in [Peers -> Symmetries]
        BY <1>1, <2>1, SymmetriesOK
    <2>6. TypeOK'
        BY <2>1, <2>3, <2>4, <2>5 DEF Inv, TypeOK
    <2>7. \A b \in Addrs : outgoing'[b].state = "Connecting" => dials'[b] > 0
        BY <2>2, <2>3 DEF State
    <2>8. ASSUME NEW b \in Addrs, outgoing'[b].state = "Connected"
          PROVE  senders'[<<b, outgoing'[b].peer>>] > 0
        <3>1. CASE b = a
            <4>1. outgoing'[b].peer = p
                BY <2>2, <2>3, <2>8, <3>1 DEF State
            <4>2. senders[<<a, p>>] \in Nat /\ senders'[<<a, p>>] = senders[<<a, p>>] + 1
                BY <1>1, <2>1, BoundsAssumption
            <4> QED
                BY <4>1, <4>2, <3>1
        <3>2. CASE b # a
            <4>1. outgoing[b].state = "Connected" /\ outgoing'[b].peer = outgoing[b].peer
                BY <2>3, <2>8, <3>2
            <4>2. senders[<<b, outgoing[b].peer>>] > 0 /\ outgoing[b].peer \in Peers
                BY <1>2, <4>1 DEF Inv, ReportOutstanding
            <4> QED
                BY <1>1, <2>1, <3>2, <4>1, <4>2
        <3> QED
            BY <3>1, <3>2
    <2>9. ReportOutstanding'
        BY <2>7, <2>8 DEF ReportOutstanding
    <2>10. RoutesStep
        <3> SUFFICES ASSUME NEW q \in Peers, LeadsToPeer(q)
                     PROVE  LeadsToPeer(q)' \/ Replaced(q)
            BY DEF RoutesStep
        <3>1. RoutedTo(Manager, q)
            BY LeadsRouted
        <3>2. CASE RoutedTo(m, q)
            BY <2>3, <3>2 DEF RoutedTo, LeadsToPeer, IsConnected
        <3>3. CASE /\ Manager.routes[q] = a /\ State(Manager, a) = "Connected"
                   /\ Manager.outgoing[a].peer # p /\ State(m, a) = "Connected"
            BY <2>2, <2>3, <3>3, NoneAssumption DEF Replaced, State, Manager
        <3> QED
            BY <2>2, <3>1, <3>2, <3>3
    <2> QED
        BY <2>3, <2>6, <2>9, <2>10 DEF Inv
<1>8. ASSUME NEW a \in Addrs, NEW offense \in BOOLEAN, OutgoingFailed(a, offense)
      PROVE  Inv' /\ RoutesStep
    <2> DEFINE blocked == IF offense THEN BlockAddr(Manager, a) ELSE Manager
               m == DialFailed(blocked, a)
    <2>1. Operates(Manager, blocked, {}) /\ KeepsRoutes(Manager, blocked)
        <3>1. Operates(Manager, Manager, {}) /\ KeepsRoutes(Manager, Manager)
            BY <1>1 DEF Operates, KeepsRoutes
        <3> QED
            BY <1>1, <3>1, OneAddressOperates, OneAddressRouted
    <2>2. /\ dials[a] > 0 /\ ProcessDialRequests(m, {a})
          /\ UNCHANGED <<symmetries, senders, incoming, nodes, calm>>
        BY <1>8 DEF OutgoingFailed
    <2> HIDE DEF blocked
    <2>3. ManagerOK(blocked)
        BY <2>1 DEF Operates
    <2>4. /\ Operates(blocked, m, {}) /\ State(m, a) # "Connecting"
          /\ KeepsRoutes(blocked, m)
        BY <2>3, OneAddressOperates, OneAddressRouted
    <2>5. blocked.dial \subseteq m.dial
        <3>1. ASSUME NEW new
              PROVE  ChangeState(blocked, a, new, {}).dial = blocked.dial \cup {}
            BY DEF ChangeState
        <3> QED
            BY <3>1 DEF DialFailed
    <2> HIDE DEF m
    <2>6. Operates(Manager, m, {}) /\ KeepsRoutes(Manager, m)
        BY <2>1, <2>4, <2>5 DEF Operates, KeepsRoutes
    <2> QED
        BY <1>1, <2>1, <2>2, <2>4, <2>6, <1>3
<1>9. ASSUME NEW a \in Addrs, OutgoingLoopback(a)
      PROVE  Inv' /\ RoutesStep
    <2> DEFINE m == DialLoopback(Manager, a)
    <2>1. /\ Operates(Manager, m, {}) /\ State(m, a) # "Connecting"
          /\ KeepsRoutes(Manager, m)
        BY <1>1, OneAddressOperates, OneAddressRouted
    <2>2. /\ dials[a] > 0 /\ ProcessDialRequests(m, {a})
          /\ UNCHANGED <<symmetries, senders, incoming, nodes, calm>>
        BY <1>9 DEF OutgoingLoopback
    <2> HIDE DEF m
    <2> QED
        BY <1>1, <2>1, <2>2, <1>3
<1>10. ASSUME NEW a \in Addrs, NEW p \in Peers, OutgoingDropped(a, p)
       PROVE  Inv' /\ RoutesStep
    <2> DEFINE m == ConnectionDrop(Manager, a)
    <2>1. /\ Operates(Manager, m, {}) /\ State(m, a) # "Connected"
          /\ KeepsRoutes(Manager, m)
        BY <1>1, OneAddressOperates, OneAddressRouted
    <2>2. /\ senders[<<a, p>>] > 0 /\ ProcessDialRequests(m, {})
          /\ senders' = [senders EXCEPT ![<<a, p>>] = @ - 1]
          /\ symmetries' = [symmetries EXCEPT ![p] =
                 IF @ = NoEntry THEN @ ELSE Reduced(UnmarkOutgoing(@))]
          /\ UNCHANGED <<incoming, nodes, calm>>
        BY <1>10 DEF OutgoingDropped
    <2> HIDE DEF m
    <2>3. senders' \in [Addrs \X Peers -> 0 .. MaxSenders]
        BY <1>1, <2>2, BoundsAssumption
    <2>4. symmetries' \in [Peers -> Symmetries]
        BY <1>1, <2>2, SymmetriesOK
    <2>5. outgoing'[a].state # "Connected"
        BY <2>1, <2>2 DEF ProcessDialRequests, State
    <2>6. \A b \in Addrs : outgoing'[b].state = "Connected" =>
               senders'[<<b, outgoing'[b].peer>>] = senders[<<b, outgoing'[b].peer>>]
        BY <1>1, <2>2, <2>5
    <2> QED
        BY <1>1, <2>1, <2>2, <2>3, <2>4, <2>6, OperationKeeps
<1>11. ASSUME NEW p \in Peers, BlocklistAnnouncement(p)
       PROVE  Inv' /\ RoutesStep
    <2> DEFINE m == BlockAddr(Manager, routes[p])
    <2>1. routes[p] \in Addrs
        BY <1>11 DEF BlocklistAnnouncement, Inv, TypeOK, Manager, Managers
    <2>2. Operates(Manager, m, {}) /\ KeepsRoutes(Manager, m)
        BY <1>1, <2>1, OneAddressOperates, OneAddressRouted
    <2>3. ProcessDialRequests(m, {}) /\ UNCHANGED <<symmetries, senders, incoming, nodes, calm>>
        BY <1>11 DEF BlocklistAnnouncement
    <2> HIDE DEF m
    <2> QED
        BY <1>1, <2>2, <2>3, <1>3
<1>12. ASSUME NEW due \in SUBSET Addrs, SweepOutgoing(due)
       PROVE  Inv' /\ RoutesStep
    <2> DEFINE m == Housekeeping(Manager, due)
    <2>1. Operates(Manager, m, {}) /\ KeepsRoutes(Manager, m)
        BY <1>1, HousekeepingOperates
    <2>2. ProcessDialRequests(m, {}) /\ UNCHANGED <<symmetries, senders, incoming, nodes, calm>>
        BY <1>12 DEF SweepOutgoing
    <2> HIDE DEF m
    <2> QED
        BY <1>1, <2>1, <2>2, <1>3
<1>13. CASE AddressChangesHands \/ Settle \/ UNCHANGED vars
    <2>1. /\ UNCHANGED <<outgoing, routes, symmetries, dials, senders, incoming>>
          /\ nodes' \in Neighbourhoods /\ calm' \in BOOLEAN
        BY <1>1, <1>13 DEF AddressChangesHands, Settle, vars
    <2>2. Manager' = Manager
        BY <2>1 DEF Manager
    <2>3. RoutesStep
        BY <2>1 DEF RoutesStep, LeadsToPeer
    <2> QED
        BY <2>1, <2>2, <2>3 DEF Inv, TypeOK, ReportOutstanding
<1> QED
    BY <1>4, <1>5, <1>6, <1>7, <1>8, <1>9, <1>10, <1>11, <1>12, <1>13 DEF Next, DialEnds

-----------------------------------------------------------------------------
(* Theorems                                                                 *)

\* The type invariant of the component.
THEOREM TypeCorrect == Spec => []TypeOK
<1>1. Init => Inv
    BY InitInv
<1>2. Inv /\ [Next]_vars => Inv'
    BY NextInv
<1>3. Inv => TypeOK
    BY DEF Inv
<1> QED
    BY <1>1, <1>2, <1>3, PTL DEF Spec

\* Every address in use has a task that will report on it, in every reachable state:
\* whatever order dials, writers, sweeps and blocks of process_dial_requests and
\* handle_connection_drop come in, no address connects without a dial and none is
\* connected without a writer.
THEOREM ReportOutstandingHolds == Spec => []ReportOutstanding
<1>1. Init => Inv
    BY InitInv
<1>2. Inv /\ [Next]_vars => Inv'
    BY NextInv
<1>3. Inv => ReportOutstanding
    BY DEF Inv
<1> QED
    BY <1>1, <1>2, <1>3, PTL DEF Spec

\* A route stops leading to its peer only in a step in which the connection at its
\* address is replaced by one to another peer, which change_outgoing_state lets pass
\* as "route unchanged": every other operation of the manager, and every dial of
\* another address, keeps the routes of all peers and the connections in agreement.
THEOREM RoutesKeptHolds == Spec => RoutesKept
<1>1. Init => Inv
    BY InitInv
<1>2. Inv /\ [Next]_vars => Inv'
    BY NextInv
<1>3. Inv /\ [Next]_vars => [RoutesStep]_vars
    BY NextInv
<1>4. RoutesKept <=> [][RoutesStep]_vars
    BY DEF RoutesKept, RoutesStep
<1> QED
    BY <1>1, <1>2, <1>3, <1>4, PTL DEF Spec
=============================================================================

------------------------------ MODULE Gossiper ------------------------------
(***************************************************************************)
(* The gossiper component of one node (node/src/components/gossiper.rs),   *)
(* for one item, with the reactor, the network and the peers around it.    *)
(*                                                                         *)
(* What is still to happen is a bag of events: events queued in the        *)
(* reactor, timeouts that have been set, requests to the network and to    *)
(* storage, and messages that peers are to answer.  The reactor may        *)
(* deliver them in any order; each handler of the component consumes one   *)
(* event and adds the effects it returns.  The storage and the component   *)
(* that validates items are modelled by what the gossiper sees of them.    *)
(***************************************************************************)
EXTENDS GossipTable, Bags

CONSTANTS
    Kinds,              \* the values of ID_IS_COMPLETE_ITEM among the gossipers of the node
    Connected,          \* peers the network has a connection to
    Silent,             \* peers that may fail to answer
    Requesters,         \* peers that ask us for the item
    StorageFails,       \* whether storage may fail to find an item it was given
    MaxReports,         \* bound: reports of the network waiting to be handled
    MaxInputs           \* bound: times the item is gossiped or handed to us

ASSUME Kinds \subseteq BOOLEAN /\ StorageFails \in BOOLEAN
ASSUME PeersConnected ==
    Connected \subseteq Peers /\ Silent \subseteq Peers /\ Requesters \subseteq Peers
ASSUME BoundsNatural == MaxInputs \in Nat /\ MaxReports \in Nat

VARIABLES
    table,      \* the item's part of the gossip table
    stored,     \* whether storage holds the full item
    events,     \* the bag of pending events
    owed,       \* whether an item we hold has yet to be announced as finished
    inputs,     \* number of times the item was gossiped or handed to us
    small       \* ID_IS_COMPLETE_ITEM: the identifier is the item; it never changes

vars == <<table, stored, events, owed, inputs, small>>

-----------------------------------------------------------------------------
(* Events                                                                   *)

\* A request to the network to gossip to `count` peers.
GossipMessage(count, exclude) ==
    [type |-> "GossipMessage", count |-> count, exclude |-> exclude]
GossipedTo(requested, peers) ==
    [type |-> "GossipedTo", requested |-> requested, peers |-> peers]
\* A gossip message and a request for the item, which `peer` is to answer.
Gossip(peer)                  == [type |-> "Gossip", peer |-> peer]
GetItem(peer)                 == [type |-> "GetItem", peer |-> peer]
CheckGossipTimeout(peer)      == [type |-> "CheckGossipTimeout", peer |-> peer]
CheckGetFromPeerTimeout(peer) == [type |-> "CheckGetFromPeerTimeout", peer |-> peer]
CheckItemReceivedTimeout      == [type |-> "CheckItemReceivedTimeout"]
\* The full item from `peer`, on its way to the component that validates it.
ItemBody(peer)                == [type |-> "ItemBody", peer |-> peer]
ItemReceived(source)          == [type |-> "ItemReceived", source |-> source]
IsStoredResult(sender, result) ==
    [type |-> "IsStoredResult", sender |-> sender, result |-> result]
\* Storage does not find the item for `requester`.  (When it does, the item is
\* sent off and nothing of ours changes: got_from_storage.)
NotFound(requester)           == [type |-> "NotFound", requester |-> requester]

Pending(e) == BagIn(e, events)

\* An event is handled: it leaves the bag, its effects are added, and the
\* announcement of a finished item settles what is owed.
Handled(e, t, announced, effects) ==
    /\ Pending(e)
    /\ table' = t
    /\ events' = (events (-) SetToBag({e})) (+) effects
    /\ owed' = (~announced /\ (owed \/ (t.current /\ t.state.held)))

\* Gossiper::gossip, the effect of a GossipAction that asks for it.
Gossiping(action) ==
    IF action.do = "ShouldGossip"
    THEN SetToBag({GossipMessage(action.count, action.exclude_peers)})
    ELSE EmptyBag

\* A handler whose only effects are those of its GossipAction.
Act(e, result, effects) ==
    Handled(e, result.table, result.action = AnnounceFinished,
            Gossiping(result.action) (+) effects)

Reports == BagCardinality([e \in {e \in DOMAIN events : e.type = "GossipedTo"} |-> events[e]])

Expired == 0 .. table.timeouts

-----------------------------------------------------------------------------
(* The component's handlers                                                 *)

\* handle_item_received; `source` is the set of the peer that sent the item.
HandleItemReceived(source) ==
    /\ \E expired \in Expired :
           Act(ItemReceived(source), NewCompleteData(table, expired, source), EmptyBag)
    /\ UNCHANGED <<stored, inputs, small>>

\* Mutant of HandleGossipedTo: nobody is told that the item is finished.
HandleGossipedToQuietly(requested, peers) ==
    LET missed == requested - Cardinality(peers)
        reduced == IF missed > 0 THEN ReduceInFlightCount(table, missed)
                   ELSE Result(table, Noop)
    IN  /\ Handled(GossipedTo(requested, peers), RegisterInfectionAttempt(reduced.table, peers),
                   FALSE, SetToBag({CheckGossipTimeout(p) : p \in peers}))
        /\ UNCHANGED <<stored, inputs, small>>

\* gossiped_to: the network reports the peers it sent our message to.
HandleGossipedTo(requested, peers) ==
    LET missed == requested - Cardinality(peers)
        reduced == IF missed > 0 THEN ReduceInFlightCount(table, missed)
                   ELSE Result(table, Noop)
    IN  /\ Handled(GossipedTo(requested, peers), RegisterInfectionAttempt(reduced.table, peers),
                   reduced.action = AnnounceFinished,
                   SetToBag({CheckGossipTimeout(p) : p \in peers}))
        /\ UNCHANGED <<stored, inputs, small>>

HandleCheckGossipTimeout(peer) ==
    /\ Act(CheckGossipTimeout(peer), CheckTimeout(table, peer), EmptyBag)
    /\ UNCHANGED <<stored, inputs, small>>

\* Mutant of HandleCheckGetFromPeerTimeout: the next holder gets no timeout.
HandleCheckGetFromPeerTimeoutOnce(peer) ==
    LET result == RemoveHolderIfUnresponsive(table, peer)
    IN  /\ \E holder \in IF result.action = GetRemainder THEN result.table.state.holders
                         ELSE {peer} :
               Act(CheckGetFromPeerTimeout(peer), result,
                   IF result.action = GetRemainder THEN SetToBag({GetItem(holder)})
                   ELSE EmptyBag)
        /\ UNCHANGED <<stored, inputs, small>>

\* check_get_from_peer_timeout; any remaining holder may be asked next.
HandleCheckGetFromPeerTimeout(peer) ==
    LET result == RemoveHolderIfUnresponsive(table, peer)
    IN  /\ \E holder \in IF result.action = GetRemainder THEN result.table.state.holders
                         ELSE {peer} :
               Act(CheckGetFromPeerTimeout(peer), result,
                   IF result.action = GetRemainder
                   THEN SetToBag({GetItem(holder), CheckGetFromPeerTimeout(holder)})
                   ELSE EmptyBag)
        /\ UNCHANGED <<stored, inputs, small>>

\* Mutant of HandleIsStoredResult: the identifier is taken for the item.
HandleIsStoredResultAsComplete(sender, is_stored) ==
    /\ \E expired \in Expired :
           Act(IsStoredResult(sender, is_stored), NewCompleteData(table, expired, {sender}),
               EmptyBag)
    /\ UNCHANGED <<stored, inputs, small>>

\* handle_gossip for a large item, once storage has said whether it has it.
\* The sender answers our reply with the item if the reply asks for it.
HandleIsStoredResult(sender, is_stored) ==
    /\ \E expired \in IF HasEntry(table) \/ ~is_stored THEN Expired ELSE {0} :
           LET result == IF HasEntry(table) \/ ~is_stored
                         THEN NewDataId(table, expired, sender)
                         ELSE Result(table, Noop)
           IN  Act(IsStoredResult(sender, is_stored), result,
                   IF result.action = GetRemainder
                   THEN SetToBag({GetItem(sender), CheckGetFromPeerTimeout(sender)})
                   ELSE EmptyBag)
    /\ UNCHANGED <<stored, inputs, small>>

\* handle_gossip_response; a peer that lacks a large item is sent it, if storage
\* finds it.
HandleGossipResponse(sender, is_already_held) ==
    /\ IF HasEntry(table)
       THEN \E found \in {TRUE, is_already_held \/ small \/ ~StorageFails} :
                Act(Gossip(sender), Infected(table, sender, ~is_already_held),
                    IF found THEN EmptyBag ELSE SetToBag({NotFound(sender)}))
       ELSE Handled(Gossip(sender), table, FALSE, EmptyBag)
    /\ UNCHANGED <<stored, inputs, small>>

\* failed_to_get_from_storage.
HandleNotFound(requester) ==
    /\ Act(NotFound(requester), ForceFinish(table), EmptyBag)
    /\ UNCHANGED <<stored, inputs, small>>

\* handle_item_received_from_peer.
HandleItemFromPeer(sender) ==
    /\ Handled(GetItem(sender), table, FALSE,
               IF HasEntry(table)
               THEN SetToBag({ItemBody(sender), CheckItemReceivedTimeout})
               ELSE EmptyBag)
    /\ UNCHANGED <<stored, inputs, small>>

HandleCheckItemReceivedTimeout ==
    /\ Act(CheckItemReceivedTimeout, FinishIfNotHeldByUs(table), EmptyBag)
    /\ UNCHANGED <<stored, inputs, small>>

-----------------------------------------------------------------------------
(* The environment                                                          *)

\* A peer gossips the item to us.  For a large item storage is asked first,
\* for a small one the identifier is the item.
ReceiveGossip(sender) ==
    /\ inputs < MaxInputs
    /\ inputs' = inputs + 1
    /\ IF small
       THEN \E expired \in Expired :
                LET result == NewCompleteData(table, expired, {sender})
                IN  /\ table' = result.table
                    /\ events' = events (+) Gossiping(result.action)
                    /\ owed' = (/\ result.action # AnnounceFinished
                                /\ owed \/ (result.table.current /\ result.table.state.held))
       ELSE /\ events' = events (+) SetToBag({IsStoredResult(sender, stored)})
            /\ UNCHANGED <<table, owed>>
    /\ UNCHANGED <<stored, small>>

\* handle_get_item_request: a peer asks for the item, and storage does not find
\* it.  (When it does, nothing of ours changes.)
ReceiveGetItem(requester) ==
    /\ requester \in Requesters
    /\ ~small /\ (StorageFails \/ ~stored)
    /\ HasEntry(table)
    /\ ~Pending(NotFound(requester))
    /\ events' = events (+) SetToBag({NotFound(requester)})
    /\ UNCHANGED <<table, stored, owed, inputs, small>>

\* A client or this node itself hands over an item that is valid and stored.
BeginGossip ==
    /\ inputs < MaxInputs
    /\ inputs' = inputs + 1
    /\ stored' = TRUE
    /\ events' = events (+) SetToBag({ItemReceived({})})
    /\ UNCHANGED <<table, owed, small>>

\* The network picks `count` of the connected peers that are not excluded, or
\* all of them if there are fewer.
NetworkGossips(count, exclude, peers) ==
    /\ Reports < MaxReports
    /\ \/ Cardinality(peers) = count
       \/ Cardinality(peers) < count /\ peers = Connected \ exclude
    /\ Handled(GossipMessage(count, exclude), table, FALSE,
               SetToBag({GossipedTo(count, peers)} \cup {Gossip(p) : p \in peers}))
    /\ UNCHANGED <<stored, inputs, small>>

\* The item a peer sent is rejected, or it is stored and reported back to us
\* unless it was known before.
Validate(peer, valid) ==
    /\ Handled(ItemBody(peer), table, FALSE,
               IF valid /\ ~stored THEN SetToBag({ItemReceived({peer})}) ELSE EmptyBag)
    /\ stored' = (stored \/ valid)
    /\ UNCHANGED <<inputs, small>>

\* A peer goes away without having answered.
NoAnswer(peer) ==
    /\ peer \in Silent
    /\ \E e \in {Gossip(peer), GetItem(peer)} : Handled(e, table, FALSE, EmptyBag)
    /\ UNCHANGED <<stored, inputs, small>>

-----------------------------------------------------------------------------
Init ==
    /\ table = NewTable
    /\ stored = FALSE
    /\ events = EmptyBag
    /\ owed = FALSE
    /\ inputs = 0
    /\ small \in Kinds

\* Something that is pending happens.
Progress ==
    \/ \E source \in {{}} \cup {{p} : p \in Peers} : HandleItemReceived(source)
    \/ \E requested \in 1 .. InfectionTarget, peers \in SUBSET Peers :
           HandleGossipedTo(requested, peers)
    \/ \E count \in 1 .. InfectionTarget, exclude \in SUBSET Peers :
           \E peers \in SUBSET (Connected \ exclude) : NetworkGossips(count, exclude, peers)
    \/ HandleCheckItemReceivedTimeout
    \/ \E peer \in Peers :
           \/ HandleCheckGossipTimeout(peer)
           \/ HandleCheckGetFromPeerTimeout(peer)
           \/ HandleItemFromPeer(peer)
           \/ HandleNotFound(peer)
           \/ NoAnswer(peer)
           \/ \E b \in BOOLEAN :
                  \/ HandleIsStoredResult(peer, b)
                  \/ HandleGossipResponse(peer, b)
                  \/ Validate(peer, b)

Next ==
    \/ Progress
    \/ BeginGossip
    \/ \E sender \in Peers : ReceiveGossip(sender) \/ ReceiveGetItem(sender)

Spec == Init /\ [][Next]_vars

\* Timeouts expire, queued events are delivered, requests are answered and
\* peers that are not silent reply.
FairSpec == Spec /\ WF_vars(Progress)

-----------------------------------------------------------------------------
(* Properties                                                               *)

TypeOK ==
    /\ table \in Tables
    /\ stored \in BOOLEAN /\ owed \in BOOLEAN /\ small \in Kinds
    /\ IsABag(events)
    /\ inputs \in 0 .. MaxInputs

\* Whatever the order in which responses, timeouts and the reports of the
\* network arrive (a response may come before the report of the message it
\* answers, or after its timeout), the table's accounts stay in order.
TableSound == Sound(table)

\* Every item we began to gossip is announced as finished in the end: it is
\* still current and held by us as long as the announcement is owed.  (The
\* transaction buffer learns of a transaction by that announcement only.)
OwedWhileGossiping == owed => table.current /\ table.state.held

\* A large item is gossiped onwards only when it is valid and stored.
OnlyStoredGossiped ==
    ~small /\ (\E e \in BagToSet(events) : e.type \in {"GossipMessage", "Gossip"})
        => stored

\* An item that is being gossiped waits for something that will happen.
HeldItemHasWork ==
    table.current /\ table.state.held =>
        \E e \in BagToSet(events) :
            e.type \in {"GossipMessage", "GossipedTo", "Gossip", "CheckGossipTimeout"}

\* An item whose body we lack waits for the timeout of a holder that was asked for
\* it (check_get_from_peer_timeout), however many holders have failed before, while
\* the item is still worth asking for: State::action asks for it only as long as
\* attempts to infect peers are left.
UnheldItemHasWork ==
    table.current /\ ~table.state.held /\ ~IsFinished(table.state) =>
        \E e \in BagToSet(events) : e.type = "CheckGetFromPeerTimeout"

\* Gossiping an item comes to an end.
EventuallyFinishes == table.current ~> ~table.current
=============================================================================

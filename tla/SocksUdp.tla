------------------------------ MODULE SocksUdp ------------------------------
(***************************************************************************)
(* The UDP side of the SOCKS5 inbound, in both of its forms: a session's   *)
(* own association (proxy_session_socks.cpp, PerAssociation) and the       *)
(* shared Socks5UdpListener (socks5_udp_listener.cpp).  The first datagram *)
(* for a destination starts a route and waits with its successors for the  *)
(* route to produce a path; every path has an outbound handle, a response  *)
(* loop and any number of sends.  Everything runs on the runtime's strand. *)
(***************************************************************************)
EXTENDS Integers, FiniteSets

CONSTANTS Clients,         \* endpoints that send datagrams
          Dests,           \* destinations
          PerAssociation,  \* a session's association, or the listener
          MaxPaths,        \* kMaxUdpPathsPerAssociation
          RoutesThrow,     \* whether open_datagram may throw
          MaxPackets,      \* bound: datagrams received
          MaxHandles       \* bound: outbound handles opened

NoClient == "none"

BoundsAssumption == /\ PerAssociation \in BOOLEAN /\ RoutesThrow \in BOOLEAN
                    /\ MaxPaths \in Nat /\ MaxPackets \in Nat /\ MaxHandles \in Nat
                    /\ NoClient \notin Clients

VARIABLES
    stopped,  \* closed_ of the session, stopped_ of the listener
    client,   \* udp_client_endpoint_
    packets,  \* datagrams received
    pending,  \* pending_udp_packets_: key -> the datagrams that wait, and whose
    routes,   \* keys with a route task
    paths,    \* udp_paths_: key -> handle
    handles,  \* the handles opened so far
    forwarded \* where replies of a path went, and whose datagrams it carried

udpVars == <<stopped, client, packets, pending, routes, paths, handles, forwarded>>

\* The session keys a path by its destination, the listener by the client too.
KeyOf(c, d) == IF PerAssociation THEN <<d>> ELSE <<c, d>>
Keys == {KeyOf(c, d) : c \in Clients, d \in Dests}

Batch == [n : 1 .. MaxPackets, from : SUBSET Clients]
Handle == [key : Keys, opener : Clients, from : SUBSET Clients,
           closed : BOOLEAN, loop : {"runs", "cut", "over"}, sends : Nat]
Ids == DOMAIN handles

UdpTypeOK ==
    /\ stopped \in BOOLEAN /\ client \in Clients \cup {NoClient}
    /\ packets \in 0 .. MaxPackets
    /\ DOMAIN pending \subseteq Keys /\ \A k \in DOMAIN pending : pending[k] \in Batch
    /\ routes \subseteq Keys \X Clients
    /\ Ids = 1 .. Cardinality(Ids) /\ \A h \in Ids : handles[h] \in Handle
    /\ DOMAIN paths \subseteq Keys /\ \A k \in DOMAIN paths : paths[k] \in Ids
    /\ forwarded \subseteq Clients \X Clients

UdpInit ==
    /\ stopped = FALSE /\ client = NoClient /\ packets = 0
    /\ pending = << >> /\ routes = {} /\ paths = << >> /\ handles = << >> /\ forwarded = {}

Without(f, k) == [i \in DOMAIN f \ {k} |-> f[i]]
With(f, k, v) == [i \in DOMAIN f \cup {k} |-> IF i = k THEN v ELSE f[i]]

(***************************************************************************)
(* Ingress                                                                 *)
(***************************************************************************)
\* Mutant: the sender is pinned anew by every datagram.
AcceptsAnyone(c) == client' = c

\* accept_udp_sender(): the first sender is pinned, others are ignored.
AcceptUdpSender(c) == IF PerAssociation THEN client \in {c, NoClient} /\ client' = c
                                        ELSE UNCHANGED client

Full == PerAssociation /\ Cardinality(DOMAIN paths) + Cardinality(DOMAIN pending) >= MaxPaths

\* process_socks_udp_packet(), process(): a datagram from c for d is sent on
\* its path, joins the ones that wait for the route, is dropped at the limit,
\* or starts a route.
ProcessPacket(c, d) ==
    LET k == KeyOf(c, d) IN
    \/ /\ k \in DOMAIN paths
       /\ handles' = [handles EXCEPT ![paths[k]].sends = @ + 1, ![paths[k]].from = @ \cup {c}]
       /\ UNCHANGED <<pending, routes>>
    \/ /\ k \notin DOMAIN paths /\ k \in DOMAIN pending
       /\ pending' = [pending EXCEPT ![k].n = @ + 1, ![k].from = @ \cup {c}] /\ UNCHANGED <<handles, routes>>
    \/ /\ k \notin DOMAIN paths /\ k \notin DOMAIN pending /\ Full
       /\ UNCHANGED <<pending, routes, handles>>
    \/ /\ k \notin DOMAIN paths /\ k \notin DOMAIN pending /\ ~Full
       /\ pending' = With(pending, k, [n |-> 1, from |-> {c}]) /\ routes' = routes \cup {<<k, c>>}
       /\ UNCHANGED handles

Receive(c, d) ==
    /\ ~stopped /\ packets < MaxPackets /\ packets' = packets + 1
    /\ AcceptUdpSender(c) /\ ProcessPacket(c, d)
    /\ UNCHANGED <<stopped, paths, forwarded>>

(***************************************************************************)
(* Routes                                                                  *)
(***************************************************************************)
\* run_udp_route(), run_route(): a handle becomes the path of its key, with a
\* response loop and one send for each datagram that waited.
RouteOpens(r) ==
    /\ Cardinality(Ids) < MaxHandles
    /\ LET k == r[1]
           h == Cardinality(Ids) + 1
           x == [key |-> k, opener |-> r[2], from |-> pending[k].from,
                 closed |-> FALSE, loop |-> "runs", sends |-> pending[k].n]
       IN IF stopped \/ k \notin DOMAIN pending
            THEN UNCHANGED <<pending, paths, handles>>
            ELSE /\ handles' = With(handles, h, x) /\ paths' = With(paths, k, h)
                 /\ pending' = Without(pending, k)

\* The route fails: the datagrams that waited are dropped.
RouteFails(r) == /\ pending' = IF stopped THEN pending ELSE Without(pending, r[1])
                 /\ UNCHANGED <<paths, handles>>

\* open_datagram throws: the route task returns and leaves what waited.
RouteThrows(r) == RoutesThrow /\ UNCHANGED <<pending, paths, handles>>

Route(r) ==
    /\ r \in routes /\ routes' = routes \ {r}
    /\ RouteOpens(r) \/ RouteFails(r) \/ RouteThrows(r)
    /\ UNCHANGED <<stopped, client, packets, forwarded>>

(***************************************************************************)
(* Paths                                                                   *)
(***************************************************************************)
Listed(h) == \E k \in DOMAIN paths : paths[k] = h
Unlist(h) == paths' = [k \in {j \in DOMAIN paths : paths[j] # h} |-> paths[k]]

\* run_udp_send() ends; a failure retires the path and closes its handle, if
\* it is still the one listed under its key.
Sent(h) ==
    /\ h \in Ids /\ handles[h].sends > 0
    /\ handles' = [handles EXCEPT ![h].sends = @ - 1]
    /\ UNCHANGED <<stopped, client, packets, pending, routes, paths, forwarded>>

\* Mutant: the failed path is removed by its key.
SendFailsByKey(h) ==
    /\ h \in Ids /\ handles[h].sends > 0 /\ ~stopped
    /\ handles' = [handles EXCEPT ![h].sends = @ - 1, ![h].closed = TRUE]
    /\ paths' = Without(paths, handles[h].key)
    /\ UNCHANGED <<stopped, client, packets, pending, routes, forwarded>>
SendFails(h) ==
    /\ h \in Ids /\ handles[h].sends > 0
    /\ IF stopped \/ ~Listed(h)
         THEN /\ handles' = [handles EXCEPT ![h].sends = @ - 1] /\ UNCHANGED paths
         ELSE /\ handles' = [handles EXCEPT ![h].sends = @ - 1, ![h].closed = TRUE]
              /\ Unlist(h)
    /\ UNCHANGED <<stopped, client, packets, pending, routes, forwarded>>

\* run_udp_response_loop(), run_response_loop(): a datagram is forwarded to
\* the pinned client, or to the client the path was opened for.
Reply(h) ==
    /\ h \in Ids /\ handles[h].loop = "runs" /\ ~handles[h].closed /\ ~stopped
    /\ forwarded' = forwarded \cup ({IF PerAssociation THEN client ELSE handles[h].opener}
                                  \X handles[h].from)
    /\ UNCHANGED <<stopped, client, packets, pending, routes, paths, handles>>

\* A receive that ends with operation_aborted ends the loop quietly, also when it is the
\* outbound that aborted it and nobody closed the path ("cut"): the path stays listed, and
\* is used to send, until a send fails.
ReceiveAborted(h) ==
    /\ h \in Ids /\ handles[h].loop = "runs"
    /\ handles' = [handles EXCEPT ![h].loop = IF handles[h].closed THEN "over" ELSE "cut"]
    /\ UNCHANGED <<stopped, client, packets, pending, routes, paths, forwarded>>

\* Another failure retires the path; the session leaves the handle to its
\* last owner, the listener closes it.
ReceiveFails(h) ==
    /\ h \in Ids /\ handles[h].loop = "runs" /\ ~handles[h].closed
    /\ handles' = [handles EXCEPT ![h].loop = "over",
                     ![h].closed = @ \/ (~PerAssociation /\ ~stopped /\ Listed(h))]
    /\ IF stopped THEN UNCHANGED paths ELSE Unlist(h)
    /\ UNCHANGED <<stopped, client, packets, pending, routes, forwarded>>

\* ProxySession::close(), Socks5UdpListener::stop(): the paths' handles are
\* closed; routes and sends go on and find stopped_.
StopUdp ==
    /\ ~stopped /\ stopped' = TRUE
    /\ paths' = << >> /\ pending' = << >>
    /\ handles' = [h \in Ids |-> [handles[h] EXCEPT !.closed = @ \/ Listed(h)]]
    /\ UNCHANGED <<client, packets, routes, forwarded>>

UdpNext ==
    \/ \E c \in Clients, d \in Dests : Receive(c, d)
    \/ \E r \in routes : Route(r)
    \/ \E h \in Ids : Sent(h) \/ SendFails(h) \/ Reply(h) \/ ReceiveAborted(h) \/ ReceiveFails(h)
    \/ StopUdp

UdpSpec == UdpInit /\ [][UdpNext]_udpVars

(***************************************************************************)
(* Properties                                                              *)
(***************************************************************************)
\* An association never has more than kMaxUdpPathsPerAssociation paths and
\* routes together, however they come and go.
PathsBounded == PerAssociation => Cardinality(DOMAIN paths) + Cardinality(DOMAIN pending) <= MaxPaths

\* Every path has a response loop on an open handle, or had one that was cut, and every
\* such handle belongs to a listed path: no reply is lost because a path was replaced, and
\* nothing reads a handle that nothing can close.
PathsAndLoopsAgree ==
    \A h \in Ids : Listed(h) <=> (handles[h].loop # "over" /\ ~handles[h].closed)

\* Replies go to the client whose datagrams the path carries, and no path
\* carries the datagrams of two clients.
RepliesGoHome == \A r \in forwarded : r[1] = r[2]

\* A datagram waits only while a route for its key is under way, unless the
\* association was closed: the last one is not held for ever.
PendingHasRoute == \A k \in DOMAIN pending : \E c \in Clients : <<k, c>> \in routes

\* A path is only ever taken out of the table by its own failure or by stop:
\* the failure of a path that was replaced leaves its successor alone.
OldPathsHarmless ==
    [][\A k \in DOMAIN paths :
         k \notin DOMAIN paths' =>
            stopped' \/ handles[paths[k]] # handles'[paths[k]]]_udpVars

(* Every listed path has its response loop, unless the outbound cut it, and*)
(* the other way round; an association keeps to its limit, a reply goes to *)
(* the client whose datagrams the path carries, and a datagram waits only  *)
(* while a route for its key is under way (unless a route may throw).      *)
PathsAreSound == /\ UdpTypeOK /\ PathsAndLoopsAgree /\ PathsBounded /\ RepliesGoHome
                 /\ ~RoutesThrow => PendingHasRoute
=============================================================================

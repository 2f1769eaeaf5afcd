----------------------------- MODULE DnsServer ------------------------------
(***************************************************************************)
(* DnsServer of src/dns/dns_server.cpp: a UDP loop that hands every query  *)
(* to a task of its own, an accept loop, and TCP connections that answer   *)
(* one query after the other.  Everything but the calls of start() and     *)
(* stop() runs on the runtime's strand, an action from await to await.     *)
(* The query service is external here (it is DnsQueryService).             *)
(***************************************************************************)
EXTENDS Naturals

CONSTANTS Queries,    \* UDP queries
          Conns,      \* TCP connections
          MaxAsked,   \* bound: queries on a connection
          MaxStarts   \* bound: calls of start()

ServerAssumption == {MaxAsked, MaxStarts} \subseteq Nat

VARIABLES
    running,    \* running_
    stopping,   \* stop() waits for stop_on_owner()
    stops,      \* how often stop_on_owner() ran; from the first on the scopes are stopped
    starts,     \* calls of start()
    open,       \* the UDP socket and the acceptor are open
    loops,      \* the loops that await a datagram or a connection
    failed,     \* loops that ended by an error of their socket
    udp,        \* UDP query -> [at, reply]
    conn        \* TCP connection -> its state

vars == <<running, stopping, stops, starts, open, loops, failed, udp, conn>>

Loops == {"udp", "accept"}
\* A reply to the query that was asked; a SERVFAIL with its question, and one without.
Replies == {"answer", "servfail", "bare servfail"}

TypeOK ==
    /\ {running, stopping, open} \subseteq BOOLEAN /\ {loops, failed} \subseteq SUBSET Loops
    /\ \A q \in Queries : /\ udp[q].at \in {"none", "resolving", "over"}
                          /\ udp[q].reply \in Replies \cup {"none", "lost"}
    /\ \A c \in Conns : /\ conn[c].at \in {"none", "read", "resolve", "write", "over"}
                        /\ {conn[c].completed, conn[c].socket, conn[c].listed} \subseteq BOOLEAN
                        /\ conn[c].replies <= conn[c].asked /\ conn[c].asked <= MaxAsked
                        /\ conn[c].last \in Replies \cup {"none"}

Init == /\ running = FALSE /\ stopping = FALSE /\ stops = 0 /\ starts = 0 /\ open = FALSE
        /\ loops = {} /\ failed = {}
        /\ udp = [q \in Queries |-> [at |-> "none", reply |-> "none"]]
        /\ conn = [c \in Conns |-> [at |-> "none", completed |-> FALSE, socket |-> FALSE,
                                    listed |-> FALSE, asked |-> 0, replies |-> 0,
                                    last |-> "none"]]

-----------------------------------------------------------------------------
(* start() and stop(). *)

\* The scopes of the loops stay stopped: after a restart the new loops end at their first await.
Start(ok) ==
    /\ ~running /\ ~stopping /\ starts < MaxStarts /\ starts' = starts + 1
    /\ running' = ok /\ open' = ok /\ failed' = {}
    /\ loops' = IF ok /\ stops = 0 THEN Loops ELSE loops
    /\ UNCHANGED <<stopping, stops, udp, conn>>
Stop == /\ running /\ running' = FALSE /\ stopping' = TRUE
        /\ UNCHANGED <<stops, starts, open, loops, failed, udp, conn>>

\* TcpConnection::abort()
Aborted(r) == [r EXCEPT !.completed = TRUE, !.socket = FALSE]
\* stop_on_owner().  Mutant: the connections are forgotten and not closed.
StopForgets ==
    /\ stopping /\ stopping' = FALSE /\ stops' = stops + 1 /\ open' = FALSE
    /\ conn' = [c \in Conns |-> [conn[c] EXCEPT !.listed = FALSE]]
    /\ UNCHANGED <<running, starts, loops, failed, udp>>
StopOnOwner ==
    /\ stopping /\ stopping' = FALSE /\ stops' = stops + 1 /\ open' = FALSE
    /\ conn' = [c \in Conns |-> IF conn[c].listed
                                THEN [Aborted(conn[c]) EXCEPT !.listed = FALSE] ELSE conn[c]]
    /\ UNCHANGED <<running, starts, loops, failed, udp>>

\* The await of a loop ends: stopped with its scope or its socket, or by an error.
LoopEnds(l) ==
    /\ l \in loops /\ loops' = loops \ {l}
    /\ failed' = IF open /\ stops = 0 THEN failed \cup {l} ELSE failed
    /\ UNCHANGED <<running, stopping, stops, starts, open, udp, conn>>
\* The loop goes on, unless stop() was called meanwhile.
Again(l) == loops' = IF running /\ open /\ stops = 0 THEN loops ELSE loops \ {l}

-----------------------------------------------------------------------------
(* UDP. *)

\* run_udp_send(): what comes after the socket was closed is lost.
SendUdp(q, reply) ==
    udp' = [udp EXCEPT ![q].at = "over", ![q].reply = IF open THEN reply ELSE "lost"]

\* run_udp_loop(), and run_udp_resolve() up to its await: fake addresses and the lack of a
\* query service are answered at once.  What is no query is passed over.
ReceiveUdp(q) ==
    /\ "udp" \in loops /\ udp[q].at = "none" /\ Again("udp")
    /\ IF ~running THEN UNCHANGED udp
       ELSE \/ \E r \in {"answer", "servfail"} : SendUdp(q, r)
            \/ udp' = [udp EXCEPT ![q].at = "resolving"]
    /\ UNCHANGED <<running, stopping, stops, starts, open, failed, conn>>
\* The rest of run_udp_resolve(): a failure and an exception become a SERVFAIL; a response
\* that is too large is not sent.
UdpResolved(q) ==
    /\ udp[q].at = "resolving"
    /\ \/ \E r \in {"answer", "servfail"} : SendUdp(q, r)
       \/ udp' = [udp EXCEPT ![q].at = "over", ![q].reply = "lost"]
    /\ UNCHANGED <<running, stopping, stops, starts, open, loops, failed, conn>>

-----------------------------------------------------------------------------
(* TCP. *)

\* run_accept_loop()
Accept(c) ==
    /\ "accept" \in loops /\ conn[c].at = "none" /\ Again("accept")
    /\ conn' = IF ~running THEN conn
               ELSE [conn EXCEPT ![c].at = "read", ![c].socket = TRUE, ![c].listed = TRUE]
    /\ UNCHANGED <<running, stopping, stops, starts, open, failed, udp>>

\* TcpConnection::close()
Closed(r) == [Aborted(r) EXCEPT !.at = "over", !.listed = FALSE]
\* Every await is followed by a look at completed_.
Goes(c, r) == conn' = [conn EXCEPT ![c] = IF conn[c].completed THEN Closed(conn[c]) ELSE r]

\* TcpConnection::run(): a query, or the end, an error or what is no query.
ReadQuery(c, ok) ==
    /\ conn[c].at = "read" /\ (ok => conn[c].asked < MaxAsked)
    /\ \/ ~ok /\ conn' = [conn EXCEPT ![c] = Closed(@)]
       \/ ok /\ \E at \in {"resolve", "write"}, r \in {"answer", "servfail"} :
                   Goes(c, [conn[c] EXCEPT !.at = at, !.asked = @ + 1,
                                           !.last = IF at = "write" THEN r ELSE "none"])
    /\ UNCHANGED <<running, stopping, stops, starts, open, loops, failed, udp>>
\* The rest of TcpConnection::resolve(): an exception ends the connection, and the SERVFAIL
\* of a failure is made of a query that was moved away, so it has no question.
TcpResolved(c) ==
    /\ conn[c].at = "resolve"
    /\ \/ \E r \in {"answer", "bare servfail"} :
             Goes(c, [conn[c] EXCEPT !.at = "write", !.last = r])
       \/ conn' = [conn EXCEPT ![c] = Closed(@)]
    /\ UNCHANGED <<running, stopping, stops, starts, open, loops, failed, udp>>
\* async_write(); the loop then looks at completed_.
Written(c, ok) ==
    /\ conn[c].at = "write"
    /\ IF ok THEN Goes(c, [conn[c] EXCEPT !.at = "read", !.replies = @ + 1])
       ELSE conn' = [conn EXCEPT ![c] = Closed(@)]
    /\ UNCHANGED <<running, stopping, stops, starts, open, loops, failed, udp>>

Next == \/ \E ok \in BOOLEAN : Start(ok)
        \/ Stop \/ StopOnOwner
        \/ \E l \in Loops : LoopEnds(l)
        \/ \E q \in Queries : ReceiveUdp(q) \/ UdpResolved(q)
        \/ \E c \in Conns : Accept(c) \/ TcpResolved(c)
        \/ \E c \in Conns, ok \in BOOLEAN : ReadQuery(c, ok) \/ Written(c, ok)
Spec == Init /\ [][Next]_vars

-----------------------------------------------------------------------------
\* A server that was started and never stopped listens, unless a loop was lost to an error.
Listens == (running /\ stops = 0) => open /\ loops \cup failed = Loops
\* When stop() has returned nothing is open: no socket, no connection and no task that would
\* answer one.
StoppedIsQuiet == (~running /\ ~stopping) =>
    /\ ~open
    /\ \A c \in Conns : ~conn[c].socket /\ ~conn[c].listed
                        /\ (conn[c].at \notin {"none", "over"} => conn[c].completed)
\* The server can close every connection that is not closed.
ConnectionsAreKnown ==
    \A c \in Conns : /\ conn[c].listed <=> conn[c].socket
                     /\ conn[c].socket <=> ~conn[c].completed /\ conn[c].at # "none"
\* A connection answers in turn, each query once.
AnswersInTurn == \A c \in Conns : /\ conn[c].asked - conn[c].replies \in {0, 1}
                                  /\ conn[c].at = "read" => conn[c].asked = conn[c].replies
                                  /\ conn[c].at \in {"resolve", "write"} =>
                                         conn[c].asked = conn[c].replies + 1
ServerIsSound == TypeOK /\ Listens /\ StoppedIsQuiet /\ ConnectionsAreKnown /\ AnswersInTurn
=============================================================================

------------------------------- MODULE MCDns -------------------------------
(***************************************************************************)
(* TLC instances of the resolver: the upstream group, the query service,   *)
(* the transports (plain, DoT, DoH over HTTP/1.1, 2 and 3, DoQ, and the    *)
(* one that bootstraps), the bootstrap resolver and the DNS server.  The   *)
(* components of this layer are checked together, in one run; `subject'    *)
(* names the one that a behaviour is about, the others do not move.  The   *)
(* components from DotTransport on share the variables q1 to q10.          *)
(***************************************************************************)
EXTENDS DnsUpstreamGroup, DnsQueryService, DnsPlainTransport, TLC

CONSTANTS Subjects,                     \* the components the run is about
          Twins,                        \* exchanges over connections of their own pools
          wPlain, wOther, wBad, wLost,  \* query packets
          TransactionIds                \* transaction ids

VARIABLES subject,
    q1, q2, q3, q4, q5, q6, q7, q8, q9, q10

\* A name with the default group, one with a group of its own, a packet
\* without a question, a name whose group is not configured.
AllWires == {wPlain, wOther, wBad, wLost}
Names == [w \in AllWires |->
            CASE w = wPlain -> "a.example" [] w = wOther -> "b.example"
              [] w = wLost -> "c.example" [] OTHER -> ""]
Policies == [n \in {"a.example", "b.example", "c.example", ""} |->
               CASE n = "b.example" -> "office" [] n = "c.example" -> "gone"
                 [] OTHER -> "default"]
Positive(ttls) == [rcode |-> 0, answers |-> ttls, soa |-> {}]
Negative(ttl, minimum) ==
    [rcode |-> 3, answers |-> {}, soa |-> {[ttl |-> ttl, minimum |-> minimum]}]
Servfail == [rcode |-> 2, answers |-> {}, soa |-> {}]

\* The SOA is all that bounds the life of an NXDOMAIN: here it is longer than a record's.
NxdomainWithRecords == [rcode |-> 3, answers |-> {1}, soa |-> {[ttl |-> 2, minimum |-> 2]}]
Packets == {Positive({2}), Positive({3}), Positive({1, 3}), Servfail, Negative(2, 1),
            NxdomainWithRecords}

\* Three scopes of the query service.  Shutdown, with refused packets and every kind of
\* answer; three requests that share an exchange; the cache as time passes.
SomeId == {CHOOSE i \in TransactionIds : TRUE}
Scope == [stopping |-> [requests |-> 2, wires |-> {wPlain, wBad, wLost}, ids |-> SomeId,
                        packets |-> {Positive({3}), Servfail}, clock |-> 1, cancels |-> 1,
                        clears |-> 1, restarts |-> 1, stops |-> TRUE],
          sharing |-> [requests |-> 3, wires |-> {wPlain}, ids |-> TransactionIds,
                       packets |-> {Positive({2})}, clock |-> 0, cancels |-> 2,
                       clears |-> 0, restarts |-> 0, stops |-> FALSE],
          caching |-> [requests |-> 3, wires |-> {wPlain, wOther}, ids |-> SomeId,
                       packets |-> {Positive({1, 3}), Negative(2, 1), NxdomainWithRecords},
                       clock |-> 2, cancels |-> 0, clears |-> 0, restarts |-> 0,
                       stops |-> FALSE]]
ServiceSubjects == DOMAIN Scope
\* What the environment and the callers do in a scope; it never holds the service up.
InScope ==
    LET scope == Scope[subject] IN
    /\ Len(query') <= scope.requests
    /\ \A r \in DOMAIN query' : query'[r].wire \in scope.wires /\ query'[r].id \in scope.ids
    /\ \A i \in DOMAIN strand' :
          strand'[i].kind = "finish" /\ strand'[i].result.ok
              => strand'[i].result.packet \in scope.packets
    /\ clock' <= scope.clock /\ Cardinality(cancelAsked') <= scope.cancels
    /\ clears' <= scope.clears /\ runtimeStops' <= scope.restarts
    /\ scope.stops \/ stopAt' = "idle"

\* The plain transport.  prefer_tcp: either the connection is lost or an id is given again;
\* UDP first with TCP to fall back on, with stray packets and stop().
TcpScope == ~isStopped' /\ stray' = stray /\ (generation' = 0 \/ IdsToSpare')
Udp == INSTANCE DnsPlainTransport WITH PreferTcp <- FALSE

\* The transports with shared sessions, the bootstrap resolver and the server.
Dot == INSTANCE DotTransport WITH Ops <- Exchanges, MaxId <- 4, MaxSessions <- 2,
    op <- q1, nextId <- q2, active <- q3, expired <- q4, timers <- q5, session <- q6,
    pending <- q7, queue <- q8, writing <- q9, stopped <- q10
Doh1 == INSTANCE DohTransport WITH Ops <- Exchanges, MaxSessions <- 0, MaxDials <- 0,
    op <- q1, expired <- q2, asked <- q3, timers <- q4, stopped <- q5, sess <- q6, made <- q7,
    posts <- q8, dials <- q9, http <- q10
Doh2 == INSTANCE DohTransport WITH Ops <- Twins, MaxSessions <- 2, MaxDials <- 2,
    op <- q1, expired <- q2, asked <- q3, sess <- q4, made <- q5, posts <- q6, dials <- q7,
    http <- q8, timers <- q9, stopped <- q10
OverHttp3 == INSTANCE QuicDnsTransport WITH Ops <- Twins, Doh3 <- TRUE, MaxPerSession <- 1,
    MaxIdle <- 1, MaxSessions <- 2, MaxStreams <- 1,
    op <- q1, expired <- q2, asked <- q3, pool <- q4, dials <- q5, timers <- q6, stopped <- q7
Doq == INSTANCE QuicDnsTransport WITH Ops <- Twins, Doh3 <- FALSE, MaxPerSession <- 2,
    MaxIdle <- 1, MaxSessions <- 2, MaxStreams <- 2,
    op <- q1, expired <- q2, asked <- q3, pool <- q4, dials <- q5, timers <- q6, stopped <- q7
Bootstrap == INSTANCE Bootstrap WITH Ops <- Exchanges, Requests <- {"name"}, Servers <- 2,
    op <- q1, listed <- q2, inner <- q3, dropped <- q4, stop <- q5,
    req <- q1, sys <- q2, timers <- q3, watched <- q4, expired <- q5, asked <- q6,
    stopped <- q7
\* Before stop(), an exchange is cancelled or one is late, not both.
Doh2Scope == q2' = {} \/ q3' = {} \/ q10'
Server == INSTANCE DnsServer WITH Queries <- {"datagram"}, Conns <- {"c"},
    MaxAsked <- 2, MaxStarts <- 2,
    running <- q1, stopping <- q2, stops <- q3, starts <- q4, open <- q5, loops <- q6,
    failed <- q7, udp <- q8, conn <- q9

ASSUME Bounds ==
    /\ TransportAssumption /\ Udp!TransportAssumption
    /\ Dot!DotAssumption /\ Doh2!Doh2Assumption /\ OverHttp3!QuicDnsAssumption
    /\ Doq!QuicDnsAssumption /\ Bootstrap!BootstrapAssumption /\ Server!ServerAssumption
    /\ Subjects \subseteq {"group", "stopping", "sharing", "caching",
                           "tcp", "udp", "dot", "doh1", "doh2", "doh3", "doq",
                           "by name", "bootstrap", "server"}

Symmetry == Permutations(Exchanges)

pool == <<q1, q2, q3, q4, q5, q6, q7, q8, q9, q10>>
all == <<subject, serviceVars, transportVars, vars, pool>>

PoolInit ==
    \/ subject = "dot" /\ Dot!Init
    \/ subject = "doh1" /\ Doh1!Doh1Init /\ q6 = 0 /\ q7 = 0 /\ q8 = 0 /\ q9 = 0 /\ q10 = 0
    \/ subject = "doh2" /\ Doh2!Init
    \/ subject = "doh3" /\ OverHttp3!Init /\ q8 = 0 /\ q9 = 0 /\ q10 = 0
    \/ subject = "doq" /\ Doq!Init /\ q8 = 0 /\ q9 = 0 /\ q10 = 0
    \/ subject = "by name" /\ Bootstrap!TransportInit /\ q6 = 0 /\ q7 = 0 /\ q8 = 0 /\ q9 = 0 /\ q10 = 0
    \/ subject = "bootstrap" /\ Bootstrap!ResolverInit /\ q8 = 0 /\ q9 = 0 /\ q10 = 0
    \/ subject = "server" /\ Server!Init /\ q10 = 0
    \/ /\ subject \in {"group", "stopping", "sharing", "caching", "tcp", "udp"}
       /\ q1 = 0 /\ q2 = 0 /\ q3 = 0 /\ q4 = 0 /\ q5 = 0
       /\ q6 = 0 /\ q7 = 0 /\ q8 = 0 /\ q9 = 0 /\ q10 = 0

MCInit == /\ subject \in Subjects
          /\ Init
          /\ PoolInit
          /\ QueryInit
          /\ subject \notin ServiceSubjects => running
          /\ TransportInit

\* What a step of each component leaves alone.
notGroup == <<subject, serviceVars, transportVars, pool>>
notQuery == <<subject, transportVars, vars, pool>>
notTransport == <<subject, serviceVars, vars, pool>>
notPool == <<subject, serviceVars, transportVars, vars>>

MCNext ==
    \/ subject = "group" /\ Next /\ UNCHANGED notGroup
    \/ subject \in ServiceSubjects /\ QueryNext /\ InScope /\ UNCHANGED notQuery
    \/ subject = "tcp" /\ TransportNext /\ TcpScope /\ UNCHANGED notTransport
    \/ subject = "udp" /\ Udp!TransportNext /\ IdsToSpare' /\ UNCHANGED notTransport
    \/ subject = "dot" /\ Dot!Next /\ UNCHANGED notPool
    \/ subject = "doh1" /\ Doh1!Doh1Next /\ UNCHANGED <<notPool, q6, q7, q8, q9, q10>>
    \/ subject = "doh2" /\ Doh2!Next /\ Doh2Scope /\ UNCHANGED notPool
    \/ subject = "doh3" /\ OverHttp3!Next /\ UNCHANGED <<notPool, q8, q9, q10>>
    \/ subject = "doq" /\ Doq!Next /\ UNCHANGED <<notPool, q8, q9, q10>>
    \/ subject = "by name" /\ Bootstrap!TransportNext /\ UNCHANGED <<notPool, q6, q7, q8, q9, q10>>
    \/ subject = "bootstrap" /\ Bootstrap!ResolverNext /\ UNCHANGED <<notPool, q8, q9, q10>>
    \/ subject = "server" /\ Server!Next /\ UNCHANGED <<notPool, q10>>

MCSpec == MCInit /\ [][MCNext]_all

-----------------------------------------------------------------------------
(* The properties of the components, for the subjects they are about.  The  *)
(* group's own are those of DnsUpstreamGroup, the query service's those of  *)
(* DnsQueryService, the plain transport's is that of DnsPlainTransport.     *)

\* Every exchange and every resolution is known to a session, a connection or a task that
\* will end it, and ends for a reason of its own; no session is lost or kept for nobody; the
\* server answers in turn and leaves nothing open.
ResolversAreSound == /\ subject = "dot" => Dot!DotIsSound
                     /\ subject = "doh1" => Doh1!Doh1IsSound
                     /\ subject = "doh2" => Doh2!Doh2IsSound
                     /\ subject = "doh3" => OverHttp3!QuicDnsIsSound
                     /\ subject = "doq" => Doq!QuicDnsIsSound
                     /\ subject = "by name" => Bootstrap!BootstrapTransportIsSound
                     /\ subject = "bootstrap" => Bootstrap!BootstrapIsSound
                     /\ subject = "server" => Server!ServerIsSound
=============================================================================

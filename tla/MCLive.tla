------------------------------- MODULE MCLive -------------------------------
(***************************************************************************)
(* TLC instances of the components that must eventually do something: the  *)
(* asynchronous primitives, the sessions and the relay of the inbound side,*)
(* the HTTP sessions, and the resolver with its transports.  They are      *)
(* checked together, in one run, within closer bounds than those of the    *)
(* safety runs; `subject' names the one that a behaviour is about, the     *)
(* others do not move.  The mpsc channel and the HTTP client's session     *)
(* have their own variables; all others share q1 to q24, which the subject *)
(* gives their meaning.                                                    *)
(***************************************************************************)
EXTENDS MpscChannel, HttpForward, TLC

CONSTANTS Subjects,         \* the components the run is about
          Handles,          \* receiver handles of the watch and broadcast channels
          DnsOps,           \* DNS exchanges
          MemberMayCancel   \* whether a member of a DNS group may end with its own `cancelled'

VARIABLES subject,
    q1, q2, q3, q4, q5, q6, q7, q8, q9, q10, q11, q12,
    q13, q14, q15, q16, q17, q18, q19, q20, q21, q22, q23, q24

\* The receiver handle that channel() returns; one exchange, of a pool of its own.
First == CHOOSE h \in Handles : TRUE
One == {CHOOSE e \in DnsOps : TRUE}

Watch == INSTANCE WatchChannel WITH
    Receivers <- Handles, MaxPulls <- 1, MaxVersion <- 3, Concurrent <- FALSE,
    parked <- q1, stage <- q2, phase <- q3, callback <- q4, stopFlag <- q5, owed <- q6,
    fired <- q7, result <- q8, version <- q9, closed <- q10, live <- q11, seen <- q12
Broadcast == INSTANCE BroadcastChannel WITH
    Receivers <- Handles, Values <- {"v"}, MaxPulls <- 1, Capacity <- 1, MaxSends <- 1,
    MaxSenders <- 1, Concurrent <- FALSE,
    parked <- q1, stage <- q2, phase <- q3, callback <- q4, stopFlag <- q5, owed <- q6,
    fired <- q7, result <- q8, buffer <- q9, baseSeq <- q10, closed <- q11, senders <- q12,
    live <- q13, cursor <- q14, sent <- q15, joined <- q16, got <- q17, missed <- q18
Adaptor == INSTANCE CallbackSender WITH
    pc <- q1, work <- q2, term <- q3, stopper <- q4, callback <- q5, dtor <- q6, settled <- q7,
    parked <- q8, orphan <- q9, refs <- q10, aborted <- q11, signals <- q12, fault <- q13,
    raced <- q14
Oneshot == INSTANCE OneshotChannel WITH
    MaxSends <- 2,
    status <- q1, waiter <- q2, detached <- q3, rx <- q4, outcome <- q5, callback <- q6,
    stopFlag <- q7, stopped <- q8, fires <- q9, claimed <- q10, verdicts <- q11, signals <- q12
Merge == INSTANCE StreamMerge WITH
    Sources <- {1, 2}, MaxItems <- 1, Keys <- {1, 2}, MaxPulls <- 3,
    driver <- q1, source <- q2, channel <- q3, error <- q4, consumed <- q5, pull <- q6,
    slot <- q7, loop <- q8, unsubscribed <- q9, dropped <- q10, seen <- q11, since <- q12,
    entries <- q1, mapSource <- q2, mapPull <- q3, at <- q4, pending <- q5, total <- q6,
    finished <- q7, stop <- q8, used <- q9, log <- q10
Killed == INSTANCE ProxyServer WITH
    Sessions <- {"s"}, MaxStarts <- 1, MaxIds <- 2, MaxKills <- 2,
    running <- q1, gate <- q2, starts <- q3, control <- q4, loop <- q5, scope <- q6,
    broken <- q7, listed <- q8, sess <- q9, requests <- q10, registry <- q11, nextId <- q12,
    strand <- q13, kill <- q14, kills <- q15
TcpRelay == INSTANCE TcpRelay WITH
    IdleTimeout <- 2, PollInterval <- 2, MaxChunks <- 1, HasInitial <- FALSE,
    sent <- q1, ended <- q2, taken <- q3, delivered <- q4, counted <- q5, halfClosed <- q6,
    pump <- q7, idle <- q8, nap <- q9, finished <- q10, finisher <- q11, closed <- q12,
    reported <- q13, race <- q14
WebSocket == INSTANCE WebSocket WITH
    Modes <- {"ws", "raw", "fast"}, Payload <- 2, Early <- {0, 1, 3}, Kinds <- {"ws", "fast"},
    MaxBytes <- 2, MaxOps <- 3, Stops <- {},
    opts <- q1, pc <- q2, carrier <- q3, timer <- q4, completed <- q5, posted <- q6,
    told <- q7, sent <- q8, kind <- q1, st <- q2, reader <- q3, incoming <- q4, writer <- q5,
    wire <- q6, taken <- q7, posts <- q8, op <- q9, got <- q10, up <- q11, head <- q12,
    peer <- q13
Http1 == INSTANCE Http1Session WITH
    MaxExchanges <- 3, Interims <- TRUE,
    kind <- q1, pending <- q2, queue <- q3, active <- q4, link <- q5, retired <- q6,
    stopped <- q7, stage <- q8, body <- q9, outcome <- q10, posted <- q11, timers <- q12,
    unread <- q13, got <- q14
Body == INSTANCE ExchangeBody WITH
    Capacity <- 3, BufferSize <- 2, MaxBytes <- 4, Stops <- TRUE, MaxPulls <- 2,
    arrived <- q1, credit <- q2, refused <- q3, chunks <- q4, terminal <- q5, cancelled <- q6,
    told <- q7, drained <- q8, parked <- q9, posts <- q10, pull <- q11, given <- q12,
    teardown <- q13
Http2 == INSTANCE Http2Session WITH
    MaxExchanges <- 1, Keepalive <- TRUE, Kinds <- {"upgrade"},
    kind <- q1, pending <- q2, streams <- q3, sid <- q4, waiting <- q5, local <- q6,
    remote <- q7, upload <- q8, body <- q9, tunnel <- q10, timers <- q11, posted <- q12,
    outcome <- q13, out <- q14, sending <- q15, reading <- q16, retired <- q17, stopped <- q18,
    closed <- q19, gone <- q20, released <- q21, proto <- q22, ping <- q23, silent <- q24
Tunnel == INSTANCE TunnelStream WITH
    Limit <- 1, Window <- 1, BufferSize <- 1, MaxBytes <- 0, MaxOps <- 1, Sizes <- {1},
    Stops <- {"write"},
    incoming <- q1, end <- q2, closed <- q3, shut <- q4, requested <- q5, reader <- q6,
    writer <- q7, expected <- q8, posts <- q9, pull <- q10, put <- q11, got <- q12,
    slot <- q13, held <- q14, serial <- q15, noMore <- q16, fin <- q17, sent <- q18,
    stream <- q19, session <- q20, over <- q21, arrived <- q22, credit <- q23, fault <- q24
Http3 == INSTANCE Http3Session WITH
    MaxExchanges <- 1, MaxRoom <- 1,
    Kinds <- {"upload", "feed", "streaming", "upgrade", "tunnel"},
    ex <- q1, upload <- q2, posted <- q3, outcome <- q4, order <- q5, room <- q6, quic <- q7,
    proto <- q8, out <- q9, writing <- q10, retired <- q11, stopped <- q12, told <- q13
Group == INSTANCE DnsUpstreamGroup WITH
    Ops <- DnsOps, MemberCount <- 2, Timeout <- 2, RoundRobin <- FALSE, BackoffBase <- 1,
    BackoffMax <- 3, FailureCap <- 3, MaxTime <- 2,
    task <- q1, index <- q2, attempted <- q3, current <- q4, lastError <- q5, deadline <- q6,
    memberDeadline <- q7, delivered <- q8, operations <- q9, failures <- q10,
    unhealthyUntil <- q11, nextMember <- q12, stopped <- q13, busy <- q14, now <- q15
Service == INSTANCE DnsQueryService WITH
    MaxRequest <- 2, Wires <- {"wire"}, Malformed <- {}, PacketIds <- {1},
    NameOf <- [w \in {"wire"} |-> "name"], PolicyOf <- [n \in {"name"} |-> "default"],
    Groups <- {}, Responses <- {[rcode |-> 0, answers |-> {2}, soa |-> {}]}, NegativeTtl <- 3,
    U32Max <- 3, Capacity <- 1, MaxClock <- 1, MaxCancels <- 1, MaxClears <- 0,
    MaxRuntimeStops <- 1, MayStop <- TRUE, OwnerDrains <- TRUE,
    strand <- q1, running <- q2, runtimeStops <- q3, clock <- q4, query <- q5,
    cancelAsked <- q6, clears <- q7, queryStopped <- q8, gate <- q9, stopAt <- q10,
    alive <- q11, opKey <- q12, waiters <- q13, completed <- q14, exchange <- q15,
    inFlight <- q16, requests <- q17, cache <- q18, lru <- q19, answers <- q20, touched <- q21
Plain == INSTANCE DnsPlainTransport WITH
    Exchanges <- One, MaxId <- 2, PreferTcp <- FALSE, MaxGeneration <- 1, MaxStray <- 0,
    Nothing <- "none", phase <- q1, outcome <- q2, chain <- q3, datagram <- q4,
    queryId <- q5, nextQueryId <- q6,
    activeIds <- q7, expired <- q8, timers <- q9, sessionTimers <- q10, pending <- q11,
    writeQueue <- q12, generation <- q13, link <- q14, writes <- q15, reads <- q16,
    isStopped <- q17, stray <- q18
Dot == INSTANCE DotTransport WITH
    Ops <- DnsOps, MaxId <- 4, MaxSessions <- 2,
    op <- q1, nextId <- q2, active <- q3, expired <- q4, timers <- q5, session <- q6,
    pending <- q7, queue <- q8, writing <- q9, stopped <- q10
Doh1 == INSTANCE DohTransport WITH
    Ops <- DnsOps, MaxSessions <- 0, MaxDials <- 0,
    op <- q1, expired <- q2, asked <- q3, timers <- q4, stopped <- q5, sess <- q6, made <- q7,
    posts <- q8, dials <- q9, http <- q10
Doh2 == INSTANCE DohTransport WITH
    Ops <- One, MaxSessions <- 2, MaxDials <- 2,
    op <- q1, expired <- q2, asked <- q3, sess <- q4, made <- q5, posts <- q6, dials <- q7,
    http <- q8, timers <- q9, stopped <- q10
Doq == INSTANCE QuicDnsTransport WITH
    Ops <- One, Doh3 <- FALSE, MaxPerSession <- 2, MaxIdle <- 1, MaxSessions <- 2,
    MaxStreams <- 2,
    op <- q1, expired <- q2, asked <- q3, pool <- q4, dials <- q5, timers <- q6, stopped <- q7
Boot == INSTANCE Bootstrap WITH
    Ops <- DnsOps, Requests <- One, Servers <- 2,
    op <- q1, listed <- q2, inner <- q3, dropped <- q4, stop <- q5, req <- q1, sys <- q2,
    timers <- q3, watched <- q4, expired <- q5, asked <- q6, stopped <- q7
\* Before stop(), an exchange is cancelled or one is late, not both.
Doh2Scope == q2' = {} \/ q3' = {} \/ q10'

ASSUME Bounds ==
    /\ Watch!WatchAssumption /\ Broadcast!BroadcastAssumption /\ Oneshot!OneshotAssumption
    /\ Merge!MergeAssumption /\ Killed!ServerAssumption /\ TcpRelay!TimesAssumption
    /\ WebSocket!HandshakeAssumption /\ Body!SizesAssumption
    /\ Http2!SessionAssumption /\ Tunnel!TunnelAssumption /\ Http3!SessionAssumption
    /\ Service!DnsQueryAssumption /\ Plain!TransportAssumption /\ Dot!DotAssumption
    /\ Doh2!Doh2Assumption /\ Doq!QuicDnsAssumption /\ Boot!BootstrapAssumption
    /\ Subjects \subseteq {"mpsc", "http", "watch", "broadcast", "adaptor", "oneshot", "merge",
                           "killed", "relay", "handshake", "http1", "body", "http2", "tunnel",
                           "http3", "group", "service", "plain", "dot", "doh1", "doh2", "doq",
                           "by name", "bootstrap"}

\* From n on: the variables that a component with fewer of them does not use.
from22 == <<q22, q23, q24>>
from19 == <<q19, q20, q21, from22>>
from16 == <<q16, q17, q18, from19>>
from15 == <<q15, from16>>
from14 == <<q14, from15>>
from13 == <<q13, from14>>
from11 == <<q11, q12, from13>>
from9 == <<q9, q10, from11>>
from8 == <<q8, from9>>
from6 == <<q6, q7, from8>>
pool == <<q1, q2, q3, q4, q5, from6>>
notMpsc == <<subject, httpVars, pool>>
notHttp == <<subject, vars, pool>>
notPool == <<subject, vars, httpVars>>
all == <<notPool, pool>>

Zero22 == q22 = 0 /\ q23 = 0 /\ q24 = 0
Zero19 == q19 = 0 /\ q20 = 0 /\ q21 = 0 /\ Zero22
Zero16 == q16 = 0 /\ q17 = 0 /\ q18 = 0 /\ Zero19
Zero15 == q15 = 0 /\ Zero16
Zero14 == q14 = 0 /\ Zero15
Zero13 == q13 = 0 /\ Zero14
Zero11 == q11 = 0 /\ q12 = 0 /\ Zero13
Zero9 == q9 = 0 /\ q10 = 0 /\ Zero11
Zero8 == q8 = 0 /\ Zero9
Zero6 == q6 = 0 /\ q7 = 0 /\ Zero8
PoolInit ==
    \/ subject = "watch" /\ Watch!Init /\ q11 = {First} /\ Zero13
    \/ subject = "broadcast" /\ Broadcast!Init /\ q13 = {First} /\ Zero19
    \/ subject = "adaptor" /\ Adaptor!Init /\ Zero15
    \/ subject = "oneshot" /\ Oneshot!Init /\ Zero13
    \/ subject = "merge" /\ Merge!Init /\ Zero13
    \/ subject = "killed" /\ Killed!ServerInit /\ Zero16
    \/ subject = "relay" /\ TcpRelay!Init /\ Zero15
    \/ subject = "handshake" /\ WebSocket!HandshakeInit /\ Zero9
    \/ subject = "http1" /\ Http1!Init /\ Zero15
    \/ subject = "body" /\ Body!BodyInit /\ Zero14
    \/ subject = "http2" /\ Http2!Init
    \/ subject = "tunnel" /\ Tunnel!Init
    \/ subject = "http3" /\ Http3!Init /\ Zero14
    \/ subject = "group" /\ Group!Init /\ Zero16
    \/ subject = "service" /\ Service!QueryInit /\ Zero22
    \/ subject = "plain" /\ Plain!TransportInit /\ Zero19
    \/ subject = "dot" /\ Dot!Init /\ Zero11
    \/ subject = "doh1" /\ Doh1!Doh1Init /\ Zero6
    \/ subject = "doh2" /\ Doh2!Init /\ Zero11
    \/ subject = "doq" /\ Doq!Init /\ Zero8
    \/ subject = "by name" /\ Boot!TransportInit /\ Zero6
    \/ subject = "bootstrap" /\ Boot!ResolverInit /\ Zero8
    \/ /\ subject \in {"mpsc", "http"}
       /\ q1 = 0 /\ q2 = 0 /\ q3 = 0 /\ q4 = 0 /\ q5 = 0 /\ Zero6

MCInit == subject \in Subjects /\ Init /\ HttpInit /\ PoolInit

PoolNext ==
    \/ subject = "watch" /\ Watch!Next /\ UNCHANGED from13
    \/ subject = "broadcast" /\ Broadcast!Next /\ UNCHANGED from19
    \/ subject = "adaptor" /\ Adaptor!Next /\ UNCHANGED from15
    \/ subject = "oneshot" /\ Oneshot!Next /\ UNCHANGED from13
    \/ subject = "merge" /\ Merge!Next /\ UNCHANGED from13
    \/ subject = "killed" /\ Killed!ServerNext /\ UNCHANGED from16
    \/ subject = "relay" /\ TcpRelay!Next /\ UNCHANGED from15
    \/ subject = "handshake" /\ WebSocket!HandshakeNext /\ UNCHANGED from9
    \/ subject = "http1" /\ Http1!Next /\ UNCHANGED from15
    \/ subject = "body" /\ Body!BodyNext /\ UNCHANGED from14
    \/ subject = "http2" /\ Http2!Next
    \/ subject = "tunnel" /\ Tunnel!Next
    \/ subject = "http3" /\ Http3!Next /\ UNCHANGED from14
    \/ subject = "group" /\ Group!Next /\ UNCHANGED from16
    \/ subject = "service" /\ Service!QueryNext /\ UNCHANGED from22
    \/ subject = "plain" /\ Plain!TransportNext /\ Plain!IdsToSpare' /\ UNCHANGED from19
    \/ subject = "dot" /\ Dot!Next /\ UNCHANGED from11
    \/ subject = "doh1" /\ Doh1!Doh1Next /\ UNCHANGED from6
    \/ subject = "doh2" /\ Doh2!Next /\ Doh2Scope /\ UNCHANGED from11
    \/ subject = "doq" /\ Doq!Next /\ UNCHANGED from8
    \/ subject = "by name" /\ Boot!TransportNext /\ UNCHANGED from6
    \/ subject = "bootstrap" /\ Boot!ResolverNext /\ UNCHANGED from8

MCNext == \/ subject = "mpsc" /\ Next /\ UNCHANGED notMpsc
          \/ subject = "http" /\ HttpNext /\ UNCHANGED notHttp
          \/ PoolNext /\ UNCHANGED notPool

MCSpec == MCInit /\ [][MCNext]_all

-----------------------------------------------------------------------------
(* Fairness.  What a component is owed goes on: a thread within a call, what *)
(* is posted, a timer, a write of the socket, an aborted operation; never a  *)
(* caller or a peer.  That one of these goes on is enough where they are     *)
(* finitely many, so each component has one weakly fair action, and more     *)
(* only where one of them recurs.                                            *)

OwedMpsc == \E o \in Ops : ThreadStep(o)
OwedRelay == \/ TcpRelay!Tick \/ TcpRelay!Wakes
             \/ TcpRelay!Finish \/ TcpRelay!Decide \/ TcpRelay!Returns
             \/ \E d \in TcpRelay!Dirs : \/ TcpRelay!CheckFinished(d) \/ TcpRelay!Count(d)
                                          \/ TcpRelay!Touch(d) \/ TcpRelay!Aborted(d)
                                          \/ TcpRelay!Stopped(d)
Owed ==
    \/ subject = "watch" /\ (\E o \in Watch!Ops : Watch!ThreadStep(o)) /\ UNCHANGED from13
    \/ subject = "broadcast" /\ (\E o \in Broadcast!Ops : Broadcast!ThreadStep(o))
       /\ UNCHANGED from19
    \/ /\ subject = "adaptor" /\ UNCHANGED from15
       /\ \/ Adaptor!StartStep \/ Adaptor!StopStep \/ Adaptor!Destroy \/ Adaptor!DestroyStep
          \/ q11 /\ Adaptor!TerminalClaim      \* aborted
          \/ Adaptor!TerminalStep
    \/ /\ subject = "oneshot" /\ UNCHANGED from13
       /\ Oneshot!ReceiverStep \/ Oneshot!StopStep \/ Oneshot!Deliver
    \/ subject = "merge" /\ Merge!Due /\ UNCHANGED from13
    \/ /\ subject = "killed" /\ UNCHANGED from16
       /\ \/ Killed!StopReturns
          \/ \E s \in {"s"} : \/ Killed!Inserts(s) \/ Killed!Opening(s) \/ Killed!KeepsHandle(s)
                             \/ Killed!RelayAssigned(s)
    \/ subject = "relay" /\ OwedRelay /\ UNCHANGED from15
    \/ subject = "handshake" /\ WebSocket!HandshakeStep /\ UNCHANGED from9
    \/ subject = "http1" /\ (\E x \in 1 .. 3 : Http1!Expire(x) \/ Http1!PostedRuns(x))
       /\ UNCHANGED from15
    \/ subject = "body" /\ (Body!RunPost \/ Body!Finish \/ Body!Fail) /\ UNCHANGED from14
    \/ subject = "http2" /\ (Http2!Expire(1) \/ Http2!PostedRuns(1) \/ Http2!IOEnds)
    \/ subject = "tunnel" /\ (Tunnel!RunPost \/ Tunnel!WriteCompletes)
    \/ subject = "http3" /\ (Http3!Expire(1) \/ Http3!PostedRuns(1) \/ Http3!FailureTold)
       /\ UNCHANGED from14
    \/ /\ subject = "group" /\ UNCHANGED from16
       /\ \E o \in DnsOps : \/ Group!LoopTimeout(o) \/ Group!LoopExhausted(o)
                            \/ Group!LoopAttempt(o) \/ Group!MemberEnds(o)
                            \/ Group!MemberCancelled(o)
    \/ /\ subject = "service" /\ UNCHANGED from22
       /\ \/ Service!RuntimeStart
          \/ \E kind \in {"query", "cancel", "clear", "finish", "stop"} : Service!StrandStep(kind)
          \/ \E r \in Service!Requests : Service!UpstreamEnds(r)
    \/ subject = "plain" /\ (\E o \in One : Plain!DeadlinePasses(o) \/ Plain!OpDeadline(o))
       /\ UNCHANGED from19
    \/ subject = "dot" /\ Dot!TimePasses /\ UNCHANGED from11
    \/ subject = "doh1" /\ Doh1!Doh1TimePasses /\ UNCHANGED from6
    \/ subject = "doh2" /\ (Doh2!TimePasses \/ Doh2!Strand) /\ UNCHANGED from11
    \/ subject = "doq" /\ Doq!TimePasses /\ UNCHANGED from8
    \/ subject = "by name" /\ Boot!Ends /\ UNCHANGED from6
    \/ subject = "bootstrap" /\ Boot!TimePasses /\ UNCHANGED from8
Due == \/ subject = "mpsc" /\ OwedMpsc /\ UNCHANGED notMpsc
       \/ subject = "http" /\ Session /\ UNCHANGED notHttp
       \/ Owed /\ UNCHANGED notPool

\* The HTTP/2 session's writes and pings.
Written == subject = "http2" /\ Http2!WriteEnds /\ UNCHANGED notPool
Pinged == subject = "http2" /\ Http2!PingTick /\ UNCHANGED notPool
\* What waits for the strand, or for whoever holds it, time and again.
StrandFrees == /\ subject = "killed" /\ (Killed!StopOnOwner \/ Killed!LoopExits)
               /\ UNCHANGED from16 /\ UNCHANGED notPool

MCFairSpec == MCSpec /\ WF_all(Due) /\ WF_all(Written) /\ WF_all(Pinged) /\ SF_all(StrandFrees)

-----------------------------------------------------------------------------
(* The properties of the components, for the subjects they are about.  What *)
(* a component must not do for ever is a predicate of its module.           *)

\* Whoever waits in a channel, an adaptor or a merge is let go: no operation stays
\* parked after the close or the stop that was meant for it.
EveryoneReleased ==
    <>[](CASE subject = "mpsc" -> Released
           [] subject = "watch" -> Watch!Released
           [] subject = "broadcast" -> Broadcast!Released
           [] subject = "adaptor" -> ~Adaptor!Leftover
           [] subject = "oneshot" -> ~Oneshot!Overdue
           [] subject = "merge" -> ~Merge!Unwinding
           [] OTHER -> TRUE)

\* stop() of the server returns, no HTTP request is left half handled, whatever the peers do
\* a relay comes to its end, and a WebSocket handshake with a deadline is answered.
EverythingEnds ==
    <>[](CASE subject = "killed" -> ~Killed!StopUnderWay
           [] subject = "http" -> ~Unanswered
           [] subject = "relay" -> TcpRelay!Over
           [] subject = "handshake" -> WebSocket!Outcome
           [] OTHER -> TRUE)

\* Every exchange is told its end, of all three HTTP versions, a retired session closes its
\* connection, and a pull of a body or an operation on a tunnel that waits is completed,
\* stopped ones included.
EverythingCompletes ==
    <>[](CASE subject = "http1" -> Http1!EveryoneTold
           [] subject = "body" -> Body!NobodyPulls
           [] subject = "http2" -> Http2!EveryoneTold
           [] subject = "tunnel" -> Tunnel!NobodyWaits
           [] subject = "http3" -> Http3!EveryoneTold
           [] OTHER -> TRUE)

\* Every query is answered, whatever is cancelled, stopped or restarted meanwhile.
QueryAnswered == <>[](subject = "service" => Service!EveryQueryAnswered)

\* What DnsExchange speaks of, in each component that exchanges DNS messages.
Idle == [o \in DnsOps |-> "idle"]
Unsettled == [o \in DnsOps |-> "none"]
OfGroup == [o \in DnsOps |-> IF Group!Outcome[o] = None THEN "none" ELSE Group!Outcome[o]]
Exchanged == INSTANCE DnsExchange WITH Ops <- DnsOps, NoOutcome <- "none",
    Outcomes <- UNION {Group!Outcomes, Plain!Endings, Dot!Outcomes, Doh2!Outcomes, Doq!Outcomes,
                       Boot!TransportOutcomes, Boot!ResolverOutcomes},
    phase <- CASE subject = "group" -> Group!Phase [] subject = "plain" -> q1 @@ Idle
               [] subject = "dot" -> Dot!Phase [] subject = "doh1" -> Doh1!Phase
               [] subject = "doh2" -> Doh2!Phase @@ Idle [] subject = "doq" -> Doq!Phase @@ Idle
               [] subject = "by name" -> Boot!TransportPhase
               [] subject = "bootstrap" -> Boot!ResolverPhase @@ Idle [] OTHER -> Idle,
    outcome <- CASE subject = "group" -> OfGroup [] subject = "plain" -> q2 @@ Unsettled
                 [] subject = "dot" -> Dot!Outcome [] subject = "doh1" -> Doh1!Outcome
                 [] subject = "doh2" -> Doh2!Outcome @@ Unsettled
                 [] subject = "doq" -> Doq!Outcome @@ Unsettled
                 [] subject = "by name" -> Boot!TransportOutcome
                 [] subject = "bootstrap" -> Boot!ResolverOutcome @@ Unsettled
                 [] OTHER -> Unsettled
\* The group, the transports and the bootstrap resolver implement DnsExchange: an exchange
\* has one outcome, and some outcome.
PromisesKept == Exchanged!FairSpec

\* Every exchange of the upstream group ends (docs/architecture.md), which a member's own
\* `cancelled' breaks.
ExchangeEnds == <>[](subject = "group" => \A o \in DnsOps : Group!Phase[o] # "running")
=============================================================================

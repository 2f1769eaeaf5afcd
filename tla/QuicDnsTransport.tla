-------------------------- MODULE QuicDnsTransport --------------------------
(***************************************************************************)
(* QuicDnsTransport of src/dns/quic_dns_transport.cpp with its two         *)
(* protocols, DoQ (doq_dns_transport.cpp) and DoH over HTTP/3              *)
(* (doh3_dns_transport.cpp): a pool of QUIC sessions, each shared by       *)
(* several exchanges, kept idle for a while, and retired.  The calls post  *)
(* to the transport's strand in order; an action is the closure that       *)
(* runs.  QUIC and the HTTP/3 session are external here (they are          *)
(* QuicClient and Http3Session).                                           *)
(***************************************************************************)
EXTENDS Naturals, Sequences, FiniteSets

CONSTANTS Ops,            \* exchanges
          Doh3,           \* the protocol: DoH over HTTP/3, or DoQ
          MaxPerSession,  \* kMaximumConcurrentExchangesPerSession (64)
          MaxIdle,        \* kMaximumIdleQuicSessions (4)
          MaxSessions,    \* bound: sessions made
          MaxStreams      \* bound: streams the upstream allows in a session

QuicDnsAssumption == /\ {MaxPerSession, MaxSessions, MaxStreams} \subseteq Nat \ {0}
                     /\ MaxIdle \in Nat /\ Doh3 \in BOOLEAN /\ IsFiniteSet(Ops)

Outcomes == {"answer", "error", "timeout", "cancelled"}
Sessions == 1 .. MaxSessions

VARIABLES
    op,        \* exchange -> [phase, outcome, session]
    expired,   \* exchanges whose deadline has passed
    asked,     \* exchanges that were cancelled
    pool,      \* [sess, made, active, idle, idleTimers]
    dials,     \* run_open() tasks: sessions
    timers,    \* run_deadline() tasks: exchanges
    stopped

vars == <<op, expired, asked, pool, dials, timers, stopped>>

\* exchanges_, pending_exchanges_, stream_exchanges_ (or the HTTP/3 exchanges under way),
\* the streams that may be opened, quic_, idle_generation_.
NewSession == [exch |-> {}, pend |-> <<>>, streams |-> {}, free |-> 1, granted |-> 1,
               quic |-> "none", gen |-> 0, retired |-> FALSE]

TypeOK ==
    /\ \A o \in Ops : /\ op[o].phase \in {"idle", "running", "done"}
                      /\ op[o].outcome \in Outcomes \cup {"none"}
                      /\ op[o].session \in 0 .. pool.made
    /\ \A s \in Sessions : /\ {pool.sess[s].exch, pool.sess[s].streams} \subseteq SUBSET Ops
                           /\ pool.sess[s].quic \in {"none", "handshake", "ready"}
    /\ {pool.active, pool.idle} \subseteq Seq(Sessions) /\ dials \subseteq Sessions

Init == /\ op = [o \in Ops |-> [phase |-> "idle", outcome |-> "none", session |-> 0]]
        /\ expired = {} /\ asked = {} /\ dials = {} /\ timers = {} /\ stopped = FALSE
        /\ pool = [sess |-> [s \in Sessions |-> NewSession], made |-> 0, active |-> <<>>,
                   idle |-> <<>>, idleTimers |-> {}]

-----------------------------------------------------------------------------
(* Sessions.  p is the pool, s a session of it.                             *)

Running == {o \in Ops : op[o].phase = "running"}
Without(seq, x) == SelectSeq(seq, LAMBDA y : y # x)
Live(r) == SelectSeq(r.pend, LAMBDA o : o \in r.exch)
Elements(seq) == {seq[i] : i \in 1 .. Len(seq)}
Least(S, f(_)) == CHOOSE i \in S : \A j \in S : f(i) < f(j) \/ (f(i) = f(j) /\ i <= j)

\* retire_session(), session_retired().
Retired(p, s) ==
    [p EXCEPT !.sess[s] = [NewSession EXCEPT !.retired = TRUE, !.gen = p.sess[s].gen + 1],
              !.active = Without(@, s), !.idle = Without(@, s)]

\* session_idle(): the oldest makes room.
SessionIdle(p, s) ==
    LET i == Append(p.idle, s)
        q == [p EXCEPT !.active = Without(@, s)] IN
    IF stopped' THEN Retired(q, s)
    ELSE IF Len(i) > MaxIdle THEN Retired([q EXCEPT !.idle = Tail(i)], i[1])
    ELSE [q EXCEPT !.idle = i]

\* enter_idle_or_retire()
EnterIdleOrRetire(p, s) ==
    LET g == p.sess[s].gen + 1 IN
    IF p.sess[s].quic # "ready" THEN Retired(p, s)
    ELSE SessionIdle([p EXCEPT !.sess[s].gen = g,
                               !.idleTimers = @ \cup {[session |-> s, gen |-> g]}], s)

\* complete_exchange(): o leaves the session.  Mutant: the session is given up with it.
LeaveAndRetire(p, s, o) == EnterIdleOrRetire([p EXCEPT !.sess[s].exch = @ \ {o}], s)
Leave(p, s, o) ==
    LET q == [p EXCEPT !.sess[s].exch = @ \ {o}] IN
    IF q.sess[s].exch = {} THEN EnterIdleOrRetire(q, s) ELSE q

\* pump_open_pending_exchanges(): streams are opened until the upstream allows no more.
Pump(p, s) ==
    LET r == p.sess[s]
        live == Live(r)
        n == IF r.free < Len(live) THEN r.free ELSE Len(live) IN
    IF Doh3 \/ r.quic # "ready" THEN p
    ELSE [p EXCEPT !.sess[s] = [r EXCEPT !.pend = SubSeq(live, n + 1, Len(live)),
                                         !.free = @ - n,
                                         !.streams = @ \cup Elements(SubSeq(live, 1, n))]]

\* complete(): an exchange that is over stays as it is.
Complete(S, r) == op' = [o \in Ops |-> IF o \in S \cap Running
                                       THEN [op[o] EXCEPT !.phase = "done", !.outcome = r]
                                       ELSE op[o]]
\* set_exchange_error() or decode_dns_response(), and drain_exchange_results().
Finish(p, s, o, r) ==
    IF o \in p.sess[s].exch THEN Complete({o}, r) /\ pool' = Leave(p, s, o)
    ELSE UNCHANGED op /\ pool' = p
\* fail_session()
FailSession(s) == Complete(pool.sess[s].exch, "error") /\ pool' = Retired(pool, s)

-----------------------------------------------------------------------------
(* Exchanges. *)

\* add_new_exchange(): the active session with the fewest exchanges that accepts one, or
\* the one that was idle last, or a new one.
Accepting == {i \in 1 .. Len(pool.active) :
                  Cardinality(pool.sess[pool.active[i]].exch) < MaxPerSession}
Load(i) == Cardinality(pool.sess[pool.active[i]].exch)
Chosen == IF Accepting # {} THEN pool.active[Least(Accepting, Load)]
          ELSE IF pool.idle # <<>> THEN pool.idle[Len(pool.idle)]
          ELSE pool.made + 1
Joined(s) == [pool EXCEPT !.made = IF s > @ THEN s ELSE @,
                          !.active = IF s \in Elements(@) THEN @ ELSE Append(@, s),
                          !.idle = Without(@, s)]

\* start_doh3_session(), open_pending_http3_exchanges(), submit_http3_exchange(): what is
\* queued and still runs is handed to the HTTP/3 session, which is there from the dial on.
SubmitHttp3(p, s) ==
    [p EXCEPT !.sess[s].pend = <<>>,
              !.sess[s].streams = @ \cup Elements(Live(p.sess[s]))]
\* add_exchange()
AddExchange(p, s, o) ==
    LET q == [p EXCEPT !.sess[s].gen = @ + 1, !.sess[s].exch = @ \cup {o},
                       !.sess[s].pend = Append(@, o)] IN
    IF Doh3 /\ q.sess[s].quic # "none" THEN SubmitHttp3(q, s) ELSE Pump(q, s)
\* start_on_strand(): the first exchange of a session makes it dial.
StartOnStrand(s) == IF s > pool.made THEN dials \cup {s} ELSE dials

OpenRefused(o) == /\ op[o].phase = "idle" /\ stopped
                  /\ op' = [op EXCEPT ![o].phase = "done", ![o].outcome = "cancelled"]
                  /\ UNCHANGED <<expired, asked, pool, dials, timers, stopped>>
\* A query that is none, or is too late, is answered by the session it was given to.
OpenInvalid(o) ==
    /\ op[o].phase = "idle" /\ ~stopped /\ Chosen <= MaxSessions /\ stopped' = stopped
    /\ \E r \in {"error", "timeout"} :
          /\ r = "timeout" => o \in expired
          /\ op' = [op EXCEPT ![o].phase = "done", ![o].outcome = r, ![o].session = Chosen]
    /\ pool' = Leave([Joined(Chosen) EXCEPT !.sess[Chosen].gen = @ + 1,
                                            !.sess[Chosen].exch = @ \cup {o}], Chosen, o)
    /\ UNCHANGED <<expired, asked, dials, timers>>
Open(o) ==
    /\ op[o].phase = "idle" /\ ~stopped /\ o \notin expired /\ Chosen <= MaxSessions
    /\ op' = [op EXCEPT ![o].phase = "running", ![o].session = Chosen]
    /\ pool' = AddExchange(Joined(Chosen), Chosen, o) /\ timers' = timers \cup {o}
    /\ dials' = StartOnStrand(Chosen)
    /\ UNCHANGED <<expired, asked, stopped>>

DeadlinePasses(o) == /\ o \notin expired /\ expired' = expired \cup {o}
                     /\ UNCHANGED <<op, asked, pool, dials, timers, stopped>>
\* run_deadline(), cancel_exchange() of the session.
Deadline(o) == /\ o \in timers /\ o \in expired /\ timers' = timers \ {o} /\ stopped' = stopped
               /\ Finish(pool, op[o].session, o, "timeout")
               /\ UNCHANGED <<expired, asked, dials>>
CancelExchange(o) ==
    /\ o \in Running /\ asked' = asked \cup {o} /\ stopped' = stopped
    /\ Finish(pool, op[o].session, o, "cancelled") /\ UNCHANGED <<expired, dials, timers>>

\* stop(), cancel_all(): a session that empties is closed, as is one that was idle.
Stop == /\ ~stopped /\ stopped' = TRUE /\ Complete(Running, "cancelled")
        /\ LET ends == Elements(pool.active) \cup Elements(pool.idle) IN
           pool' = [pool EXCEPT !.sess = [s \in Sessions |->
                        IF s \in ends THEN Retired(pool, s).sess[s] ELSE pool.sess[s]],
                                !.active = <<>>, !.idle = <<>>]
        /\ UNCHANGED <<expired, asked, dials, timers>>

-----------------------------------------------------------------------------
(* The connection of a session. *)

\* run_open(), datagram_opened().
DatagramOpened(s, ok) ==
    /\ s \in dials /\ dials' = dials \ {s} /\ stopped' = stopped
    /\ IF pool.sess[s].retired THEN UNCHANGED <<op, pool>>
       ELSE IF pool.sess[s].exch = {} THEN pool' = Retired(pool, s) /\ UNCHANGED op
       ELSE IF ~ok THEN FailSession(s)
       ELSE /\ LET p == [pool EXCEPT !.sess[s].quic = "handshake"] IN
               pool' = IF Doh3 THEN SubmitHttp3(p, s) ELSE p
            /\ UNCHANGED op
    /\ UNCHANGED <<expired, asked, timers>>
\* on_quic_ready(); of another ALPN it is QuicFails.
Ready(s) == /\ pool.sess[s].quic = "handshake"
            /\ pool' = Pump([pool EXCEPT !.sess[s].quic = "ready"], s)
            /\ UNCHANGED <<op, expired, asked, dials, timers, stopped>>
\* stream_capacity: the upstream allows one more stream.
StreamCapacity(s) ==
    /\ ~Doh3 /\ pool.sess[s].quic = "ready" /\ pool.sess[s].granted < MaxStreams
    /\ pool' = Pump([pool EXCEPT !.sess[s].free = @ + 1, !.sess[s].granted = @ + 1], s)
    /\ UNCHANGED <<op, expired, asked, dials, timers, stopped>>
\* The connection is lost, or the handshake fails or takes too long.
QuicFails(s) == /\ pool.sess[s].quic # "none" /\ FailSession(s)
                /\ UNCHANGED <<expired, asked, dials, timers, stopped>>

\* on_doq_stream_data(), on_doq_stream_reset(): the message, one that is none, a reset.
StreamData(s, o, r) ==
    /\ ~Doh3 /\ o \in pool.sess[s].streams \cap pool.sess[s].exch /\ stopped' = stopped
    /\ Finish(pool, s, o, r) /\ UNCHANGED <<expired, asked, dials, timers>>
\* on_doq_stream_closed(): an exchange without an answer fails.
StreamClosed(s, o) ==
    /\ ~Doh3 /\ o \in pool.sess[s].streams /\ stopped' = stopped
    /\ Finish([pool EXCEPT !.sess[s].streams = @ \ {o}], s, o, "error")
    /\ UNCHANGED <<expired, asked, dials, timers>>
\* run_http3_exchange(), on_http3_result(): also of an exchange that is over.
Http3Result(s, o, r) ==
    /\ Doh3 /\ o \in pool.sess[s].streams /\ (r = "timeout" => o \in expired)
    /\ r = "answer" => pool.sess[s].quic = "ready"
    /\ stopped' = stopped
    /\ Finish([pool EXCEPT !.sess[s].streams = @ \ {o}], s, o, r)
    /\ UNCHANGED <<expired, asked, dials, timers>>

\* run_idle(): retire_idle().
IdleTimer(t) ==
    /\ t \in pool.idleTimers
    /\ LET p == [pool EXCEPT !.idleTimers = @ \ {t}]
           r == pool.sess[t.session] IN
       pool' = IF ~r.retired /\ r.gen = t.gen /\ r.exch = {} THEN Retired(p, t.session) ELSE p
    /\ UNCHANGED <<op, expired, asked, dials, timers, stopped>>

Next == \/ \E o \in Ops : \/ OpenRefused(o) \/ OpenInvalid(o) \/ Open(o)
                          \/ DeadlinePasses(o) \/ Deadline(o) \/ CancelExchange(o)
        \/ \E s \in Sessions : Ready(s) \/ StreamCapacity(s) \/ QuicFails(s)
        \/ \E s \in Sessions, ok \in BOOLEAN : DatagramOpened(s, ok)
        \/ \E s \in Sessions, o \in Ops, r \in {"answer", "error"} : StreamData(s, o, r)
        \/ \E s \in Sessions, o \in Ops : StreamClosed(s, o)
        \/ \E s \in Sessions, o \in Ops, r \in Outcomes \ {"cancelled"} : Http3Result(s, o, r)
        \/ \E t \in pool.idleTimers : IdleTimer(t)
        \/ Stop
Spec == Init /\ [][Next]_vars
TimePasses == \E o \in Ops : (o \in Running /\ DeadlinePasses(o)) \/ Deadline(o)

-----------------------------------------------------------------------------
Phase == [o \in Ops |-> op[o].phase]
Outcome == [o \in Ops |-> op[o].outcome]
Alive == {s \in 1 .. pool.made : ~pool.sess[s].retired}

\* A session knows exactly its exchanges that run, each with a deadline; no session is
\* retired over one.
NobodyForgotten ==
    /\ \A s \in Sessions : pool.sess[s].exch = {o \in Running : op[o].session = s}
    /\ \A o \in Running : o \in timers /\ ~pool.sess[op[o].session].retired
\* A session is active while it has exchanges, and is idle without any, connected, and with
\* a timer of its own to end it; after stop() there is none.
PoolIsSound ==
    /\ Alive = Elements(pool.active) \cup Elements(pool.idle)
    /\ Len(pool.active) + Len(pool.idle) = Cardinality(Alive)
    /\ \A s \in Elements(pool.active) : /\ pool.sess[s].exch # {}
                                        /\ Cardinality(pool.sess[s].exch) <= MaxPerSession
                                        /\ pool.sess[s].quic = "none" => s \in dials
    /\ \A s \in Elements(pool.idle) :
          /\ pool.sess[s].exch = {} /\ pool.sess[s].quic = "ready"
          /\ [session |-> s, gen |-> pool.sess[s].gen] \in pool.idleTimers
    /\ Len(pool.idle) <= MaxIdle
    /\ stopped => Alive = {}
\* An exchange has its stream, or is queued for one: while the connection is not made, or
\* while the upstream allows no more.
NoneLeftWaiting ==
    \A s \in Sessions : LET r == pool.sess[s] IN
        /\ \A o \in r.exch : (o \in r.streams) # (o \in Elements(r.pend))
        /\ Live(r) # <<>> => \/ r.quic = "none"
                             \/ ~Doh3 /\ (r.quic = "handshake" \/ r.free = 0)
\* Timeouts and cancellations are the exchange's own.
OutcomesAreOwn ==
    \A o \in Ops : /\ op[o].outcome = "timeout" => o \in expired
                   /\ op[o].outcome = "cancelled" => o \in asked \/ stopped
QuicDnsIsSound == TypeOK /\ NobodyForgotten /\ PoolIsSound /\ NoneLeftWaiting /\ OutcomesAreOwn
=============================================================================

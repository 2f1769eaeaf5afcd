---------------------------- MODULE DohTransport ----------------------------
(***************************************************************************)
(* DNS over HTTPS, over HTTP/1.1 and over HTTP/2.                          *)
(*                                                                         *)
(* Doh2DnsTransport of src/dns/doh2_dns_transport.cpp: exchanges over one  *)
(* shared HTTP/2 session.  The state of a session is touched on the strand *)
(* only: every call, timer and completion posts a closure, and `posts' is  *)
(* the queue of these.  A session that was retired goes on for the         *)
(* exchanges it has.  The HTTP/2 session is external here (it is           *)
(* Http2Session), and transaction ids are not used twice.                  *)
(*                                                                         *)
(* Doh1DnsTransport of src/dns/doh1_dns_transport.cpp: every exchange has  *)
(* a connection of its own, made and used by one detached task.  Nothing   *)
(* stops that task: whoever finishes the exchange first sets completed_,   *)
(* and the task gives back what it holds when its await ends.  It has the  *)
(* variables op, expired, asked, timers and stopped, and no sessions.      *)
(***************************************************************************)
EXTENDS Naturals, Sequences, FiniteSets

CONSTANTS Ops,          \* exchanges
          MaxSessions,  \* bound: sessions made
          MaxDials      \* bound: connection attempts of a session

Doh2Assumption == {MaxSessions, MaxDials} \subseteq Nat /\ IsFiniteSet(Ops)

Outcomes == {"answer", "error", "timeout", "cancelled"}
Sessions == 1 .. MaxSessions

VARIABLES
    op,        \* exchange -> [phase, outcome, session]; of Doh1 [phase, outcome, at, holds]
    expired,   \* exchanges whose deadline has passed
    asked,     \* exchanges that were cancelled
    sess,      \* session -> its state
    made,      \* sessions made; the last one is session_
    posts,     \* closures posted to the strand
    dials,     \* run_connect() tasks: [session, gen]
    http,      \* run_exchange() tasks: exchanges at the HTTP/2 session
    timers,    \* run_deadline() tasks
    stopped

vars == <<op, expired, asked, sess, made, posts, dials, http, timers, stopped>>

NewSession == [pending |-> {}, started |-> {}, gen |-> 0, connecting |-> FALSE, up |-> FALSE,
               httpRetired |-> FALSE, retired |-> FALSE, stopped |-> FALSE]

TypeOK ==
    /\ \A o \in Ops : /\ op[o].phase \in {"idle", "running", "done"}
                      /\ op[o].outcome \in Outcomes \cup {"none"} /\ op[o].session \in 0 .. made
    /\ \A s \in Sessions : /\ sess[s].started \subseteq sess[s].pending
                           /\ sess[s].pending \subseteq Ops /\ sess[s].gen \in Nat
    /\ made \in 0 .. MaxSessions /\ {expired, asked, http, timers} \subseteq SUBSET Ops

Init == /\ op = [o \in Ops |-> [phase |-> "idle", outcome |-> "none", session |-> 0]]
        /\ expired = {} /\ asked = {} /\ sess = [s \in Sessions |-> NewSession] /\ made = 0
        /\ posts = <<>> /\ dials = {} /\ http = {} /\ timers = {} /\ stopped = FALSE

-----------------------------------------------------------------------------
(* The transport and its exchanges. *)

Running == {o \in Ops : op[o].phase = "running"}
Post(kind, s, o, r) == [kind |-> kind, session |-> s, op |-> o, result |-> r]
Nobody == {}

\* finish(), cancel(), complete(): what is over stays as it is.
Complete(S, r) == op' = [o \in Ops |-> IF o \in S \cap Running
                                       THEN [op[o] EXCEPT !.phase = "done", !.outcome = r]
                                       ELSE op[o]]

\* session(): the last one made, unless it was retired.
SessionFor == IF made = 0 \/ sess[made].retired THEN made + 1 ELSE made
\* Operation::run(): the transport was stopped, it is too late, or the query is no good.
OpenRefused(o) ==
    /\ op[o].phase = "idle"
    /\ op' = [op EXCEPT ![o].phase = "done",
                        ![o].outcome = IF stopped THEN "cancelled"
                                       ELSE IF o \in expired THEN "timeout" ELSE "error"]
    /\ UNCHANGED <<expired, asked, sess, made, posts, dials, http, timers, stopped>>
\* Session::exchange() up to what it posts.
Open(o) ==
    /\ op[o].phase = "idle" /\ ~stopped /\ o \notin expired /\ SessionFor <= MaxSessions
    /\ made' = SessionFor
    /\ op' = [op EXCEPT ![o].phase = "running", ![o].session = made']
    /\ posts' = Append(posts, Post("start", made', o, "none"))
    /\ UNCHANGED <<expired, asked, sess, dials, http, timers, stopped>>

CancelExchange(o) ==
    /\ o \in Running /\ Complete({o}, "cancelled") /\ asked' = asked \cup {o}
    /\ posts' = Append(posts, Post("fail", op[o].session, o, "cancelled"))
    /\ UNCHANGED <<expired, sess, made, dials, http, timers, stopped>>

DeadlinePasses(o) == /\ o \notin expired /\ expired' = expired \cup {o}
                     /\ UNCHANGED <<op, asked, sess, made, posts, dials, http, timers, stopped>>

\* stop(): the session is told at once, and drained on the strand; every exchange is cancelled.
Stop ==
    /\ ~stopped /\ stopped' = TRUE /\ Complete(Running, "cancelled") /\ asked' = asked \cup Running
    /\ sess' = IF made = 0 THEN sess
               ELSE [sess EXCEPT ![made].stopped = TRUE, ![made].retired = TRUE]
    /\ \E order \in [1 .. Cardinality(Running) -> Running] :
          /\ \A i, j \in DOMAIN order : order[i] = order[j] => i = j
          /\ posts' = posts \o (IF made = 0 THEN <<>> ELSE <<Post("drain", made, Nobody, "none")>>)
                      \o [i \in DOMAIN order |->
                             Post("fail", op[order[i]].session, order[i], "cancelled")]
    /\ UNCHANGED <<expired, made, dials, http, timers>>

-----------------------------------------------------------------------------
(* Tasks that run elsewhere and post their results. *)

\* run_deadline()
Deadline(o) == /\ o \in timers /\ o \in expired /\ timers' = timers \ {o}
               /\ posts' = Append(posts, Post("fail", op[o].session, o, "timeout"))
               /\ UNCHANGED <<op, expired, asked, sess, made, dials, http, stopped>>
\* run_connect(): the dial, the handshake and its protocol.
DialEnds(d, r) == /\ d \in dials /\ dials' = dials \ {d}
                  /\ posts' = Append(posts, Post("progress", d.session, d.gen, r))
                  /\ UNCHANGED <<op, expired, asked, sess, made, http, timers, stopped>>
\* run_exchange(): the response, one that does not fit, or an error.
HttpEnds(o, r) == /\ o \in http /\ http' = http \ {o}
                  /\ sess[op[o].session].httpRetired => r = "error"
                  /\ posts' = Append(posts, Post("finish", op[o].session, o, r))
                  /\ UNCHANGED <<op, expired, asked, sess, made, dials, timers, stopped>>
\* The HTTP/2 session fails, or is told to go away.
HttpRetires(s) == /\ sess[s].up /\ ~sess[s].httpRetired
                  /\ sess' = [sess EXCEPT ![s].httpRetired = TRUE]
                  /\ UNCHANGED <<op, expired, asked, made, posts, dials, http, timers, stopped>>

-----------------------------------------------------------------------------
(* Closures on the strand; p is the one that runs, s its session.           *)

\* connect_if_needed()
Connect(r, s) == IF r.connecting \/ r.up THEN [r |-> r, dial |-> {}]
                 ELSE [r |-> [r EXCEPT !.connecting = TRUE],
                       dial |-> {[session |-> s, gen |-> r.gen]}]
\* abandon_connect_if_idle().  Mutant: not looked at.
AbandonNever(r) == r
Abandon(r) == IF r.pending = {} /\ r.connecting
              THEN [r EXCEPT !.gen = @ + 1, !.connecting = FALSE] ELSE r
\* submit_waiting(), submit(): those of O are at the HTTP/2 session of s, whose record is r.
Submit(r, s, O) == /\ sess' = [sess EXCEPT ![s] = [r EXCEPT !.started = @ \cup O]]
                   /\ http' = http \cup O
Without(r, o) == [r EXCEPT !.pending = @ \ {o}, !.started = @ \ {o}]

\* start_exchange()
StartExchange(p, s) ==
    LET r == [sess[s] EXCEPT !.pending = @ \cup {p.op}]
        c == Connect(r, s) IN
    IF sess[s].stopped \/ sess[s].retired
    THEN Complete({p.op}, "cancelled") /\ UNCHANGED <<sess, dials, http, timers>>
    ELSE /\ timers' = timers \cup {p.op}
         /\ IF r.up THEN Submit(r, s, {p.op}) /\ UNCHANGED dials
            ELSE /\ sess' = [sess EXCEPT ![s] = c.r] /\ dials' = dials \cup c.dial
                 /\ UNCHANGED http
         /\ UNCHANGED op
\* fail_pending(); a deadline is dropped by a session that was stopped.
FailPending(p, s) ==
    /\ IF p.op \in sess[s].pending /\ (p.result = "timeout" => ~sess[s].stopped)
       THEN /\ sess' = [sess EXCEPT ![s] = Abandon(Without(sess[s], p.op))]
            /\ Complete({p.op}, p.result)
       ELSE UNCHANGED <<sess, op>>
    /\ UNCHANGED <<dials, http, timers>>
\* finish_pending()
FinishPending(p, s) ==
    /\ IF p.op \in sess[s].pending
       THEN /\ sess' = [sess EXCEPT ![s] =
                  Abandon([Without(sess[s], p.op) EXCEPT
                               !.retired = @ \/ (sess[s].up /\ sess[s].httpRetired)])]
            /\ Complete({p.op}, p.result)
       ELSE UNCHANGED <<sess, op>>
    /\ UNCHANGED <<dials, http, timers>>
\* fail_all()
Emptied(r) == [r EXCEPT !.pending = {}, !.started = {}, !.gen = @ + 1]
\* on_connect_progress(), connection_failed().
ConnectProgress(p, s) ==
    /\ IF p.op # sess[s].gen \/ sess[s].stopped THEN UNCHANGED <<sess, op, http>>
       ELSE IF p.result = "error"
       THEN /\ Complete(sess[s].pending, "error") /\ UNCHANGED http
            /\ sess' = [sess EXCEPT ![s] = [Emptied(sess[s]) EXCEPT !.retired = TRUE,
                                                                    !.connecting = FALSE]]
       ELSE /\ Submit([sess[s] EXCEPT !.connecting = FALSE, !.up = TRUE], s, sess[s].pending)
            /\ UNCHANGED op
    /\ UNCHANGED <<dials, timers>>
\* The rest of Session::stop(), and drain_stopped().
Drain(s) == /\ sess' = [sess EXCEPT ![s] = [Emptied(sess[s]) EXCEPT !.up = FALSE]]
            /\ Complete(sess[s].pending, "cancelled") /\ UNCHANGED <<dials, http, timers>>

Runs(p) == \/ p.kind = "start" /\ StartExchange(p, p.session)
           \/ p.kind = "fail" /\ FailPending(p, p.session)
           \/ p.kind = "finish" /\ FinishPending(p, p.session)
           \/ p.kind = "progress" /\ ConnectProgress(p, p.session)
           \/ p.kind = "drain" /\ Drain(p.session)
Strand == /\ posts # <<>> /\ posts' = Tail(posts) /\ Runs(posts[1])
          /\ \A s \in Sessions : sess'[s].gen < MaxDials \/ sess'[s].retired
          /\ UNCHANGED <<expired, asked, made, stopped>>

Next == \/ Strand \/ Stop
        \/ \E o \in Ops : \/ OpenRefused(o) \/ Open(o) \/ CancelExchange(o)
                          \/ DeadlinePasses(o) \/ Deadline(o)
                          \/ \E r \in {"answer", "error"} : HttpEnds(o, r)
        \/ \E d \in dials, r \in {"up", "error"} : DialEnds(d, r)
        \/ \E s \in Sessions : HttpRetires(s)
Spec == Init /\ [][Next]_vars
TimePasses == \E o \in Ops : (o \in Running /\ DeadlinePasses(o)) \/ Deadline(o)

-----------------------------------------------------------------------------
Phase == [o \in Ops |-> op[o].phase]
Outcome == [o \in Ops |-> op[o].outcome]
Posted(kind, s, o) == \E i \in 1 .. Len(posts) :
                          posts[i].kind = kind /\ posts[i].session = s /\ posts[i].op = o

\* An exchange that runs is on its way to its session or known to it, which has a deadline
\* for it; what a session knows beyond that is on its way out.
NobodyForgotten ==
    /\ \A o \in Running : LET s == op[o].session IN
         Posted("start", s, o)
         \/ (o \in sess[s].pending /\ (o \in timers \/ Posted("fail", s, o)))
    /\ \A s \in Sessions : \A o \in sess[s].pending :
         op[o].session = s /\ (o \in Running \/ Posted("fail", s, o) \/ Posted("drain", s, Nobody))
\* A request that was submitted is at the HTTP/2 session, once; one that was not waits for a
\* connection that is on its way, and nothing connects for nobody.
ConnectionComes ==
    \A s \in Sessions :
        /\ \A o \in sess[s].started : o \in http \/ Posted("finish", s, o)
        /\ (sess[s].pending # sess[s].started /\ ~sess[s].stopped) => sess[s].connecting
        /\ (sess[s].connecting /\ ~sess[s].stopped) =>
               /\ sess[s].pending # {}
               /\ \/ [session |-> s, gen |-> sess[s].gen] \in dials
                  \/ Posted("progress", s, sess[s].gen)
\* A timeout is the exchange's own.
TimesOutByOwnDeadline == \A o \in Ops : op[o].outcome = "timeout" => o \in expired
\* An exchange ends as cancelled when it was, by its user or by stop(), or when its session
\* was retired while it was on its way there.
CancelledIsExplained ==
    \A o \in Ops : (op[o].outcome = "cancelled" /\ o \notin asked /\ ~stopped) =>
                       sess[op[o].session].retired
Doh2IsSound == /\ TypeOK /\ NobodyForgotten /\ ConnectionComes /\ TimesOutByOwnDeadline
               /\ CancelledIsExplained

-----------------------------------------------------------------------------
(* Doh1DnsTransport. *)

\* at is the await of the task; holds is what a finished dial, the handshake or the session
\* has of the connection.
Doh1TypeOK ==
    /\ \A o \in Ops : /\ op[o].phase \in {"idle", "running", "done"}
                      /\ op[o].outcome \in Outcomes \cup {"none"}
                      /\ op[o].at \in {"none", "dial", "tls", "http", "over"}
                      /\ op[o].holds \in {"nothing", "handle", "session"}
    /\ {expired, asked, timers} \subseteq SUBSET Ops

Doh1Init == /\ op = [o \in Ops |-> [phase |-> "idle", outcome |-> "none", at |-> "none",
                                    holds |-> "nothing"]]
            /\ expired = {} /\ asked = {} /\ timers = {} /\ stopped = FALSE

\* finish(): the first one counts, and takes the session down.  Mutant: the session stays.
FinishLeavesSession(r, outcome) ==
    IF r.phase = "done" THEN r ELSE [r EXCEPT !.phase = "done", !.outcome = outcome]
Finish(r, outcome) ==
    IF r.phase = "done" THEN r
    ELSE [r EXCEPT !.phase = "done", !.outcome = outcome,
                   !.holds = IF @ = "session" THEN "nothing" ELSE @]

-----------------------------------------------------------------------------
\* open_exchange(), Operation::start(): refused, too late, or no query or target.
Doh1OpenRefused(o) ==
    /\ op[o].phase = "idle"
    /\ \E r \in {"cancelled", "timeout", "error"} :
          /\ r = "cancelled" <=> stopped
          /\ r = "timeout" <=> o \in expired /\ ~stopped
          /\ op' = [op EXCEPT ![o] = Finish(@, r)]
    /\ UNCHANGED <<expired, asked, timers, stopped>>
Doh1Open(o) == /\ op[o].phase = "idle" /\ ~stopped /\ o \notin expired
               /\ op' = [op EXCEPT ![o].phase = "running", ![o].at = "dial"]
               /\ timers' = timers \cup {o} /\ UNCHANGED <<expired, asked, stopped>>

\* run_deadline()
Doh1Deadline(o) == /\ o \in timers \cap expired /\ timers' = timers \ {o}
                   /\ op' = [op EXCEPT ![o] = Finish(@, "timeout")]
                   /\ UNCHANGED <<expired, asked, stopped>>
Doh1CancelExchange(o) == /\ o \in Running /\ asked' = asked \cup {o}
                         /\ op' = [op EXCEPT ![o] = Finish(@, "cancelled")]
                         /\ UNCHANGED <<expired, timers, stopped>>
Doh1Stop == /\ ~stopped /\ stopped' = TRUE
            /\ op' = [o \in Ops |-> IF o \in Running THEN Finish(op[o], "cancelled") ELSE op[o]]
            /\ UNCHANGED <<expired, asked, timers>>

\* run(): each await ends well or not.  A handle that comes too late is closed.
Over(r) == [r EXCEPT !.at = "over", !.holds = "nothing"]
Failed(r) == [Over(r) EXCEPT !.phase = "done", !.outcome = IF r.phase = "done" THEN @ ELSE "error"]
Step(o, from, ok, next) ==
    /\ op[o].at = from
    /\ op' = [op EXCEPT ![o] = IF ~ok THEN Failed(@)
                               ELSE IF @.phase = "done" THEN Over(@) ELSE next]
    /\ UNCHANGED <<expired, asked, timers, stopped>>
Dialled(o, ok) == Step(o, "dial", ok, [op[o] EXCEPT !.at = "tls", !.holds = "handle"])
Handshaken(o, ok) == Step(o, "tls", ok, [op[o] EXCEPT !.at = "http", !.holds = "session"])
\* http_response(): the answer, or one that is none.
HttpResponse(o, r) ==
    /\ op[o].at = "http" /\ (op[o].phase = "done" => r = "error")
    /\ op' = [op EXCEPT ![o] = [Finish(@, r) EXCEPT !.at = "over"]]
    /\ UNCHANGED <<expired, asked, timers, stopped>>

Doh1Next == \/ Doh1Stop
            \/ \E o \in Ops : \/ Doh1OpenRefused(o) \/ Doh1Open(o) \/ DeadlinePasses(o)
                              \/ Doh1Deadline(o) \/ Doh1CancelExchange(o)
                              \/ \E ok \in BOOLEAN : Dialled(o, ok) \/ Handshaken(o, ok)
                              \/ \E r \in {"answer", "error"} : HttpResponse(o, r)
Doh1Spec == Doh1Init /\ [][Doh1Next]_<<op, expired, asked, timers, stopped>>
Doh1TimePasses == \E o \in Ops : (o \in Running /\ DeadlinePasses(o)) \/ Doh1Deadline(o)

-----------------------------------------------------------------------------
\* An exchange that runs has a task and a deadline.
Doh1NobodyForgotten == \A o \in Running : op[o].at \notin {"none", "over"} /\ o \in timers
\* An exchange that is over has no session, and a task that is over no connection.
NothingHeld == \A o \in Ops : /\ op[o].phase = "done" => op[o].holds # "session"
                              /\ op[o].at \in {"none", "over"} => op[o].holds = "nothing"
OutcomesAreOwn == \A o \in Ops : /\ op[o].outcome = "timeout" => o \in expired
                                 /\ op[o].outcome = "cancelled" => o \in asked \/ stopped
Doh1IsSound == Doh1TypeOK /\ Doh1NobodyForgotten /\ NothingHeld /\ OutcomesAreOwn
=============================================================================

---------------------------- MODULE DotTransport ----------------------------
(***************************************************************************)
(* DotDnsTransport of src/dns/dot_dns_transport.cpp: exchanges that share  *)
(* one TLS connection and are told apart by their transaction ids.  A      *)
(* session has one connection and is retired with it; the next exchange    *)
(* makes another.  Everything runs on one strand, and a continuation       *)
(* that is resumed in place is part of the action.  The upstream is        *)
(* external: it answers in any order, wrongly, or never.                   *)
(***************************************************************************)
EXTENDS Naturals, Sequences, FiniteSets

CONSTANTS Ops,          \* exchanges
          MaxId,        \* the largest transaction id (0xffff)
          MaxSessions   \* bound: sessions made

DotAssumption == MaxId \in Nat \ {0} /\ MaxSessions \in Nat /\ IsFiniteSet(Ops)

Ids == 1 .. MaxId
Nobody == "nobody"
Outcomes == {"answer", "error", "timeout", "cancelled", "noId"}

VARIABLES
    op,        \* exchange -> [phase, outcome, id, written]
    nextId,    \* next_query_id_
    active,    \* active_query_ids_
    expired,   \* exchanges whose deadline has passed
    timers,    \* run_deadline() tasks asleep: [op, id, session]
    session,   \* [no, link] of session_, link "down" once it is retired
    pending,   \* pending_: id -> exchange
    queue,     \* write_queue_
    writing,   \* the request that run_write_loop() awaits: [op, id], or id 0
    stopped

vars == <<op, nextId, active, expired, timers, session, pending, queue, writing, stopped>>

NoWrite == [op |-> Nobody, id |-> 0]
TypeOK ==
    /\ \A o \in Ops : /\ op[o].phase \in {"idle", "running", "done"} /\ op[o].id \in 0 .. MaxId
                      /\ op[o].outcome \in Outcomes \cup {"none"} /\ op[o].written \in BOOLEAN
    /\ nextId \in Ids /\ active \subseteq Ids /\ expired \subseteq Ops /\ stopped \in BOOLEAN
    /\ session.no \in 0 .. MaxSessions /\ session.link \in {"down", "connecting", "connected"}
    /\ pending \in [Ids -> Ops \cup {Nobody}] /\ queue \in Seq(Ids)

Init == /\ op = [o \in Ops |-> [phase |-> "idle", outcome |-> "none", id |-> 0, written |-> FALSE]]
        /\ nextId = 1 /\ active = {} /\ expired = {} /\ timers = {}
        /\ session = [no |-> 0, link |-> "down"] /\ pending = [i \in Ids |-> Nobody]
        /\ queue = <<>> /\ writing = NoWrite /\ stopped = FALSE

-----------------------------------------------------------------------------
Running == {o \in Ops : op[o].phase = "running"}
Waiting(p) == {p[i] : i \in Ids} \ {Nobody}

\* next_query_id(): the first id from nextId on that is not in use.
IdAt(k) == ((nextId - 1 + k) % MaxId) + 1
NextQueryId == IdAt(CHOOSE k \in 0 .. MaxId - 1 :
                      IdAt(k) \notin active /\ \A l \in 0 .. k - 1 : IdAt(l) \in active)

\* finish(), cancel(), complete(): the exchanges S leave operations_, their ids are free.
Complete(S, r) ==
    /\ op' = [o \in Ops |-> IF o \in S THEN [op[o] EXCEPT !.phase = "done", !.outcome = r]
                            ELSE op[o]]
    /\ active' = active \ {op[o].id : o \in S}

\* The front of run_write_loop(): what is left of the queue, and the write that begins.
Ahead(q, p) ==
    LET live == {k \in 1 .. Len(q) : p[q[k]] # Nobody} IN
    IF live = {} THEN <<>> ELSE SubSeq(q, CHOOSE k \in live : \A l \in live : k <= l, Len(q))
\* Mutant: the loop ends at a request that was answered or given up meanwhile.
WriteLoopEnds(q, p) ==
    IF q = <<>> \/ p[q[1]] = Nobody THEN queue' = q /\ writing' = NoWrite
    ELSE queue' = q /\ writing' = [op |-> p[q[1]], id |-> q[1]]
WriteLoop(q, p) ==
    LET left == Ahead(q, p) IN
    /\ queue' = left
    /\ writing' = IF left = <<>> THEN NoWrite ELSE [op |-> p[left[1]], id |-> left[1]]

\* fail_request(): a session without requests that is still connecting is given up.
FailRequest(i, r) ==
    /\ Complete({pending[i]} \ {Nobody}, r)
    /\ pending' = [pending EXCEPT ![i] = Nobody]
    /\ queue' = IF pending[i] = Nobody THEN queue ELSE SelectSeq(queue, LAMBDA j : j # i)
    /\ session' = IF pending[i] # Nobody /\ Waiting(pending') = {} /\ session.link = "connecting"
                  THEN [session EXCEPT !.link = "down"] ELSE session

-----------------------------------------------------------------------------
(* Exchanges: exchange(), Operation::run(), session() and Session::exchange(). *)

\* A query that cannot be encoded has its id for as long as that takes.
OpenRefused(o) ==
    /\ op[o].phase = "idle"
    /\ LET r == IF stopped THEN "cancelled" ELSE IF o \in expired THEN "timeout"
                ELSE IF active = Ids THEN "noId" ELSE "error" IN
       /\ op' = [op EXCEPT ![o].phase = "done", ![o].outcome = r]
       /\ nextId' = IF r = "error" THEN (NextQueryId % MaxId) + 1 ELSE nextId
    /\ UNCHANGED <<active, expired, timers, session, pending, queue, writing, stopped>>

\* session(): the one that is, unless it was retired.
SessionFor == IF session.link # "down" THEN session
              ELSE [no |-> session.no + 1, link |-> "connecting"]
\* ensure_write_loop(): of a connection that is up, when the loop is at rest.
EnsureWriteLoop(s, q, p) ==
    IF s.link = "connected" /\ writing = NoWrite THEN WriteLoop(q, p)
    ELSE queue' = q /\ UNCHANGED writing

\* connect_if_needed() for the first request, and the deadline.
Open(o) ==
    /\ op[o].phase = "idle" /\ ~stopped /\ o \notin expired /\ active # Ids
    /\ session.link = "down" => session.no < MaxSessions
    /\ LET i == NextQueryId
           p == [pending EXCEPT ![i] = o]
           s == SessionFor IN
       /\ nextId' = (i % MaxId) + 1 /\ active' = active \cup {i}
       /\ op' = [op EXCEPT ![o].phase = "running", ![o].id = i]
       /\ session' = s /\ pending' = p
       /\ timers' = timers \cup {[op |-> o, id |-> i, session |-> s.no]}
       /\ EnsureWriteLoop(s, Append(queue, i), p)
    /\ UNCHANGED <<expired, stopped>>

DeadlinePasses(o) ==
    /\ o \notin expired /\ expired' = expired \cup {o}
    /\ UNCHANGED <<op, nextId, active, timers, session, pending, queue, writing, stopped>>
\* run_deadline(): whoever has the id in that session now times out.
Deadline(t) ==
    /\ t \in timers /\ t.op \in expired /\ timers' = timers \ {t}
    /\ IF t.session = session.no /\ session.link # "down" THEN FailRequest(t.id, "timeout")
       ELSE UNCHANGED <<op, active, pending, queue, session>>
    /\ UNCHANGED <<nextId, expired, writing, stopped>>

CancelExchange(o) == /\ o \in Running /\ FailRequest(op[o].id, "cancelled")
                     /\ UNCHANGED <<nextId, expired, timers, writing, stopped>>

-----------------------------------------------------------------------------
(* The connection. *)

\* run_connect(): the dial and the handshake.
Connected == /\ session.link = "connecting" /\ session' = [session EXCEPT !.link = "connected"]
             /\ WriteLoop(queue, pending)
             /\ UNCHANGED <<op, nextId, active, expired, timers, pending, stopped>>

\* close_connection() and fail_all().
Drop(r) == /\ session' = [session EXCEPT !.link = "down"] /\ Complete(Waiting(pending), r)
           /\ pending' = [i \in Ids |-> Nobody] /\ queue' = <<>> /\ writing' = NoWrite
\* connection_failed(): of the dial, the handshake, a read or a write, or by a frame that
\* is none.
ConnectionFailed == /\ session.link # "down" /\ Drop("error")
                    /\ UNCHANGED <<nextId, expired, timers, stopped>>

\* The request at the front is written.
Written ==
    /\ session.link = "connected" /\ writing # NoWrite
    /\ LET q == IF queue # <<>> /\ queue[1] = writing.id THEN Tail(queue) ELSE queue IN
       WriteLoop(q, pending)
    /\ op' = [op EXCEPT ![writing.op].written = TRUE]
    /\ UNCHANGED <<nextId, active, expired, timers, session, pending, stopped>>

\* run_read_loop(), dispatch_response(): an answer, or one that does not fit the question.
DispatchResponse(i, r) ==
    /\ session.link = "connected" /\ pending[i] # Nobody
    /\ Complete({pending[i]}, r) /\ pending' = [pending EXCEPT ![i] = Nobody]
    /\ UNCHANGED <<nextId, expired, timers, session, queue, writing, stopped>>

Stop == /\ ~stopped /\ stopped' = TRUE /\ Drop("cancelled")
        /\ UNCHANGED <<nextId, expired, timers>>

Next == \/ \E o \in Ops : OpenRefused(o) \/ Open(o) \/ DeadlinePasses(o) \/ CancelExchange(o)
        \/ \E t \in timers : Deadline(t)
        \/ Connected \/ ConnectionFailed \/ Written \/ Stop
        \/ \E i \in Ids, r \in {"answer", "error"} : DispatchResponse(i, r)
Spec == Init /\ [][Next]_vars
\* Time passes, and a timer whose time has come fires.
TimePasses == \/ \E o \in Running : DeadlinePasses(o)
              \/ \E t \in timers : Deadline(t)

-----------------------------------------------------------------------------
\* What DnsExchange speaks of.
Phase == [o \in Ops |-> op[o].phase]
Outcome == [o \in Ops |-> op[o].outcome]

\* The ids in use are those of the running exchanges, each its own, and the session waits
\* for exactly these.
IdsAgree == /\ active = {op[o].id : o \in Running}
            /\ \A o \in Running : pending[op[o].id] = o
            /\ Waiting(pending) = Running
\* What waits has a connection, or one on its way, that is at its request, has it queued,
\* or has sent it; a request is queued once, and a connection that has some writes.
NoRequestStranded ==
    /\ Running # {} => session.link # "down"
    /\ session.link = "connecting" => Running # {}
    /\ \A o \in Running : op[o].written \/ \E k \in 1 .. Len(queue) : queue[k] = op[o].id
    /\ \A j, k \in 1 .. Len(queue) : queue[j] = queue[k] => j = k
    /\ (session.link = "connected" /\ writing = NoWrite) => queue = <<>>
    /\ writing # NoWrite => session.link = "connected"
\* Only its own deadline makes an exchange time out.
TimesOutByOwnDeadline == \A o \in Ops : op[o].outcome = "timeout" => o \in expired
\* An exchange that runs has a deadline to end it.
TimersBounded == \A o \in Running : \E t \in timers : t.op = o /\ t.session = session.no
DotIsSound == TypeOK /\ IdsAgree /\ NoRequestStranded /\ TimesOutByOwnDeadline /\ TimersBounded
=============================================================================

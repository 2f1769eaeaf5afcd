---------------------------- MODULE Http1Session ----------------------------
(***************************************************************************)
(* Http1ClientSession (src/transport/http1_client.cpp): buffered,          *)
(* streaming and tunnel exchanges queued over one HTTP/1.1 connection, one *)
(* active at a time.  All steps run on the session's executor.  Responses  *)
(* carry no identifier: an exchange takes whatever message is next on the  *)
(* connection, so a connection whose active exchange ends early must not   *)
(* be used again.                                                          *)
(*                                                                         *)
(* unread is the messages the peer sends: one final response, perhaps      *)
(* after an interim (1xx) one, for every request written to it.            *)
(***************************************************************************)
EXTENDS Integers, Sequences, SequencesExt, FiniteSetsExt

CONSTANTS MaxExchanges,  \* bound: exchanges submitted to the session
          Interims       \* whether the peer sends interim responses

ASSUME ExchangesAssumption == MaxExchanges \in Nat /\ Interims \in BOOLEAN

Exchanges == 1 .. MaxExchanges
ExchangeKinds == {"buffered", "streaming", "tunnel"}

VARIABLES
    kind,      \* kind of each submitted exchange; "none" before
    pending,   \* pending_
    queue,     \* queue_
    active,    \* active_id_, or 0
    link,      \* stream_: "open", "closed", "taken" by a tunnel
    retired,   \* retired_
    stopped,   \* stopped_
    stage,     \* where the coroutine of each exchange is
    body,      \* streaming_response_body: "none", "open", "eof", "failed", "drained"
    outcome,   \* the terminals each caller has been given
    posted,    \* streaming exchanges whose error terminal is posted
    timers,    \* exchanges whose deadline task is armed
    unread,    \* messages still to be read from the connection
    got        \* the exchange whose response each exchange took, or 0

vars == <<kind, pending, queue, active, link, retired, stopped, stage, body,
          outcome, posted, timers, unread, got>>

Message == [of : Exchanges, final : BOOLEAN]

TypeOK ==
    /\ kind \in [Exchanges -> ExchangeKinds \cup {"none"}]
    /\ pending \subseteq Exchanges /\ posted \subseteq Exchanges /\ timers \subseteq pending
    /\ queue \in Seq(Exchanges) /\ active \in 0 .. MaxExchanges
    /\ link \in {"open", "closed", "taken"}
    /\ retired \in BOOLEAN /\ stopped \in BOOLEAN
    /\ stage \in [Exchanges -> {"idle", "writing", "uploading", "reading", "spinning",
                                "downloading", "over"}]
    /\ body \in [Exchanges -> {"none", "open", "eof", "failed", "drained"}]
    /\ outcome \in [Exchanges -> Seq({"response", "tunnel", "error"})]
    /\ unread \in Seq(Message) /\ got \in [Exchanges -> 0 .. MaxExchanges]

Init ==
    /\ kind = [x \in Exchanges |-> "none"]
    /\ pending = {} /\ queue = <<>> /\ active = 0 /\ link = "open"
    /\ retired = FALSE /\ stopped = FALSE
    /\ stage = [x \in Exchanges |-> "idle"] /\ body = [x \in Exchanges |-> "none"]
    /\ outcome = [x \in Exchanges |-> <<>>] /\ posted = {} /\ timers = {}
    /\ unread = <<>> /\ got = [x \in Exchanges |-> 0]

Tell(x, result) == outcome' = [outcome EXCEPT ![x] = Append(@, result)]

(***************************************************************************)
(* start_next() on queue q and map p: the first queued exchange that is    *)
(* still pending becomes active; the entries before it are dropped.        *)
(***************************************************************************)
StartNext(q, p, st) ==
    LET live == {i \in 1 .. Len(q) : q[i] \in p} IN
    IF live = {}
    THEN active' = 0 /\ queue' = <<>> /\ stage' = st
    ELSE LET i == Min(live) IN
         /\ active' = q[i] /\ queue' = SubSeq(q, i + 1, Len(q))
         /\ stage' = [st EXCEPT ![q[i]] = "writing"]

(***************************************************************************)
(* The exchanges of S leave pending_, and x is told result.  As in         *)
(* complete_error(), a streaming exchange of S whose headers were          *)
(* delivered has had its terminal, another streaming one gets an error by  *)
(* a post, and the rest get theirs at once.                                *)
(***************************************************************************)
Delivered(x) == body[x] # "none"
Told(S, x, result) ==
    /\ posted' = posted \cup {y \in S \ {x} : kind[y] = "streaming" /\ ~Delivered(y)}
    /\ outcome' = [y \in Exchanges |->
                     IF y = x THEN Append(outcome[y], result)
                     ELSE IF y \in S /\ kind[y] # "streaming" THEN Append(outcome[y], "error")
                     ELSE outcome[y]]
Leave(S) == pending' = pending \ S /\ timers' = timers \ S

CompleteError(S) ==
    /\ Leave(S) /\ Told(S, 0, "error")
    /\ body' = [x \in Exchanges |-> IF x \in S /\ body[x] = "open" THEN "failed" ELSE body[x]]

Closed == IF link = "open" THEN "closed" ELSE link

\* retire_all() and retire_queued(): the connection is closed for good and
\* everything pending fails.
RetireAll == /\ retired' = TRUE /\ link' = Closed /\ active' = 0 /\ queue' = <<>>
             /\ CompleteError(pending)

-----------------------------------------------------------------------------
(* Calls of the owner: exchange(), exchange_streaming(), open_tunnel(),     *)
(* cancel(), stop().                                                       *)

Fresh(x) == kind[x] = "none" /\ \A y \in Exchanges : y < x => kind[y] # "none"

\* A refused call: the session is over, or the request or the deadline is bad.
Refuse(x, k) ==
    /\ Fresh(x) /\ kind' = [kind EXCEPT ![x] = k] /\ Tell(x, "error")
    /\ UNCHANGED <<pending, queue, active, link, retired, stopped, stage, body, posted,
                   timers, unread, got>>

\* Mutant: no deadline timer is started.
SubmitUntimed(x, k) ==
    /\ Fresh(x) /\ ~stopped /\ ~retired
    /\ kind' = [kind EXCEPT ![x] = k] /\ pending' = pending \cup {x}
    /\ IF active = 0 THEN StartNext(Append(queue, x), pending', stage)
       ELSE queue' = Append(queue, x) /\ UNCHANGED <<active, stage>>
    /\ UNCHANGED <<timers, link, retired, stopped, body, outcome, posted, unread, got>>
Submit(x, k) ==
    /\ Fresh(x) /\ ~stopped /\ ~retired
    /\ kind' = [kind EXCEPT ![x] = k]
    /\ pending' = pending \cup {x} /\ timers' = timers \cup {x}
    /\ IF active = 0 THEN StartNext(Append(queue, x), pending', stage)
       ELSE queue' = Append(queue, x) /\ UNCHANGED <<active, stage>>
    /\ UNCHANGED <<link, retired, stopped, body, outcome, posted, unread, got>>

CancelledStage == [x \in Exchanges |-> IF x = active THEN "over" ELSE stage[x]]

\* Mutant: the connection is used on after an exchange was cut short.
EndsAlone(x) == /\ CompleteError({x})
                /\ StartNext(queue, pending \ {x}, CancelledStage)
                /\ UNCHANGED <<link, retired>>

\* Ending an exchange early: the active one takes the connection with it.
EndsEarly(x) ==
    \/ /\ x = active /\ RetireAll /\ stage' = CancelledStage
    \/ /\ x # active /\ CompleteError({x}) /\ UNCHANGED <<queue, active, stage, link, retired>>

\* The caller's stop, before it has its terminal.
Cancel(x) ==
    /\ x \in pending /\ outcome[x] = <<>> /\ EndsEarly(x)
    /\ UNCHANGED <<kind, stopped, unread, got>>

\* The consumer of a streaming response gives up: QueuedExchangeBodyStream's
\* on_cancel, which is not called once the body was drained.
CancelBody(x) ==
    /\ x \in pending /\ body[x] \in {"open", "eof"} /\ EndsEarly(x)
    /\ UNCHANGED <<kind, stopped, unread, got>>

\* run_deadline() and expire().
Expire(x) == /\ x \in timers /\ EndsEarly(x)
             /\ UNCHANGED <<kind, stopped, unread, got>>

Stop == /\ ~stopped /\ stopped' = TRUE
        /\ RetireAll /\ stage' = CancelledStage
        /\ UNCHANGED <<kind, unread, got>>

\* A posted error terminal reaches its caller.
PostedRuns(x) ==
    /\ x \in posted /\ posted' = posted \ {x} /\ Tell(x, "error")
    /\ UNCHANGED <<kind, pending, queue, active, link, retired, stopped, stage, body,
                   timers, unread, got>>

-----------------------------------------------------------------------------
(* run_buffered(), run_tunnel(), run_streaming(): the active exchange.      *)

At(x, s) == active = x /\ x # 0 /\ stage[x] = s
Goes(x, s) == stage' = [stage EXCEPT ![x] = s]
rest == <<kind, pending, queue, active, link, retired, stopped, body, outcome, posted, timers, got>>

\* The head of a streaming request with a body is followed by the upload.
Uploads(x) ==
    /\ At(x, "writing") /\ kind[x] = "streaming" /\ Goes(x, "uploading")
    /\ UNCHANGED <<rest, unread>>

\* The request is on its way, and the peer will answer it.
Written(x) ==
    /\ At(x, "writing") \/ At(x, "uploading")
    /\ Goes(x, "reading")
    /\ \E hint \in {FALSE, Interims} :
          unread' = unread \o (IF hint THEN <<[of |-> x, final |-> FALSE]>> ELSE <<>>)
                           \o <<[of |-> x, final |-> TRUE]>>
    /\ UNCHANGED rest

\* fail_active(), fail_upload() and fail_streaming_response(): an I/O or
\* framing error, or a body source that fails or does not keep its length.
Fails(x) ==
    /\ x # 0 /\ active = x /\ stage[x] \in {"writing", "uploading", "reading", "downloading"}
    /\ RetireAll /\ stage' = CancelledStage
    /\ UNCHANGED <<kind, stopped, unread, got>>

NextMessage == unread # <<>>
TakeMessage(x) == unread' = Tail(unread) /\ got' = [got EXCEPT ![x] = unread[1].of]

\* What follows a response that was read to its end: the next exchange, or,
\* when either side asked to close, the end of the connection.
AfterResponse(x, reusable, p) ==
    IF reusable
    THEN /\ StartNext(queue, p, [stage EXCEPT ![x] = "over"])
         /\ UNCHANGED <<link, retired>>
    ELSE /\ retired' = TRUE /\ link' = Closed /\ active' = 0 /\ queue' = <<>>
         /\ Goes(x, "over")

\* complete() with the response, then the exchanges behind it.
Answer(x, reusable) ==
    LET gone == IF reusable THEN {x} ELSE pending IN
    /\ Leave(gone) /\ Told(gone, x, "response")
    /\ AfterResponse(x, reusable, pending \ gone)

\* async_read() of a buffered exchange takes the next message, interim or not.
BufferedResponse(x) ==
    /\ At(x, "reading") /\ kind[x] = "buffered" /\ NextMessage
    /\ TakeMessage(x)
    /\ \E reusable \in BOOLEAN : Answer(x, reusable)
    /\ UNCHANGED <<kind, stopped, body>>

\* A tunnel skips interim responses, reads a rejection to its end, and takes
\* the connection over when it is accepted.
TunnelInterim(x) ==
    /\ At(x, "reading") /\ kind[x] = "tunnel" /\ NextMessage /\ ~unread[1].final
    /\ unread' = Tail(unread) /\ UNCHANGED <<rest, stage>>

TunnelRejected(x) ==
    /\ At(x, "reading") /\ kind[x] = "tunnel" /\ NextMessage /\ unread[1].final
    /\ TakeMessage(x)
    /\ \E reusable \in BOOLEAN : Answer(x, reusable)
    /\ UNCHANGED <<kind, stopped, body>>

TunnelAccepted(x) ==
    /\ At(x, "reading") /\ kind[x] = "tunnel" /\ NextMessage /\ unread[1].final
    /\ TakeMessage(x)
    /\ Leave(pending) /\ Told(pending, x, "tunnel")
    /\ retired' = TRUE /\ link' = "taken" /\ active' = 0 /\ queue' = <<>> /\ Goes(x, "over")
    /\ UNCHANGED <<kind, stopped, body>>

\* The streaming parser is not replaced after an interim response, so reading
\* the next header returns at once with the same one, for ever.
StreamInterim(x) ==
    /\ At(x, "reading") /\ kind[x] = "streaming" /\ NextMessage /\ ~unread[1].final
    /\ unread' = Tail(unread) /\ Goes(x, "spinning")
    /\ UNCHANGED rest

\* The head of a streaming response; one without a body is done at once.
StreamHead(x) ==
    /\ At(x, "reading") /\ kind[x] = "streaming" /\ NextMessage /\ unread[1].final
    /\ got' = [got EXCEPT ![x] = unread[1].of]
    /\ Tell(x, "response")
    /\ \/ /\ body' = [body EXCEPT ![x] = "open"] /\ Goes(x, "downloading") /\ UNCHANGED unread
       \/ /\ body' = [body EXCEPT ![x] = "eof"] /\ Goes(x, "over") /\ unread' = Tail(unread)
    /\ UNCHANGED <<kind, pending, queue, active, link, retired, stopped, posted, timers>>

\* The last chunk is queued for the consumer.
Downloaded(x) ==
    /\ At(x, "downloading")
    /\ body' = [body EXCEPT ![x] = "eof"] /\ Goes(x, "over") /\ unread' = Tail(unread)
    /\ UNCHANGED <<kind, pending, queue, active, link, retired, stopped, outcome, posted,
                   timers, got>>

\* Mutant: a body counts as drained before its end was read.
DrainedEarly(x) ==
    /\ body[x] = "open" /\ x \in pending /\ body' = [body EXCEPT ![x] = "drained"]
    /\ timers' = timers \ {x} /\ StartNext(queue, pending, [stage EXCEPT ![x] = "over"])
    /\ UNCHANGED <<kind, pending, link, retired, stopped, outcome, posted, unread, got>>
\* streaming_response_drained(): the consumer has the whole body.  The
\* exchange keeps its place in pending_.
Drained(x) ==
    /\ body[x] = "eof" /\ x \in pending
    /\ body' = [body EXCEPT ![x] = "drained"]
    /\ \E reusable \in BOOLEAN :
        LET gone == IF reusable THEN {} ELSE pending IN
        /\ pending' = pending \ gone /\ timers' = timers \ (gone \cup {x})
        /\ Told(gone, 0, "error")
        /\ AfterResponse(x, reusable, pending)
    /\ UNCHANGED <<kind, stopped, unread, got>>

Owner(x) == \/ \E k \in ExchangeKinds : Submit(x, k) \/ Refuse(x, k)
            \/ Cancel(x) \/ CancelBody(x)
Exchange(x) == \/ Uploads(x) \/ Written(x) \/ Fails(x) \/ BufferedResponse(x)
               \/ TunnelInterim(x) \/ TunnelRejected(x) \/ TunnelAccepted(x)
               \/ StreamInterim(x) \/ StreamHead(x) \/ Downloaded(x) \/ Drained(x)

Next == Stop \/ \E x \in Exchanges : Owner(x) \/ Exchange(x) \/ Expire(x) \/ PostedRuns(x)

Spec == Init /\ [][Next]_vars
\* Timers fire and posted closures run; the peer and the callers owe nothing.
FairSpec == /\ Spec
            /\ \A x \in Exchanges : WF_vars(Expire(x)) /\ WF_vars(PostedRuns(x))

-----------------------------------------------------------------------------
\* The response an exchange is given is the one to its own request, whatever
\* was cancelled, expired or rejected on the connection before it.
ResponsesAreOwn == \A x \in Exchanges : got[x] \in {0, x}

\* Every caller gets one terminal: none after a first one, by a post or not.
OneTerminal ==
    \A x \in Exchanges : Len(outcome[x]) + (IF x \in posted THEN 1 ELSE 0) <= 1

\* An exchange whose terminal is still owed is the active one or is queued
\* behind one, on a connection that is open and not retired; nobody is forgotten when the
\* connection is retired or taken over.
NobodyForgotten ==
    \A x \in Exchanges :
        (kind[x] # "none" /\ outcome[x] = <<>> /\ x \notin posted)
            => /\ x \in pending /\ x \in timers /\ ~retired /\ link = "open"
               /\ x = active \/ (active # 0 /\ x \in ToSet(queue))

\* A connection between two exchanges has nothing left to read.
IdleIsClean == (active = 0 /\ ~retired) => unread = <<>>

\* A tunnel has the connection for itself: from then on the session neither
\* reads nor writes it.
TunnelIsAlone ==
    link = "taken" => /\ retired /\ active = 0
                      /\ \A x \in Exchanges : body[x] \notin {"open", "eof"}

\* Every submitted exchange is told how it ended, and a delivered response
\* body comes to an end.
EveryoneTold == \A x \in Exchanges : (kind[x] # "none" => outcome[x] # <<>>) /\ body[x] # "open"

\* An exchange is told its end once and until then is queued or active with its
\* timer; a connection that is idle has nothing unread; a tunnel has it alone.
ExchangesAreSound == TypeOK /\ OneTerminal /\ NobodyForgotten /\ IdleIsClean /\ TunnelIsAlone
=============================================================================

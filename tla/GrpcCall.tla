------------------------------ MODULE GrpcCall ------------------------------
(***************************************************************************)
(* GrpcClientCall and its RequestBody (src/transport/grpc_client.cpp): one *)
(* call over a streaming exchange.  The session above, external, opens the *)
(* exchange, pulls the request body and delivers the response body.  All   *)
(* of it runs on one executor; posts are the handlers posted to it.        *)
(* Every frame, in either direction, is a prefix and a payload: two parts. *)
(***************************************************************************)
EXTENDS Integers, Sequences, FiniteSets

CONSTANTS MaxMessages,  \* bound: messages the server sends
          MaxOps        \* bound: operations of the user

CallAssumption == {MaxMessages, MaxOps} \subseteq Nat
Ops == 1 .. MaxOps
Parts == 2

VARIABLES
    call,   \* [opened, cancelled, exchange]: opened_, cancelled_, the exchange
    req,    \* the RequestBody: [left, writer, pull, closed, cancelled, cancel]
    resp,   \* [pending, buf, reading, eof, error, body, status]: pending_read_,
            \* parts of frames buffered, reading_body_, body_eof_, read_error_, the body
    posts,  \* handlers to run, [id, res, msg]
    op,     \* the user's operations
    opens,  \* outcomes the open handler was called with, or that are posted to it
    got,    \* messages the user has read
    wrote,  \* parts of the request the session has pulled, by write
    server  \* [sent, over]: parts of the response sent, and whether it has ended

vars == <<call, req, resp, posts, op, opens, got, wrote, server>>

Result == {"ok", "end", "error"}
TypeOK ==
    /\ call \in [opened : BOOLEAN, cancelled : BOOLEAN, exchange : {"none", "running", "over"}]
    /\ req \in [left : 0 .. Parts, writer : 0 .. MaxOps, pull : 0 .. 2, closed : BOOLEAN,
                cancelled : BOOLEAN, cancel : BOOLEAN]
    /\ resp \in [pending : 0 .. MaxOps, buf : 0 .. Parts * MaxMessages, reading : BOOLEAN,
                 eof : BOOLEAN, error : BOOLEAN, body : {"none", "open", "cancelled"},
                 status : {"none", "known"}, finished : BOOLEAN, given : 0 .. MaxMessages]
    /\ posts \in Seq([id : Ops, res : Result, msg : 0 .. MaxMessages])
    /\ op \in [Ops -> [k : {"none", "read", "write"}, st : {"waiting"} \cup Result]]
    /\ opens \in Seq({"ok", "error"}) /\ got \in Seq(1 .. MaxMessages) /\ wrote \in Seq(Ops)
    /\ server \in [sent : 0 .. Parts * MaxMessages, over : BOOLEAN]

Init ==
    /\ call = [opened |-> FALSE, cancelled |-> FALSE, exchange |-> "none"]
    /\ req = [left |-> 0, writer |-> 0, pull |-> 0, closed |-> FALSE, cancelled |-> FALSE,
              cancel |-> FALSE]
    /\ resp = [pending |-> 0, buf |-> 0, reading |-> FALSE, eof |-> FALSE, error |-> FALSE,
               body |-> "none", status |-> "none", finished |-> FALSE, given |-> 0]
    /\ posts = <<>> /\ op = [o \in Ops |-> [k |-> "none", st |-> "waiting"]] /\ opens = <<>>
    /\ got = <<>> /\ wrote = <<>> /\ server = [sent |-> 0, over |-> FALSE]

Post(o, res) == IF o = 0 THEN <<>> ELSE <<[id |-> o, res |-> res, msg |-> 0]>>

-----------------------------------------------------------------------------
(* Responses *)

\* fail_reads(): the first error sticks and cancels the body.  A result is the
\* new response side and what is posted.
FailReads(r) ==
    IF r.error THEN <<r, <<>>>>
    ELSE <<[r EXCEPT !.error = TRUE, !.pending = 0, !.body = IF @ = "none" THEN @ ELSE "cancelled"],
           Post(r.pending, "error")>>

\* finish_response(): a truncated frame, or trailers without a status that
\* agrees with the one of the head, are errors.
FinishFails(r, trailers) == /\ ~r.finished
                            /\ r.buf # 0 \/ trailers = "bad" \/ (trailers = "none" /\ r.status = "none")

(***************************************************************************)
(* deliver_or_read() for the response side r: a message that is complete,  *)
(* the end, or another pull.  bad: the prefix at the front is compressed   *)
(* or announces too much.                                                  *)
(***************************************************************************)
DeliverOrRead(r, open, bad, trailers) ==
    CASE r.pending = 0 \/ ~open -> <<r, <<>>>>
      [] r.pending # 0 /\ open /\ r.error -> <<[r EXCEPT !.pending = 0], Post(r.pending, "error")>>
      [] r.pending # 0 /\ open /\ ~r.error /\ r.buf > 0 /\ bad -> FailReads(r)
      [] r.pending # 0 /\ open /\ ~r.error /\ r.buf >= Parts /\ ~bad ->
           <<[r EXCEPT !.pending = 0, !.buf = @ - Parts, !.given = @ + 1],
             <<[id |-> r.pending, res |-> "ok", msg |-> r.given + 1]>>>>
      [] r.pending # 0 /\ open /\ ~r.error /\ r.buf < Parts /\ (r.buf > 0 => ~bad) /\ r.eof ->
           IF FinishFails(r, trailers) THEN FailReads(r)
           ELSE <<[r EXCEPT !.pending = 0, !.finished = TRUE, !.status = "known"],
                  Post(r.pending, "end")>>
      [] OTHER -> <<[r EXCEPT !.reading = @ \/ r.body # "none"], <<>>>>

\* Applies a result to the response side.
Apply(x) == resp' = x[1] /\ posts' = posts \o x[2]
Deliver(r, open) == \E bad \in BOOLEAN, trailers \in {"none", "ok", "bad"} :
                        Apply(DeliverOrRead(r, open, bad, trailers))

-----------------------------------------------------------------------------
(* The user *)

Fresh(o, k) == /\ op[o].k = "none" /\ \A p \in 1 .. o - 1 : op[p].k # "none"
               /\ op' = [op EXCEPT ![o].k = k]

\* start(): unusable options end it before there is an exchange.
Start ==
    /\ call.exchange = "none" /\ ~call.cancelled /\ opens = <<>>
    /\ \/ call' = [call EXCEPT !.exchange = "running"] /\ UNCHANGED opens
       \/ opens' = <<"error">> /\ UNCHANGED call
    /\ UNCHANGED <<req, resp, posts, op, got, wrote, server>>

\* async_read_message(): one at a time; a cancelled call is not refused.
ReadMessage(o) ==
    /\ Fresh(o, "read")
    /\ IF resp.pending # 0 THEN posts' = posts \o Post(o, "error") /\ UNCHANGED resp
       ELSE Deliver([resp EXCEPT !.pending = o], call.opened)
    /\ UNCHANGED <<call, req, opens, got, wrote, server>>

\* deliver(): the session's pull of n parts takes what is left of the frame,
\* and the writer is told when it is gone.
Pull(q, n) ==
    LET k == IF n < q.left THEN n ELSE q.left
        done == k = q.left IN
    /\ req' = [q EXCEPT !.left = @ - k, !.pull = 0, !.writer = IF done THEN 0 ELSE @]
    /\ wrote' = wrote \o [i \in 1 .. k |-> q.writer]
    /\ posts' = IF done THEN posts \o Post(q.writer, "ok") ELSE posts

\* async_write_message(): one frame at a time, straight into a pull that waits.
Write(o) ==
    /\ Fresh(o, "write")
    /\ IF req.cancelled \/ req.closed \/ req.left > 0 \/ req.writer # 0
       THEN posts' = posts \o Post(o, "error") /\ UNCHANGED <<req, wrote>>
       ELSE LET q == [req EXCEPT !.left = Parts, !.writer = o] IN
            IF req.pull = 0 THEN req' = q /\ UNCHANGED <<posts, wrote>> ELSE Pull(q, req.pull)
    /\ UNCHANGED <<call, resp, opens, got, server>>
\* close_send().
CloseSend == /\ ~req.closed
             /\ req' = [req EXCEPT !.closed = TRUE, !.pull = IF req.left = 0 THEN 0 ELSE @]
             /\ UNCHANGED <<call, resp, posts, op, opens, got, wrote, server>>

\* cancel(): the bodies are cancelled by a post, the read is told.
Cancel ==
    /\ ~call.cancelled /\ call' = [call EXCEPT !.cancelled = TRUE, !.opened = TRUE]
    /\ opens' = IF opens = <<>> THEN <<"error">> ELSE opens
    /\ req' = [req EXCEPT !.cancel = TRUE]
    /\ resp' = [resp EXCEPT !.pending = 0, !.body = IF @ = "none" THEN @ ELSE "cancelled"]
    /\ posts' = posts \o Post(resp.pending, "error")
    /\ UNCHANGED <<op, got, wrote, server>>
CancelRuns ==
    /\ req.cancel
    /\ req' = [req EXCEPT !.cancel = FALSE, !.cancelled = TRUE, !.left = 0, !.writer = 0, !.pull = 0]
    /\ posts' = posts \o Post(req.writer, "error")
    /\ UNCHANGED <<call, resp, op, opens, got, wrote, server>>

HandlerRuns ==
    /\ posts # <<>> /\ posts' = Tail(posts)
    /\ op' = [op EXCEPT ![posts[1].id].st = posts[1].res]
    /\ got' = IF posts[1].msg = 0 THEN got ELSE Append(got, posts[1].msg)
    /\ UNCHANGED <<call, req, resp, opens, wrote, server>>

-----------------------------------------------------------------------------
(* The session *)

\* A pull of n parts by the session: from the frame, the end, or parked.
SessionPulls(n) ==
    /\ call.exchange = "running" /\ req.pull = 0 /\ ~req.cancelled
    /\ IF req.left > 0 THEN Pull(req, n)
       ELSE req' = [req EXCEPT !.pull = IF req.closed THEN 0 ELSE n] /\ UNCHANGED <<posts, wrote>>
    /\ UNCHANGED <<call, resp, op, opens, got, server>>

\* on_response(): what does not look like gRPC, and a failed exchange, fail the
\* call; else its head may bring the status.  The session cancels the request
\* body of an exchange that failed.
Response(ok) ==
    /\ call.exchange = "running" /\ resp.body = "none" /\ ~server.over
    /\ call' = [call EXCEPT !.opened = TRUE, !.exchange = IF ok THEN @ ELSE "over"]
    /\ IF call.cancelled
       THEN /\ req' = [req EXCEPT !.cancel = @ \/ (~ok /\ ~req.cancelled)]
            /\ server' = [server EXCEPT !.over = TRUE] /\ UNCHANGED <<resp, posts, opens>>
       ELSE /\ opens' = Append(opens, IF ok THEN "ok" ELSE "error")
            /\ IF ok THEN /\ \E status \in {"none", "known"} :
                               Deliver([resp EXCEPT !.body = "open", !.status = status], TRUE)
                          /\ UNCHANGED <<req, server>>
               ELSE /\ Apply(FailReads(resp)) /\ server' = [server EXCEPT !.over = TRUE]
                    /\ req' = [req EXCEPT !.cancel = TRUE]
    /\ UNCHANGED <<op, got, wrote>>

\* on_response_read(): n parts, the end, or an error, which a cancelled body
\* gives.  A body may also exceed what may be buffered.
BodyData(n) ==
    /\ resp.reading /\ resp.body = "open" /\ server.sent + n <= Parts * MaxMessages
    /\ server' = [server EXCEPT !.sent = @ + n]
    /\ Deliver([resp EXCEPT !.reading = FALSE, !.buf = @ + n], call.opened)
    /\ UNCHANGED <<call, req, op, opens, got, wrote>>
BodyEnds ==
    /\ resp.reading /\ resp.body = "open" /\ server' = [server EXCEPT !.over = TRUE]
    /\ call' = [call EXCEPT !.exchange = "over"] /\ req' = [req EXCEPT !.cancel = ~req.cancelled]
    /\ Deliver([resp EXCEPT !.reading = FALSE, !.eof = TRUE], call.opened)
    /\ UNCHANGED <<op, opens, got, wrote>>
BodyFails ==
    /\ resp.reading /\ Apply(FailReads([resp EXCEPT !.reading = FALSE]))
    /\ call' = [call EXCEPT !.exchange = "over"] /\ req' = [req EXCEPT !.cancel = ~req.cancelled]
    /\ UNCHANGED <<op, opens, got, wrote, server>>

Next == \/ \E o \in Ops : ReadMessage(o) \/ Write(o)
        \/ Start \/ CloseSend \/ Cancel \/ CancelRuns \/ HandlerRuns
        \/ \E n \in 1 .. Parts : SessionPulls(n) \/ BodyData(n)
        \/ \E ok \in BOOLEAN : Response(ok)
        \/ BodyEnds \/ BodyFails
Spec == Init /\ [][Next]_vars

-----------------------------------------------------------------------------
\* The user reads the messages in order, and the end is told only when every
\* message sent was read.
MessagesInOrder ==
    /\ \A i \in 1 .. Len(got) : got[i] = i
    /\ (\E o \in Ops : op[o].st = "end") =>
          resp.eof /\ server.sent = Parts * Len(got) /\ resp.status = "known"

\* The open handler hears once.
OpenedOnce == Len(opens) <= 1

\* A write is done when all of its frame was pulled; frames do not interleave.
WritesWhole ==
    /\ \A o \in Ops : (op[o].k = "write" /\ op[o].st = "ok") =>
          Cardinality({i \in 1 .. Len(wrote) : wrote[i] = o}) = Parts
    /\ \A i, j \in 1 .. Len(wrote) : i < j => wrote[i] <= wrote[j]

\* Whoever waits is about to be told or parked, and a parked read has a pull or
\* the open exchange to wait for.  A call that was cancelled before its response
\* came parks the next read for good.
NobodyStranded ==
    /\ \A o \in Ops : (op[o].k # "none" /\ op[o].st = "waiting") =>
          Cardinality({i \in 1 .. Len(posts) : posts[i].id = o})
              + (IF req.writer = o THEN 1 ELSE 0) + (IF resp.pending = o THEN 1 ELSE 0) = 1
    /\ (resp.pending # 0 /\ call.opened /\ ~call.cancelled) => resp.reading
    /\ req.writer # 0 => ~req.cancelled

CallIsSound == TypeOK /\ MessagesInOrder /\ OpenedOnce /\ WritesWhole /\ NobodyStranded
=============================================================================

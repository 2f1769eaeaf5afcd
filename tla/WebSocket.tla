----------------------------- MODULE WebSocket ------------------------------
(***************************************************************************)
(* The WebSocket client (src/transport/websocket_client.cpp), in two parts *)
(* with variables of their own.                                            *)
(*                                                                         *)
(* WebSocketClientHandshakeOperation: TLS, the HTTP upgrade with early     *)
(* data, the rest of the initial payload, and the hand-over of the stream, *)
(* against the deadline and cancel().  One task on the executor of the     *)
(* stream; the stream underneath is in the hands of whoever works with it, *)
(* and only its holder can close it.                                       *)
(***************************************************************************)
EXTENDS Integers, Sequences, SequencesExt, FiniteSets

CONSTANTS Modes,    \* "ws", "raw" (v2ray-http-upgrade), "fast" (its fast-open)
          Payload,  \* length of the initial payload
          Early     \* the values of max_early_data

HandshakeAssumption == /\ Modes \subseteq {"ws", "raw", "fast"} /\ Payload \in Nat
                       /\ Early \subseteq Nat

VARIABLES
    opts,      \* [mode, tls, early, deadline]
    pc,        \* the task: where it waits, or "over"
    carrier,   \* [holder, open]: who holds the stream, and whether it is open
    timer,     \* the deadline task: "off", "armed", "over"
    completed, \* completed_
    posted,    \* the result posted to the handler
    told,      \* results the handler was called with
    sent       \* bytes of the initial payload that reached the server

handshakeVars == <<opts, pc, carrier, timer, completed, posted, told, sent>>

Failures == {"configuration", "timeout", "cancelled", "failed"}
HandshakeTypeOK ==
    /\ opts \in [mode : Modes, tls : BOOLEAN, early : Early, deadline : BOOLEAN]
    /\ pc \in {"posted", "tls", "upgrade", "fastRemainder", "answer", "remainder", "success", "over"}
    /\ carrier \in [holder : {"op", "tls", "websocket", "state", "result", "user", "nobody"},
                    open : BOOLEAN]
    /\ timer \in {"off", "armed", "over"} /\ completed \in BOOLEAN
    /\ posted \in {"none", "stream"} \cup Failures /\ told \in 0 .. 2
    /\ sent \in 0 .. Payload

HandshakeInit ==
    /\ opts \in [mode : Modes, tls : BOOLEAN, early : Early, deadline : BOOLEAN]
    /\ pc = "posted" /\ carrier = [holder |-> "op", open |-> TRUE] /\ timer = "off"
    /\ completed = FALSE /\ posted = "none" /\ told = 0 /\ sent = 0

\* split_early_data(): what goes with the request; the rest follows.
EarlySize == IF Payload < opts.early THEN Payload ELSE opts.early
Remainder == Payload - EarlySize

\* Mutant: a failed handshake leaves its stream open.
FailKeepsStream(c) == c
\* What a failure closes: the stream, if stream_ or websocket_ holds it.
CloseOwned(c) == IF c.holder \in {"op", "websocket"}
                 THEN [holder |-> IF c.holder = "op" THEN "nobody" ELSE c.holder, open |-> FALSE]
                 ELSE c

\* finish(): the first result is posted to the handler; c is the stream.
Finish(res, c) ==
    IF completed THEN carrier' = c /\ UNCHANGED <<completed, posted>>
    ELSE /\ completed' = TRUE /\ posted' = res
         /\ carrier' = IF res = "stream" THEN [c EXCEPT !.holder = "result"] ELSE CloseOwned(c)

\* The task returns: what it still holds is destroyed, and with it closed.
Drop(c) == IF c.holder \in {"tls", "state"} THEN [holder |-> "nobody", open |-> FALSE] ELSE c
Leave(c) == pc' = "over" /\ carrier' = Drop(c) /\ UNCHANGED <<completed, posted>>

-----------------------------------------------------------------------------
\* run_open(), posted by start(): invalid options and a deadline in the past
\* end it at once.  completed_ is not looked at before TLS.
RunOpen ==
    /\ pc = "posted"
    /\ \/ /\ \E res \in {"configuration", "timeout"} :
                /\ (res = "timeout" => opts.deadline) /\ Finish(res, carrier)
          /\ pc' = "over" /\ UNCHANGED timer
       \/ /\ timer' = IF opts.deadline THEN "armed" ELSE "off"
          /\ IF opts.tls
             THEN /\ pc' = "tls" /\ UNCHANGED <<completed, posted>>
                  /\ carrier' = IF carrier.holder = "op" THEN [carrier EXCEPT !.holder = "tls"]
                                ELSE carrier
             ELSE IF completed \/ carrier.holder # "op" THEN Leave(carrier)
             ELSE /\ pc' = "upgrade" /\ UNCHANGED <<completed, posted>>
                  /\ carrier' = IF opts.mode = "ws" THEN [carrier EXCEPT !.holder = "websocket"]
                                ELSE carrier
    /\ UNCHANGED <<opts, told, sent>>

\* The TLS handshake ends, with the stream when it was given one.
TlsDone ==
    /\ pc = "tls"
    /\ \/ /\ carrier.holder = "tls" /\ ~completed /\ pc' = "upgrade"
          /\ carrier' = [carrier EXCEPT !.holder = IF opts.mode = "ws" THEN "websocket" ELSE "op"]
          /\ UNCHANGED <<completed, posted>>
       \/ carrier.holder = "tls" /\ completed /\ Leave(carrier)
       \/ Finish("failed", Drop(carrier)) /\ pc' = "over"
    /\ UNCHANGED <<opts, timer, told, sent>>

(***************************************************************************)
(* The request is written (raw, fast), or the whole upgrade is made (ws).  *)
(* It may fail at any time, and must once the stream is closed.            *)
(***************************************************************************)
UpgradeFails == /\ pc = "upgrade" /\ Finish("failed", carrier) /\ pc' = "over"
                /\ UNCHANGED <<opts, timer, told, sent>>
Upgrade ==
    /\ pc = "upgrade" /\ carrier.open /\ sent' = EarlySize
    /\ CASE completed -> Leave(carrier)
         [] ~completed /\ opts.mode = "raw" ->
              pc' = "answer" /\ UNCHANGED <<carrier, completed, posted>>
         [] ~completed /\ opts.mode = "fast" /\ Remainder > 0 ->
              pc' = "fastRemainder" /\ UNCHANGED <<carrier, completed, posted>>
         [] ~completed /\ opts.mode = "fast" /\ Remainder = 0 ->
              Finish("stream", carrier) /\ pc' = "over"
         [] ~completed /\ opts.mode = "ws" /\ Remainder > 0 ->
              /\ carrier' = [carrier EXCEPT !.holder = "state"] /\ pc' = "remainder"
              /\ UNCHANGED <<completed, posted>>
         [] OTHER -> pc' = "success" /\ UNCHANGED <<carrier, completed, posted>>
    /\ UNCHANGED <<opts, timer, told>>

\* run_raw_upgrade() reads the head; bytes that follow it in the same read are
\* dropped with it.
Answer ==
    /\ pc = "answer"
    /\ \/ Finish("failed", carrier) /\ pc' = "over"
       \/ /\ carrier.open
          /\ IF Remainder > 0 THEN pc' = "remainder" /\ UNCHANGED <<carrier, completed, posted>>
             ELSE Finish("stream", carrier) /\ pc' = "over"
    /\ UNCHANGED <<opts, timer, told, sent>>

\* The rest of the payload is written before the stream is handed over.
WriteRemainder ==
    /\ pc \in {"remainder", "fastRemainder"}
    /\ \/ Finish("failed", Drop(carrier)) /\ pc' = "over" /\ UNCHANGED sent
       \/ /\ carrier.open /\ sent' = Payload
          /\ IF completed THEN Leave(carrier) ELSE Finish("stream", carrier) /\ pc' = "over"
    /\ UNCHANGED <<opts, timer, told>>

\* complete_success(), posted.
CompleteSuccess ==
    /\ pc = "success" /\ pc' = "over"
    /\ IF completed THEN /\ carrier' = [holder |-> "nobody", open |-> FALSE]
                         /\ UNCHANGED <<completed, posted>>
       ELSE Finish("stream", carrier)
    /\ UNCHANGED <<opts, timer, told, sent>>

\* run_deadline() and cancel().
Deadline == /\ timer = "armed" /\ timer' = "over" /\ Finish("timeout", carrier)
            /\ UNCHANGED <<opts, pc, told, sent>>
Cancel == /\ ~completed /\ Finish("cancelled", carrier)
          /\ UNCHANGED <<opts, pc, timer, told, sent>>

\* The posted result runs.
ResultRuns ==
    /\ posted # "none" /\ posted' = "none" /\ told' = told + 1
    /\ carrier' = IF posted = "stream" THEN [carrier EXCEPT !.holder = "user"] ELSE carrier
    /\ UNCHANGED <<opts, pc, timer, completed, sent>>

HandshakeStep == \/ RunOpen \/ TlsDone \/ UpgradeFails \/ Upgrade \/ Answer \/ WriteRemainder
                 \/ CompleteSuccess \/ Deadline \/ ResultRuns
HandshakeNext == HandshakeStep \/ Cancel
HandshakeSpec == HandshakeInit /\ [][HandshakeNext]_handshakeVars

-----------------------------------------------------------------------------
\* The handler is called once, with the first of the outcomes.
ToldOnce == told <= 1 /\ (completed <=> (told = 1 \/ posted # "none"))

\* The user's stream is open and carries the whole initial payload.
HandedOverWhole ==
    (carrier.holder \in {"result", "user"}) => carrier.open /\ completed /\ sent = Payload

\* When task and handler are done, nobody but the user has the stream open.
NothingLeftOpen ==
    (pc = "over" /\ completed /\ carrier.holder \notin {"result", "user"}) => ~carrier.open

HandshakeIsSound == HandshakeTypeOK /\ ToldOnce /\ HandedOverWhole /\ NothingLeftOpen

\* With a deadline the user is told, even when the server says nothing.
Outcome == opts.deadline => told = 1

-----------------------------------------------------------------------------
(***************************************************************************)
(* The streams that are handed over: WebSocketStreamState, which cuts      *)
(* messages into reads ("ws"), and FastOpenUpgradeStream, whose first read *)
(* validates the upgrade ("fast").  Each has one user; a read or a write   *)
(* is settled by the first of its handler and a stop.  Beast, or the inner *)
(* stream, is external: it takes writes and delivers messages, or bytes,   *)
(* in order.                                                               *)
(***************************************************************************)
CONSTANTS Kinds,     \* "ws", "fast"
          MaxBytes,  \* bound: bytes the peer sends
          MaxOps,    \* bound: operations of the user
          Stops      \* which operations may be stopped: "read", "write"

StreamAssumption == /\ {MaxBytes, MaxOps} \subseteq Nat /\ Kinds \subseteq {"ws", "fast"}
                    /\ Stops \subseteq {"read", "write"}
Ops == 1 .. MaxOps
Buffer == 1 .. 2                 \* sizes of the buffers

VARIABLES
    kind,     \* which stream this is
    st,       \* [closed, end, msg, busy]: closed_, read_closed_ with read_error_,
              \* message_available_, read_in_progress_
    reader,   \* the owner of read_handler_ or pending_terminal_, or 0, and its buffer's size
    incoming, \* incoming_, remainder_: bytes not delivered yet
    writer,   \* the owner of write_handler_, or 0
    wire,     \* the writes Beast or the inner stream works on
    taken,    \* the writes it has taken
    posts,    \* handlers to run, [id, res, bytes]
    op,       \* how each operation stands
    got,      \* the bytes the user has read
    up,       \* the upgrade: "pending", "validating", "serving" the first read, "valid", "failed"
    head,     \* whether the task has the whole head
    peer      \* [bytes, said, open]: bytes sent so far, "eof" or "error", the stream is open

streamVars == <<kind, st, reader, incoming, writer, wire, taken, posts, op, got, up, head, peer>>

Result == {"ok", "eof", "error", "aborted"}
StreamTypeOK ==
    /\ kind \in Kinds
    /\ st \in [closed : BOOLEAN, end : {"no", "eof", "error", "aborted"}, msg : BOOLEAN,
               busy : BOOLEAN]
    /\ reader \in [id : 0 .. MaxOps, size : 0 .. 2] /\ incoming \in Seq(1 .. MaxBytes)
    /\ writer \in 0 .. MaxOps /\ wire \in Seq(Ops) /\ taken \subseteq Ops
    /\ posts \in Seq([id : Ops, res : Result, bytes : Seq(1 .. MaxBytes)])
    /\ op \in [Ops -> [k : {"none", "read", "write"}, st : {"waiting", "stopped"} \cup Result]]
    /\ got \in Seq(1 .. MaxBytes) /\ head \in BOOLEAN
    /\ up \in {"pending", "validating", "serving", "valid", "failed"}
    /\ peer \in [bytes : 0 .. MaxBytes, said : {"nothing", "eof", "error"}, open : BOOLEAN]

Nobody == [id |-> 0, size |-> 0]
StreamInit ==
    /\ kind \in Kinds /\ reader = Nobody /\ incoming = <<>> /\ writer = 0 /\ wire = <<>>
    /\ st = [closed |-> FALSE, end |-> "no", msg |-> FALSE, busy |-> FALSE]
    /\ taken = {} /\ posts = <<>> /\ op = [o \in Ops |-> [k |-> "none", st |-> "waiting"]]
    /\ got = <<>> /\ up = (IF kind = "ws" THEN "valid" ELSE "pending") /\ head = FALSE
    /\ peer = [bytes |-> 0, said |-> "nothing", open |-> TRUE]

Post(o, res) == IF o = 0 THEN <<>> ELSE <<[id |-> o, res |-> res, bytes |-> <<>>]>>
Fresh(o, k) == /\ op[o].k = "none" /\ \A p \in 1 .. o - 1 : op[p].k # "none"
               /\ op' = [op EXCEPT ![o].k = k]
Cut(q, n) == SubSeq(q, 1, IF Len(q) < n THEN Len(q) ELSE n)
Rest(q, n) == SubSeq(q, Len(Cut(q, n)) + 1, Len(q))

\* deliver_read() of the message q to the read r; finish_read() posts it.
DeliverRead(r, q) ==
    /\ posts' = Append(posts, [id |-> r.id, res |-> "ok", bytes |-> Cut(q, r.size)])
    /\ incoming' = Rest(q, r.size) /\ reader' = Nobody

-----------------------------------------------------------------------------
(* WebSocketStreamState *)

\* read(), whose start_read_message() asks Beast unless it is reading already.
Read(o, n) ==
    /\ kind = "ws" /\ Fresh(o, "read")
    /\ LET r == [id |-> o, size |-> n] IN
       CASE st.closed \/ reader.id # 0 ->
              /\ posts' = posts \o Post(o, IF st.closed THEN "aborted" ELSE "error")
              /\ UNCHANGED <<st, reader, incoming>>
         [] ~st.closed /\ reader.id = 0 /\ st.msg ->
              /\ DeliverRead(r, incoming)
              /\ st' = [st EXCEPT !.msg = Rest(incoming, n) # <<>>]
         [] ~st.closed /\ reader.id = 0 /\ ~st.msg /\ st.end # "no" ->
              posts' = posts \o Post(o, st.end) /\ UNCHANGED <<st, reader, incoming>>
         [] OTHER -> /\ reader' = r /\ st' = [st EXCEPT !.busy = TRUE]
                     /\ UNCHANGED <<incoming, posts>>
    /\ UNCHANGED <<kind, writer, wire, taken, got, up, head, peer>>

\* write(): one at a time; Beast gets the message.
Write(o) ==
    /\ kind = "ws" /\ Fresh(o, "write")
    /\ IF st.closed \/ writer # 0
       THEN /\ posts' = posts \o Post(o, IF st.closed THEN "aborted" ELSE "error")
            /\ UNCHANGED <<writer, wire>>
       ELSE writer' = o /\ wire' = Append(wire, o) /\ UNCHANGED posts
    /\ UNCHANGED <<kind, st, reader, incoming, taken, got, up, head, peer>>

\* close() and fail(): everybody parked is told, what is buffered is dropped.
End(res) ==
    /\ st' = [st EXCEPT !.closed = TRUE, !.end = res, !.msg = FALSE]
    /\ posts' = posts \o Post(reader.id, res) \o Post(writer, res)
    /\ reader' = Nobody /\ writer' = 0 /\ incoming' = <<>> /\ peer' = [peer EXCEPT !.open = FALSE]
Close == /\ kind = "ws" /\ ~st.closed /\ End("aborted")
         /\ UNCHANGED <<kind, wire, taken, op, got, up, head>>

\* The completion of Beast's read: a message, the peer's close, or a failure,
\* which a text message and one that is too large are too.
Message(n) ==
    /\ kind = "ws" /\ st.busy /\ peer.open /\ peer.said = "nothing" /\ peer.bytes + n <= MaxBytes
    /\ LET q == [i \in 1 .. n |-> peer.bytes + i] IN
       IF reader.id = 0
       THEN incoming' = q /\ st' = [st EXCEPT !.busy = FALSE, !.msg = TRUE] /\ UNCHANGED <<posts, reader>>
       ELSE DeliverRead(reader, q) /\ st' = [st EXCEPT !.busy = FALSE, !.msg = Rest(q, reader.size) # <<>>]
    /\ peer' = [peer EXCEPT !.bytes = @ + n]
    /\ UNCHANGED <<kind, writer, wire, taken, op, got, up, head>>
RemoteClose ==
    /\ kind = "ws" /\ st.busy /\ peer.open /\ st.end = "no"
    /\ st' = [st EXCEPT !.busy = FALSE, !.end = "eof"] /\ peer' = [peer EXCEPT !.said = "eof"]
    /\ posts' = posts \o Post(reader.id, "eof") /\ reader' = Nobody
    /\ UNCHANGED <<kind, incoming, writer, wire, taken, op, got, up, head>>
ReadFails ==
    /\ kind = "ws" /\ st.busy
    /\ IF st.closed THEN st' = [st EXCEPT !.busy = FALSE] /\ UNCHANGED <<posts, reader, writer, incoming, peer>>
       ELSE /\ st' = [closed |-> TRUE, end |-> "error", msg |-> FALSE, busy |-> FALSE]
            /\ posts' = posts \o Post(reader.id, "error") \o Post(writer, "error")
            /\ reader' = Nobody /\ writer' = 0 /\ incoming' = <<>>
            /\ peer' = [peer EXCEPT !.open = FALSE]
    /\ UNCHANGED <<kind, wire, taken, op, got, up, head>>

\* The completion of Beast's write, finish_write().
WriteDone(ok) ==
    /\ kind = "ws" /\ wire # <<>> /\ wire' = Tail(wire)
    /\ ok => peer.open
    /\ taken' = IF ok THEN taken \cup {wire[1]} ELSE taken
    /\ IF st.closed THEN UNCHANGED <<writer, posts>>
       ELSE writer' = 0 /\ posts' = posts \o Post(writer, IF ok THEN "ok" ELSE "error")
    /\ UNCHANGED <<kind, st, reader, incoming, op, got, up, head, peer>>

-----------------------------------------------------------------------------
(* FastOpenUpgradeStream *)

\* async_read_some(): the first read starts the validation, later ones take
\* what followed the head, then go to the inner stream.
FastRead(o, n) ==
    /\ kind = "fast" /\ Fresh(o, "read")
    /\ \A p \in Ops : op[p].k = "read" => op[p].st # "waiting"
    /\ CASE up = "failed" \/ (up = "serving" /\ ~peer.open) ->
              posts' = posts \o Post(o, "error") /\ UNCHANGED <<up, reader, incoming>>
         [] up = "valid" /\ incoming # <<>> ->
              DeliverRead([id |-> o, size |-> n], incoming) /\ UNCHANGED up
         [] up = "valid" /\ incoming = <<>> ->
              reader' = [id |-> o, size |-> n] /\ UNCHANGED <<up, incoming, posts>>
         [] up \in {"pending", "validating"} -> /\ reader' = [id |-> o, size |-> n] /\ up' = "validating"
                                               /\ UNCHANGED <<incoming, posts>>
    /\ UNCHANGED <<kind, st, writer, wire, taken, got, head, peer>>

\* The inner stream's pulls: the task reads to the end of the head, then for
\* the read that waits; a later read pulls for itself.
InnerData(n) ==
    /\ kind = "fast" /\ peer.open /\ peer.said = "nothing" /\ peer.bytes + n <= MaxBytes
    /\ peer' = [peer EXCEPT !.bytes = @ + n]
    /\ LET q == [i \in 1 .. n |-> peer.bytes + i] IN
       CASE up = "validating" ->
              /\ head' = TRUE
              /\ IF n = 0 THEN up' = "serving" /\ UNCHANGED <<incoming, posts, reader>>
                 ELSE up' = "valid" /\ DeliverRead(reader, q)
         [] up = "serving" \/ (up = "valid" /\ reader.id # 0) ->
              n \in 1 .. reader.size /\ up' = "valid" /\ DeliverRead(reader, q) /\ UNCHANGED head
         [] OTHER -> FALSE
    /\ UNCHANGED <<kind, st, writer, wire, taken, op, got>>
\* A pull ends without data: finish_validation() closes the inner stream and
\* fails the tunnel for good, unless the upgrade was valid already.
InnerEnds(said) ==
    /\ kind = "fast" /\ (up \in {"validating", "serving"} \/ reader.id # 0)
    /\ said = "eof" => peer.open /\ peer.said # "error"
    /\ posts' = posts \o Post(reader.id, IF up = "validating" THEN "error" ELSE said) /\ reader' = Nobody
    /\ up' = (IF up = "validating" THEN "failed" ELSE "valid")
    /\ peer' = [peer EXCEPT !.said = IF @ = "nothing" THEN said ELSE @, !.open = @ /\ up # "validating"]
    /\ UNCHANGED <<kind, st, incoming, writer, wire, taken, op, got, head>>
\* A head that does not accept the upgrade.
Rejected ==
    /\ kind = "fast" /\ up = "validating" /\ peer.open
    /\ posts' = posts \o Post(reader.id, "error") /\ reader' = Nobody /\ up' = "failed"
    /\ peer' = [peer EXCEPT !.open = FALSE]
    /\ UNCHANGED <<kind, st, incoming, writer, wire, taken, op, got, head>>

\* async_write(): to the inner stream, validated or not, until it has failed.
FastWrite(o) ==
    /\ kind = "fast" /\ wire = <<>> /\ Fresh(o, "write")
    /\ IF up = "failed" THEN posts' = posts \o Post(o, "error") /\ UNCHANGED wire
       ELSE wire' = <<o>> /\ UNCHANGED posts
    /\ UNCHANGED <<kind, st, reader, incoming, writer, taken, got, up, head, peer>>
FastWritten(ok) ==
    /\ kind = "fast" /\ wire # <<>> /\ wire' = <<>> /\ (ok => peer.open)
    /\ taken' = IF ok THEN taken \cup {wire[1]} ELSE taken
    /\ posts' = posts \o Post(wire[1], IF ok THEN "ok" ELSE "error")
    /\ UNCHANGED <<kind, st, reader, incoming, writer, op, got, up, head, peer>>
FastClose == /\ kind = "fast" /\ peer.open /\ peer' = [peer EXCEPT !.open = FALSE]
             /\ UNCHANGED <<kind, st, reader, incoming, writer, wire, taken, posts, op, got, up, head>>

-----------------------------------------------------------------------------
\* A stop settles its operation and runs the aborter: cancel_read() and
\* cancel_write() retire what is parked, the validation's closes the stream.
\* A pull of the inner stream is stopped there.
Stop(o) ==
    /\ op[o].k \in Stops /\ op[o].st = "waiting" /\ op' = [op EXCEPT ![o].st = "stopped"]
    /\ CASE kind = "ws" /\ op[o].k = "read" ->
              /\ posts' = posts \o Post(reader.id, "aborted") /\ reader' = Nobody
              /\ UNCHANGED <<writer, wire, peer>>
         [] kind = "ws" /\ op[o].k = "write" ->
              /\ posts' = posts \o Post(writer, "aborted") /\ writer' = 0
              /\ UNCHANGED <<reader, wire, peer>>
         [] kind = "fast" /\ op[o].k = "read" ->
              /\ peer' = [peer EXCEPT !.open = @ /\ up \notin {"validating", "serving"}]
              /\ reader' = IF up = "valid" THEN Nobody ELSE reader
              /\ UNCHANGED <<posts, writer, wire>>
         [] OTHER -> wire' = <<>> /\ UNCHANGED <<posts, reader, writer, peer>>
    /\ UNCHANGED <<kind, st, incoming, taken, got, up, head>>

HandlerRuns ==
    /\ posts # <<>> /\ posts' = Tail(posts)
    /\ LET p == posts[1] IN
       IF op[p.id].st # "waiting" THEN UNCHANGED <<op, got>>
       ELSE op' = [op EXCEPT ![p.id].st = p.res] /\ got' = got \o p.bytes
    /\ UNCHANGED <<kind, st, reader, incoming, writer, wire, taken, up, head, peer>>

StreamNext ==
        \/ \E o \in Ops, n \in Buffer : Read(o, n) \/ FastRead(o, n)
        \/ \E o \in Ops : Write(o) \/ FastWrite(o) \/ Stop(o)
        \/ \E n \in 0 .. 2 : Message(n) \/ InnerData(n)
        \/ \E ok \in BOOLEAN : WriteDone(ok) \/ FastWritten(ok)
        \/ InnerEnds("eof") \/ InnerEnds("error") \/ Rejected \/ FastClose \/ Close
        \/ RemoteClose \/ ReadFails \/ HandlerRuns
StreamSpec == StreamInit /\ [][StreamNext]_streamVars

-----------------------------------------------------------------------------
\* An operation that waits is parked, in the works below, or about to be told.
NobodyStranded ==
    \A o \in Ops : (op[o].k # "none" /\ op[o].st = "waiting") =>
        \/ reader.id = o /\ (kind = "ws" => st.busy)
        \/ kind = "ws" /\ writer = o /\ wire # <<>>
        \/ kind = "fast" /\ wire = <<o>>
        \/ \E i \in 1 .. Len(posts) : posts[i].id = o

\* The user sees the peer's bytes in order, and all of them unless a read was
\* stopped; nothing of it before the upgrade was accepted.
BytesInOrder ==
    /\ \A i, j \in 1 .. Len(got) : i < j => got[i] < got[j]
    /\ (\A o \in Ops : op[o].st # "stopped") => \A i \in 1 .. Len(got) : got[i] = i
    /\ got # <<>> => up = "valid"
    /\ (\E o \in Ops : op[o].st = "eof") => peer.said = "eof"

\* A write that succeeded was taken below; one behind a stopped write of the
\* WebSocket stream may be told too early, so without stopped writes.
SuccessMeansTaken ==
    "write" \notin Stops => \A o \in Ops : (op[o].k = "write" /\ op[o].st = "ok") => o \in taken

\* Beast has one write at a time, as it demands, when none was stopped.
OneWriteBelow == "write" \notin Stops => Len(wire) <= 1

StreamIsSound == StreamTypeOK /\ NobodyStranded /\ BytesInOrder /\ SuccessMeansTaken /\ OneWriteBelow
=============================================================================

---------------------------- MODULE QuicHandles ----------------------------
(***************************************************************************)
(* QuicStreamState and QuicDatagramState (src/transport/quic_client.cpp):  *)
(* one handle of a QUIC connection, a stream or the datagrams, and its one *)
(* user.  A read or a write is a callback_sender operation: the first of   *)
(* its handler and a stop settles it.  All of it runs on the executor of   *)
(* the connection; posts are the handlers posted to it.  The connection    *)
(* below is that of QuicClient: it takes the handle's writes in order and  *)
(* reports each one, and drops what is queued when the stream ends.        *)
(***************************************************************************)
EXTENDS Integers, Sequences, SequencesExt, FiniteSets

CONSTANTS Kinds,     \* the handles: "stream", "datagram"
          MaxBytes,  \* bound: bytes the peer sends
          MaxOps,    \* bound: operations of the user
          Stops      \* which operations may be stopped: "read", "write"

HandleAssumption == /\ {MaxBytes, MaxOps} \subseteq Nat /\ Kinds \subseteq {"stream", "datagram"}
                    /\ Stops \subseteq {"read", "write"}
Ops == 1 .. MaxOps
MaxRead == 2                     \* buffers of one or two bytes, as chunks

VARIABLES
    kind,    \* which handle this is
    h,       \* [closed, eof, shut, inflight]: closed_, eof_, send_shutdown_, write_in_flight_
    reader,  \* the parked read, or 0, and the size of its buffer
    inbox,   \* read_queue_, queue_: chunks of the bytes lo .. hi, perhaps the last of the stream
    writers, \* writes_, or the owner of send_handler_
    posts,   \* handlers to run, [id, res, lo, hi]
    op,      \* how each operation stands
    got,     \* the bytes the user has read, in order
    lower,   \* the writes the connection holds, in order
    sent,    \* the writes the connection has taken
    below    \* [at, bytes, fin]: the connection, what it has delivered, the end of the stream

vars == <<kind, h, reader, inbox, writers, posts, op, got, lower, sent, below>>

Chunk == [lo : 1 .. MaxBytes, hi : 1 .. MaxBytes, fin : BOOLEAN]
Result == {"ok", "eof", "error", "aborted"}
TypeOK ==
    /\ kind \in Kinds /\ h \in [closed : BOOLEAN, eof : BOOLEAN, shut : BOOLEAN, inflight : BOOLEAN]
    /\ reader \in [id : 0 .. MaxOps, size : 0 .. MaxRead] /\ inbox \in Seq(Chunk)
    /\ writers \in Seq(Ops) /\ lower \in Seq(Ops) /\ sent \subseteq Ops
    /\ posts \in Seq([id : Ops, res : Result, lo : 0 .. MaxBytes, hi : 0 .. MaxBytes])
    /\ op \in [Ops -> [k : {"none", "read", "write"}, st : {"waiting", "stopped"} \cup Result]]
    /\ got \in Seq(1 .. MaxBytes)
    /\ below \in [at : {"open", "closed", "lost"}, bytes : 0 .. MaxBytes, fin : BOOLEAN]

Nobody == [id |-> 0, size |-> 0]
Init ==
    /\ kind \in Kinds /\ reader = Nobody /\ inbox = <<>> /\ writers = <<>> /\ posts = <<>>
    /\ h = [closed |-> FALSE, eof |-> FALSE, shut |-> FALSE, inflight |-> FALSE]
    /\ op = [o \in Ops |-> [k |-> "none", st |-> "waiting"]] /\ got = <<>>
    /\ lower = <<>> /\ sent = {} /\ below = [at |-> "open", bytes |-> 0, fin |-> FALSE]

Post(o, res) == [id |-> o, res |-> res, lo |-> 0, hi |-> 0]
Posts(s, res) == [i \in 1 .. Len(s) |-> Post(s[i], res)]
\* The parked read and the parked writes, in the order fail_pending() takes them.
Parked == (IF reader.id = 0 THEN <<>> ELSE <<reader.id>>) \o writers

(***************************************************************************)
(* fulfill_read() for the queue q and the parked read r: bytes of one      *)
(* chunk, or a whole datagram; a datagram larger than the buffer is lost.  *)
(***************************************************************************)
FulfillRead(r, q, e) ==
    \/ /\ (r.id = 0 \/ (q = <<>> /\ ~e)) /\ reader' = r /\ inbox' = q /\ UNCHANGED posts
       /\ h' = [h EXCEPT !.eof = e]
    \/ /\ r.id # 0 /\ q = <<>> /\ e /\ posts' = Append(posts, Post(r.id, "eof"))
       /\ reader' = Nobody /\ inbox' = q /\ h' = [h EXCEPT !.eof = TRUE]
    \/ /\ r.id # 0 /\ q # <<>>
       /\ LET c == q[1]
              n == IF r.size < c.hi - c.lo + 1 THEN r.size ELSE c.hi - c.lo + 1
              whole == c.lo + n - 1 = c.hi
              tooLarge == kind = "datagram" /\ ~whole IN
          /\ posts' = Append(posts, IF tooLarge THEN Post(r.id, "error")
                                    ELSE [id |-> r.id, res |-> "ok", lo |-> c.lo, hi |-> c.lo + n - 1])
          /\ inbox' = IF whole \/ tooLarge THEN Tail(q) ELSE <<[c EXCEPT !.lo = @ + n]>> \o Tail(q)
          /\ h' = [h EXCEPT !.eof = e \/ (whole /\ c.fin)]
       /\ reader' = Nobody

\* pump_write(): the first write goes to the connection, which takes nothing
\* after the end of the stream.  The flag is set all the same.
Lower(o) == IF h.shut \/ below.at # "open" THEN lower ELSE Append(lower, o)
PumpWrite(w) == IF h.inflight \/ w = <<>> THEN UNCHANGED <<h, lower>>
                ELSE h' = [h EXCEPT !.inflight = TRUE] /\ lower' = Lower(w[1])

-----------------------------------------------------------------------------
(* The user *)

Fresh(o, k) == /\ op[o].k = "none" /\ \A p \in 1 .. o - 1 : op[p].k # "none"
               /\ op' = [op EXCEPT ![o].k = k]

\* read() and receive(): one at a time.
Read(o, size) ==
    /\ Fresh(o, "read")
    /\ IF reader.id # 0 \/ h.closed
       THEN posts' = Append(posts, Post(o, "aborted")) /\ UNCHANGED <<h, reader, inbox>>
       ELSE FulfillRead([id |-> o, size |-> size], inbox, h.eof)
    /\ UNCHANGED <<kind, writers, got, lower, sent, below>>

\* write() of a stream queues behind the others; send() refuses a second one.
Refused == h.closed \/ h.shut \/ (kind = "datagram" /\ writers # <<>>)
Write(o) ==
    /\ Fresh(o, "write")
    /\ IF Refused
       THEN /\ posts' = Append(posts, Post(o, IF h.closed \/ h.shut THEN "aborted" ELSE "error"))
            /\ UNCHANGED <<h, writers, lower>>
       ELSE writers' = Append(writers, o) /\ PumpWrite(writers') /\ UNCHANGED posts
    /\ UNCHANGED <<kind, reader, inbox, got, sent, below>>

\* A stop settles the operation at once; cancel_read() and cancel_write()
\* retire what is parked, all writes of a stream together.
Stop(o) ==
    /\ op[o].k \in Stops /\ op[o].st = "waiting"
    /\ op' = [op EXCEPT ![o].st = "stopped"]
    /\ IF op[o].k = "read"
       THEN /\ posts' = IF reader.id = 0 THEN posts ELSE Append(posts, Post(reader.id, "aborted"))
            /\ reader' = Nobody /\ UNCHANGED <<h, writers>>
       ELSE /\ posts' = posts \o Posts(writers, "aborted") /\ writers' = <<>>
            /\ h' = [h EXCEPT !.inflight = @ /\ writers = <<>>] /\ UNCHANGED reader
    /\ UNCHANGED <<kind, inbox, got, lower, sent, below>>

\* shutdown_send(): the FIN is queued below behind the write in flight.
ShutdownSend == /\ kind = "stream" /\ ~h.closed /\ ~h.shut /\ h' = [h EXCEPT !.shut = TRUE]
                /\ UNCHANGED <<kind, reader, inbox, writers, posts, op, got, lower, sent, below>>

\* fail_pending(), fail_read() and finish_send(): everybody parked is told.
FailPending(res) ==
    /\ posts' = posts \o Posts(Parked, res) /\ reader' = Nobody /\ writers' = <<>>
    /\ h' = [h EXCEPT !.closed = TRUE, !.inflight = FALSE]
\* close(): the stream is cancelled below, which drops its queue.
Close == /\ ~h.closed /\ FailPending("aborted")
         /\ lower' = IF kind = "stream" THEN <<>> ELSE lower
         /\ below' = IF kind = "stream" /\ below.at = "open" THEN [below EXCEPT !.at = "closed"]
                     ELSE below
         /\ UNCHANGED <<kind, inbox, op, got, sent>>

\* The handler at the head runs; it is dropped when a stop came first.
HandlerRuns ==
    /\ posts # <<>> /\ posts' = Tail(posts)
    /\ LET p == posts[1] IN
       IF op[p.id].st # "waiting" THEN UNCHANGED <<op, got>>
       ELSE /\ op' = [op EXCEPT ![p.id].st = p.res]
            /\ got' = IF p.lo = 0 THEN got
                      ELSE got \o [i \in 1 .. p.hi - p.lo + 1 |-> p.lo + i - 1]
    /\ UNCHANGED <<kind, h, reader, inbox, writers, lower, sent, below>>

-----------------------------------------------------------------------------
(* The connection *)

\* on_data(): a chunk arrives, perhaps with the end of the stream.
Data(n, fin) ==
    /\ below.at = "open" /\ ~below.fin /\ below.bytes + n <= MaxBytes /\ (n > 0 \/ fin)
    /\ kind = "datagram" => n > 0 /\ ~fin
    /\ below' = [below EXCEPT !.bytes = @ + n, !.fin = fin]
    /\ LET q == IF n = 0 THEN inbox
                ELSE Append(inbox, [lo |-> below.bytes + 1, hi |-> below.bytes + n, fin |-> FALSE])
           ends == fin /\ q # <<>> IN
       IF h.closed THEN UNCHANGED <<h, reader, inbox, posts>>
       ELSE FulfillRead(reader, IF ends THEN [q EXCEPT ![Len(q)].fin = TRUE] ELSE q,
                        h.eof \/ (fin /\ n = 0))
    /\ UNCHANGED <<kind, writers, op, got, lower, sent>>

\* on_write_complete() and finish_send(): the connection has taken the write at
\* the head of its queue, and whoever is parked first is told so.
WriteComplete ==
    /\ lower # <<>> /\ sent' = sent \cup {lower[1]}
    /\ IF h.closed \/ ~h.inflight \/ writers = <<>>
       THEN lower' = Tail(lower) /\ UNCHANGED <<h, writers, posts>>
       ELSE /\ posts' = Append(posts, Post(writers[1], "ok")) /\ writers' = Tail(writers)
            /\ h' = [h EXCEPT !.inflight = Tail(writers) # <<>>]
            /\ lower' = IF Tail(writers) = <<>> \/ h.shut \/ below.at # "open" THEN Tail(lower)
                        ELSE Append(Tail(lower), writers[2])
    /\ UNCHANGED <<kind, reader, inbox, op, got, below>>

\* on_stream_closed(): both directions are over; nobody tells the writers.
StreamClosed ==
    /\ kind = "stream" /\ below.at = "open" /\ below.fin
    /\ below' = [below EXCEPT !.at = "closed"] /\ lower' = <<>>
    /\ IF h.closed THEN UNCHANGED <<h, reader, inbox, posts>> ELSE FulfillRead(reader, inbox, TRUE)
    /\ UNCHANGED <<kind, writers, op, got, sent>>

\* on_stream_reset(), and the end of the connection: what is queued is lost.
Reset(at) ==
    /\ below.at = "open" \/ (below.at = "closed" /\ at = "lost")
    /\ at = "closed" => kind = "stream"
    /\ below' = [below EXCEPT !.at = at] /\ lower' = IF at = "lost" THEN <<>> ELSE lower
    /\ IF h.closed THEN UNCHANGED <<h, reader, writers, posts>>
       ELSE FailPending(IF kind = "stream" THEN "error" ELSE "aborted")
    /\ UNCHANGED <<kind, inbox, op, got, sent>>

User == \/ \E o \in Ops, n \in 1 .. MaxRead : Read(o, n)
        \/ \E o \in Ops : Write(o) \/ Stop(o)
        \/ ShutdownSend \/ Close \/ HandlerRuns
Connection == \/ \E n \in 0 .. 2, fin \in BOOLEAN : Data(n, fin)
              \/ WriteComplete \/ StreamClosed \/ Reset("closed") \/ Reset("lost")
Next == User \/ Connection
Spec == Init /\ [][Next]_vars

-----------------------------------------------------------------------------
\* An operation that waits is parked or about to be told, once; a closed handle
\* has nobody parked.
NobodyStranded ==
    /\ \A o \in Ops : (op[o].k # "none" /\ op[o].st = "waiting") =>
          Cardinality({i \in 1 .. Len(Parked) : Parked[i] = o})
              + Cardinality({i \in 1 .. Len(posts) : posts[i].id = o}) = 1
    /\ h.closed => Parked = <<>>

\* The user sees the bytes in order, without a gap unless a read was stopped or
\* a datagram did not fit; the end is reported after the last byte.
BytesInOrder ==
    /\ \A i, j \in 1 .. Len(got) : i < j => got[i] < got[j]
    /\ (kind = "stream" /\ \A o \in Ops : op[o].st # "stopped") => \A i \in 1 .. Len(got) : got[i] = i
    /\ (\E o \in Ops : op[o].st = "eof") =>
          /\ below.fin /\ ((\A o \in Ops : op[o].st # "stopped") => Len(got) = below.bytes)

\* A write is reported as done when the connection has taken it; a stopped write
\* leaves its bytes below, whose completion then ends the next write early, so
\* this holds without stopped writes only.
SuccessMeansTaken ==
    "write" \notin Stops => \A o \in Ops : (op[o].k = "write" /\ op[o].st = "ok") => o \in sent

\* A parked write is one the connection will report, while the stream is open
\* and its sending side was not shut down behind it.
WriterBacked ==
    (writers # <<>> /\ below.at = "open" /\ ~h.shut) => h.inflight /\ lower # <<>>

HandlesAreSound == TypeOK /\ NobodyStranded /\ BytesInOrder /\ SuccessMeansTaken /\ WriterBacked
=============================================================================

---------------------------- MODULE TunnelStream ----------------------------
(***************************************************************************)
(* An established CONNECT tunnel of the HTTP/2 session:                    *)
(* HttpTunnelStreamState (include/clash_native/io/                         *)
(* exchange_tunnel_stream.hpp) between its one user and the four closures  *)
(* accept_tunnel() of src/transport/http2_client.cpp gives it.  Everything *)
(* runs on the session's executor; posts is what the code posted to it,    *)
(* and the completion of the socket write that carries the tunnel's bytes. *)
(*                                                                         *)
(* A read or a write is a callback_sender operation: the first of the      *)
(* handler and a stop settles it, and a later handler is dropped.  Chunks  *)
(* are kept as one sequence of bytes: deliver_read() copies across them.   *)
(***************************************************************************)
EXTENDS Integers, Sequences, SequencesExt

CONSTANTS Limit,      \* receive_limit_, in bytes
          Window,     \* the flow control window of the stream
          BufferSize, \* size of the buffer of a read
          MaxBytes,   \* bound: bytes the peer sends
          MaxOps,     \* bound: reads, and writes, of the user
          Sizes,      \* sizes of the writes
          Stops       \* which operations may be stopped: "read", "write"

TunnelAssumption == /\ Window \in 1 .. Limit /\ BufferSize \in Nat \ {0}
                    /\ MaxBytes \in Nat /\ MaxOps \in Nat /\ Sizes \subseteq 0 .. 2
                    /\ Stops \subseteq {"read", "write"}

VARIABLES
    incoming,  \* incoming_
    end,       \* "open", or read_closed_ with read_error_: "eof", "failed", "aborted"
    closed,    \* closed_
    shut,      \* local_closed_
    requested, \* shutdown_requested_
    reader,    \* the read that owns read_handler_, or 0
    writer,    \* the write that owns write_handler_, or 0
    expected,  \* write_size_
    posts,
    pull, put, \* the user's latest read and write, and how they stand
    got,       \* the bytes the user has read
    slot,      \* tunnel_write_handler: the write whose bytes the session holds, or 0
    held,      \* tunnel_write_size
    serial,    \* tunnel_outgoing: "idle", "queued", "wire" in the socket's write
    noMore,    \* tunnel_write_closed
    fin,       \* END_STREAM was sent
    sent,      \* the writes whose bytes the session has put on the wire
    stream,    \* the stream in stream_pending_: "open", "quiet" or "gone"
    session,   \* "up", "retired", or "lost": http2_session_ is deleted
    over,      \* remote_end_stream
    arrived,   \* bytes the peer has sent
    credit,    \* bytes of the window in use
    fault      \* resume_data was called without a session

mine == <<incoming, end, closed, shut, requested, reader, writer, expected>>
user == <<pull, put, got>>
below == <<slot, held, serial, noMore, fin, sent, stream, session, over, arrived, credit, fault>>
vars == <<mine, posts, user, below>>

Ids == 0 .. MaxOps
Post == [kind : {"read", "write", "rejected", "written", "cancelRead", "cancelWrite", "reset",
                 "consume"},
         id : Ids, bytes : Seq(1 .. MaxBytes), end : {"ok", "eof", "failed", "aborted"}]
State == {"idle", "waiting", "ok", "eof", "failed", "stopped"}

TypeOK ==
    /\ incoming \in Seq(1 .. MaxBytes) /\ got \in Seq(1 .. MaxBytes)
    /\ end \in {"open", "eof", "failed", "aborted"}
    /\ closed \in BOOLEAN /\ shut \in BOOLEAN /\ requested \in BOOLEAN /\ noMore \in BOOLEAN
    /\ fin \in BOOLEAN /\ fault \in BOOLEAN /\ over \in BOOLEAN
    /\ reader \in Ids /\ writer \in Ids /\ slot \in Ids /\ sent \subseteq Ids
    /\ expected \in 0 .. 2 /\ held \in 0 .. 2 /\ arrived \in 0 .. MaxBytes /\ credit \in 0 .. Window
    /\ posts \in Seq(Post)
    /\ pull \in [id : Ids, st : State] /\ put \in [id : Ids, n : 0 .. 2, st : State]
    /\ serial \in {"idle", "queued", "wire"} /\ stream \in {"open", "quiet", "gone"}
    /\ session \in {"up", "retired", "lost"}

Init ==
    /\ incoming = <<>> /\ end = "open" /\ closed = FALSE /\ shut = FALSE /\ requested = FALSE
    /\ reader = 0 /\ writer = 0 /\ expected = 0 /\ posts = <<>>
    /\ pull = [id |-> 0, st |-> "idle"] /\ put = [id |-> 0, n |-> 0, st |-> "idle"] /\ got = <<>>
    /\ slot = 0 /\ held = 0 /\ serial = "idle" /\ noMore = FALSE /\ fin = FALSE /\ sent = {}
    /\ stream = "open" /\ session = "up" /\ over = FALSE /\ arrived = 0 /\ credit = 0 /\ fault = FALSE

Closure(kind, id, bytes, result) == [kind |-> kind, id |-> id, bytes |-> bytes, end |-> result]
Plain(kind) == Closure(kind, 0, <<>>, "ok")
PostRead(id, result) == IF id = 0 THEN <<>> ELSE <<Closure("read", id, <<>>, result)>>
PostWrite(id, result) == IF id = 0 THEN <<>> ELSE <<Closure("write", id, <<>>, result)>>

(***************************************************************************)
(* deliver_read() of queue q to the read p: the session learns how much    *)
(* was consumed before the handler runs.                                   *)
(***************************************************************************)
Taken(q) == SubSeq(q, 1, IF Len(q) < BufferSize THEN Len(q) ELSE BufferSize)
DeliverRead(p, q) ==
    /\ incoming' = SubSeq(q, Len(Taken(q)) + 1, Len(q))
    /\ posts' = posts \o <<Closure("consume", 0, Taken(q), "ok"), Closure("read", p, Taken(q), "ok")>>

\* satisfy_read() on queue q and end e.
SatisfyRead(q, e) ==
    \/ /\ reader # 0 /\ q # <<>> /\ DeliverRead(reader, q) /\ reader' = 0
    \/ /\ reader # 0 /\ q = <<>> /\ e # "open"
       /\ posts' = posts \o PostRead(reader, e) /\ reader' = 0 /\ incoming' = q
    \/ /\ reader = 0 \/ (q = <<>> /\ e = "open")
       /\ incoming' = q /\ UNCHANGED <<reader, posts>>

\* close() and fail(): everything queued is dropped, both directions end and
\* whoever waits is told; close_ posts the reset of the stream.
End(error) ==
    /\ closed' = TRUE /\ shut' = TRUE /\ end' = error
    /\ posts' = posts \o <<Plain("reset")>> \o PostRead(reader, error) \o PostWrite(writer, error)
    /\ reader' = 0 /\ writer' = 0 /\ incoming' = <<>>
    /\ UNCHANGED <<requested, expected>>
Fail == IF closed THEN UNCHANGED <<mine, posts>> ELSE End("failed")

\* remote_close().
RemoteClose ==
    \/ /\ (closed \/ end # "open") /\ UNCHANGED <<mine, posts>>
    \/ /\ ~closed /\ end = "open" /\ end' = "eof" /\ SatisfyRead(incoming, "eof")
       /\ UNCHANGED <<closed, shut, requested, writer, expected>>

\* The session's shutdown closure: END_STREAM follows what is queued.
ShutdownBelow == noMore' = TRUE /\ fault' = (fault \/ session = "lost")

\* Mutant: a half close that waits for a write is forgotten when it is done.
FinishWriteOnly(result, n, rest) ==
    /\ writer' = 0 /\ expected' = 0
    /\ posts' = rest \o PostWrite(writer, IF result = "ok" /\ n < expected THEN "aborted" ELSE result)
    /\ UNCHANGED <<shut, requested, noMore, fault>>

(***************************************************************************)
(* finish_write() with posts rest: the write that is parked now gets the   *)
(* result, and a half close that waited for it is done.                    *)
(***************************************************************************)
FinishWrite(result, n, rest) ==
    /\ writer' = 0
    /\ posts' = rest \o PostWrite(writer, IF result = "ok" /\ n < expected THEN "aborted" ELSE result)
    /\ IF writer = 0 THEN UNCHANGED <<expected, shut, requested, noMore, fault>>
       ELSE /\ expected' = 0
            /\ IF requested /\ ~closed
               THEN requested' = FALSE /\ shut' = TRUE /\ ShutdownBelow
               ELSE UNCHANGED <<shut, requested, noMore, fault>>

-----------------------------------------------------------------------------
(* The user. *)

\* async_read_some() and read_some().
ReadSome(p) ==
    \/ /\ reader # 0 /\ posts' = posts \o PostRead(p, "failed") /\ UNCHANGED <<reader, incoming>>
    \/ /\ reader = 0 /\ incoming # <<>> /\ DeliverRead(p, incoming) /\ UNCHANGED reader
    \/ /\ reader = 0 /\ incoming = <<>> /\ end # "open" /\ posts' = posts \o PostRead(p, end)
       /\ UNCHANGED <<reader, incoming>>
    \/ /\ reader = 0 /\ incoming = <<>> /\ end = "open" /\ reader' = p
       /\ UNCHANGED <<posts, incoming>>

Pull == /\ pull.st \in {"idle", "ok", "stopped"} /\ pull.id < MaxOps
        /\ pull' = [id |-> pull.id + 1, st |-> "waiting"]
        /\ ReadSome(pull.id + 1)
        /\ UNCHANGED <<end, closed, shut, requested, writer, expected, put, got, below>>

(***************************************************************************)
(* async_write() of n bytes: write_some(), and the session's write         *)
(* closure, which rejects a second write by a post.                        *)
(***************************************************************************)
Occupied == session # "up" \/ noMore \/ slot # 0
WriteSome(w, n) ==
    \/ /\ writer # 0 \/ shut \/ closed
       /\ posts' = posts \o PostWrite(w, "aborted")
       /\ UNCHANGED <<writer, expected, slot, held, serial>>
    \/ /\ writer = 0 /\ ~shut /\ ~closed /\ n = 0 /\ posts' = posts \o PostWrite(w, "ok")
       /\ UNCHANGED <<writer, expected, slot, held, serial>>
    \/ /\ writer = 0 /\ ~shut /\ ~closed /\ n > 0 /\ Occupied
       /\ writer' = w /\ expected' = n /\ posts' = Append(posts, Plain("rejected"))
       /\ UNCHANGED <<slot, held, serial>>
    \/ /\ writer = 0 /\ ~shut /\ ~closed /\ n > 0 /\ ~Occupied /\ stream = "open"
       /\ writer' = w /\ expected' = n /\ slot' = w /\ held' = n /\ serial' = "queued"
       /\ UNCHANGED posts
    \/ /\ writer = 0 /\ ~shut /\ ~closed /\ n > 0 /\ ~Occupied /\ stream # "open"
       /\ posts' = posts \o PostWrite(w, "aborted") /\ expected' = 0
       /\ UNCHANGED <<writer, slot, held, serial>>

Put(n) == /\ put.st \in {"idle", "ok", "stopped"} /\ put.id < MaxOps
          /\ put' = [id |-> put.id + 1, n |-> n, st |-> "waiting"]
          /\ WriteSome(put.id + 1, n)
          /\ UNCHANGED <<incoming, end, closed, shut, requested, reader, pull, got, noMore, fin,
                         sent, stream, session, over, arrived, credit, fault>>

\* A stop settles the operation at once; its aborter posts cancel_read() or
\* cancel_write().
StopPull == /\ "read" \in Stops /\ pull.st = "waiting" /\ pull' = [pull EXCEPT !.st = "stopped"]
            /\ posts' = Append(posts, Plain("cancelRead"))
            /\ UNCHANGED <<mine, put, got, below>>
StopPut == /\ "write" \in Stops /\ put.st = "waiting" /\ put' = [put EXCEPT !.st = "stopped"]
           /\ posts' = Append(posts, Plain("cancelWrite"))
           /\ UNCHANGED <<mine, pull, got, below>>

\* shutdown_send() waits for a write that is under way.
ShutdownSend ==
    /\ ~closed /\ ~shut
    /\ IF writer = 0 THEN requested' = FALSE /\ shut' = TRUE /\ ShutdownBelow
       ELSE requested' = TRUE /\ UNCHANGED <<shut, noMore, fault>>
    /\ UNCHANGED <<incoming, end, closed, reader, writer, expected, posts, user, slot, held, serial,
                   fin, sent, stream, session, over, arrived, credit>>

Close == ~closed /\ End("aborted") /\ UNCHANGED <<user, below>>

-----------------------------------------------------------------------------
(* The session and the peer. *)

kept == <<user, slot, held, serial, noMore, fin, sent, fault>>

\* on_data_chunk() and receive(), from a peer that respects the window.
Receive(k) ==
    /\ stream = "open" /\ session # "lost" /\ ~over
    /\ arrived + k <= MaxBytes /\ credit + k <= Window
    /\ arrived' = arrived + k /\ credit' = credit + k
    /\ IF closed \/ Len(incoming) + k > Limit THEN Fail
       ELSE /\ SatisfyRead(incoming \o [i \in 1 .. k |-> arrived + i], end)
            /\ UNCHANGED <<end, closed, shut, requested, writer, expected>>
    /\ UNCHANGED <<kept, stream, session, over>>

\* END_STREAM from the peer; the stream is closed once both sides ended.
PeerEnds == /\ stream = "open" /\ session # "lost" /\ ~over
            /\ over' = TRUE /\ RemoteClose /\ stream' = (IF fin THEN "gone" ELSE "open")
            /\ UNCHANGED <<kept, session, arrived, credit>>

\* on_stream_closed() after RST_STREAM, with an error or with NO_ERROR.
PeerResets == /\ stream = "open" /\ session # "lost"
              /\ Fail /\ stream' = "gone"
              /\ UNCHANGED <<kept, session, over, arrived, credit>>
PeerResetsQuietly == /\ stream = "open" /\ session # "lost"
                     /\ RemoteClose /\ stream' = "quiet"
                     /\ UNCHANGED <<kept, session, over, arrived, credit>>

\* handle_goaway(): the session takes nothing new, the tunnel stays.
Goaway == /\ session = "up" /\ session' = "retired"
          /\ UNCHANGED <<mine, posts, kept, stream, over, arrived, credit>>

\* connection_failed() or stop(): fail_all() reaches the tunnels it knows.
ConnectionLost ==
    /\ session # "lost" /\ session' = "lost" /\ stream' = (IF stream = "open" THEN "gone" ELSE stream)
    /\ IF stream = "open" THEN Fail ELSE UNCHANGED <<mine, posts>>
    /\ UNCHANGED <<kept, over, arrived, credit>>

\* read_request_body(): when the window allows, the held bytes are framed.
Serialise == /\ serial = "queued" /\ stream = "open" /\ session # "lost"
             /\ serial' = "wire" /\ sent' = sent \cup {slot}
             /\ UNCHANGED <<mine, posts, user, slot, held, noMore, fin, stream, session, over, arrived,
                            credit, fault>>
\* The socket has written them: the completion is queued to the executor.
WriteCompletes ==
    /\ serial = "wire" /\ session # "lost" /\ ~\E i \in 1 .. Len(posts) : posts[i].kind = "written"
    /\ posts' = Append(posts, Plain("written"))
    /\ UNCHANGED <<mine, user, below>>
SendEnd == /\ noMore /\ ~fin /\ serial # "queued" /\ stream = "open" /\ session # "lost"
           /\ fin' = TRUE /\ stream' = (IF over THEN "gone" ELSE "open")
           /\ UNCHANGED <<mine, posts, user, slot, held, serial, noMore, sent, session, over, arrived,
                          credit, fault>>

-----------------------------------------------------------------------------
(* The executor runs what was posted. *)

Head1(kind) == posts # <<>> /\ posts[1].kind = kind
Popped == Tail(posts)
Result(r) == IF r = "aborted" THEN "stopped" ELSE r

ReadRuns == /\ Head1("read") /\ posts' = Popped
            /\ LET h == posts[1] IN
               IF pull = [id |-> h.id, st |-> "waiting"]
               THEN pull' = [pull EXCEPT !.st = Result(h.end)] /\ got' = got \o h.bytes
               ELSE UNCHANGED <<pull, got>>
            /\ UNCHANGED <<mine, put, below>>
WriteRuns == /\ Head1("write") /\ posts' = Popped
             /\ put' = IF put.id = posts[1].id /\ put.st = "waiting"
                       THEN [put EXCEPT !.st = Result(posts[1].end)] ELSE put
             /\ UNCHANGED <<mine, pull, got, below>>

\* The rejection of a write that found the session's slot taken.
RejectedRuns == /\ Head1("rejected") /\ FinishWrite("aborted", 0, Popped)
                /\ UNCHANGED <<incoming, end, closed, reader, user, slot, held, serial, fin, sent,
                               stream, session, over, arrived, credit>>

\* The socket write's completion: nothing when the session is over, else the
\* handler kept in the slot, whatever happened to its write meanwhile.
WrittenRuns ==
    /\ Head1("written")
    /\ IF session = "lost"
       THEN posts' = Popped /\ UNCHANGED <<writer, expected, shut, requested, noMore, fault, slot,
                                           held, serial>>
       ELSE /\ FinishWrite("ok", held, Popped)
            /\ slot' = 0 /\ held' = 0 /\ serial' = "idle"
    /\ UNCHANGED <<incoming, end, closed, reader, user, fin, sent, stream, session, over, arrived, credit>>

CancelReadRuns == /\ Head1("cancelRead") /\ reader' = 0
                  /\ posts' = Popped \o PostRead(reader, "aborted")
                  /\ UNCHANGED <<incoming, end, closed, shut, requested, writer, expected, user, below>>
CancelWriteRuns == /\ Head1("cancelWrite") /\ writer' = 0
                   /\ expected' = (IF writer = 0 THEN expected ELSE 0)
                   /\ posts' = Popped \o PostWrite(writer, "aborted")
                   /\ UNCHANGED <<incoming, end, closed, shut, requested, reader, user, below>>

\* RST_STREAM goes out before any data, and closes the stream.
ResetRuns == /\ Head1("reset") /\ posts' = Popped
             /\ stream' = (IF stream = "open" /\ session # "lost" THEN "gone" ELSE stream)
             /\ UNCHANGED <<mine, kept, session, over, arrived, credit>>
ConsumeRuns == /\ Head1("consume") /\ posts' = Popped
               /\ credit' = (IF stream = "open" /\ session # "lost"
                             THEN credit - Len(posts[1].bytes) ELSE credit)
               /\ UNCHANGED <<mine, kept, stream, session, over, arrived>>

RunPost == \/ ReadRuns \/ WriteRuns \/ RejectedRuns \/ WrittenRuns \/ CancelReadRuns
           \/ CancelWriteRuns \/ ResetRuns \/ ConsumeRuns

User == Pull \/ (\E n \in Sizes : Put(n)) \/ StopPull \/ StopPut \/ ShutdownSend \/ Close
Session == \/ (\E k \in 1 .. Window : Receive(k)) \/ PeerEnds \/ PeerResets \/ PeerResetsQuietly
           \/ Goaway \/ ConnectionLost \/ Serialise \/ WriteCompletes \/ SendEnd

Next == User \/ Session \/ RunPost
Spec == Init /\ [][Next]_vars
\* The executor runs what is posted and the socket write of framed bytes
\* ends; the peer owes no window, no data and no end.
FairSpec == Spec /\ WF_vars(RunPost) /\ WF_vars(WriteCompletes)

-----------------------------------------------------------------------------
\* Bytes on their way to a read that still waits for them.
InFlight ==
    LET own == SelectSeq(posts, LAMBDA c : c.kind = "read" /\ pull = [id |-> c.id, st |-> "waiting"])
    IN FlattenSeq([i \in 1 .. Len(own) |-> own[i].bytes])

\* Until the tunnel is closed or fails, every byte the peer sent has been
\* read, is on its way or is queued, in order, and a read ends with eof only
\* when all of them have been read.
ReadsInOrder ==
    "read" \notin Stops =>
        /\ ~closed => got \o InFlight \o incoming = [i \in 1 .. arrived |-> i]
        /\ pull.st = "eof" => Len(got) = arrived

\* A write that succeeds is one whose own bytes the session sent: the
\* completion of an earlier write that was stopped finds no handler and is
\* dropped (exchange_tunnel_stream.hpp, cancel_write()).
SuccessMeansSent == (put.st = "ok" /\ put.n > 0) => put.id \in sent

\* Within the window the queue never overflows its limit: a tunnel fails
\* because the peer reset it or the connection was lost.
NeverOverflows == end = "failed" => stream = "gone"

\* A half close is asked of a session that still exists, unless the peer had
\* reset the stream without an error before the session was lost.
HalfCloseIsSafe == fault => stream = "quiet"

\* A half close that has to wait for a write keeps waiting for that write.
HalfCloseWaits == requested /\ ~closed /\ "write" \notin Stops => writer # 0

\* Once the tunnel is closed, has failed or has been lost, whoever waits on it
\* is told; the end of the peer's data releases a read.
NobodyWaits == /\ closed => pull.st # "waiting" /\ put.st # "waiting"
               /\ end = "eof" => pull.st # "waiting"

TunnelIsSound == /\ TypeOK /\ ReadsInOrder /\ NeverOverflows /\ HalfCloseIsSafe /\ HalfCloseWaits
                 /\ ("write" \notin Stops => SuccessMeansSent)
=============================================================================

-------------------------------- MODULE Gun ---------------------------------
(***************************************************************************)
(* Gun streams and the pool of their transports, in two parts with         *)
(* variables of their own.                                                 *)
(*                                                                         *)
(* GunStreamState and GunRequestBody (src/transport/proxy/gun_stream.cpp): *)
(* a byte stream in gRPC frames over one streaming exchange, usable before *)
(* the response head has come.  Everything runs on one executor; posts are *)
(* its closures, in order.  The session is external: it pulls the request  *)
(* body and delivers the response.  A frame of the response is a prefix, a *)
(* length and the bytes of its payload, one unit each; a frame of the      *)
(* request is some units that carry the number of their write.  A pull of  *)
(* the response body completes when its data comes: the post in between is *)
(* left out.                                                               *)
(***************************************************************************)
EXTENDS Integers, Sequences, SequencesExt, FiniteSetsExt

CONSTANTS Capacity,   \* kRequestQueueCapacity, in units
          Sizes,      \* sizes of the frames written
          MaxBytes,   \* bound: payload bytes the server sends
          MaxOps,     \* bound: operations of the user
          Uses,       \* the user's operations: "read", "write"
          Stops       \* those that may be stopped

GunAssumption == /\ {Capacity, MaxBytes, MaxOps} \subseteq Nat /\ Sizes \subseteq Nat \ {0}
                 /\ Stops \subseteq Uses /\ Uses \subseteq {"read", "write"}
Ops == 1 .. MaxOps
Room == 2            \* the session's and the user's largest buffer

VARIABLES
    st,       \* [closed, poisoned, sending, reader, size, remain, body]: the fields;
              \* the handlers are the ids of their owners, or 0
    chain,    \* the pull of the response in progress: "none", "prefix", "length", "payload"
    have,     \* what it has of the payload
    req,      \* the request body: [pull, filled, eof, closed], filled is delivered_
    writes,   \* its units, queued_bytes_ of them
    overflow, \* frames past the capacity
    posts,    \* closures to run
    op,       \* the user's operations
    got,      \* bytes the user has read
    out,      \* units the session has pulled
    down,     \* units of the response not pulled yet
    server    \* [sent, frames, over, head]

streamVars == <<st, chain, have, req, writes, overflow, posts, op, got, out, down, server>>

Byte == 0 .. MaxBytes
Unit == [t : {"prefix", "length", "byte"}, v : Byte]
Result == {"ok", "eof", "error", "aborted"}
StreamTypeOK ==
    /\ st \in [closed : BOOLEAN, poisoned : BOOLEAN, sending : 0 .. MaxOps, reader : 0 .. MaxOps,
               size : 0 .. Room, remain : Byte, body : {"none", "open", "cancelled"}]
    /\ chain \in {"none", "prefix", "length", "payload"} /\ have \in Seq(Byte)
    /\ req \in [pull : {"idle", "asked", "parked", "given", "over"}, filled : 0 .. Room,
                eof : BOOLEAN, closed : BOOLEAN]
    /\ writes \in Seq(Ops) /\ overflow \in Seq(Seq(Ops))
    /\ op \in [Ops -> [k : {"none", "read", "write"}, n : Nat,
                       st : {"waiting", "stopped"} \cup Result]]
    /\ got \in Seq(Byte) /\ out \in Seq(Ops) /\ down \in Seq(Unit)
    /\ server \in [sent : Byte, frames : 0 .. 2, over : BOOLEAN, head : {"pending", "ok", "failed"}]

StreamInit ==
    /\ st = [closed |-> FALSE, poisoned |-> FALSE, sending |-> 0, reader |-> 0, size |-> 0,
             remain |-> 0, body |-> "none"]
    /\ chain = "none" /\ have = <<>> /\ writes = <<>> /\ overflow = <<>> /\ posts = <<>>
    /\ req = [pull |-> "idle", filled |-> 0, eof |-> FALSE, closed |-> FALSE]
    /\ op = [o \in Ops |-> [k |-> "none", n |-> 0, st |-> "waiting"]] /\ got = <<>> /\ out = <<>>
    /\ down = <<>> /\ server = [sent |-> 0, frames |-> 0, over |-> FALSE, head |-> "pending"]

Post(k, o, res) == [k |-> k, id |-> o, res |-> res]
User(o, res) == IF o = 0 THEN <<>> ELSE <<Post("user", o, res)>>
Settle(o, res) == IF o # 0 /\ op[o].st = "waiting" THEN [op EXCEPT ![o].st = res] ELSE op
Fresh(o, k, n) == /\ k \in Uses /\ op[o].k = "none" /\ (st.closed => o = 1)
                  /\ \A p \in 1 .. o - 1 : op[p].k # "none" /\ op[p].st # "waiting"
                  /\ op' = [op EXCEPT ![o].k = k, ![o].n = n]
Least(a, b) == IF a < b THEN a ELSE b

body == <<req, writes, overflow, out>>
response == <<chain, have, got, down, server>>

-----------------------------------------------------------------------------
(* GunRequestBody.  q are the closures posted before. *)

\* admit_overflow(): how many frames fit behind w.
Admitted(w, v) ==
    Max({0} \cup {m \in 1 .. Len(v) : Len(w) + Len(FlattenSeq(SubSeq(v, 1, m))) <= Capacity})

\* pump_reads() for the body b, its units w and its overflow v: the units go to the
\* parked pull, a write whose last unit went is completed, frames are admitted,
\* and the pull ends when it has something and is full or nothing is left.
PumpReads(b, w, v, q) ==
    IF b.pull # "parked" \/ b.closed
    THEN req' = b /\ writes' = w /\ overflow' = v /\ posts' = q /\ UNCHANGED out
    ELSE LET n == Least(Room - b.filled, Len(w))
             rest == SubSeq(w, n + 1, Len(w))
             over == {i \in 1 .. n : \A j \in i + 1 .. Len(w) : w[j] # w[i]}
             m == Admitted(rest, v)
             left == rest \o FlattenSeq(SubSeq(v, 1, m))
             full == b.filled + n IN
         /\ out' = out \o SubSeq(w, 1, n) /\ writes' = left
         /\ overflow' = SubSeq(v, m + 1, Len(v))
         /\ LET p == q \o [i \in 1 .. Cardinality(over) |-> Post("sent", 0, "ok")] IN
            \/ /\ full > 0 /\ (left = <<>> \/ full = Room)
               /\ req' = [b EXCEPT !.pull = "given", !.filled = 0]
               /\ posts' = Append(p, Post("pulled", 0, "ok"))
            \/ /\ full = 0 /\ left = <<>> /\ b.eof /\ req' = [b EXCEPT !.pull = "given"]
               /\ posts' = Append(p, Post("pulled", 0, "eof"))
            \/ /\ ~(full > 0 /\ (left = <<>> \/ full = Room)) /\ ~(full = 0 /\ left = <<>> /\ b.eof)
               /\ req' = [b EXCEPT !.filled = full] /\ posts' = p

\* write(): a frame past the capacity waits in the overflow.
BodyWrite(o, q) ==
    LET frame == [i \in 1 .. op[o].n |-> o] IN
    IF req.closed THEN posts' = q /\ st' = [st EXCEPT !.sending = 0]
                       /\ op' = Settle(st.sending, "aborted") /\ UNCHANGED body
    ELSE /\ UNCHANGED <<st, op>>
         /\ IF Len(writes) + Len(frame) > Capacity
            THEN /\ overflow' = Append(overflow, frame) /\ posts' = q
                 /\ UNCHANGED <<req, writes, out>>
            ELSE PumpReads(req, writes \o frame, overflow, q)

\* Mutant: finish() ends the pull at once.
FinishAtOnce(q) ==
    /\ req' = [req EXCEPT !.eof = TRUE, !.pull = IF @ = "parked" THEN "given" ELSE @]
    /\ posts' = IF req.pull = "parked" THEN Append(q, Post("pulled", 0, "eof")) ELSE q
    /\ UNCHANGED <<st, op, writes, overflow, out>>
Finish(q) == /\ UNCHANGED <<st, op>>
             /\ IF req.closed \/ req.eof THEN posts' = q /\ UNCHANGED body
                ELSE PumpReads([req EXCEPT !.eof = TRUE], writes, overflow, q)

\* close(): the parked pull and every write are aborted.
Waiting == Cardinality(ToSet(writes)) + Len(overflow)
BodyClose(q) ==
    /\ UNCHANGED <<st, op, out>>
    /\ IF req.closed THEN posts' = q /\ UNCHANGED <<req, writes, overflow>>
       ELSE /\ req' = [req EXCEPT !.closed = TRUE, !.pull = IF @ = "parked" THEN "given" ELSE @]
            /\ posts' = q \o (IF req.pull = "parked" THEN <<Post("pulled", 0, "aborted")>> ELSE <<>>)
                          \o [i \in 1 .. Waiting |-> Post("sent", 0, "aborted")]
            /\ writes' = <<>> /\ overflow' = <<>>

\* read_some() of the session's pull.
BodyRead(q) ==
    /\ UNCHANGED <<st, op>>
    /\ IF req.closed THEN req' = [req EXCEPT !.pull = "over"] /\ posts' = q
                          /\ UNCHANGED <<writes, overflow, out>>
       ELSE PumpReads([req EXCEPT !.pull = "parked"], writes, overflow, q)

\* finish_send(), for whichever write is the stream's own now.
FinishSend(res, q) == /\ st' = [st EXCEPT !.sending = 0] /\ op' = Settle(st.sending, res)
                      /\ posts' = q /\ UNCHANGED body

RunPost ==
    /\ posts # <<>>
    /\ LET c == posts[1] q == SubSeq(posts, 2, Len(posts)) IN
       \/ c.k = "push" /\ BodyWrite(c.id, q)
       \/ c.k = "finish" /\ Finish(q)
       \/ c.k = "close" /\ BodyClose(q)
       \/ c.k = "pull" /\ BodyRead(q)
       \/ c.k = "sent" /\ FinishSend(c.res, q)
       \/ /\ c.k = "user" /\ op' = Settle(c.id, c.res) /\ posts' = q /\ UNCHANGED <<st, body>>
       \/ /\ c.k = "pulled" /\ posts' = q /\ UNCHANGED <<st, op, writes, overflow, out>>
          /\ req' = [req EXCEPT !.pull = IF c.res = "ok" THEN "idle" ELSE "over"]
    /\ UNCHANGED response

-----------------------------------------------------------------------------
(* The user: GunStreamState. *)

\* send(): one at a time.  The user does not write after its half close.
HalfClosed == req.eof \/ \E i \in 1 .. Len(posts) : posts[i].k = "finish"
Send(o, n) ==
    /\ ~HalfClosed /\ Fresh(o, "write", n)
    /\ LET bad == IF st.closed THEN "aborted" ELSE IF st.poisoned \/ st.sending # 0 THEN "error" ELSE "" IN
       IF bad # "" THEN posts' = posts \o User(o, bad) /\ UNCHANGED st
       ELSE st' = [st EXCEPT !.sending = o] /\ posts' = Append(posts, Post("push", o, "ok"))
    /\ UNCHANGED <<body, response>>

\* receive(): parked until the head is there; else it goes on with the frame or
\* starts one.  The pull of a stopped read makes the body refuse another.
Receive(o, n) ==
    /\ Fresh(o, "read", n) /\ UNCHANGED <<body, have, got, down, server>>
    /\ LET bad == IF st.closed THEN "aborted"
                  ELSE IF st.poisoned \/ st.reader # 0 \/ chain # "none" THEN "error" ELSE "" IN
       IF bad # "" THEN posts' = posts \o User(o, bad) /\ UNCHANGED <<st, chain>>
       ELSE /\ st' = [st EXCEPT !.reader = o, !.size = n] /\ UNCHANGED posts
            /\ chain' = IF st.body # "open" THEN "none" ELSE IF st.remain > 0 THEN "payload"
                        ELSE "prefix"

ShutdownSend == /\ "write" \in Uses /\ ~st.closed /\ ~HalfClosed
                /\ posts' = Append(posts, Post("finish", 0, "ok"))
                /\ UNCHANGED <<st, op, body, response>>

\* close(): both bodies are cancelled; whoever waits is told.
Cancelled == [st EXCEPT !.body = IF @ = "open" THEN "cancelled" ELSE @, !.reader = 0]
Close ==
    /\ ~st.closed /\ st' = [Cancelled EXCEPT !.closed = TRUE, !.sending = 0]
    /\ posts' = Append(posts, Post("close", 0, "ok")) \o User(st.reader, "aborted")
    /\ op' = Settle(st.sending, "aborted") /\ chain' = "none" /\ have' = <<>>
    /\ UNCHANGED <<body, got, down, server>>

\* A stop settles the operation; cancel_receive() or cancel_send() aborts the handler
\* it finds.
Stop(o) ==
    /\ op[o].k \in Stops /\ op[o].st = "waiting" /\ op' = [op EXCEPT ![o].st = "stopped"]
    /\ IF op[o].k = "read"
       THEN st' = [st EXCEPT !.reader = 0] /\ posts' = posts \o User(st.reader, "aborted")
       ELSE st' = [st EXCEPT !.sending = 0] /\ posts' = posts \o User(st.sending, "aborted")
    /\ UNCHANGED <<body, response>>

-----------------------------------------------------------------------------
(* The exchange. *)

\* poison(): the head failed, was not 200, or the opening was aborted.
Poison(head) ==
    /\ st' = [Cancelled EXCEPT !.poisoned = TRUE] /\ server' = [server EXCEPT !.head = head]
    /\ posts' = Append(posts, Post("close", 0, "ok")) \o User(st.reader, "error")
    /\ chain' = "none" /\ have' = <<>> /\ UNCHANGED <<op, body, got, down>>
HeadFails == server.head = "pending" /\ Poison("failed")
Abort == ~st.poisoned /\ server.head = "pending" /\ Poison("pending")

\* run_resolve_head(), attach_response_body(): a read that waits starts.
HeadArrives ==
    /\ "read" \in Uses /\ server.head = "pending" /\ ~server.over
    /\ server' = [server EXCEPT !.head = "ok"]
    /\ st' = [st EXCEPT !.body = "open"] /\ chain' = IF st.reader # 0 THEN "prefix" ELSE chain
    /\ UNCHANGED <<posts, op, body, have, got, down>>

SessionPulls == /\ "write" \in Uses /\ req.pull = "idle" /\ ~server.over /\ req' = [req EXCEPT !.pull = "asked"]
                /\ posts' = Append(posts, Post("pull", 0, "ok"))
                /\ UNCHANGED <<st, op, writes, overflow, out, response>>

\* The exchange is over, in order or not: the session cancels the request body.
SessionEnds == /\ ~server.over /\ server' = [server EXCEPT !.over = TRUE]
               /\ posts' = Append(posts, Post("close", 0, "ok"))
               /\ UNCHANGED <<st, op, body, chain, have, got, down>>

ServerSends(n) ==
    /\ "read" \in Uses /\ ~server.over /\ server.frames < 2 /\ server.sent + n <= MaxBytes
    /\ down' = down \o <<[t |-> "prefix", v |-> 0], [t |-> "length", v |-> n]>>
                    \o [i \in 1 .. n |-> [t |-> "byte", v |-> server.sent + i]]
    /\ server' = [server EXCEPT !.sent = @ + n, !.frames = @ + 1]
    /\ UNCHANGED <<st, posts, op, body, chain, have, got>>

-----------------------------------------------------------------------------
(* The pulls of the response. *)

\* finish_receive() calls the reader's handler itself.
FinishReceive(res, bytes) ==
    /\ st' = [st EXCEPT !.reader = 0] /\ op' = Settle(st.reader, res) /\ chain' = "none"
    /\ got' = got \o bytes /\ have' = <<>>

\* A completion that finds no reader ends the chain; what it pulled is lost.
Orphan == st.reader = 0 /\ chain' = "none" /\ have' = <<>> /\ UNCHANGED <<st, op, got>>

\* read_frame_prefix(): a wrong prefix is an error.
Prefix == /\ chain = "prefix"
          /\ \/ Orphan
             \/ st.reader # 0 /\ chain' = "length" /\ UNCHANGED <<st, op, have, got>>
             \/ st.reader # 0 /\ down[1].t # "prefix" /\ FinishReceive("error", <<>>)

\* read_frame_length(), read_frame_payload(): an empty payload is a read of nothing.
Length ==
    /\ chain = "length"
    /\ \/ Orphan
       \/ st.reader # 0 /\ down[1].t # "length" /\ FinishReceive("error", <<>>)
       \/ \E n \in Byte :
             /\ st.reader # 0 /\ (down[1].t = "length" => n = down[1].v)
             /\ IF n = 0 THEN FinishReceive("ok", <<>>)
                ELSE /\ st' = [st EXCEPT !.remain = n] /\ chain' = "payload"
                     /\ UNCHANGED <<op, have, got>>

\* read_remainder(): the buffer's size, or what is left of the frame.
Wanted == Least(st.size, st.remain)
Payload ==
    /\ chain = "payload"
    /\ LET has == Append(have, down[1].v) IN
       \/ Orphan
       \/ st.reader # 0 /\ Len(has) < Wanted /\ have' = has /\ UNCHANGED <<st, chain, op, got>>
       \/ /\ st.reader # 0 /\ Len(has) = Wanted /\ chain' = "none" /\ have' = <<>>
          /\ st' = [st EXCEPT !.reader = 0, !.remain = @ - Wanted]
          /\ op' = Settle(st.reader, "ok") /\ got' = got \o has

ReadExact == /\ chain # "none" /\ st.body = "open" /\ down # <<>> /\ down' = SubSeq(down, 2, Len(down))
             /\ (Prefix \/ Length \/ Payload) /\ UNCHANGED <<posts, body, server>>

\* The body ends or fails: of a length that is a protocol error.
ReadEnds(res) ==
    /\ chain # "none" /\ st.body = "open" /\ server.over /\ (res = "eof" => down = <<>>)
    /\ IF st.reader = 0 THEN Orphan
       ELSE FinishReceive(IF chain = "length" THEN "error" ELSE res, <<>>)
    /\ down' = <<>> /\ UNCHANGED <<posts, body, server>>

StreamNext ==
    \/ RunPost \/ ShutdownSend \/ Close \/ HeadFails \/ Abort \/ HeadArrives \/ SessionPulls
    \/ SessionEnds \/ ReadExact
    \/ \E o \in Ops : Stop(o) \/ (\E n \in Sizes : Send(o, n)) \/ \E n \in 1 .. Room : Receive(o, n)
    \/ \E n \in 0 .. 2 : ServerSends(n)
    \/ \E res \in {"eof", "error"} : ReadEnds(res)
StreamSpec == StreamInit /\ [][StreamNext]_streamVars

-----------------------------------------------------------------------------
NoneStopped(k) == \A o \in Ops : op[o].k = k => op[o].st # "stopped"
Pulled(o) == Cardinality({i \in 1 .. Len(out) : out[i] = o})

\* The units of a frame go to the session together: no other frame cuts in.
FramesAreWhole == \A i, j \in 1 .. Len(out) : (i < j /\ out[i] = out[j]) => \A k \in i .. j : out[k] = out[i]
\* While no write was stopped frames leave in the order of the writes, and a write
\* that succeeded was pulled to its last unit.
WritesAreTrue == NoneStopped("write") =>
    /\ \A i, j \in 1 .. Len(out) : i < j => out[i] <= out[j]
    /\ \A o \in Ops : (op[o].k = "write" /\ op[o].st = "ok") => Pulled(o) = op[o].n
\* The session is told the end after all that was written.
EndIsLast == (req.eof /\ req.pull = "over" /\ ~req.closed) =>
                 writes = <<>> /\ (NoneStopped("write") => overflow = <<>>)
\* While no read was stopped the user has the first bytes the server sent.
ReadsInOrder == NoneStopped("read") => \A i \in 1 .. Len(got) : got[i] = i
\* Once closed or poisoned, nobody waits when the closures have run.
NobodyStranded ==
    ((st.closed \/ st.poisoned) /\ posts = <<>>) =>
        /\ \A o \in Ops : op[o].k # "none" => op[o].st # "waiting"
        /\ writes = <<>> /\ overflow = <<>> /\ req.pull # "parked"
\* A parked pull leaves nothing queued unless a write was stopped before.
NothingHeldBack == (NoneStopped("write") /\ req.pull = "parked") => writes = <<>> /\ req.filled = 0

GunIsSound == StreamTypeOK /\ FramesAreWhole /\ WritesAreTrue /\ EndIsLast /\ ReadsInOrder
              /\ NobodyStranded /\ NothingHeldBack

-----------------------------------------------------------------------------
(***************************************************************************)
(* GunClient (src/transport/proxy/gun_client.cpp): dials of gun streams    *)
(* spread over transports by the fewest streams, a new transport when the  *)
(* growth rule allows one.  A dial reserves its stream when it is asked    *)
(* for and starts later; until its session is made, others may be made for *)
(* the same transport.  Making a session is external.                      *)
(***************************************************************************)
CONSTANTS MaxDials, MaxConnections, MinStreams, MaxStreams
PoolAssumption == {MaxDials, MaxConnections, MinStreams, MaxStreams} \subseteq Nat
Dials == 1 .. MaxDials

VARIABLES
    dials,      \* dial -> [st, entry]
    streams,    \* entry -> streams reserved on it
    session,    \* entry -> the session it has, the dial that made it, or 0
    transports, \* the entries of the client, in the order they were made
    made,       \* sessions made, the dials that made them -> "live", "dead" or "stopped"
    poolClosed

poolVars == <<dials, streams, session, transports, made, poolClosed>>

States == {"idle", "asked", "making", "open", "failed", "refused", "stopped", "closed"}
PoolTypeOK == /\ dials \in [Dials -> [st : States, entry : 0 .. MaxDials]]
              /\ streams \in [Dials -> 0 .. MaxDials] /\ session \in [Dials -> 0 .. MaxDials]
              /\ transports \in Seq(Dials) /\ poolClosed \in BOOLEAN
              /\ made \in [Dials -> {"none", "live", "dead", "stopped"}]

PoolInit == /\ dials = [d \in Dials |-> [st |-> "idle", entry |-> 0]]
            /\ streams = [e \in Dials |-> 0] /\ session = [e \in Dials |-> 0]
            /\ transports = <<>> /\ made = [d \in Dials |-> "none"] /\ poolClosed = FALSE

Used == {dials[d].entry : d \in Dials} \ {0}
NewEntry == CHOOSE e \in Dials \ Used : \A f \in Dials \ Used : e <= f
\* GunClient(): without any rule there is one connection.
Limit == IF MaxConnections = 0 /\ MinStreams = 0 /\ MaxStreams = 0 THEN 1 ELSE MaxConnections

\* pick_transport(): the first of those with the fewest streams, or a new one.
Lightest == LET i == CHOOSE i \in DOMAIN transports : \A j \in DOMAIN transports :
                       \/ streams[transports[i]] < streams[transports[j]]
                       \/ streams[transports[i]] = streams[transports[j]] /\ i <= j
            IN transports[i]
Reused == /\ transports # <<>>
          /\ LET n == streams[Lightest] IN
             \/ n = 0
             \/ Limit > 0 /\ (Len(transports) >= Limit \/ n < MinStreams)
             \/ Limit = 0 /\ MaxStreams > 0 /\ n < MaxStreams
Picked == IF Reused THEN Lightest ELSE NewEntry

\* Dial guard and counted handle: whichever holds the reservation drops it.
Release(d) == streams' = [streams EXCEPT ![dials[d].entry] = @ - 1]
Goes(d, s) == dials' = [dials EXCEPT ![d].st = s]

\* dial(): the reservation is made at once.
Dial(d) ==
    /\ dials[d].st = "idle" /\ \A c \in 1 .. d - 1 : dials[c].st # "idle"
    /\ IF poolClosed THEN Goes(d, "refused") /\ UNCHANGED <<streams, transports>>
       ELSE /\ dials' = [dials EXCEPT ![d] = [st |-> "asked", entry |-> Picked]]
            /\ streams' = [streams EXCEPT ![Picked] = @ + 1]
            /\ transports' = IF Reused THEN transports ELSE Append(transports, Picked)
    /\ UNCHANGED <<session, made, poolClosed>>

\* Opening the stream on session s: it fails on one that is gone.
OpenOn(d, s) == IF made'[s] = "live" THEN Goes(d, "open") /\ UNCHANGED streams
                ELSE Goes(d, "failed") /\ Release(d)

\* run_open(): the session first, unless the transport has one.
Start(d) ==
    /\ dials[d].st = "asked" /\ UNCHANGED <<session, transports, made, poolClosed>>
    /\ IF session[dials[d].entry] = 0 THEN Goes(d, "making") /\ UNCHANGED streams
       ELSE OpenOn(d, session[dials[d].entry])
SessionMade(d) ==
    /\ dials[d].st = "making" /\ made' = [made EXCEPT ![d] = "live"]
    /\ session' = [session EXCEPT ![dials[d].entry] = d] /\ OpenOn(d, d)
    /\ UNCHANGED <<transports, poolClosed>>
MakerFails(d) == /\ dials[d].st = "making" /\ Goes(d, "failed") /\ Release(d)
                 /\ UNCHANGED <<session, transports, made, poolClosed>>

\* A stop ends the dial, started or not, while its stream is not there.
StopDial(d) == /\ dials[d].st \in {"asked", "making"} /\ Goes(d, "stopped") /\ Release(d)
               /\ UNCHANGED <<session, transports, made, poolClosed>>
\* ~CountedStreamHandle().
Drop(d) == /\ dials[d].st = "open" /\ Goes(d, "closed") /\ Release(d)
           /\ UNCHANGED <<session, transports, made, poolClosed>>
\* A session ends by itself; its transport keeps it.
SessionDies(s) == /\ made[s] = "live" /\ made' = [made EXCEPT ![s] = "dead"]
                  /\ UNCHANGED <<dials, streams, session, transports, poolClosed>>

\* close() stops the sessions its transports have now.
CloseClient ==
    /\ ~poolClosed /\ poolClosed' = TRUE /\ transports' = <<>>
    /\ made' = [s \in Dials |-> IF made[s] = "live" /\ \E i \in DOMAIN transports :
                                        session[transports[i]] = s
                                THEN "stopped" ELSE made[s]]
    /\ UNCHANGED <<dials, streams, session>>

PoolNext == CloseClient \/ \E d \in Dials : Dial(d) \/ Start(d) \/ SessionMade(d) \/ MakerFails(d)
                                          \/ StopDial(d) \/ Drop(d) \/ SessionDies(d)
PoolSpec == PoolInit /\ [][PoolNext]_poolVars

-----------------------------------------------------------------------------
Holds(d) == dials[d].st \in {"asked", "making", "open"}
\* A transport counts exactly the dials and streams that hold it, however they end.
CountsAreExact ==
    \A e \in Dials : streams[e] = Cardinality({d \in Dials : dials[d].entry = e /\ Holds(d)})
\* No more transports than the limit.
WithinLimit == Limit > 0 => Len(transports) <= Limit
\* A session a transport has was made by a dial of that transport.
SessionsAreOwn == \A e \in Dials : session[e] # 0 =>
                      made[session[e]] # "none" /\ dials[session[e]].entry = e
PoolIsSound == PoolTypeOK /\ CountsAreExact /\ WithinLimit /\ SessionsAreOwn
=============================================================================

---------------------------- MODULE WebSocketMux ----------------------------
(***************************************************************************)
(* Streams over one WebSocket (src/transport/shadowsocks/websocket_mux.cpp)*)
(* in the v2ray framing or in smux, whose second version has windows.  The *)
(* session runs on one executor.  Data is counted in units; identifiers    *)
(* are not used twice.  The carrier and the peer are external: the carrier *)
(* writes frames one at a time, in order, the peer keeps the protocol but  *)
(* for the frames that say otherwise.                                      *)
(***************************************************************************)
EXTENDS Integers, Sequences, FiniteSets

CONSTANTS Streams,     \* the streams that may be opened
          Version,     \* "v2ray", "smux1" or "smux2"
          MaxStreams,  \* max_concurrent_streams
          Frame,       \* frame_size(), in units
          Window,      \* kSmuxInitialPeerWindow, and the window of the peer
          Buffer,      \* smux_stream_buffer
          MaxUnits     \* bound: units written, and units received, per stream

MuxAssumption == /\ {MaxStreams, Frame, Window, Buffer} \subseteq Nat \ {0} /\ MaxUnits \in Nat
                 /\ Version \in {"v2ray", "smux1", "smux2"} /\ IsFiniteSet(Streams)
Windowed == Version = "smux2"
Smaller(a, b) == IF a < b THEN a ELSE b

VARIABLES
    str,     \* stream -> its state, and what its user was told
    slots,   \* streams_
    pending, \* pending_opens_
    out,     \* the frames to write, the first one being written
    closed,  \* the session's closed_
    peer     \* stream -> what the peer received and sent

vars == <<str, slots, pending, out, closed, peer>>

NewStream == [open |-> "none", closed |-> FALSE, local |-> FALSE, remote |-> FALSE,
              endReq |-> FALSE, endEnq |-> FALSE, broken |-> FALSE, cut |-> FALSE,
              incoming |-> 0, read |-> FALSE, got |-> 0, eof |-> FALSE,
              write |-> FALSE, size |-> 0, off |-> 0, asked |-> 0, done |-> 0,
              sent |-> 0, peerConsumed |-> 0, consumed |-> 0, since |-> 0]
NewPeer == [syn |-> FALSE, got |-> 0, used |-> 0, fin |-> FALSE, gave |-> 0, ended |-> FALSE,
            told |-> 0, window |-> Window]
Flags == {"closed", "local", "remote", "endReq", "endEnq", "broken", "cut", "read", "eof", "write"}

TypeOK ==
    /\ \A s \in Streams : /\ str[s].open \in {"none", "pending", "open", "refused"}
                          /\ \A f \in Flags : str[s][f] \in BOOLEAN
                          /\ str[s].off \in 0 .. str[s].size /\ str[s].incoming \in 0 .. MaxUnits
    /\ slots \subseteq Streams /\ pending \subseteq slots /\ closed \in BOOLEAN
    /\ \A i \in 1 .. Len(out) : out[i].kind \in {"syn", "push", "fin", "update"}

Init == /\ str = [s \in Streams |-> NewStream] /\ slots = {} /\ pending = {} /\ out = <<>>
        /\ closed = FALSE /\ peer = [s \in Streams |-> NewPeer]

-----------------------------------------------------------------------------
(* A stream: its new state r, and the frames f that it enqueues.           *)

Step(r, f) == [r |-> r, f |-> f]
Frm(kind, s, n) == [kind |-> kind, s |-> s, n |-> n]
Becomes(s, x) == str' = [str EXCEPT ![s] = x.r] /\ out' = out \o x.f

\* The end, requested and not yet enqueued.
WithEnd(r, s) == IF r.endReq /\ ~r.endEnq
                 THEN Step([r EXCEPT !.endEnq = TRUE], <<Frm("fin", s, 0)>>) ELSE Step(r, <<>>)

\* pump_write().  Mutant: the window is not looked at.
RoomAlways(r) == r.size - r.off
Room(r) == IF Windowed THEN Smaller(r.size - r.off, Window - (r.sent - r.peerConsumed))
           ELSE r.size - r.off
Pump(r, s) ==
    IF r.closed THEN Step(r, <<>>)
    ELSE IF ~r.write THEN WithEnd(r, s)
    ELSE IF r.off = r.size
         THEN WithEnd([r EXCEPT !.write = FALSE, !.done = @ + r.size, !.size = 0, !.off = 0], s)
    ELSE IF Room(r) <= 0 THEN Step(r, <<>>)
    ELSE LET n == Smaller(Room(r), Frame) IN
         Step([r EXCEPT !.off = @ + n, !.sent = @ + n], <<Frm("push", s, n)>>)

\* deliver_read(): what is there, or the end; and the update that is due.
DeliverRead(r, s) ==
    IF r.closed \/ ~r.read THEN Step(r, <<>>)
    ELSE IF r.incoming = 0
         THEN Step(IF r.remote THEN [r EXCEPT !.read = FALSE, !.eof = TRUE] ELSE r, <<>>)
    ELSE LET q == [r EXCEPT !.incoming = 0, !.read = FALSE, !.got = @ + r.incoming,
                            !.consumed = @ + r.incoming, !.since = @ + r.incoming] IN
         IF Windowed /\ (r.consumed = 0 \/ q.since >= Buffer \div 2)
         THEN Step([q EXCEPT !.since = 0], <<Frm("update", s, q.consumed)>>) ELSE Step(q, <<>>)

\* finish_read() and finish_write() with an error: nobody waits any more.
Released(r) == [r EXCEPT !.read = FALSE, !.write = FALSE, !.size = 0, !.off = 0,
                         !.cut = @ \/ r.write]
\* on_session_error(), on_open_error().
Lost(r) == IF r.closed THEN r ELSE [Released(r) EXCEPT !.closed = TRUE]

-----------------------------------------------------------------------------
(* The session.                                                            *)

\* open_stream(): refused, or an entry and the frame that opens the stream.
OpenStream(s) ==
    /\ str[s].open = "none"
    /\ IF closed \/ Cardinality(slots) >= MaxStreams
       THEN str' = [str EXCEPT ![s].open = "refused"] /\ UNCHANGED <<slots, pending, out>>
       ELSE /\ str' = [str EXCEPT ![s].open = "pending"] /\ slots' = slots \cup {s}
            /\ pending' = pending \cup {s} /\ out' = Append(out, Frm("syn", s, 0))
    /\ UNCHANGED <<closed, peer>>

\* cancel() of a stream whose open is pending: its frame stays in the queue.
CancelOpen(s) == /\ s \in pending /\ slots' = slots \ {s} /\ pending' = pending \ {s}
                 /\ str' = [str EXCEPT ![s] = [Lost(str[s]) EXCEPT !.open = "refused"]]
                 /\ UNCHANGED <<out, closed, peer>>

\* fail(): everything that waits is told.  Mutant: pending opens are forgotten.
FailStreamsOnly ==
    /\ closed' = TRUE /\ out' = <<>> /\ slots' = {} /\ pending' = {}
    /\ str' = [s \in Streams |-> IF s \in slots THEN Lost(str[s]) ELSE str[s]]
Fail == /\ closed' = TRUE /\ out' = <<>> /\ slots' = {} /\ pending' = {}
        /\ str' = [s \in Streams |->
                     IF s \in pending THEN [Lost(str[s]) EXCEPT !.open = "refused"]
                     ELSE IF s \in slots THEN Lost(str[s]) ELSE str[s]]
\* stop(), the end or failure of the carrier's read or write, a frame out of order.
SessionEnds == ~closed /\ Fail /\ UNCHANGED peer

\* The completion of the frame being written.
Receives(f) == CASE f.kind = "syn" -> [peer[f.s] EXCEPT !.syn = TRUE]
                 [] f.kind = "push" -> [peer[f.s] EXCEPT !.got = @ + f.n]
                 [] f.kind = "fin" -> [peer[f.s] EXCEPT !.fin = TRUE]
                 [] f.kind = "update" -> [peer[f.s] EXCEPT !.told = f.n, !.window = Buffer]
FrameWritten ==
    /\ ~closed /\ out # <<>> /\ UNCHANGED <<closed, slots>>
    /\ LET f == out[1] s == out[1].s
           x == IF f.kind = "push" /\ str[s].write THEN Pump(str[s], s) ELSE Step(str[s], <<>>) IN
       /\ peer' = [peer EXCEPT ![s] = Receives(f)]
       /\ out' = Tail(out) \o x.f
       /\ str' = [str EXCEPT ![s] = IF f.kind = "syn" /\ s \in pending
                                    THEN [x.r EXCEPT !.open = "open"] ELSE x.r]
       /\ pending' = IF f.kind = "syn" THEN pending \ {s} ELSE pending

-----------------------------------------------------------------------------
(* The user of a stream.                                                   *)
Usable(s) == str[s].open = "open"

ReadSome(s) == /\ Usable(s) /\ ~str[s].closed /\ ~str[s].read /\ ~str[s].eof
               /\ Becomes(s, DeliverRead([str[s] EXCEPT !.read = TRUE], s))
               /\ UNCHANGED <<slots, pending, closed, peer>>
WriteSome(s, n) ==
    /\ Usable(s) /\ ~str[s].closed /\ ~str[s].local /\ ~str[s].write
    /\ str[s].asked + n <= MaxUnits
    /\ Becomes(s, Pump([str[s] EXCEPT !.write = TRUE, !.size = n, !.off = 0, !.asked = @ + n], s))
    /\ UNCHANGED <<slots, pending, closed, peer>>
CancelRead(s) == /\ str[s].read /\ str' = [str EXCEPT ![s].read = FALSE]
                 /\ UNCHANGED <<slots, pending, out, closed, peer>>
CancelWrite(s) == /\ str[s].write
                  /\ str' = [str EXCEPT ![s] = [@ EXCEPT !.write = FALSE, !.size = 0, !.off = 0,
                                                          !.cut = TRUE]]
                  /\ UNCHANGED <<slots, pending, out, closed, peer>>
ShutdownSend(s) ==
    /\ Usable(s) /\ ~str[s].closed /\ ~str[s].local
    /\ Becomes(s, Pump([str[s] EXCEPT !.local = TRUE, !.endReq = TRUE], s))
    /\ UNCHANGED <<slots, pending, closed, peer>>
\* close(), of the handle or through cancel(): the peer is told if it was not yet.
Close(s) ==
    /\ Usable(s) /\ ~str[s].closed
    /\ Becomes(s, WithEnd([Released(str[s]) EXCEPT !.closed = TRUE, !.local = TRUE,
                                                   !.endReq = TRUE], s))
    /\ slots' = slots \ {s} /\ pending' = pending \ {s} /\ UNCHANGED <<closed, peer>>

-----------------------------------------------------------------------------
(* Frames of the peer; those for a stream that is gone are dropped.        *)
Finds(s) == ~closed /\ s \in slots

OnData(s) ==
    /\ ~closed /\ peer[s].syn /\ ~peer[s].ended /\ peer[s].gave < MaxUnits
    /\ Windowed => peer[s].gave - peer[s].told < peer[s].window
    /\ peer' = [peer EXCEPT ![s].gave = @ + 1]
    /\ IF Finds(s) /\ ~str[s].closed
       THEN Becomes(s, DeliverRead([str[s] EXCEPT !.incoming = @ + 1], s))
       ELSE UNCHANGED <<str, out>>
    /\ UNCHANGED <<slots, pending, closed>>
OnRemoteEnd(s) ==
    /\ ~closed /\ peer[s].syn /\ ~peer[s].ended /\ peer' = [peer EXCEPT ![s].ended = TRUE]
    /\ IF Finds(s) /\ ~str[s].closed
       THEN Becomes(s, DeliverRead([str[s] EXCEPT !.remote = TRUE], s))
       ELSE UNCHANGED <<str, out>>
    /\ UNCHANGED <<slots, pending, closed>>
\* An update: the peer's user took what it received.
OnUpdate(s) ==
    /\ ~closed /\ Windowed /\ peer[s].used < peer[s].got
    /\ peer' = [peer EXCEPT ![s].used = peer[s].got]
    /\ IF Finds(s) THEN Becomes(s, Pump([str[s] EXCEPT !.peerConsumed = peer[s].got], s))
       ELSE UNCHANGED <<str, out>>
    /\ UNCHANGED <<slots, pending, closed>>
\* A v2ray frame that keeps a stream and carries no data ends it; its entry stays.
OnError(s) == /\ Version = "v2ray" /\ Finds(s) /\ peer[s].syn /\ ~str[s].closed
              /\ str' = [str EXCEPT ![s] = [Lost(str[s]) EXCEPT !.broken = TRUE]]
              /\ UNCHANGED <<slots, pending, out, closed, peer>>

User(s) == OpenStream(s) \/ CancelOpen(s) \/ ReadSome(s) \/ CancelRead(s) \/ CancelWrite(s)
           \/ ShutdownSend(s) \/ Close(s) \/ \E n \in 1 .. MaxUnits : WriteSome(s, n)
Peer(s) == OnData(s) \/ OnRemoteEnd(s) \/ OnUpdate(s) \/ OnError(s)
Next == SessionEnds \/ FrameWritten \/ \E s \in Streams : User(s) \/ Peer(s)
Spec == Init /\ [][Next]_vars

-----------------------------------------------------------------------------
Queued(s, kind) == \E i \in 1 .. Len(out) : out[i].s = s /\ out[i].kind = kind

\* The frame that ends a stream is sent once and after everything that was written.
EndIsLast ==
    \A s \in Streams :
        /\ \A i, j \in 1 .. Len(out) : (i < j /\ out[i] = Frm("fin", s, 0) /\ out[j].s = s)
                                            => out[j].kind = "update"
        /\ peer[s].fin => ~Queued(s, "push") /\ ~Queued(s, "fin")
        /\ (peer[s].fin /\ ~str[s].cut) => peer[s].got = str[s].done
\* No more is sent than the peer has room for.
WindowKept == Windowed => \A s \in Streams : peer[s].got - peer[s].used <= Window
\* A read waits while there is nothing for it; a write waits for its own frame or for room;
\* a requested end waits for the write before it, unless that was stopped.
WaitsRightly ==
    \A s \in Streams :
        /\ str[s].read => str[s].incoming = 0 /\ ~str[s].remote /\ ~str[s].closed /\ ~closed
        /\ str[s].write => /\ ~str[s].closed /\ ~closed
                           /\ Queued(s, "push") \/ Room(str[s]) <= 0
        /\ (str[s].endReq /\ ~str[s].endEnq /\ ~str[s].closed /\ ~str[s].cut) => str[s].write
\* A peer whose data has been read, and that was told so, may send more.
PeerMaySend ==
    Windowed => \A s \in Streams :
        (s \in slots /\ str[s].incoming = 0 /\ ~Queued(s, "update")) =>
            peer[s].gave - peer[s].told < peer[s].window
\* The entries are the streams in use, and those a v2ray frame broke; an open is pending
\* until its frame is written or it is told.
EntriesExact ==
    /\ slots = {s \in Streams : ~closed /\ (str[s].open = "pending"
                                  \/ (str[s].open = "open" /\ (~str[s].closed \/ str[s].broken)))}
    /\ pending = {s \in Streams : str[s].open = "pending"}
\* The peer is told of every stream its user closed.
ClosedIsTold == \A s \in Streams : (~closed /\ Usable(s) /\ str[s].closed /\ ~str[s].broken)
                                       => str[s].endEnq
\* What the user read is what the peer gave, in full before the end.
ReadsExact == \A s \in Streams : /\ str[s].got + str[s].incoming <= peer[s].gave
                                 /\ str[s].eof => str[s].got = peer[s].gave
MuxIsSound == /\ TypeOK /\ EndIsLast /\ WindowKept /\ WaitsRightly /\ PeerMaySend /\ EntriesExact
              /\ ClosedIsTold /\ ReadsExact
=============================================================================

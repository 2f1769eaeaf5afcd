----------------------------- MODULE QuicClient -----------------------------
(***************************************************************************)
(* QuicClientConnection::Impl (src/transport/quic_client.cpp): the stream  *)
(* writes, datagrams and packets of one QUIC connection, on one executor.  *)
(* ngtcp2 is external: it takes a write in parts, reports that a stream is *)
(* blocked by flow control, or sends nothing for now.  A received packet   *)
(* carries one event.  The session above may call the connection from any  *)
(* callback, that is while a packet is processed or packets are written.   *)
(***************************************************************************)
EXTENDS Integers, Sequences, SequencesExt, FiniteSets

CONSTANTS MaxStreams,  \* bound: streams opened
          MaxWrites,   \* bound: calls of write_stream_data()
          MaxDatagrams \* bound: calls of async_send_datagram()

QuicAssumption == {MaxStreams, MaxWrites, MaxDatagrams} \subseteq Nat
Streams == 1 .. MaxStreams
Writes == 1 .. MaxWrites
Size == 2                       \* a write is taken in at most two parts

VARIABLES
    open,       \* the streams ngtcp2 knows
    writes,     \* stream_writes_: the writes of each stream, [id, left, fin]
    queue,      \* ready_streams_
    scheduled,  \* scheduled_streams_
    blocked,    \* blocked_streams_
    finished,   \* finished_streams_
    given,      \* writes accepted so far
    done,       \* the writes reported complete, in order
    dropped,    \* the writes dropped with their stream
    datagrams,  \* datagram_writes_
    answers,    \* results posted to each datagram's handler
    pc,         \* "idle", "reading" in read_pkt(), "writing" in write_packets()
    again,      \* write_again_
    conn        \* [ready, retired, error, told, packets, sending, capacity, closing, opened]

vars == <<open, writes, queue, scheduled, blocked, finished, given, done, dropped, datagrams,
          answers, pc, again, conn>>

TypeOK ==
    /\ open \subseteq Streams /\ scheduled \subseteq Streams /\ blocked \subseteq Streams
    /\ finished \subseteq Streams /\ queue \in Seq(Streams)
    /\ writes \in [Streams -> Seq([id : Writes, left : 0 .. Size, fin : BOOLEAN])]
    /\ given \in 0 .. MaxWrites /\ done \in Seq(Writes) /\ dropped \subseteq Writes
    /\ datagrams \in Seq(1 .. MaxDatagrams)
    /\ answers \in [1 .. MaxDatagrams -> Seq({"sent", "error"})]
    /\ pc \in {"idle", "reading", "writing"} /\ again \in BOOLEAN
    /\ conn \in [ready : BOOLEAN, retired : BOOLEAN, error : BOOLEAN, told : 0 .. 2,
                 packets : 0 .. 1, sending : BOOLEAN, capacity : BOOLEAN, closing : BOOLEAN,
                 opened : 0 .. MaxStreams]

Init ==
    /\ open = {} /\ writes = [s \in Streams |-> <<>>] /\ queue = <<>> /\ scheduled = {}
    /\ blocked = {} /\ finished = {} /\ given = 0 /\ done = <<>> /\ dropped = {}
    /\ datagrams = <<>> /\ answers = [d \in 1 .. MaxDatagrams |-> <<>>]
    /\ pc = "writing" /\ again = FALSE
    /\ conn = [ready |-> FALSE, retired |-> FALSE, error |-> FALSE, told |-> 0, packets |-> 0,
               sending |-> FALSE, capacity |-> FALSE, closing |-> FALSE,
               opened |-> 0]

streams == <<open, writes, queue, scheduled, blocked, finished, given, done, dropped>>
datas == <<datagrams, answers>>

\* request_write(): at once when idle, else after what is going on.
RequestWrite == IF pc # "idle" \/ conn.retired THEN again' = TRUE /\ UNCHANGED pc
                ELSE pc' = "writing" /\ again' = FALSE

\* check_teardown(): the owner is told once no send uses the socket.
Notify(c) == IF c.retired /\ c.error /\ c.told = 0 /\ ~c.sending THEN [c EXCEPT !.told = 1] ELSE c

\* What ends every handle: datagrams are answered, observers reset.
AnswerDatagrams == /\ answers' = [d \in 1 .. MaxDatagrams |->
                                    IF d \in ToSet(datagrams) THEN Append(answers[d], "error")
                                    ELSE answers[d]]
                   /\ datagrams' = <<>>

\* fail(), for c, the state of the connection when it is called.  Stream writes
\* and packets stay in their queues; nothing sends them any more.
Fail(c) == IF c.retired THEN conn' = c /\ UNCHANGED datas
           ELSE /\ conn' = Notify([c EXCEPT !.retired = TRUE, !.error = TRUE, !.ready = FALSE])
                /\ AnswerDatagrams

\* queue_stream(), with the writes w and the blocked streams b.
Queue(s, w, q, sch, b) ==
    IF conn.retired \/ s \in b \/ s \in sch \/ w[s] = <<>> THEN <<q, sch>>
    ELSE <<Append(q, s), sch \cup {s}>>
Schedule(r) == queue' = r[1] /\ scheduled' = r[2]

-----------------------------------------------------------------------------
(* The session's calls; a callback may make them while pc is not "idle". *)

OpenStream(s) ==
    /\ conn.ready /\ ~conn.retired
    /\ s = conn.opened + 1 /\ conn' = [conn EXCEPT !.opened = s]
    /\ open' = open \cup {s}
    /\ UNCHANGED <<writes, queue, scheduled, blocked, finished, given, done, dropped, datas, pc, again>>

\* write_stream_data(): nothing is taken after the FIN.
WriteStreamData(s, fin) ==
    /\ s \in open /\ ~conn.retired /\ s \notin finished /\ given < MaxWrites
    /\ given' = given + 1
    /\ writes' = [writes EXCEPT ![s] = Append(@, [id |-> given + 1, left |-> Size, fin |-> fin])]
    /\ finished' = IF fin THEN finished \cup {s} ELSE finished
    /\ Schedule(Queue(s, writes', queue, scheduled, blocked))
    /\ RequestWrite
    /\ UNCHANGED <<open, blocked, done, dropped, datas, conn>>

\* What shutdown_stream() and on_stream_closed() erase.
EraseWrites(s) ==
    /\ writes' = [writes EXCEPT ![s] = <<>>]
    /\ dropped' = dropped \cup {writes[s][i].id : i \in 1 .. Len(writes[s])}
    /\ queue' = SelectSeq(queue, LAMBDA t : t # s)
    /\ scheduled' = scheduled \ {s} /\ blocked' = blocked \ {s}

ShutdownStream(s) ==
    /\ s \in open /\ ~conn.retired /\ EraseWrites(s)
    /\ RequestWrite
    /\ UNCHANGED <<open, finished, given, done, datas, conn>>

\* extend_receive_credit().
ExtendReceiveCredit == /\ conn.ready /\ ~conn.retired /\ RequestWrite
                       /\ UNCHANGED <<streams, datas, conn>>

\* async_send_datagram(): refused when the connection is over, not ready, or
\* the peer takes none of that size.
SendDatagram(d) ==
    /\ answers[d] = <<>> /\ d \notin ToSet(datagrams)
    /\ \A e \in 1 .. d - 1 : answers[e] # <<>> \/ e \in ToSet(datagrams)
    /\ \/ /\ conn.ready /\ ~conn.retired /\ datagrams' = Append(datagrams, d)
          /\ RequestWrite /\ UNCHANGED answers
       \/ answers' = [answers EXCEPT ![d] = <<"error">>] /\ UNCHANGED <<datagrams, pc, again>>
    /\ UNCHANGED <<streams, conn>>

\* close() posts retire().
Close == /\ ~conn.closing /\ conn' = [conn EXCEPT !.closing = TRUE]
         /\ UNCHANGED <<streams, datas, pc, again>>
Retire == /\ pc = "idle" /\ conn.closing /\ ~conn.retired
          /\ conn' = [conn EXCEPT !.retired = TRUE, !.ready = FALSE, !.packets = 0]
          /\ AnswerDatagrams
          /\ writes' = [s \in Streams |-> <<>>]
          /\ dropped' = dropped \cup {writes[s][i].id : <<s, i>> \in
                              {p \in Streams \X Writes : p[2] <= Len(writes[p[1]])}}
          /\ UNCHANGED <<open, queue, scheduled, blocked, finished, given, done, pc, again>>

-----------------------------------------------------------------------------
(* process_datagram() *)

Receive == pc = "idle" /\ ~conn.retired /\ pc' = "reading" /\ UNCHANGED <<streams, datas, again, conn>>
reading == <<datas, pc, again>>

HandshakeCompleted == /\ pc = "reading" /\ ~conn.ready /\ ~conn.retired
                      /\ conn' = [conn EXCEPT !.ready = TRUE] /\ UNCHANGED <<streams, reading>>
\* on_extend_max_stream_data(): a blocked stream may be written again.
ExtendMaxStreamData(s) ==
    /\ pc = "reading" /\ s \in blocked /\ ~conn.retired
    /\ blocked' = blocked \ {s}
    /\ Schedule(Queue(s, writes, queue, scheduled, blocked'))
    /\ UNCHANGED <<open, writes, finished, given, done, dropped, reading, conn>>
\* on_extend_max_local_streams_*(): told after the packet.
ExtendMaxStreams == /\ pc = "reading" /\ conn.ready /\ conn' = [conn EXCEPT !.capacity = TRUE]
                    /\ UNCHANGED <<streams, reading>>
\* on_stream_closed().
StreamClosed(s) == /\ pc = "reading" /\ s \in open /\ ~conn.retired /\ open' = open \ {s}
                   /\ EraseWrites(s) /\ finished' = finished \ {s}
                   /\ UNCHANGED <<given, done, reading, conn>>

\* The end of read_pkt(): an error fails the connection, else what was asked
\* for meanwhile is written.
ReadEnds ==
    /\ pc = "reading"
    /\ \/ /\ pc' = "idle" /\ Fail([conn EXCEPT !.capacity = FALSE]) /\ UNCHANGED again
       \/ /\ conn' = [conn EXCEPT !.capacity = FALSE] /\ UNCHANGED datas
          /\ IF conn.retired THEN pc' = "idle" /\ again' = TRUE
             ELSE pc' = "writing" /\ again' = FALSE
    /\ UNCHANGED streams

-----------------------------------------------------------------------------
(* write_packets(): each step is a turn of its loops. *)

\* take_writable_stream(), from the front of the queue.
Turn == queue[1]
Taken == <<Tail(queue), scheduled \ {Turn}>>
Skipped == Turn \in blocked \/ writes[Turn] = <<>>
SkipStream ==
    /\ pc = "writing" /\ ~conn.retired /\ datagrams = <<>> /\ queue # <<>> /\ Skipped
    /\ Schedule(Taken)
    /\ UNCHANGED <<open, writes, blocked, finished, given, done, dropped, datas, pc, again,
                   conn>>

(***************************************************************************)
(* advance_write(): ngtcp2 took n of the front write of s.  It is reported *)
(* complete when all of it, and its FIN, was taken.                        *)
(***************************************************************************)
AdvanceWrite(s, n) ==
    LET w == Head(writes[s])
        rest == [w EXCEPT !.left = @ - n]
        complete == rest.left = 0 IN
    /\ writes' = [writes EXCEPT ![s] = IF complete THEN Tail(@) ELSE <<rest>> \o Tail(@)]
    /\ done' = IF complete THEN Append(done, w.id) ELSE done
    /\ Schedule(Queue(s, writes', Tail(queue), scheduled \ {s}, blocked))

Writable == pc = "writing" /\ ~conn.retired /\ datagrams = <<>> /\ queue # <<>> /\ ~Skipped
\* Part of the stream's data goes into a packet that has room for more, or
\* that is full and queued for sending.
WriteStream ==
    /\ Writable
    /\ \E n \in 1 .. Head(writes[Turn]).left :
          /\ AdvanceWrite(Turn, n)
          /\ \/ UNCHANGED conn
             \/ conn.packets = 0 /\ conn' = [conn EXCEPT !.packets = 1]
    /\ UNCHANGED <<open, blocked, finished, given, dropped, datas, pc, again>>
\* STREAM_DATA_BLOCKED.
StreamBlocked ==
    /\ Writable /\ blocked' = blocked \cup {Turn} /\ Schedule(Taken)
    /\ UNCHANGED <<open, writes, finished, given, done, dropped, datas, pc, again, conn>>
\* A stream that was not written is queued again, behind the others.
NothingKeepsStream ==
    Schedule(IF queue = <<>> \/ Skipped THEN <<queue, scheduled>>
                ELSE Queue(Turn, writes, Taken[1], Taken[2], blocked))

\* A packet of control frames, or a datagram in a packet of its own.
WriteControl == /\ pc = "writing" /\ ~conn.retired /\ conn.packets = 0 /\ datagrams = <<>>
                /\ conn' = [conn EXCEPT !.packets = 1] /\ NothingKeepsStream
                /\ UNCHANGED <<open, writes, blocked, finished, given, done, dropped, datas, pc,
                               again>>
WriteDatagram ==
    /\ pc = "writing" /\ ~conn.retired /\ datagrams # <<>>
    /\ \/ /\ conn.packets = 0 /\ conn' = [conn EXCEPT !.packets = 1]
          /\ answers' = [answers EXCEPT ![datagrams[1]] = Append(@, "sent")]
       \/ /\ answers' = [answers EXCEPT ![datagrams[1]] = Append(@, "error")] /\ UNCHANGED conn
    /\ datagrams' = Tail(datagrams)
    /\ UNCHANGED <<streams, pc, again>>

\* ngtcp2 has nothing to send for now, or the pass has used up its frames: it
\* is over, and is repeated when somebody asked for it meanwhile.
PassEnds ==
    /\ pc = "writing"
    /\ IF conn.retired \/ datagrams # <<>> THEN UNCHANGED <<queue, scheduled>>
       ELSE NothingKeepsStream
    /\ IF again /\ ~conn.retired THEN again' = FALSE /\ UNCHANGED pc
       ELSE pc' = "idle" /\ UNCHANGED again
    /\ UNCHANGED <<open, writes, blocked, finished, given, done, dropped, datas, conn>>
PassFails ==
    /\ pc = "writing" /\ ~conn.retired /\ Fail(conn) /\ pc' = "idle"
    /\ IF queue # <<>> /\ datagrams = <<>> THEN Schedule(Taken) ELSE UNCHANGED <<queue, scheduled>>
    /\ UNCHANGED <<open, writes, blocked, finished, given, done, dropped, again>>

-----------------------------------------------------------------------------
(* The loops of the socket and of the timer. *)

SendPacket == /\ pc = "idle" /\ ~conn.retired /\ conn.packets > 0 /\ ~conn.sending
              /\ conn' = [conn EXCEPT !.packets = @ - 1, !.sending = TRUE]
              /\ UNCHANGED <<streams, datas, pc, again>>
\* The send ends: the owner may be waiting for that; a failure fails the
\* connection, and the last packet of the queue asks for more.
SendEnds ==
    /\ pc = "idle" /\ conn.sending /\ UNCHANGED streams
    /\ LET c == Notify([conn EXCEPT !.sending = FALSE]) IN
       \/ conn.retired /\ conn' = c /\ UNCHANGED <<datas, pc, again>>
       \/ ~conn.retired /\ Fail(c) /\ UNCHANGED <<pc, again>>
       \/ /\ ~conn.retired /\ conn' = c /\ UNCHANGED datas
          /\ IF conn.packets = 0 THEN RequestWrite ELSE UNCHANGED <<pc, again>>
ReceiveFails == /\ pc = "idle" /\ ~conn.retired /\ Fail(conn)
                /\ UNCHANGED <<streams, pc, again>>
\* run_expiry_loop(): the timer fails the connection, or asks for a write.
Expiry == /\ pc = "idle" /\ ~conn.retired /\ UNCHANGED streams
          /\ \/ Fail(conn) /\ UNCHANGED <<pc, again>>
             \/ /\ pc' = "writing" /\ again' = FALSE /\ UNCHANGED <<datas, conn>>

Calls == \/ \E s \in Streams : OpenStream(s) \/ ShutdownStream(s)
         \/ \E s \in Streams, fin \in BOOLEAN : WriteStreamData(s, fin)
         \/ ExtendReceiveCredit \/ (\E d \in 1 .. MaxDatagrams : SendDatagram(d)) \/ Close
Packet == \/ Receive \/ HandshakeCompleted \/ ExtendMaxStreams \/ ReadEnds
          \/ \E s \in Streams : ExtendMaxStreamData(s) \/ StreamClosed(s)
Writing == SkipStream \/ WriteStream \/ StreamBlocked \/ WriteControl \/ WriteDatagram \/ PassEnds \/ PassFails
Socket == SendPacket \/ SendEnds \/ ReceiveFails \/ Expiry \/ Retire
Next == Calls \/ Packet \/ Writing \/ Socket

Spec == Init /\ [][Next]_vars

-----------------------------------------------------------------------------
\* Every write that was accepted is queued, reported complete or dropped with
\* its stream, one of these and once.
Queued(s) == {writes[s][i].id : i \in 1 .. Len(writes[s])}
WritesAccounted ==
    /\ \A id \in 1 .. given :
          Cardinality({s \in Streams : id \in Queued(s)})
              + Cardinality({i \in 1 .. Len(done) : done[i] = id})
              + (IF id \in dropped THEN 1 ELSE 0) = 1
    /\ \A s \in Streams : \A i, j \in 1 .. Len(writes[s]) :
          i < j => writes[s][i].id < writes[s][j].id /\ ~writes[s][i].fin

\* ready_streams_ and scheduled_streams_ agree, and while the connection lives
\* a stream with data is queued for writing or blocked by flow control.
NoStreamForgotten ==
    /\ scheduled = ToSet(queue) /\ Len(queue) = Cardinality(scheduled)
    /\ (~conn.retired) => \A s \in Streams :
          writes[s] # <<>> => s \in scheduled \cup blocked

\* A handler of a datagram is answered once, at the latest by the end of the
\* connection.
DatagramsAnswered ==
    /\ \A d \in 1 .. MaxDatagrams : Len(answers[d]) <= 1 /\ (d \in ToSet(datagrams) => answers[d] = <<>>)
    /\ conn.retired => datagrams = <<>>

\* A failed connection tells its owner once, and not while a send uses the
\* socket that it will close; one that was closed tells nobody.
ToldOnce == /\ conn.told <= 1 /\ (conn.told = 1 => conn.retired /\ conn.error)
            /\ (conn.retired /\ conn.error /\ ~conn.sending) => conn.told = 1

\* Nobody's request to write is overlooked: an idle connection has started a
\* pass since the last one.
RequestsHeeded == (pc = "idle" /\ ~conn.retired) => ~again

QuicIsSound == /\ TypeOK /\ WritesAccounted /\ NoStreamForgotten /\ DatagramsAnswered /\ ToldOnce
               /\ RequestsHeeded
=============================================================================

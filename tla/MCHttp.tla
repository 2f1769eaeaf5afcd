------------------------------- MODULE MCHttp -------------------------------
(***************************************************************************)
(* TLC instances of the HTTP client: the HTTP/1.1, HTTP/2 and HTTP/3       *)
(* sessions, the body of a streamed response, a tunnel, and the QUIC       *)
(* connection with its handles.  The components of this layer are checked  *)
(* together, in one run; `subject' names the one that a behaviour is       *)
(* about, the others do not move.  Those that are small share the          *)
(* variables q1 to q14, which the subject gives their meaning.             *)
(***************************************************************************)
EXTENDS Http1Session, ExchangeBody

CONSTANT Subjects       \* the components the run is about

VARIABLES subject,
    hKind, hPending, streams, sid, waiting, local, remote, upload, hBody, tunnel, hTimers, hPosted,
    hOutcome, out, sending, reading, hRetired, hStopped, closed, gone, released, proto, ping, silent

VARIABLES
    incoming, end, tClosed, shut, requested, reader, writer, expected, tPosts, tPull, put, tGot,
    slot, held, serial, noMore, fin, sent, stream, session, over, tArrived, tCredit, fault

VARIABLES q1, q2, q3, q4, q5, q6, q7, q8, q9, q10, q11, q12, q13, q14

\* Two exchanges that stream or are tunnels; one of any other kind with keepalive.
Shared == INSTANCE Http2Session WITH MaxExchanges <- 2, Keepalive <- FALSE,
              Kinds <- {"streaming", "tunnel"},
              kind <- hKind, pending <- hPending, body <- hBody, timers <- hTimers,
              posted <- hPosted, outcome <- hOutcome, retired <- hRetired, stopped <- hStopped
Single == INSTANCE Http2Session WITH MaxExchanges <- 1, Keepalive <- TRUE,
              Kinds <- {"buffered", "upload", "feed", "upgrade"},
              kind <- hKind, pending <- hPending, body <- hBody, timers <- hTimers,
              posted <- hPosted, outcome <- hOutcome, retired <- hRetired, stopped <- hStopped

\* Two reads and two writes of any size; one of each that may be stopped.
Tunnel == INSTANCE TunnelStream WITH Limit <- 2, Window <- 2, BufferSize <- 1, MaxBytes <- 2,
              MaxOps <- 2, Sizes <- {0, 1, 2}, Stops <- {},
              closed <- tClosed, posts <- tPosts, pull <- tPull, got <- tGot,
              arrived <- tArrived, credit <- tCredit
Abandoned == INSTANCE TunnelStream WITH Limit <- 1, Window <- 1, BufferSize <- 1, MaxBytes <- 1,
                 MaxOps <- 1, Sizes <- {1}, Stops <- {"read"},
                 closed <- tClosed, posts <- tPosts, pull <- tPull, got <- tGot,
                 arrived <- tArrived, credit <- tCredit

\* Two HTTP/3 exchanges that share a stream limit of one; one of every other kind.
Http3 == INSTANCE Http3Session WITH MaxExchanges <- 2, MaxRoom <- 1,
             Kinds <- {"buffered", "upgrade"},
             ex <- q1, upload <- q2, posted <- q3, outcome <- q4, order <- q5, room <- q6,
             quic <- q7, proto <- q8, out <- q9, writing <- q10, retired <- q11, stopped <- q12,
             told <- q13
Http3One == INSTANCE Http3Session WITH MaxExchanges <- 1, MaxRoom <- 1,
                Kinds <- {"upload", "feed", "streaming", "upgrade", "tunnel"},
                ex <- q1, upload <- q2, posted <- q3, outcome <- q4, order <- q5, room <- q6,
                quic <- q7, proto <- q8, out <- q9, writing <- q10, retired <- q11,
                stopped <- q12, told <- q13

\* Two streams with two writes each; one stream and two datagrams.
Quic == INSTANCE QuicClient WITH MaxStreams <- 2, MaxWrites <- 2, MaxDatagrams <- 0,
            open <- q1, writes <- q2, queue <- q3, scheduled <- q4, blocked <- q5,
            finished <- q6, given <- q7, done <- q8, dropped <- q9, datagrams <- q10,
            answers <- q11, pc <- q12, again <- q13, conn <- q14
Datagrams == INSTANCE QuicClient WITH MaxStreams <- 1, MaxWrites <- 1, MaxDatagrams <- 2,
                 open <- q1, writes <- q2, queue <- q3, scheduled <- q4, blocked <- q5,
                 finished <- q6, given <- q7, done <- q8, dropped <- q9, datagrams <- q10,
                 answers <- q11, pc <- q12, again <- q13, conn <- q14
Handles == INSTANCE QuicHandles WITH Kinds <- {"stream", "datagram"}, MaxBytes <- 2,
               MaxOps <- 3, Stops <- {"read"},
               kind <- q1, h <- q2, reader <- q3, inbox <- q4, writers <- q5, posts <- q6,
               op <- q7, got <- q8, lower <- q9, sent <- q10, below <- q11

ASSUME Bounds == /\ SizesAssumption
                 /\ Shared!SessionAssumption /\ Single!SessionAssumption
                 /\ Tunnel!TunnelAssumption /\ Abandoned!TunnelAssumption
                 /\ Http3!SessionAssumption /\ Http3One!SessionAssumption
                 /\ Quic!QuicAssumption /\ Datagrams!QuicAssumption /\ Handles!HandleAssumption
                 /\ Subjects \subseteq {"http1", "body", "shared", "single", "tunnel", "abandoned",
                                        "http3", "http3one", "quic", "datagrams", "handles"}

http2Vars == <<hKind, hPending, streams, sid, waiting, local, remote, upload, hBody, tunnel,
               hTimers, hPosted, hOutcome, out, sending, reading, hRetired, hStopped, closed,
               gone, released, proto, ping, silent>>
tunnelVars == <<incoming, end, tClosed, shut, requested, reader, writer, expected, tPosts, tPull,
                put, tGot, slot, held, serial, noMore, fin, sent, stream, session, over, tArrived,
                tCredit, fault>>
\* The variables that a component with eleven of them does not use.
from12 == <<q12, q13, q14>>
pool == <<q1, q2, q3, q4, q5, q6, q7, q8, q9, q10, q11, from12>>
others == <<subject, vars, bodyVars, http2Vars, tunnelVars>>
all == <<others, pool>>

PoolInit ==
    \/ subject = "http3" /\ Http3!Init /\ q14 = 0
    \/ subject = "http3one" /\ Http3One!Init /\ q14 = 0
    \/ subject = "quic" /\ Quic!Init
    \/ subject = "datagrams" /\ Datagrams!Init
    \/ subject = "handles" /\ Handles!Init /\ q12 = 0 /\ q13 = 0 /\ q14 = 0
    \/ /\ subject \in {"http1", "body", "shared", "single", "tunnel", "abandoned"}
       /\ q1 = 0 /\ q2 = 0 /\ q3 = 0 /\ q4 = 0 /\ q5 = 0 /\ q6 = 0 /\ q7 = 0 /\ q8 = 0 /\ q9 = 0
       /\ q10 = 0 /\ q11 = 0 /\ q12 = 0 /\ q13 = 0 /\ q14 = 0

\* The variables of a component that the behaviour is not about.
noHttp2 ==
    /\ hKind = 0 /\ hPending = 0 /\ streams = 0 /\ sid = 0 /\ waiting = 0 /\ local = 0
    /\ remote = 0 /\ upload = 0 /\ hBody = 0 /\ tunnel = 0 /\ hTimers = 0 /\ hPosted = 0
    /\ hOutcome = 0 /\ out = 0 /\ sending = 0 /\ reading = 0 /\ hRetired = 0 /\ hStopped = 0
    /\ closed = 0 /\ gone = 0 /\ released = 0 /\ proto = 0 /\ ping = 0 /\ silent = 0
noTunnel ==
    /\ incoming = 0 /\ end = 0 /\ tClosed = 0 /\ shut = 0 /\ requested = 0 /\ reader = 0
    /\ writer = 0 /\ expected = 0 /\ tPosts = 0 /\ tPull = 0 /\ put = 0 /\ tGot = 0 /\ slot = 0
    /\ held = 0 /\ serial = 0 /\ noMore = 0 /\ fin = 0 /\ sent = 0 /\ stream = 0 /\ session = 0
    /\ over = 0 /\ tArrived = 0 /\ tCredit = 0 /\ fault = 0

MCInit == /\ subject \in Subjects /\ Init /\ BodyInit /\ PoolInit
          /\ IF subject \in {"tunnel", "abandoned"} THEN Tunnel!Init ELSE noTunnel
          /\ CASE subject = "shared" -> Shared!Init [] subject = "single" -> Single!Init
               [] OTHER -> noHttp2

\* What a step of each component leaves alone.
notHttp1 == <<subject, bodyVars, http2Vars, tunnelVars, pool>>
notBody == <<subject, vars, http2Vars, tunnelVars, pool>>
notHttp2 == <<subject, vars, bodyVars, tunnelVars, pool>>
notTunnel == <<subject, vars, bodyVars, http2Vars, pool>>

PoolNext ==
    \/ subject = "http3" /\ Http3!Next /\ UNCHANGED q14
    \/ subject = "http3one" /\ Http3One!Next /\ UNCHANGED q14
    \/ subject = "quic" /\ Quic!Next
    \/ subject = "datagrams" /\ Datagrams!Next
    \/ subject = "handles" /\ Handles!Next /\ UNCHANGED from12

MCNext ==
    \/ subject = "http1" /\ Next /\ UNCHANGED notHttp1
    \/ subject = "body" /\ BodyNext /\ UNCHANGED notBody
    \/ subject = "shared" /\ Shared!Next /\ UNCHANGED notHttp2
    \/ subject = "single" /\ Single!Next /\ UNCHANGED notHttp2
    \/ subject = "tunnel" /\ Tunnel!Next /\ UNCHANGED notTunnel
    \/ subject = "abandoned" /\ Abandoned!Next /\ UNCHANGED notTunnel
    \/ PoolNext /\ UNCHANGED others

MCSpec == MCInit /\ [][MCNext]_all

-----------------------------------------------------------------------------
(* The properties of the components, for the subjects they are about.  The  *)
(* session's own are those of Http1Session, the body's that of ExchangeBody. *)

\* Of concurrent exchanges each ends once, and none, no body, no tunnel and
\* no I/O in flight is left behind by GOAWAY, a reset, a lost connection,
\* stop() or a peer that fell silent.
StreamsAreSound == /\ subject = "shared" => Shared!StreamsAreSound
                   /\ subject = "single" => Single!StreamsAreSound
\* Cancelling an exchange of an HTTP/2 or HTTP/3 session, or its deadline, changes nothing
\* of another exchange in that step.  (What follows from it for a sibling of HTTP/3 is
\* SiblingsKeepFlowing.)
SiblingsUntouched == [][/\ subject = "shared" => Shared!EndsAlone
                        /\ subject = "http3" => Http3!EndsAlone]_all
\* A tunnel's bytes are read in order, its writes succeed when they were
\* sent, and its half close neither overtakes a write nor is forgotten.
TunnelIsSound == /\ subject = "tunnel" => Tunnel!TunnelIsSound
                 /\ subject = "abandoned" => Abandoned!TunnelIsSound
\* Of HTTP/3 exchanges each ends once, and none, no body and no stream the peer
\* allows is forgotten; below them, no stream with data falls out of the
\* connection's queue and no datagram goes unanswered; whoever waits at a handle
\* is told, reads what was sent in order and writes what it was told.
QuicIsSound == /\ subject = "http3" => Http3!Http3IsSound
               /\ subject = "http3one" => Http3One!Http3IsSound
               /\ subject = "quic" => Quic!QuicIsSound
               /\ subject = "datagrams" => Datagrams!QuicIsSound
               /\ subject = "handles" => Handles!HandlesAreSound
\* What docs/cancellation.md says and the code does not keep: a stream that is ended alone
\* leaves its siblings flowing.  The write it had with the QUIC connection is dropped, and
\* the session waits for its end before it writes for anyone else.
SiblingsKeepFlowing == subject = "http3" => Http3!SiblingsKeepFlowing
=============================================================================

------------------------------ MODULE MCProxy -------------------------------
(***************************************************************************)
(* TLC instances of the inbound side: the server with its sessions, the    *)
(* relay, the SOCKS5 datagram paths, the SOCKS4 request and the HTTP       *)
(* session; and of the carriers of outbound streams: WebSocket, gRPC and   *)
(* gun streams, and the connections that streams are multiplexed over.     *)
(* The components of this layer are checked together, in one run;          *)
(* `subject' names the one that a behaviour is about, the others do not    *)
(* move.  The carriers and the shared UDP listener take the variables      *)
(* q1 .. q13; SocksUdp itself is a session's association here.             *)
(***************************************************************************)
EXTENDS ProxyServer, TcpRelay, SocksUdp, HttpForward, Socks4Request, TLC

CONSTANT Subjects               \* the components the run is about

VARIABLES subject,
    q1, q2, q3, q4, q5, q6, q7, q8, q9, q10, q11, q12, q13

\* The server under close_connection(), and its UDP listener, both within closer bounds.
Killed == INSTANCE ProxyServer WITH MaxStarts <- 1, MaxIds <- 2
Listener == INSTANCE SocksUdp WITH PerAssociation <- FALSE, RoutesThrow <- FALSE,
                MaxPackets <- 3,
                stopped <- q1, client <- q2, packets <- q3, pending <- q4, routes <- q5,
                paths <- q6, handles <- q7, forwarded <- q8

\* User ids and domains of up to five bytes, around the limit of four.
Strings4 == UNION {[1 .. n -> {"a", "b"}] : n \in 0 .. 4} \cup {<<"a", "a", "b", "b", "a">>}
SomeDomains == {<< >>, <<"a">>, <<"a", "b">>, <<"a", "b", "b", "a">>}

\* One stream under the windows of smux 2; two v2ray streams that compete for an entry; a
\* kcptun session; the pool of such sessions.
Smux == INSTANCE WebSocketMux WITH str <- q1, slots <- q2, pending <- q3, out <- q4,
            closed <- q5, peer <- q6, Streams <- {1}, Version <- "smux2", MaxStreams <- 1,
            Frame <- 1, Window <- 2, Buffer <- 2, MaxUnits <- 3
V2ray == INSTANCE WebSocketMux WITH str <- q1, slots <- q2, pending <- q3, out <- q4,
            closed <- q5, peer <- q6, Streams <- {1, 2}, Version <- "v2ray", MaxStreams <- 1,
            Frame <- 1, Window <- 1, Buffer <- 2, MaxUnits <- 1
Kcptun == INSTANCE Kcptun WITH str <- q1, slots <- q2, out <- q3, closed <- q4,
            peer <- q5, nops <- q6, Streams <- {1}, Frame <- 1, Window <- 1, Buffer <- 2,
            MaxUnits <- 2, MaxNops <- 1,
            slot <- q1, session <- q2, made <- q3, robin <- q4,
            endpoint <- q5, poolClosed <- q6, clock <- q7, wakes <- q8, Slots <- 2,
            Endpoints <- {"a", "b"}, Expire <- 1, Ttl <- 1, Period <- 2, MaxSessions <- 3,
            MaxClock <- 7

\* The three ways to open, with less, as much and more early data than payload.
WebSocket == INSTANCE WebSocket WITH Modes <- {"ws", "raw", "fast"}, Payload <- 2,
                 Early <- {0, 1, 3},
                 opts <- q1, pc <- q2, carrier <- q3, timer <- q4, completed <- q5, posted <- q6,
                 told <- q7, sent <- q8,
                 Kinds <- {"ws", "fast"}, MaxBytes <- 2, MaxOps <- 3, Stops <- {"read"},
                 kind <- q1, st <- q2, reader <- q3, incoming <- q4, writer <- q5, wire <- q6,
                 taken <- q7, posts <- q8, op <- q9, got <- q10, up <- q11, head <- q12,
                 peer <- q13
Call == INSTANCE GrpcCall WITH MaxMessages <- 2, MaxOps <- 3,
            call <- q1, req <- q2, resp <- q3, posts <- q4, op <- q5, opens <- q6, got <- q7,
            wrote <- q8, server <- q9

\* Reads of two frames; writes of which the second does not fit behind the first; the pool.
GunReads == INSTANCE Gun WITH Capacity <- 2, Sizes <- {1}, MaxBytes <- 2, MaxOps <- 2,
                Uses <- {"read"}, Stops <- {"read"},
                st <- q1, chain <- q2, have <- q3, req <- q4, writes <- q5, overflow <- q6,
                posts <- q7, op <- q8, got <- q9, out <- q10, down <- q11, server <- q12,
                MaxDials <- 3, MaxConnections <- 2, MinStreams <- 1, MaxStreams <- 0,
                dials <- q1, streams <- q2, session <- q3, transports <- q4, made <- q5,
                poolClosed <- q6
GunWrites == INSTANCE Gun WITH Capacity <- 3, Sizes <- {3}, MaxBytes <- 0, MaxOps <- 2,
                 Uses <- {"write"}, Stops <- {"write"},
                 st <- q1, chain <- q2, have <- q3, req <- q4, writes <- q5, overflow <- q6,
                 posts <- q7, op <- q8, got <- q9, out <- q10, down <- q11, server <- q12,
                 MaxDials <- 0, MaxConnections <- 0, MinStreams <- 0, MaxStreams <- 0,
                 dials <- q1, streams <- q2, session <- q3, transports <- q4, made <- q5,
                 poolClosed <- q6

ASSUME Bounds == /\ ServerAssumption /\ Killed!ServerAssumption
                 /\ BoundsAssumption /\ Listener!BoundsAssumption
                 /\ StringsAssumption /\ KindsAssumption
                 /\ Smux!MuxAssumption /\ V2ray!MuxAssumption /\ Kcptun!KcptunAssumption
                 /\ Kcptun!PoolAssumption
                 /\ WebSocket!HandshakeAssumption /\ WebSocket!StreamAssumption
                 /\ Call!CallAssumption /\ GunReads!GunAssumption /\ GunWrites!GunAssumption
                 /\ GunReads!PoolAssumption
                 /\ Subjects \subseteq {"server", "killed", "associate", "listener", "socks4",
                                        "http", "relay", "smux", "v2ray", "kcptun", "pool",
                                        "handshake", "messages", "call", "gunreads",
                                        "gunwrites", "gunpool"}

Symmetry == Permutations(Sessions)

\* From 7, 9, ... on: the variables that a component with fewer of them does not use.
from10 == <<q10, q11, q12, q13>>
from9 == <<q9, from10>>
from7 == <<q7, q8, from9>>
pool == <<q1, q2, q3, q4, q5, q6, from7>>
notPool == <<subject, serverVars, udpVars, socks4Vars, httpVars, vars>>
all == <<notPool, pool>>

Zero7 == q7 = 0 /\ q8 = 0 /\ q9 = 0 /\ q10 = 0 /\ q11 = 0 /\ q12 = 0 /\ q13 = 0
Zero9 == q9 = 0 /\ q10 = 0 /\ q11 = 0 /\ q12 = 0 /\ q13 = 0
PoolInit ==
    \/ subject = "listener" /\ Listener!UdpInit /\ Zero9
    \/ subject = "smux" /\ Smux!Init /\ Zero7
    \/ subject = "v2ray" /\ V2ray!Init /\ Zero7
    \/ subject = "kcptun" /\ Kcptun!SessionInit /\ Zero7
    \/ subject = "pool" /\ Kcptun!PoolInit /\ Zero9
    \/ subject = "handshake" /\ WebSocket!HandshakeInit /\ Zero9
    \/ subject = "messages" /\ WebSocket!StreamInit
    \/ subject = "call" /\ Call!Init /\ q10 = 0 /\ q11 = 0 /\ q12 = 0 /\ q13 = 0
    \/ subject = "gunreads" /\ GunReads!StreamInit /\ q13 = 0
    \/ subject = "gunwrites" /\ GunWrites!StreamInit /\ q13 = 0
    \/ subject = "gunpool" /\ GunReads!PoolInit /\ Zero7
    \/ /\ subject \in {"server", "killed", "associate", "socks4", "http", "relay"}
       /\ q1 = 0 /\ q2 = 0 /\ q3 = 0 /\ q4 = 0 /\ q5 = 0 /\ q6 = 0 /\ Zero7

MCInit == /\ subject \in Subjects
          /\ ServerInit /\ UdpInit /\ HttpInit /\ Init
          /\ Socks4Init /\ PoolInit
          /\ subject # "socks4" => request = CHOOSE r \in Socks4Requests : TRUE

\* What a step of each component leaves alone.
notServer == <<subject, udpVars, socks4Vars, httpVars, vars, pool>>
notUdp == <<subject, serverVars, socks4Vars, httpVars, vars, pool>>
notSocks4 == <<subject, serverVars, udpVars, httpVars, vars, pool>>
notHttp == <<subject, serverVars, udpVars, socks4Vars, vars, pool>>
notRelay == <<subject, serverVars, udpVars, socks4Vars, httpVars, pool>>

PoolNext ==
    \/ subject = "listener" /\ Listener!UdpNext /\ UNCHANGED from9
    \/ subject = "smux" /\ Smux!Next /\ UNCHANGED from7
    \/ subject = "v2ray" /\ V2ray!Next /\ UNCHANGED from7
    \/ subject = "kcptun" /\ Kcptun!SessionNext /\ UNCHANGED from7
    \/ subject = "pool" /\ Kcptun!PoolNext /\ UNCHANGED from9
    \/ subject = "handshake" /\ WebSocket!HandshakeNext /\ UNCHANGED from9
    \/ subject = "messages" /\ WebSocket!StreamNext
    \/ subject = "call" /\ Call!Next /\ UNCHANGED from10
    \/ subject = "gunreads" /\ GunReads!StreamNext /\ UNCHANGED q13
    \/ subject = "gunwrites" /\ GunWrites!StreamNext /\ UNCHANGED q13
    \/ subject = "gunpool" /\ GunReads!PoolNext /\ UNCHANGED from7

MCNext ==
    \/ subject = "server" /\ ServerNext /\ UNCHANGED <<kills, notServer>>
    \/ subject = "killed" /\ Killed!ServerNext /\ UNCHANGED notServer
    \/ subject = "associate" /\ UdpNext /\ UNCHANGED notUdp
    \/ subject = "socks4" /\ Socks4Next /\ UNCHANGED notSocks4
    \/ subject = "http" /\ HttpNext /\ UNCHANGED notHttp
    \/ subject = "relay" /\ Next /\ UNCHANGED notRelay
    \/ PoolNext /\ UNCHANGED notPool

MCSpec == MCInit /\ [][MCNext]_all

-----------------------------------------------------------------------------
(* The properties of the components, for the subjects they are about.  The  *)
(* server's, the relay's, the association's, the HTTP session's and the     *)
(* SOCKS4 request's own are those of the modules that this one extends.     *)

\* Streams that share a carrier keep their order, their windows, their entries and their
\* ends, and the sessions of a pool stay within their slots and their time, whatever is
\* stopped, closed or lost meanwhile; the paths, response loops, routes and clients of the
\* UDP listener that the server's clients share agree.
CarriersAreSound == /\ subject = "smux" => Smux!MuxIsSound
                    /\ subject = "v2ray" => V2ray!MuxIsSound
                    /\ subject = "kcptun" => Kcptun!KcptunIsSound
                    /\ subject = "pool" => Kcptun!PoolIsSound
                    /\ subject = "listener" => Listener!PathsAreSound
\* A WebSocket's carrier is handed over whole or closed, once; bytes, messages
\* and frames of WebSocket, gRPC and gun streams keep their order and their
\* ends, nobody is left waiting by a close, and the gun pool's counts are exact.
MessagesAreSound == /\ subject = "handshake" => WebSocket!HandshakeIsSound
                    /\ subject = "messages" => WebSocket!StreamIsSound
                    /\ subject = "call" => Call!CallIsSound
                    /\ subject = "gunreads" => GunReads!GunIsSound
                    /\ subject = "gunwrites" => GunWrites!GunIsSound
                    /\ subject = "gunpool" => GunReads!PoolIsSound
=============================================================================

---------------------------- MODULE Http2Session ----------------------------
(***************************************************************************)
(* Http2ClientSession (src/transport/http2_client.cpp): concurrent         *)
(* exchanges and tunnels over one HTTP/2 connection, on one executor.      *)
(* nghttp2 is external: out is what it has to send, one frame per          *)
(* mem_send2(), and it tells of a stream's end once both sides ended it,   *)
(* either side reset it, or a GOAWAY ruled it out.  A read brings one      *)
(* frame.  The bytes of a response body are the matter of ExchangeBody,    *)
(* those of a tunnel of TunnelStream.                                      *)
(***************************************************************************)
EXTENDS Integers, Sequences, SequencesExt, FiniteSets

CONSTANTS MaxExchanges, \* bound: exchanges submitted to the session
          Kinds,        \* the kinds of exchanges that are submitted
          Keepalive     \* whether ping_interval_ is positive

Exchanges == 1 .. MaxExchanges
Streamed == {"streaming", "upload", "feed"}  \* exchange_streaming(); the last two with a
Uploading == {"upload", "feed"}              \* request body, "feed" with head_deadline_only
Tunnels == {"tunnel", "upgrade"}             \* open_tunnel(), by CONNECT or extended CONNECT
SessionAssumption == /\ MaxExchanges \in Nat /\ Keepalive \in BOOLEAN
                     /\ Kinds \subseteq {"buffered"} \cup Streamed \cup Tunnels

NoFrame == <<"none", 0>>
Frames == ({"req", "data", "fin", "rst"} \X Exchanges) \cup {<<"ping", 0>>, <<"credit", 0>>}
Of(x) == {<<"req", x>>, <<"data", x>>, <<"fin", x>>}

VARIABLES
    kind,      \* kind of each submitted exchange; "none" before
    pending,   \* pending_
    streams,   \* stream_ids_ and stream_pending_
    sid,       \* stream_id, or 0
    waiting,   \* waiting_for_connect_protocol_
    local,     \* our side of each stream: "none", "sent", "ended"
    remote,    \* the peer's: "silent", "head", "ended"
    upload,    \* the request body: "none", "reading", "staged", "last", "complete", "cancelled"
    body,      \* response_body: "none", "open", "eof", "failed"
    tunnel,    \* tunnel_state: "none", "open", "closed", "failed"
    timers,    \* exchanges whose deadline task is armed and timer_done is not set
    posted,    \* terminals posted to each caller
    outcome,   \* terminals each caller was given
    out,       \* frames nghttp2 holds
    sending,   \* the frame in the socket's write, or NoFrame: write_in_progress_
    reading,   \* read_in_progress_
    retired, stopped,
    closed,    \* stream_closed_
    gone,      \* http2_session_ is deleted
    released,  \* stream_ has been reset
    proto,     \* the peer's extended CONNECT: "unknown", "enabled", "disabled"
    ping,      \* the keepalive: [armed, pending, misses]
    silent     \* 0 while the peer is there, else 1 + the ticks since it fell silent

exchange == <<pending, timers, upload, body, posted>>
wire == <<out, sending, closed>>
vars == <<kind, exchange, streams, sid, waiting, local, remote, tunnel, outcome, wire, reading,
          retired, stopped, gone, released, proto, ping, silent>>

TypeOK ==
    /\ kind \in [Exchanges -> Kinds \cup {"none", "refused"}]
    /\ pending \subseteq Exchanges /\ streams \subseteq Exchanges /\ timers \subseteq Exchanges
    /\ sid \in [Exchanges -> 0 .. MaxExchanges] /\ waiting \in Seq(Exchanges)
    /\ local \in [Exchanges -> {"none", "sent", "ended"}]
    /\ remote \in [Exchanges -> {"silent", "head", "ended"}]
    /\ upload \in [Exchanges -> {"none", "reading", "staged", "last", "complete", "cancelled"}]
    /\ body \in [Exchanges -> {"none", "open", "eof", "failed"}]
    /\ tunnel \in [Exchanges -> {"none", "open", "closed", "failed"}]
    /\ posted \in [Exchanges -> Seq({"response", "tunnel", "error"})]
    /\ outcome \in [Exchanges -> Seq({"response", "tunnel", "error", "stopped"})]
    /\ out \subseteq Frames /\ sending \in Frames \cup {NoFrame}
    /\ {reading, retired, stopped, closed, gone, released} \subseteq BOOLEAN
    /\ proto \in {"unknown", "enabled", "disabled"}
    /\ ping \in [armed : BOOLEAN, pending : BOOLEAN, misses : 0 .. 1] /\ silent \in 0 .. 4

Init ==
    /\ kind = [x \in Exchanges |-> "none"] /\ pending = {} /\ streams = {} /\ timers = {}
    /\ sid = [x \in Exchanges |-> 0] /\ waiting = <<>>
    /\ local = [x \in Exchanges |-> "none"] /\ remote = [x \in Exchanges |-> "silent"]
    /\ upload = [x \in Exchanges |-> "none"] /\ body = [x \in Exchanges |-> "none"]
    /\ tunnel = [x \in Exchanges |-> "none"]
    /\ posted = [x \in Exchanges |-> <<>>] /\ outcome = [x \in Exchanges |-> <<>>]
    /\ out = {} /\ sending = <<"credit", 0>> /\ reading = TRUE
    /\ retired = FALSE /\ stopped = FALSE /\ closed = FALSE /\ gone = FALSE /\ released = FALSE
    /\ proto = "unknown" /\ ping = [armed |-> Keepalive, pending |-> FALSE, misses |-> 0]
    /\ silent = 0

\* The order in which nghttp2 sends what it holds.
Rank(f) == [ping |-> 0, rst |-> 1, credit |-> 2, req |-> 3, data |-> 4, fin |-> 4][f[1]]
               * (MaxExchanges + 1) + f[2]
First(o) == CHOOSE f \in o : \A g \in o : Rank(f) <= Rank(g)

(***************************************************************************)
(* send_pending() and then close_if_drained(), with o to be sent, streams  *)
(* s, pending_ p and retired_ r.                                           *)
(***************************************************************************)
Drained(s, p, r) == r /\ p = {} /\ \A x \in s : tunnel[x] = "none"
Flush(o, s, p, r) ==
    LET idle == ~stopped /\ ~closed /\ ~gone /\ sending = NoFrame IN
    \/ /\ idle /\ o # {} /\ sending' = First(o) /\ out' = o \ {First(o)}
       /\ UNCHANGED closed
    \/ /\ ~(idle /\ o # {}) /\ out' = o /\ UNCHANGED sending
       /\ closed' = (closed \/ (sending = NoFrame /\ Drained(s, p, r)))

(***************************************************************************)
(* The exchanges S end with an error: out of pending_, the deadline off,   *)
(* the request body cancelled, the response body failed.  A streaming      *)
(* exchange whose head was delivered has no terminal left to post.         *)
(***************************************************************************)
EndAll(S) ==
    /\ pending' = pending \ S /\ timers' = timers \ S
    /\ upload' = [x \in Exchanges |->
                    IF x \in S /\ upload[x] \notin {"none", "complete"} THEN "cancelled" ELSE upload[x]]
    /\ body' = [x \in Exchanges |-> IF x \in S /\ body[x] = "open" THEN "failed" ELSE body[x]]
    /\ posted' = [x \in Exchanges |->
                    IF x \in S /\ body[x] = "none" THEN Append(posted[x], "error") ELSE posted[x]]

\* Mutant: the exchange that fails takes the connection with it.
FailPendingAll(x) == /\ x \in pending /\ EndAll(pending)
                     /\ Flush({<<"rst", y>> : y \in streams}, streams, {}, retired)
\* fail_pending(): the stream is reset and stays until that is sent.  nghttp2
\* cancels a request it has not sent yet; here its reset is a frame too.
FailPending(x) ==
    /\ x \in pending /\ EndAll({x})
    /\ Flush((out \ Of(x)) \cup (IF x \in streams THEN {<<"rst", x>>} ELSE {}),
             streams, pending \ {x}, retired)

\* on_stream_closed() for the streams S, with fail_closed_pending().  The
\* end of an established tunnel is told to its user.
StreamsClose(S, o, r) ==
    /\ EndAll(S \cap pending) /\ streams' = streams \ S
    /\ tunnel' = [x \in Exchanges |-> IF x \in S /\ tunnel[x] = "open" THEN "failed" ELSE tunnel[x]]
    /\ Flush(o \ UNION {Of(x) : x \in S}, streams \ S, pending \ S, r)

\* close_stream(), close_http2(), which disowns the ping task, and fail_all():
\* what connection_failed() and stop() do.
Collapse ==
    /\ retired' = TRUE /\ closed' = TRUE /\ gone' = TRUE
    /\ EndAll(pending) /\ streams' = {} /\ out' = {}
    /\ ping' = [ping EXCEPT !.armed = FALSE, !.pending = FALSE]
    /\ tunnel' = [x \in Exchanges |-> IF x \in streams /\ tunnel[x] = "open" THEN "failed" ELSE tunnel[x]]

-----------------------------------------------------------------------------
(* The owner and its exchanges. *)

Fresh(x) == kind[x] = "none" /\ \A y \in Exchanges : y < x => kind[y] # "none"
NextStream == Cardinality({y \in Exchanges : sid[y] # 0}) + 1
settled == <<stopped, gone, released, reading, proto, ping, silent>>

\* A refused call: the session is over, the request, its deadline or its
\* header is bad, or the peer is known not to support it.
Refuse(x) ==
    /\ Fresh(x) /\ kind' = [kind EXCEPT ![x] = "refused"]
    /\ outcome' = [outcome EXCEPT ![x] = <<"error">>]
    /\ UNCHANGED <<exchange, streams, sid, waiting, local, remote, tunnel, wire, retired, settled>>

\* exchange(), exchange_streaming(), open_tunnel(): an extended CONNECT waits
\* for the peer's settings.
Submit(x, k) ==
    /\ Fresh(x) /\ ~stopped /\ ~retired /\ ~(k = "upgrade" /\ proto = "disabled")
    /\ kind' = [kind EXCEPT ![x] = k]
    /\ pending' = pending \cup {x} /\ timers' = timers \cup {x}
    /\ IF k = "upgrade" /\ proto # "enabled"
       THEN waiting' = Append(waiting, x) /\ UNCHANGED <<streams, sid, wire>>
       ELSE /\ streams' = streams \cup {x} /\ sid' = [sid EXCEPT ![x] = NextStream]
            /\ Flush(out \cup {<<"req", x>>}, streams', pending', FALSE)
            /\ UNCHANGED waiting
    /\ UNCHANGED <<local, remote, upload, body, posted, tunnel, outcome, retired, settled>>

ending == <<kind, streams, sid, waiting, local, remote, tunnel, retired, settled>>

\* The caller is stopped: let_stopped() cancels what is still pending.
Cancel(x) ==
    /\ kind[x] # "none" /\ outcome[x] = <<>> /\ outcome' = [outcome EXCEPT ![x] = <<"stopped">>]
    /\ IF x \in pending THEN FailPending(x) ELSE UNCHANGED <<exchange, wire>>
    /\ UNCHANGED ending

\* The consumer of a response body cancels it.
CancelBody(x) == /\ body[x] = "open" /\ outcome[x] = <<"response">> /\ FailPending(x)
                 /\ UNCHANGED <<ending, outcome>>

\* run_deadline().
Expire(x) == x \in timers /\ FailPending(x) /\ UNCHANGED <<ending, outcome>>

\* post_terminal(): a caller that was stopped has detached.
PostedRuns(x) ==
    /\ posted[x] # <<>> /\ posted' = [posted EXCEPT ![x] = Tail(@)]
    /\ outcome' = [outcome EXCEPT ![x] = IF @ = <<"stopped">> THEN @ ELSE Append(@, posted[x][1])]
    /\ UNCHANGED <<pending, timers, upload, body, wire, ending>>

\* on_request_body_read(): bytes, the end, or a source that fails, returns
\* nothing or does not keep its Content-Length.
UploadReads(x) ==
    /\ upload[x] = "reading" /\ x \in pending /\ ~closed /\ ~stopped
    /\ \/ /\ upload' = [upload EXCEPT ![x] = "staged"]
          /\ Flush(out \cup {<<"data", x>>}, streams, pending, retired)
          /\ UNCHANGED <<pending, timers, body, posted>>
       \/ /\ upload' = [upload EXCEPT ![x] = "last"]
          /\ Flush(out \cup {<<"fin", x>>}, streams, pending, retired)
          /\ UNCHANGED <<pending, timers, body, posted>>
       \/ FailPending(x)
    /\ UNCHANGED <<ending, outcome>>

\* The user of a tunnel closes it, or ends its sending side.  The post that
\* carries the reset to the session is in TunnelStream.
TunnelCloses(x) ==
    /\ tunnel[x] = "open" /\ outcome[x] = <<"tunnel">>
    /\ \/ /\ tunnel' = [tunnel EXCEPT ![x] = "closed"]
          /\ Flush((out \ Of(x)) \cup {<<"rst", x>>}, streams, pending, retired)
       \/ /\ local[x] = "sent" /\ sending # <<"fin", x>> /\ UNCHANGED tunnel
          /\ Flush(out \cup {<<"fin", x>>}, streams, pending, retired)
    /\ UNCHANGED <<kind, exchange, streams, sid, waiting, local, remote, outcome, retired, settled>>

Stop == /\ ~stopped /\ stopped' = TRUE /\ Collapse
        /\ UNCHANGED <<kind, sid, waiting, local, remote, outcome, sending, released, reading,
                       proto, silent>>

-----------------------------------------------------------------------------
(* The connection. *)

\* A frame arrives; the next read is started unless the session was closed.
Hears == reading /\ ~closed /\ ~stopped /\ silent = 0 /\ reading' = ~closed'
rest == <<kind, waiting, sid, local, outcome, stopped, gone, released>>

(***************************************************************************)
(* handle_response_headers() with a final status.                          *)
(***************************************************************************)
AcceptTunnel(x) == /\ tunnel' = [tunnel EXCEPT ![x] = "open"]
                   /\ pending' = pending \ {x} /\ timers' = timers \ {x}
                   /\ posted' = [posted EXCEPT ![x] = Append(@, "tunnel")]
                   /\ UNCHANGED <<upload, body>>
DeliverHead(x) == /\ body' = [body EXCEPT ![x] = "open"]
                  /\ timers' = IF kind[x] = "feed" THEN timers \ {x} ELSE timers
                  /\ posted' = [posted EXCEPT ![x] = Append(@, "response")]
                  /\ UNCHANGED <<pending, upload, tunnel>>
ResponseHead(x) ==
    /\ x \in streams /\ local[x] # "none" /\ remote[x] = "silent"
    /\ remote' = [remote EXCEPT ![x] = "head"]
    /\ \/ x \in pending /\ kind[x] \in Tunnels /\ AcceptTunnel(x)
       \/ x \in pending /\ kind[x] \in Streamed /\ DeliverHead(x)
       \/ (x \notin pending \/ kind[x] \notin Streamed) /\ UNCHANGED <<exchange, tunnel>>
    /\ UNCHANGED <<wire, streams, retired, proto, ping, silent, rest>> /\ Hears

\* DATA: update_receive_credit() and consume_stream_data() return the window.
\* An exchange whose body refuses the bytes, its queue being full, has been
\* failed before, by fail_streaming_body_overflows().
ResponseData(x) ==
    /\ x \in streams /\ remote[x] = "head"
    /\ \/ /\ Flush(out \cup {<<"credit", 0>>}, streams, pending, retired)
          /\ UNCHANGED exchange
       \/ /\ x \in pending /\ body[x] = "open" /\ EndAll({x})
          /\ Flush((out \ Of(x)) \cup {<<"rst", x>>, <<"credit", 0>>}, streams, pending \ {x},
                   retired)
    /\ UNCHANGED <<streams, remote, tunnel, retired, proto, ping, silent, rest>> /\ Hears

\* finish_pending(): the response, or an error when it exceeded its limit.
FinishPending(x) ==
    /\ \E result \in {"response", "error"} :
          posted' = [posted EXCEPT ![x] = Append(@, result)]
    /\ UNCHANGED <<upload, body>>
\* Mutant: the response is over, the request body is left running.
FinishStreamingOnly(x) == body' = [body EXCEPT ![x] = "eof"] /\ UNCHANGED <<upload, posted>>
\* finish_streaming_response(): a request body that is not complete is cut off.
RequestDone(x) == upload[x] \in {"none", "complete"} \/ sending = <<"fin", x>>
FinishStreaming(x) ==
    /\ body' = [body EXCEPT ![x] = "eof"]
    /\ upload' = [upload EXCEPT ![x] = IF @ = "none" THEN @
                                           ELSE IF RequestDone(x) THEN "complete" ELSE "cancelled"]
    /\ UNCHANGED posted

\* END_STREAM.  A stream that both sides ended is closed.
ResponseEnds(x) ==
    /\ x \in streams /\ remote[x] = "head" /\ remote' = [remote EXCEPT ![x] = "ended"]
    /\ pending' = pending \ {x} /\ timers' = timers \ {x}
    /\ \/ x \in pending /\ kind[x] \in Streamed /\ FinishStreaming(x)
       \/ x \in pending /\ kind[x] \notin Streamed /\ FinishPending(x)
       \/ x \notin pending /\ UNCHANGED <<upload, body, posted>>
    /\ IF local[x] = "ended"
       THEN /\ streams' = streams \ {x}
            /\ tunnel' = [tunnel EXCEPT ![x] = IF @ = "open" THEN "closed" ELSE @]
       ELSE UNCHANGED <<streams, tunnel>>
    /\ LET cut == x \in pending /\ ~RequestDone(x) IN
       Flush(IF cut THEN (out \ Of(x)) \cup {<<"rst", x>>} ELSE out, streams', pending', retired)
    /\ UNCHANGED <<retired, proto, ping, silent, rest>> /\ Hears

\* RST_STREAM from the peer.
PeerResets(x) ==
    /\ x \in streams /\ local[x] # "none"
    /\ StreamsClose({x}, out, retired)
    /\ UNCHANGED <<remote, retired, proto, ping, silent, rest>> /\ Hears

\* GOAWAY: the first one makes handle_goaway() fail, and reset, what the peer
\* will not process; at every one nghttp2 closes those streams, and it starts
\* no other.
Goaway(last) ==
    LET refused == IF retired THEN {} ELSE {x \in streams \cap pending : sid[x] > last} IN
    /\ \A x \in streams : remote[x] # "silent" => sid[x] <= last
    /\ retired' = TRUE
    /\ StreamsClose({x \in streams : sid[x] > last \/ <<"req", x>> \in out},
                    out \cup {<<"rst", x>> : x \in refused}, TRUE)
    /\ UNCHANGED <<remote, proto, ping, silent, rest>> /\ Hears

\* handle_peer_settings(): the tunnels that waited are submitted, or fail when
\* the peer does not support them or takes no new stream.  It matters to
\* extended CONNECT alone.
Settings(enabled) ==
    LET due == SelectSeq(waiting, LAMBDA x : x \in pending) IN
    /\ "upgrade" \in Kinds
    /\ proto' = (IF enabled THEN "enabled" ELSE "disabled") /\ waiting' = <<>>
    /\ IF enabled /\ ~retired
       THEN /\ streams' = streams \cup ToSet(due)
            /\ sid' = [x \in Exchanges |-> IF x \in ToSet(due)
                          THEN NextStream + (CHOOSE i \in 1 .. Len(due) : due[i] = x) - 1 ELSE sid[x]]
            /\ Flush(out \cup {<<"req", x>> : x \in ToSet(due)}, streams', pending, retired)
            /\ UNCHANGED exchange
       ELSE /\ EndAll(ToSet(due)) /\ Flush(out, streams, pending \ ToSet(due), retired)
            /\ UNCHANGED <<streams, sid>>
    /\ UNCHANGED <<kind, local, outcome, stopped, gone, released, remote, tunnel, retired, ping,
                   silent>> /\ Hears

PingAck == /\ ping.pending /\ <<"ping", 0>> \notin out \cup {sending}
           /\ ping' = [ping EXCEPT !.pending = FALSE, !.misses = 0]
           /\ UNCHANGED <<exchange, streams, remote, tunnel, wire, retired, proto, silent, rest>>
           /\ Hears

\* connection_failed(), from a read and from a write.
ReadFails ==
    /\ reading /\ ~closed /\ ~stopped /\ silent = 0 /\ reading' = FALSE /\ Collapse
    /\ UNCHANGED <<kind, sid, waiting, local, remote, outcome, sending, stopped, released, proto,
                   silent>>
WriteFails ==
    /\ sending # NoFrame /\ ~closed /\ ~stopped /\ silent = 0 /\ sending' = NoFrame /\ Collapse
    /\ UNCHANGED <<kind, sid, waiting, local, remote, outcome, reading, stopped, released, proto,
                   silent>>

\* The read and the write of a closed session end; the last one resets stream_.
IOEnds ==
    /\ closed
    /\ \/ reading /\ reading' = FALSE /\ released' = (sending = NoFrame) /\ UNCHANGED sending
       \/ sending # NoFrame /\ sending' = NoFrame /\ released' = ~reading /\ UNCHANGED reading
    /\ UNCHANGED <<kind, exchange, streams, sid, waiting, local, remote, tunnel, outcome, out,
                   closed, retired, stopped, gone, proto, ping, silent>>

(***************************************************************************)
(* The write of a frame ends, and nghttp2 goes on: the body of a request   *)
(* is pulled, a stream that was reset or that both sides ended is closed.  *)
(***************************************************************************)
Sent(f) ==
    LET x == f[2] IN
    /\ local' = CASE f[1] = "req" -> [local EXCEPT ![x] = IF kind[x] \in {"buffered", "streaming"}
                                                          THEN "ended" ELSE "sent"]
                  [] f[1] = "fin" -> [local EXCEPT ![x] = "ended"]
                  [] OTHER -> local
    /\ upload' = CASE f[1] \in {"req", "data"} /\ kind[x] \in Uploading /\ x \in pending ->
                            [upload EXCEPT ![x] = "reading"]
                   [] f[1] = "fin" /\ upload[x] = "last" -> [upload EXCEPT ![x] = "complete"]
                   [] OTHER -> upload
Closes(f) == f[1] = "rst" \/ (f[1] = "fin" /\ remote[f[2]] = "ended")

WriteEnds ==
    /\ sending # NoFrame /\ ~closed /\ ~stopped
    /\ Sent(sending)
    /\ LET x == sending[2]
           s == IF Closes(sending) THEN streams \ {x} ELSE streams IN
       /\ streams' = s
       /\ tunnel' = IF Closes(sending) /\ tunnel[x] = "open" THEN [tunnel EXCEPT ![x] = "closed"]
                    ELSE tunnel
       /\ \/ /\ out # {} /\ sending' = First(out) /\ out' = out \ {First(out)}
             /\ UNCHANGED closed
          \/ /\ out = {} /\ sending' = NoFrame /\ UNCHANGED out /\ closed' = Drained(s, pending, retired)
    /\ UNCHANGED <<kind, pending, timers, body, posted, sid, waiting, remote, outcome, reading,
                   retired, stopped, gone, released, proto, ping, silent>>

\* ping_tick(): a second interval without an answer fails the connection.
PingTick ==
    /\ ping.armed
    /\ silent' = (IF silent \in 1 .. 3 THEN silent + 1 ELSE silent)
    /\ IF stopped \/ retired \/ gone
       THEN ping' = [ping EXCEPT !.armed = FALSE]
            /\ UNCHANGED <<exchange, streams, tunnel, wire, retired, gone>>
       ELSE IF ping.pending /\ ping.misses = 1
       THEN Collapse /\ UNCHANGED sending
       ELSE /\ ping' = [ping EXCEPT !.pending = TRUE, !.misses = IF ping.pending THEN 1 ELSE 0]
            /\ Flush(out \cup {<<"ping", 0>>}, streams, pending, retired)
            /\ UNCHANGED <<exchange, streams, tunnel, retired, gone>>
    /\ UNCHANGED <<kind, sid, waiting, local, remote, outcome, reading, stopped, released, proto>>

\* The peer falls silent, without an error that the socket would report.
PeerFallsSilent == /\ Keepalive /\ ~closed /\ silent = 0 /\ silent' = 1
                   /\ UNCHANGED <<kind, exchange, streams, sid, waiting, local, remote, tunnel,
                                  outcome, wire, reading, retired, stopped, gone, released, proto, ping>>

Owner(x) == (\E k \in Kinds : Submit(x, k)) \/ Refuse(x) \/ Cancel(x) \/ CancelBody(x)
Step(x) == UploadReads(x) \/ TunnelCloses(x) \/ Expire(x) \/ PostedRuns(x)
Frame == \/ \E x \in Exchanges : ResponseHead(x) \/ ResponseData(x) \/ ResponseEnds(x) \/ PeerResets(x)
         \/ \E last \in 0 .. MaxExchanges : Goaway(last)
         \/ (\E on \in BOOLEAN : Settings(on)) \/ PingAck
Next == \/ \E x \in Exchanges : Owner(x) \/ Step(x)
        \/ Frame \/ Stop \/ ReadFails \/ WriteFails \/ WriteEnds \/ IOEnds \/ PingTick
        \/ PeerFallsSilent

Spec == Init /\ [][Next]_vars
\* Timers fire, posted closures run, and the socket's writes end, with what is
\* due on a closed connection too; the peer and the callers owe nothing.
FairSpec == /\ Spec
            /\ \A x \in Exchanges : WF_vars(Expire(x)) /\ WF_vars(PostedRuns(x))
            /\ WF_vars(WriteEnds) /\ WF_vars(IOEnds) /\ WF_vars(PingTick)

-----------------------------------------------------------------------------
\* Every caller gets one terminal, whatever ends its exchange: the response,
\* the deadline, a reset, GOAWAY, the loss of the connection or stop().
OneTerminal ==
    \A x \in Exchanges :
        Len(outcome[x]) + (IF outcome[x] = <<"stopped">> THEN 0 ELSE Len(posted[x])) <= 1

\* An exchange whose terminal is owed is pending with its deadline armed, on
\* a connection that is open, and has a stream or waits for one: neither
\* GOAWAY, nor a connection closed as drained, forgets anybody.
NobodyForgotten ==
    \A x \in Exchanges :
        (kind[x] # "none" /\ outcome[x] = <<>> /\ posted[x] = <<>>)
            => /\ x \in pending /\ x \in timers /\ ~closed
               /\ x \in streams \/ x \in ToSet(waiting)

\* A body that is still open belongs to a stream of an open connection; one
\* without a deadline of its own asked for that; a request body is read and
\* sent only while its exchange is pending.
BodiesAreOwned ==
    \A x \in Exchanges :
        /\ body[x] = "open" => /\ x \in pending /\ x \in streams /\ ~closed
                               /\ kind[x] # "feed" => x \in timers
        /\ upload[x] \in {"reading", "staged", "last"} => x \in pending

\* A tunnel that is open keeps its stream and the connection: a session that
\* was retired by GOAWAY is not closed under it.
TunnelsSurvive == \A x \in Exchanges : tunnel[x] = "open" => x \in streams /\ ~closed

\* stream_ is reset only when no read and no write uses it any more.
AdapterOutlives == released => ~reading /\ sending = NoFrame

\* Two unanswered intervals fail the connection: a peer that fell silent holds
\* the streams of a session that is not retired for three ticks at most.
HostagesFreed == silent = 4 => closed \/ retired

\* Cancelling an exchange, or the end of its deadline, touches no sibling.
EndsAlone ==
    \A x \in Exchanges : Cancel(x) \/ CancelBody(x) \/ Expire(x) =>
        \A y \in Exchanges \ {x} : /\ y \in pending <=> y \in pending'
                                  /\ UNCHANGED <<body[y], upload[y], tunnel[y], posted[y]>>
SiblingsUntouched == [][EndsAlone]_vars

\* Every exchange ends, and a session that is retired and has neither
\* exchanges nor tunnels left closes its connection and lets go of it.
EveryoneTold == /\ \A x \in Exchanges : kind[x] # "none" => outcome[x] # <<>>
                /\ Drained(streams, pending, retired) => closed

StreamsAreSound == /\ TypeOK /\ OneTerminal /\ NobodyForgotten /\ BodiesAreOwned /\ TunnelsSurvive
                   /\ AdapterOutlives /\ HostagesFreed
=============================================================================

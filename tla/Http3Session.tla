---------------------------- MODULE Http3Session ----------------------------
(***************************************************************************)
(* Http3ClientSession (src/transport/http3_client.cpp): exchanges and      *)
(* tunnels over one QUIC connection.  nghttp3 is external: out is what it  *)
(* has to send, one frame per writev_stream().  Of the QUIC connection the *)
(* session sees the events it subscribes to; a write it hands down is      *)
(* consumed later, or dropped when its stream is shut down.  The bytes of  *)
(* a response body are the matter of ExchangeBody.                         *)
(***************************************************************************)
EXTENDS Integers, Sequences, SequencesExt

CONSTANTS MaxExchanges, \* bound: exchanges submitted to the session
          Kinds,        \* the kinds of exchanges that are submitted
          MaxRoom       \* bound: streams the peer allows altogether

Exchanges == 1 .. MaxExchanges
Streamed == {"streaming", "upload", "feed"}  \* exchange_streaming(); the last two with a
Uploading == {"upload", "feed"}              \* request body, "feed" with head_deadline_only
Tunnels == {"tunnel", "upgrade"}             \* open_tunnel(), by CONNECT or extended CONNECT
SessionAssumption == /\ {MaxExchanges, MaxRoom} \subseteq Nat
                     /\ Kinds \subseteq {"buffered"} \cup Streamed \cup Tunnels

NoFrame == <<"none", 0>>  \* ~write_pending_
Lost == <<"lost", 0>>  \* write_pending_, of a write that the connection has dropped
Frames == ({"req", "data", "fin"} \X Exchanges) \cup {<<"control", 0>>}
Of(x) == {<<"req", x>>, <<"data", x>>, <<"fin", x>>}

VARIABLES
    ex,       \* what Pending and the stream maps hold of each exchange
    upload,   \* the request body: "none", "idle", "reading", "staged", "acking", "eof", "cancelled"
    posted,   \* terminals posted to each caller, and "shutdown" closures
    outcome,  \* terminals each caller was given
    order,    \* pending_order_
    room,     \* streams that the peer still allows
    quic,     \* "connecting", "ready", "failed" before the session is told, "over"
    proto,    \* the peer's extended CONNECT: "unknown", "enabled", "disabled"
    out,      \* frames nghttp3 holds
    writing,  \* the frame handed to the connection, NoFrame or Lost: write_pending_
    retired, stopped,
    told      \* calls of failure_handler_

vars == <<ex, upload, posted, outcome, order, room, quic, proto, out, writing, retired, stopped,
          told>>

Pending == [kind : Kinds \cup {"none", "refused"}, pend : BOOLEAN, timer : BOOLEAN,
            stream : {"none", "open", "shut", "closed"}, local : {"none", "sent", "ended"},
            resp : {"silent", "head", "ended", "reset"},
            body : {"none", "open", "eof", "drained", "failed"},
            tunnel : {"none", "open", "closed", "failed"}]
TypeOK ==
    /\ ex \in [Exchanges -> Pending]
    /\ upload \in [Exchanges ->
                     {"none", "idle", "reading", "staged", "acking", "eof", "cancelled"}]
    /\ posted \in [Exchanges -> Seq({"response", "tunnel", "error", "shutdown"})]
    /\ outcome \in [Exchanges -> Seq({"response", "tunnel", "error", "stopped"})]
    /\ order \in Seq(Exchanges) /\ room \in 0 .. MaxRoom
    /\ quic \in {"connecting", "ready", "failed", "over"}
    /\ proto \in {"unknown", "enabled", "disabled"}
    /\ out \subseteq Frames /\ writing \in Frames \cup {NoFrame, Lost}
    /\ {retired, stopped} \subseteq BOOLEAN /\ told \in 0 .. 1

Init ==
    /\ ex = [x \in Exchanges |->
               [kind |-> "none", pend |-> FALSE, timer |-> FALSE, stream |-> "none",
                local |-> "none", resp |-> "silent", body |-> "none", tunnel |-> "none"]]
    /\ upload = [x \in Exchanges |-> "none"]
    /\ posted = [x \in Exchanges |-> <<>>] /\ outcome = [x \in Exchanges |-> <<>>]
    /\ order = <<>> /\ room \in 0 .. MaxRoom /\ quic = "connecting" /\ proto = "unknown"
    /\ out = {} /\ writing = NoFrame /\ retired = FALSE /\ stopped = FALSE /\ told = 0

\* http3_ exists from on_quic_ready() until the session is retired.
Live == quic' \in {"ready", "failed"} /\ ~retired
\* What the writing of f makes of the request bodies u.
Pulled(f, u) == CASE f[1] = "req" /\ u[f[2]] = "idle" -> [u EXCEPT ![f[2]] = "reading"]
                  [] f[1] = "data" /\ u[f[2]] = "staged" -> [u EXCEPT ![f[2]] = "acking"]
                  [] OTHER -> u

(***************************************************************************)
(* pump_output() after the write w, with o to be sent and request bodies   *)
(* u: one write at a time.  nghttp3 pulls the body behind a request's      *)
(* head, which starts its first read, and takes a staged chunk, which is   *)
(* kept until it is acked.                                                 *)
(***************************************************************************)
PumpAfter(w, o, u) ==
    LET idle == Live /\ w = NoFrame IN
    \/ idle /\ \E f \in o : writing' = f /\ out' = o \ {f} /\ upload' = Pulled(f, u)
    \/ ~(idle /\ o # {}) /\ out' = o /\ upload' = u /\ writing' = w
Pump(o, u) == PumpAfter(writing, o, u)

\* QuicClientConnection::shutdown_stream() drops the writes it holds of x.
Drop(x) == IF writing \in Of(x) THEN Lost ELSE writing

(***************************************************************************)
(* open_pending_requests() with exchanges e and pending_order_ q: streams  *)
(* in order while the peer allows them; an extended CONNECT waits for      *)
(* SETTINGS and fails without support.  When the peer allows no more the   *)
(* loop returns before it sends what it has submitted, which is left to    *)
(* the caller: on_stream_data() pumps after it, the others do not.         *)
(***************************************************************************)
Waits(e, x) == e[x].pend /\ e[x].stream = "none"
Wanted(e, q) == SelectSeq(q, LAMBDA x : Waits(e, x) /\ (e[x].kind = "upgrade" => proto' = "enabled"))
Unsupported(e, S) == {x \in S : Waits(e, x) /\ e[x].kind = "upgrade" /\ proto' = "disabled"}
\* The part of q that the loop sees: up to the first request without a stream.
Seen(q, want, n) ==
    IF n = Len(want) THEN ToSet(q)
    ELSE {q[i] : i \in 1 .. (CHOOSE i \in 1 .. Len(q) : q[i] = want[n + 1])}
FailTerminal(e, x) == IF e[x].body = "none" THEN Append(posted[x], "error") ELSE posted[x]

OpenPendingRequests(e, q, w, u, pumps) ==
    IF ~(quic' = "ready" /\ ~retired)
    THEN ex' = e /\ order' = q /\ writing' = w /\ upload' = u /\ UNCHANGED <<out, room, posted>>
    ELSE LET want == Wanted(e, q)
             n == IF Len(want) <= room THEN Len(want) ELSE room
             got == ToSet(SubSeq(want, 1, n))
             bad == Unsupported(e, Seen(q, want, n))
             sent == out \cup {<<"req", x>> : x \in got}
         IN /\ ex' = [x \in Exchanges |->
                        CASE x \in got -> [e[x] EXCEPT !.stream = "open"]
                          [] x \in bad -> [e[x] EXCEPT !.pend = FALSE, !.timer = FALSE]
                          [] OTHER -> e[x]]
            /\ posted' = [x \in Exchanges |-> IF x \in bad THEN FailTerminal(e, x) ELSE posted[x]]
            /\ room' = room - n
            /\ order' = (IF n < Len(want) THEN q ELSE SelectSeq(q, LAMBDA x : Waits(ex', x)))
            /\ IF n = Len(want) \/ pumps THEN PumpAfter(w, sent, u)
               ELSE out' = sent /\ upload' = u /\ writing' = w

(***************************************************************************)
(* fail_pending(): the exchange ends with an error; its stream is shut     *)
(* down in both directions, or forgotten when the connection has failed.   *)
(***************************************************************************)
\* Mutant: the body of a response whose exchange fails is left open.
FailedKeepsBody(e) ==
    [e EXCEPT !.pend = FALSE, !.timer = FALSE,
              !.stream = IF @ = "open" THEN IF quic = "ready" THEN "shut" ELSE "closed" ELSE @]
Failed(e) ==
    [e EXCEPT !.pend = FALSE, !.timer = FALSE, !.body = IF @ = "open" THEN "failed" ELSE @,
              !.stream = IF @ = "open" THEN IF quic = "ready" THEN "shut" ELSE "closed" ELSE @]
CutUpload(x) == [upload EXCEPT ![x] = IF @ \in {"none", "eof"} THEN @ ELSE "cancelled"]
FailPending(x) ==
    /\ ex[x].pend
    /\ ex' = [ex EXCEPT ![x] = Failed(@)]
    /\ upload' = CutUpload(x)
    /\ posted' = [posted EXCEPT ![x] = FailTerminal(ex, x)]
    /\ out' = out \ Of(x)
    /\ writing' = IF ex[x].stream = "open" /\ quic = "ready" THEN Drop(x) ELSE writing
    /\ UNCHANGED <<order, room, proto, quic, retired, stopped, told>>

(***************************************************************************)
(* fail_all(): bodies and tunnels of the streams fail, then every exchange *)
(* that is still owed a terminal gets one.                                 *)
(***************************************************************************)
FailAll ==
    /\ retired' = TRUE
    /\ ex' = [x \in Exchanges |->
                [ex[x] EXCEPT !.pend = FALSE, !.timer = FALSE,
                   !.stream = IF @ = "none" THEN @ ELSE "closed",
                   !.body = IF @ = "open" /\ ex[x].stream \in {"open", "shut"} THEN "failed" ELSE @,
                   !.tunnel = IF @ = "open" /\ ex[x].stream \in {"open", "shut"} THEN "failed"
                              ELSE @]]
    /\ upload' = [x \in Exchanges |-> IF ex[x].pend /\ upload[x] \notin {"none", "eof"}
                                      THEN "cancelled" ELSE upload[x]]
    /\ posted' = [x \in Exchanges |-> IF ex[x].pend THEN FailTerminal(ex, x) ELSE posted[x]]
    /\ order' = <<>> /\ out' = {} /\ UNCHANGED <<writing, room, proto>>

-----------------------------------------------------------------------------
(* The owner and its exchanges. *)

Fresh(x) == ex[x].kind = "none" /\ \A y \in Exchanges : y < x => ex[y].kind # "none"
life == <<quic, retired, stopped, told>>

\* A refused call: the session is over, or the request or its deadline is bad.
Refuse(x) ==
    /\ Fresh(x) /\ ex' = [ex EXCEPT ![x].kind = "refused"]
    /\ outcome' = [outcome EXCEPT ![x] = <<"error">>]
    /\ UNCHANGED <<upload, posted, order, room, proto, out, writing, life>>

\* exchange(), exchange_streaming(), open_tunnel().
Submit(x, k) ==
    /\ Fresh(x) /\ ~stopped /\ ~retired /\ UNCHANGED <<proto, life, outcome>>
    /\ OpenPendingRequests([ex EXCEPT ![x].kind = k, ![x].pend = TRUE, ![x].timer = TRUE],
                           Append(order, x), writing,
                           [upload EXCEPT ![x] = IF k \in Uploading THEN "idle" ELSE @], FALSE)

\* The caller is stopped: let_stopped() cancels what is still pending.
Cancel(x) ==
    /\ ex[x].kind # "none" /\ outcome[x] = <<>>
    /\ outcome' = [outcome EXCEPT ![x] = <<"stopped">>]
    /\ FailPending(x) \/ (~ex[x].pend /\ UNCHANGED <<ex, upload, posted, order, room, proto, out,
                                                     writing, life>>)

\* The consumer of a response body cancels it.
CancelBody(x) == ex[x].body = "open" /\ outcome[x] = <<"response">> /\ FailPending(x)
                 /\ UNCHANGED outcome

\* complete_streaming_response(): the exchange stays pending, under its
\* deadline, until its body was drained.
DrainBody(x) == /\ ex[x].body = "eof" /\ outcome[x] = <<"response">>
                /\ ex' = [ex EXCEPT ![x].body = "drained", ![x].pend = FALSE, ![x].timer = FALSE]
                /\ UNCHANGED <<upload, posted, outcome, order, room, proto, out, writing, life>>

\* run_deadline().
Expire(x) == ex[x].timer /\ FailPending(x) /\ UNCHANGED outcome

\* post_terminal(), and the closure of finish_streaming_response() that stops
\* nghttp3 from writing the rest of the request; the QUIC stream stays.
PostedRuns(x) ==
    /\ posted[x] # <<>> /\ posted' = [posted EXCEPT ![x] = Tail(@)]
    /\ IF posted[x][1] = "shutdown"
       THEN out' = out \ Of(x) /\ UNCHANGED outcome
       ELSE /\ outcome' = [outcome EXCEPT ![x] = IF @ = <<"stopped">> THEN @
                                                 ELSE Append(@, posted[x][1])]
            /\ UNCHANGED out
    /\ UNCHANGED <<ex, upload, order, room, proto, writing, life>>

\* on_request_body_read(): bytes, the end, or a source that fails, makes no
\* progress or does not keep its Content-Length.
UploadReads(x) ==
    /\ upload[x] = "reading" /\ ex[x].pend /\ ~retired /\ UNCHANGED <<outcome, quic>>
    /\ \/ /\ \/ Pump(out \cup {<<"data", x>>}, [upload EXCEPT ![x] = "staged"])
             \/ Pump(out \cup {<<"fin", x>>}, [upload EXCEPT ![x] = "eof"])
          /\ UNCHANGED <<ex, posted, order, room, proto, life>>
       \/ FailPending(x)

\* on_stream_data_acked(): the next chunk is read.
Acked(x) ==
    /\ upload[x] = "acking" /\ <<"data", x>> # writing /\ ex[x].stream = "open" /\ quic = "ready"
    /\ upload' = [upload EXCEPT ![x] = "reading"]
    /\ UNCHANGED <<ex, posted, outcome, order, room, proto, out, writing, life>>

\* The closures of accept_tunnel(): half close, and close.
TunnelEnds(x) == /\ ex[x].tunnel = "open" /\ ex[x].local = "sent" /\ outcome[x] = <<"tunnel">>
                 /\ <<"fin", x>> # writing /\ UNCHANGED life
                 /\ Pump(out \cup {<<"fin", x>>}, upload)
                 /\ UNCHANGED <<ex, posted, outcome, order, room, proto>>
TunnelCloses(x) ==
    /\ ex[x].tunnel = "open" /\ outcome[x] = <<"tunnel">>
    /\ ex' = [ex EXCEPT ![x].tunnel = "closed",
                        ![x].stream = IF @ = "open" /\ quic = "ready" THEN "shut" ELSE @]
    /\ out' = out \ Of(x) /\ writing' = IF quic = "ready" THEN Drop(x) ELSE writing
    /\ UNCHANGED <<upload, posted, outcome, order, room, proto, life>>

\* stop(): the connection's close() is posted.
Stop == /\ ~stopped /\ stopped' = TRUE /\ quic' = "over"
        /\ IF retired THEN UNCHANGED <<ex, upload, posted, order, room, proto, out, writing, retired>>
           ELSE FailAll
        /\ UNCHANGED <<outcome, told>>

-----------------------------------------------------------------------------
(* The connection. *)

\* on_quic_ready(): the control streams are written first.  Without "h3", or
\* when the session cannot be set up, it fails.
ConnectionFailed == /\ FailAll /\ told' = told + 1 /\ UNCHANGED <<stopped, outcome>>
Ready == /\ quic = "connecting" /\ ~retired /\ quic' = "ready"
         /\ \/ /\ UNCHANGED <<outcome, proto, retired, stopped, told>>
               /\ OpenPendingRequests(ex, order, <<"control", 0>>, upload, FALSE)
            \/ ConnectionFailed

\* The connection fails: it drops what it holds, and tells the session once
\* no send of it is in progress.
QuicFails == /\ quic \in {"connecting", "ready"} /\ quic' = "failed"
             /\ UNCHANGED <<ex, upload, posted, outcome, order, room, proto, out, writing, retired,
                            stopped, told>>
FailureTold == /\ quic = "failed" /\ quic' = "over"
               /\ IF retired THEN UNCHANGED <<ex, upload, posted, outcome, order, room, proto, out,
                                              writing, retired, stopped, told>>
                  ELSE ConnectionFailed

\* on_stream_write_consumed(), complete: the next frame is handed down.
Sent(x, what) ==
    IF what = "fin" \/ (what = "req" /\ ex[x].kind \in {"buffered", "streaming"}) THEN "ended"
    ELSE IF what = "control" THEN "none" ELSE "sent"
WriteConsumed ==
    /\ writing \notin {NoFrame, Lost} /\ quic = "ready" /\ ~retired
    /\ LET x == writing[2] IN
       ex' = IF x = 0 THEN ex ELSE [ex EXCEPT ![x].local = Sent(x, writing[1])]
    /\ \/ \E f \in out : writing' = f /\ out' = out \ {f} /\ upload' = Pulled(f, upload)
       \/ out = {} /\ writing' = NoFrame /\ UNCHANGED <<out, upload>>
    /\ UNCHANGED <<posted, outcome, order, room, proto, life>>

\* on_stream_data(), the first SETTINGS; it matters to extended CONNECT alone.
Settings(enabled) ==
    /\ quic = "ready" /\ ~retired /\ proto = "unknown" /\ "upgrade" \in Kinds
    /\ proto' = (IF enabled THEN "enabled" ELSE "disabled")
    /\ UNCHANGED <<outcome, life>>
    /\ OpenPendingRequests(ex, order, writing, upload, TRUE)

\* stream_capacity: the peer allows one more stream.
StreamCapacity ==
    /\ quic = "ready" /\ ~retired /\ room = 0 /\ UNCHANGED <<proto, life>>
    /\ LET want == Wanted(ex, order) IN
       /\ want # <<>>
       /\ ex' = [ex EXCEPT ![want[1]].stream = "open"]
       /\ IF Len(want) > 1
          THEN out' = out \cup {<<"req", want[1]>>} /\ UNCHANGED <<order, upload, writing>>
          ELSE /\ order' = SelectSeq(order, LAMBDA x : Waits(ex', x))
               /\ Pump(out \cup {<<"req", want[1]>>}, upload)
    /\ UNCHANGED <<posted, outcome, room>>

\* A stream that the peer may use: its request was sent, it has not ended it.
Heard(x) == ex[x].stream = "open" /\ ex[x].local # "none" /\ quic = "ready" /\ ~retired
still == <<outcome, order, room, proto, life>>

\* on_end_headers() with a final status.
AcceptTunnel(x) ==
    /\ ex' = [ex EXCEPT ![x].resp = "head", ![x].tunnel = "open", ![x].pend = FALSE,
                        ![x].timer = FALSE]
    /\ posted' = [posted EXCEPT ![x] = Append(@, "tunnel")]
DeliverHead(x) ==
    /\ ex' = [ex EXCEPT ![x].resp = "head", ![x].body = "open",
                        ![x].timer = @ /\ ex[x].kind # "feed"]
    /\ posted' = [posted EXCEPT ![x] = Append(@, "response")]
ResponseHead(x) ==
    /\ Heard(x) /\ ex[x].resp = "silent" /\ UNCHANGED still /\ Pump(out, upload)
    /\ \/ ex[x].kind \in Tunnels /\ AcceptTunnel(x)
       \/ ex[x].kind \in Streamed /\ DeliverHead(x)
       \/ ex[x].kind \notin Streamed /\ ex' = [ex EXCEPT ![x].resp = "head"] /\ UNCHANGED posted

\* on_body(): more than the body's queue or the limit of a response holds.
Overflow(x) == /\ Heard(x) /\ ex[x].resp = "head" /\ FailPending(x) /\ UNCHANGED outcome

\* finish_pending(), and finish_streaming_response(): a request body that is
\* not at its end is cancelled, and nghttp3 told so later.
FinishPending(x) ==
    /\ ex' = [ex EXCEPT ![x].resp = "ended", ![x].pend = FALSE, ![x].timer = FALSE]
    /\ posted' = [posted EXCEPT ![x] = Append(@, "response")]
    /\ Pump(out, upload)
FinishStreaming(x) ==
    LET cut == upload[x] \notin {"none", "eof"} IN
    /\ ex' = [ex EXCEPT ![x].resp = "ended", ![x].body = "eof"]
    /\ posted' = IF cut THEN [posted EXCEPT ![x] = Append(@, "shutdown")] ELSE posted
    /\ Pump(out, IF cut THEN [upload EXCEPT ![x] = "cancelled"] ELSE upload)
\* on_end_stream().
ResponseEnds(x) ==
    /\ Heard(x) /\ ex[x].resp = "head" /\ UNCHANGED still
    /\ \/ ex[x].pend /\ ex[x].kind \notin Streamed /\ FinishPending(x)
       \/ ex[x].pend /\ ex[x].kind \in Streamed /\ FinishStreaming(x)
       \/ /\ ex[x].tunnel # "none"
          /\ ex' = [ex EXCEPT ![x].resp = "ended"] /\ Pump(out, upload) /\ UNCHANGED posted

\* on_stream_reset().
PeerResets(x) ==
    /\ Heard(x) /\ ex[x].resp \in {"silent", "head"}
    /\ \/ /\ ex[x].tunnel = "open"
          /\ ex' = [ex EXCEPT ![x].resp = "reset", ![x].tunnel = "failed"]
          /\ UNCHANGED <<upload, posted, out, writing, still>>
       \/ ex[x].pend /\ FailPending(x) /\ UNCHANGED outcome

\* on_stream_closed(): the connection is done with a stream that was shut down,
\* that both sides ended, or whose sending the peer stopped.
StreamCloses(x) ==
    /\ quic = "ready" /\ ~retired
    /\ \/ ex[x].stream = "shut"
       \/ ex[x].stream = "open" /\ ex[x].resp \in {"ended", "reset"}
    /\ LET t == ex[x].tunnel
           end == IF t # "open" THEN t ELSE IF ex[x].local = "ended" THEN "closed" ELSE "failed"
       IN ex' = [ex EXCEPT ![x].stream = "closed", ![x].tunnel = end]
    /\ out' = out \ Of(x) /\ writing' = Drop(x)
    /\ UNCHANGED <<upload, posted, outcome, order, room, proto, life>>

Owner(x) == (\E k \in Kinds : Submit(x, k)) \/ Refuse(x) \/ Cancel(x) \/ CancelBody(x)
            \/ DrainBody(x)
Step(x) == Expire(x) \/ PostedRuns(x) \/ UploadReads(x) \/ Acked(x) \/ TunnelEnds(x)
           \/ TunnelCloses(x)
Peer(x) == ResponseHead(x) \/ Overflow(x) \/ ResponseEnds(x) \/ PeerResets(x) \/ StreamCloses(x)
Next == \/ \E x \in Exchanges : Owner(x) \/ Step(x) \/ Peer(x)
        \/ Stop \/ Ready \/ QuicFails \/ FailureTold \/ WriteConsumed \/ StreamCapacity
        \/ \E on \in BOOLEAN : Settings(on)

Spec == Init /\ [][Next]_vars
\* Timers fire, posted closures run and a failure is reported.
FairSpec == Spec /\ WF_vars(FailureTold)
            /\ \A x \in Exchanges : WF_vars(Expire(x)) /\ WF_vars(PostedRuns(x))

-----------------------------------------------------------------------------
\* Every caller gets one terminal, whatever ends its exchange.
Results(s) == SelectSeq(s, LAMBDA r : r # "shutdown")
OneTerminal ==
    \A x \in Exchanges :
        Len(outcome[x]) + (IF outcome[x] = <<"stopped">> THEN 0 ELSE Len(Results(posted[x]))) <= 1

\* An exchange whose terminal is owed is pending, its deadline armed, and has
\* an open stream or its place in the order; also between the failure of the
\* connection and the session's learning of it.
NobodyForgotten ==
    \A x \in Exchanges :
        (ex[x].kind # "none" /\ outcome[x] = <<>> /\ Results(posted[x]) = <<>>)
            => /\ ex[x].pend /\ ex[x].timer /\ ~retired
               /\ ex[x].stream = "open" \/ (ex[x].stream = "none" /\ x \in ToSet(order))

\* A stream that the peer allows is used: nobody waits in the order while the
\* connection is ready and has room, but an upgrade before SETTINGS.
RoomIsUsed ==
    (quic = "ready" /\ ~retired /\ room > 0) =>
        \A x \in ToSet(order) : Waits(ex, x) => ex[x].kind = "upgrade" /\ proto = "unknown"

\* An open body belongs to a pending exchange with a stream; one that is done
\* but not drained is pending until its deadline; a request body is read only
\* for an exchange whose response has not ended.
BodiesAreOwned ==
    \A x \in Exchanges :
        /\ ex[x].body = "open" => ex[x].pend /\ ex[x].stream = "open" /\ ~retired
        /\ ex[x].timer => ex[x].pend
        /\ upload[x] \in {"idle", "reading", "staged"} => ex[x].pend /\ ex[x].body # "eof"
        /\ ex[x].tunnel = "open" => ex[x].stream = "open" /\ ~retired

\* The owner hears of a failure once, and not at all after it stopped.
ToldOnce == told = 1 => retired

\* The connection carries on writing: write_pending_ stands for a write that
\* the connection holds, unless the stream it was for was shut down or closed
\* under it.
WritesAreHeld ==
    writing = Lost => \E x \in Exchanges : ex[x].stream \in {"shut", "closed"}

\* Every exchange can be aborted "without disturbing its siblings": a pending one
\* with something to send does not wait for a write of another that is gone.
SiblingsKeepFlowing == writing = Lost => \A x \in Exchanges : ex[x].pend => Of(x) \cap out = {}

\* Cancelling an exchange, or its deadline, changes nothing of a sibling in that step; its
\* later writes are another matter (SiblingsKeepFlowing).
EndsAlone ==
    \A x \in Exchanges : Cancel(x) \/ CancelBody(x) \/ Expire(x) =>
        \A y \in Exchanges \ {x} : UNCHANGED <<ex[y], upload[y], posted[y]>>

EveryoneTold == \A x \in Exchanges : ex[x].kind # "none" => outcome[x] # <<>>

Http3IsSound == /\ TypeOK /\ OneTerminal /\ NobodyForgotten /\ RoomIsUsed /\ BodiesAreOwned
                /\ ToldOnce /\ WritesAreHeld
=============================================================================

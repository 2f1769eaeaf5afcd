---------------------------- MODULE HttpForward -----------------------------
(***************************************************************************)
(* The HTTP side of proxy::ProxySession (src/proxy/proxy_session_http.cpp, *)
(* with close() and open_target() of proxy_session.cpp and                 *)
(* ProxyRequestBodyStream of proxy_stream.cpp): requests read one after    *)
(* the other from a client connection, answered locally, forwarded,        *)
(* upgraded or tunnelled.  The session runs on one strand; a step is what  *)
(* happens between two awaits.  The exchange with the origin is an         *)
(* Http1Session: it uploads the whole request body before it reads a       *)
(* response, and its deadline bounds it.                                   *)
(*                                                                         *)
(* The client's bytes are tokens: the head of a request, and its body.     *)
(***************************************************************************)
EXTENDS Integers, Sequences

CONSTANTS Kinds,        \* the kinds of request the client sends
          MaxRequests   \* bound: requests on the connection

\* "get" and "post" in absolute form, "expect" a post with Expect:
\* 100-continue, "options" an OPTIONS *, "denied" without good credentials,
\* "bad" one begin_http_forward() refuses; the last two letters "+b": with a
\* body.
AllKinds == {"get", "post", "expect", "connect", "upgrade", "options", "options+b",
             "denied", "denied+b", "bad"}
HasBody(k) == k \in {"post", "expect", "options+b", "denied+b"}

KindsAssumption == Kinds \subseteq AllKinds /\ MaxRequests \in Nat

VARIABLES
    asked,     \* the requests the client has sent, [kind, keep]
    input,     \* tokens not yet parsed: http_buffer_ and the socket
    clientEnded, \* the client has half closed
    receiving, \* the receive side of the client socket is not shut down
    awaited,   \* what the session awaits; "nobody" when no loop of it goes on
    req,       \* the request being handled; 0 if none
    keep,      \* http_client_keep_alive_
    reuse,     \* http_exchange_keep_alive_
    bodied,    \* http_request_body_ is set
    answer,    \* the local answer being written, [status, keep]
    remote,    \* remote_ or the exchange session that owns it
    ids,       \* connections in the registry
    connId,    \* connection_id_
    replies,   \* final responses written, [to, status, keep]
    misread    \* a request body was parsed as a request head

httpVars == <<asked, input, clientEnded, receiving, awaited, req, keep, reuse, bodied, answer,
              remote, ids, connId, replies, misread>>
clientSide == <<asked, clientEnded>>
Requests == 1 .. MaxRequests

HttpTypeOK ==
    /\ asked \in Seq([kind : Kinds, keep : BOOLEAN])
    /\ input \in Seq([of : Requests, part : {"head", "body"}])
    /\ clientEnded \in BOOLEAN /\ receiving \in BOOLEAN /\ keep \in BOOLEAN /\ reuse \in BOOLEAN
    /\ bodied \in BOOLEAN /\ misread \in BOOLEAN
    /\ awaited \in {"headers", "answering", "continuing", "opening", "exchange", "tunnel",
                  "head", "body", "trailers", "established", "relay", "closed", "nobody"}
    /\ req \in 0 .. MaxRequests
    /\ answer \in [status : {0, 200, 400, 403, 407, 502}, keep : BOOLEAN]
    /\ remote \in BOOLEAN /\ ids \subseteq Requests /\ connId \in 0 .. MaxRequests
    /\ replies \in Seq([to : 0 .. MaxRequests, status : {101, 200, 400, 403, 407, 502},
                        keep : BOOLEAN])

NoAnswer == [status |-> 0, keep |-> FALSE]

HttpInit ==
    /\ asked = <<>> /\ input = <<>> /\ clientEnded = FALSE /\ receiving = TRUE
    /\ awaited = "headers" /\ req = 0 /\ keep = FALSE /\ reuse = FALSE /\ bodied = FALSE
    /\ answer = NoAnswer /\ remote = FALSE /\ ids = {} /\ connId = 0
    /\ replies = <<>> /\ misread = FALSE

-----------------------------------------------------------------------------
(* The client. *)

ClientSends(k, ka) ==
    /\ ~clientEnded /\ awaited # "closed" /\ Len(asked) < MaxRequests
    /\ asked' = Append(asked, [kind |-> k, keep |-> ka])
    /\ LET r == Len(asked) + 1 IN
       input' = input \o <<[of |-> r, part |-> "head"]>>
                      \o (IF HasBody(k) THEN <<[of |-> r, part |-> "body"]>> ELSE <<>>)
    /\ UNCHANGED <<clientEnded, receiving, awaited, req, keep, reuse, bodied, answer, remote, ids,
                   connId, replies, misread>>

ClientEnds == /\ ~clientEnded /\ awaited # "closed" /\ clientEnded' = TRUE
              /\ UNCHANGED <<asked, input, receiving, awaited, req, keep, reuse, bodied, answer,
                             remote, ids, connId, replies, misread>>

-----------------------------------------------------------------------------
(* The ends of an exchange. *)

\* close(): everything the session holds is released.
CloseHttp == /\ awaited' = "closed" /\ remote' = FALSE /\ bodied' = FALSE
         /\ ids' = ids \ {connId} /\ connId' = 0 /\ req' = 0 /\ answer' = NoAnswer

\* Mutant: the receive side is shut down after every exchange.
ResetShuts ==
    /\ bodied' = FALSE /\ receiving' = FALSE /\ remote' = FALSE
    /\ ids' = ids \ {connId} /\ connId' = 0
    /\ keep' = FALSE /\ reuse' = FALSE /\ req' = 0 /\ answer' = NoAnswer

\* reset_http_forward_exchange(): cancelling the request body shuts down the
\* receive side of the client socket.
Reset ==
    /\ bodied' = FALSE /\ receiving' = (receiving /\ ~bodied) /\ remote' = FALSE
    /\ ids' = ids \ {connId} /\ connId' = 0
    /\ keep' = FALSE /\ reuse' = FALSE /\ req' = 0 /\ answer' = NoAnswer

\* finish_http_forward(): read the next request, or close.
FinishHttpForward == IF keep /\ reuse
          THEN Reset /\ awaited' = "headers"
          ELSE CloseHttp /\ receiving' = (receiving /\ ~bodied) /\ keep' = FALSE /\ reuse' = FALSE

Replied(status, ka) == replies' = Append(replies, [to |-> req, status |-> status, keep |-> ka])

\* send_http_forward_response(), send_http_auth_response(), send_http_response().
Respond(status, ka) == /\ awaited' = "answering"
                       /\ answer' = [status |-> status, keep |-> ka]

AnswerWritten ==
    /\ awaited = "answering" /\ Replied(answer.status, answer.keep)
    /\ IF answer.keep THEN FinishHttpForward ELSE CloseHttp /\ UNCHANGED <<receiving, keep, reuse>>
    /\ UNCHANGED <<clientSide, input, misread>>

\* close() from outside (stop, kill), or because a write to the client failed.
CloseSession ==
    /\ awaited # "closed" /\ CloseHttp
    /\ UNCHANGED <<clientSide, input, receiving, keep, reuse, replies, misread>>

-----------------------------------------------------------------------------
(* run_http_headers(), handle_http_headers() and begin_http_forward().      *)

\* The header read fails: end of stream, or bytes that are no request head.
\* With the receive side shut down, nothing more arrives.
HeaderFails ==
    /\ awaited = "headers" /\ Respond(400, FALSE)
    /\ \/ /\ input = <<>> /\ (clientEnded \/ ~receiving)
          /\ UNCHANGED <<input, misread>>
       \/ /\ input # <<>> /\ input[1].part = "body"
          /\ misread' = TRUE /\ input' = Tail(input)
    /\ UNCHANGED <<clientSide, receiving, req, keep, reuse, bodied, remote, ids, connId, replies>>

\* open_target(): the connection is registered, and the outbound opens it.
OpenTarget(r) == /\ awaited' = "opening" /\ ids' = ids \cup {r} /\ connId' = r

\* Mutant: a denied request with a body keeps the connection.
DeniedKeeps(k, ka) == Respond(407, ka) /\ reuse' = ka
Denied(k, ka) == LET again == ka /\ ~HasBody(k) IN
                 \E status \in {403, 407} : Respond(status, again) /\ reuse' = again

BeginHttpForward(r, k, ka) ==
    \/ /\ k \in {"denied", "denied+b"} /\ Denied(k, ka) /\ UNCHANGED <<bodied, ids, connId>>
    \/ /\ k = "bad" /\ Respond(400, FALSE) /\ UNCHANGED <<reuse, bodied, ids, connId>>
    \/ /\ k \in {"options", "options+b"} /\ Respond(200, ka) /\ reuse' = ka
       /\ UNCHANGED <<bodied, ids, connId>>
    \/ /\ k = "expect" /\ awaited' = "continuing" /\ bodied' = TRUE
       /\ UNCHANGED <<reuse, answer, ids, connId>>
    \/ /\ k \in {"get", "post", "connect", "upgrade"} /\ OpenTarget(r) /\ bodied' = HasBody(k)
       /\ UNCHANGED <<reuse, answer>>

HeaderRead ==
    /\ awaited = "headers" /\ input # <<>> /\ input[1].part = "head"
    /\ input' = Tail(input)
    /\ LET r == input[1].of IN
       /\ req' = r /\ keep' = asked[r].keep /\ BeginHttpForward(r, asked[r].kind, asked[r].keep)
    /\ UNCHANGED <<clientSide, receiving, remote, replies, misread>>

\* run_client_write_then_open(): the 100 response is written.
ContinueWritten ==
    /\ awaited = "continuing" /\ OpenTarget(req)
    /\ UNCHANGED <<clientSide, input, receiving, req, keep, reuse, bodied, answer, remote,
                   replies, misread>>

Kind == asked[req].kind

\* handle_open_result()
OpenFails ==
    /\ awaited = "opening" /\ (\E status \in {403, 502} : Respond(status, FALSE))
    /\ UNCHANGED <<clientSide, input, receiving, req, keep, reuse, bodied, remote, ids, connId,
                   replies, misread>>
OpenSucceeds ==
    /\ awaited = "opening" /\ remote' = TRUE
    /\ awaited' = CASE Kind = "connect" -> "established" [] Kind = "upgrade" -> "tunnel"
                  [] OTHER -> "exchange"
    /\ UNCHANGED <<clientSide, input, receiving, req, keep, reuse, bodied, answer, ids, connId,
                   replies, misread>>

-----------------------------------------------------------------------------
(* run_http_forward_exchange(), run_http_forward_response(),                *)
(* run_http_forward_body() and write_http_forward_trailers().              *)

\* ProxyRequestBodyStream gives the exchange the body of the request.
UploadBody ==
    /\ awaited = "exchange" /\ input # <<>> /\ input[1] = [of |-> req, part |-> "body"]
    /\ input' = Tail(input)
    /\ UNCHANGED <<clientSide, receiving, awaited, req, keep, reuse, bodied, answer, remote, ids,
                   connId, replies, misread>>

Uploaded == ~(bodied /\ input # <<>> /\ input[1] = [of |-> req, part |-> "body"])

\* The exchange fails, at any point, or the response cannot be forwarded.
ExchangeFails ==
    /\ awaited = "exchange" /\ (\E status \in {403, 502} : Respond(status, FALSE))
    /\ UNCHANGED <<clientSide, input, receiving, req, keep, reuse, bodied, remote, ids, connId,
                   replies, misread>>

EarlyResponse ==
    /\ awaited = "exchange" /\ awaited' = "head"
    /\ \E origin \in BOOLEAN : reuse' = (keep /\ origin)
    /\ UNCHANGED <<clientSide, input, receiving, req, keep, bodied, answer, remote, ids, connId,
                   replies, misread>>
ResponseHead == Uploaded /\ EarlyResponse

\* The head of the response is written; a response without a body is over.
HeadWritten ==
    /\ awaited = "head"
    /\ \/ /\ awaited' = "body"
          /\ UNCHANGED <<receiving, req, keep, reuse, bodied, answer, remote, ids, connId, replies>>
       \/ Replied(200, keep /\ reuse) /\ FinishHttpForward
    /\ UNCHANGED <<clientSide, input, misread>>

\* The body is pulled to its end.  A pull that ends with operation_aborted, as when the
\* outbound's HTTP client stops, ends the loop, and nobody goes on with the session; one
\* that fails otherwise closes the session.
BodyRead == /\ awaited = "body" /\ awaited' \in {"trailers", "nobody"}
            /\ UNCHANGED <<clientSide, input, receiving, req, keep, reuse, bodied, answer, remote,
                           ids, connId, replies, misread>>

TrailersWritten ==
    /\ awaited = "trailers" /\ Replied(200, keep /\ reuse) /\ FinishHttpForward
    /\ UNCHANGED <<clientSide, input, misread>>

-----------------------------------------------------------------------------
(* run_http_upgrade_exchange(), run_http_upgrade_response(), run_http_response(). *)

TunnelRefused ==
    /\ awaited = "tunnel" /\ Respond(502, FALSE)
    /\ UNCHANGED <<clientSide, input, receiving, req, keep, reuse, bodied, remote, ids, connId,
                   replies, misread>>

\* start_relay(): the client stream and the remote one go to the relay.
Relay == /\ awaited' = "relay"
         /\ UNCHANGED <<clientSide, input, receiving, req, keep, reuse, bodied, answer, remote,
                        ids, connId, misread>>
TunnelOpens == awaited = "tunnel" /\ Replied(101, FALSE) /\ Relay
Established == awaited = "established" /\ Replied(200, FALSE) /\ Relay

Session == \/ AnswerWritten \/ HeaderFails \/ HeaderRead \/ ContinueWritten
           \/ OpenFails \/ OpenSucceeds \/ UploadBody \/ ExchangeFails \/ ResponseHead
           \/ HeadWritten \/ BodyRead \/ TrailersWritten \/ TunnelRefused \/ TunnelOpens
           \/ Established
Client == ClientEnds \/ \E k \in Kinds, ka \in BOOLEAN : ClientSends(k, ka)
HttpNext == Client \/ Session \/ CloseSession

HttpSpec == HttpInit /\ [][HttpNext]_httpVars
\* The strand runs what is ready; the outbound's timeouts and the deadline of
\* the exchange make an answer ready.
HttpFairSpec == HttpSpec /\ WF_httpVars(Session)

-----------------------------------------------------------------------------
Final == {i \in 1 .. Len(replies) : replies[i].to # 0}

\* Responses leave in the order of the requests, one for each: a pipelined
\* request is never answered before, or with the answer of, another one.
RepliesInOrder == \A i \in Final : replies[i].to = i

\* What was the body of a request is never parsed as the next request, after
\* an answer that did not wait for the body.
BodyIsNoRequest == ~misread

\* The registry lists the exchange that holds an upstream connection, under
\* the identifier the session would remove, and nothing once it is over.
RegistryIsExact == ids = (IF connId = 0 THEN {} ELSE {connId})

\* Between two requests, and after the last, no upstream connection is held.
UpstreamReleased == awaited \in {"headers", "closed"} => ~remote /\ connId = 0

\* A client that was promised keep-alive and sends a well-formed request is
\* not answered 400: the connection can carry the next request.
PromiseKept ==
    \A i \in 1 .. Len(replies) :
        (i > 1 /\ replies[i].status = 400)
            => \/ replies[i].to # 0 /\ asked[replies[i].to].kind = "bad"
               \/ clientEnded

\* A request on its way to be answered, tunnelled or dropped: not for ever.  (A session
\* whose body loop was aborted from the other side is in nobody's hands and never ends.)
Unanswered == awaited \notin {"headers", "relay", "closed", "nobody"}

(* Requests on one connection stay apart: they are answered in order, a    *)
(* body is never parsed as a request, the registry lists the exchange      *)
(* under way, and between two requests no upstream connection is held.     *)
RequestsStayApart == /\ HttpTypeOK /\ RepliesInOrder /\ BodyIsNoRequest
                     /\ RegistryIsExact /\ UpstreamReleased
=============================================================================

----------------------------- MODULE ProxyServer -----------------------------
(***************************************************************************)
(* proxy::ProxyServer and the life of its sessions (proxy_server.cpp,      *)
(* proxy_session.cpp): start and stop on a control thread, the accept loop *)
(* and every session on the runtime's one strand, and close_connection()   *)
(* on a management thread.  A handler runs on the strand without a break;  *)
(* those whose check of closed_ the other threads can overtake (open_target,*)
(* the handlers that keep an outbound handle, start_relay) and the         *)
(* insertion of an accepted session are two steps, between which the       *)
(* handler holds the strand.                                               *)
(***************************************************************************)
EXTENDS Integers, FiniteSets

CONSTANTS Sessions,    \* the connections clients may make
          MaxIds,      \* bound: connection ids the registry gives out
          MaxStarts,   \* bound: successful calls of start()
          MaxKills     \* bound: calls of close_connection()

ServerAssumption == /\ MaxIds \in Nat /\ MaxStarts \in Nat /\ MaxKills \in Nat
                    /\ IsFiniteSet(Sessions)

VARIABLES
    running,   \* running_
    gate,      \* callback_gate_ of the last start
    starts,    \* number of successful starts
    control,   \* the control thread: "idle", "stopping", "draining"
    loop,      \* the accept loop: "none", "accepting", "aborted"
    scope,     \* accept_scope_: "open" or "stopped"
    broken,    \* the accept loop ended by an accept error
    listed,    \* sessions_
    sess,      \* the sessions
    requests,  \* resolver_requests_: sessions with a registered request
    registry,  \* connection_registry_: id -> session
    nextId,    \* next_id_
    strand,    \* the handler that holds the strand
    kill,      \* the management thread in close_connection()
    kills      \* number of calls of close_connection()

serverVars == <<running, gate, starts, control, loop, scope, broken, listed, sess, requests,
                registry, nextId, strand, kill, kills>>
server == <<running, gate, starts, control, loop, scope, broken>>
manager == <<kill, kills>>

Phases == {"free", "accepted", "handshake", "protocol", "request", "resolving", "dialing",
           "refusing", "replying", "exchange", "relaying", "udp", "gone"}
Free == <<"free">>
Idle == [at |-> "idle"]
NoId == 0

\* torn: close() returned; remote: where the outbound handle is; relay: relay_ and
\* whether it runs; gateOf: the start whose gate the close handler captured;
\* overtaken (history): close() ran whole within a handler of the session, after its
\* check of closed_ and before what it does then.
SessionState == [phase : Phases, closed : BOOLEAN, torn : BOOLEAN, overtaken : BOOLEAN,
                 id : 0 .. MaxIds, remote : {"none", "held", "relay"},
                 relay : {"none", "running", "over"}, gateOf : 0 .. MaxStarts]

ServerTypeOK ==
    /\ running \in BOOLEAN /\ gate \in BOOLEAN /\ starts \in 0 .. MaxStarts
    /\ control \in {"idle", "stopping", "draining"}
    /\ loop \in {"none", "accepting", "aborted"}
    /\ scope \in {"open", "stopped"} /\ broken \in BOOLEAN
    /\ listed \subseteq Sessions /\ sess \in [Sessions -> SessionState]
    /\ requests \subseteq Sessions
    /\ registry \in UNION {[I -> Sessions] : I \in SUBSET (1 .. MaxIds)}
    /\ nextId \in 1 .. MaxIds + 1
    /\ strand \in {Free} \cup ({"accept", "open", "keep", "relay"} \X Sessions)
    /\ kill \in {Idle} \cup [at : {"found", "claimed"}, id : 1 .. MaxIds, target : Sessions]
    /\ kills \in 0 .. MaxKills

Fresh == [phase |-> "free", closed |-> FALSE, torn |-> FALSE, overtaken |-> FALSE, id |-> NoId,
          remote |-> "none", relay |-> "none", gateOf |-> 0]

ServerInit ==
    /\ running = FALSE /\ gate = FALSE /\ starts = 0 /\ control = "idle"
    /\ loop = "none" /\ scope = "open" /\ broken = FALSE
    /\ listed = {} /\ sess = [s \in Sessions |-> Fresh]
    /\ requests = {} /\ registry = << >> /\ nextId = 1
    /\ strand = Free /\ kill = Idle /\ kills = 0

\* ConnectionRegistry::remove() of the ids I.
Unrecorded(f, I) == [i \in DOMAIN f \ I |-> f[i]]

(***************************************************************************)
(* ProxySession::close()                                                   *)
(***************************************************************************)
\* The session after its teardown: relay_->stop() if there is one, remote_
\* closed, connection_id_ exchanged for zero.
Torn(x) == [x EXCEPT !.closed = TRUE, !.torn = TRUE, !.id = NoId,
                     !.relay = IF @ = "running" THEN "over" ELSE @,
                     !.remote = IF @ = "held" \/ x.relay = "running" THEN "none" ELSE @]

\* The close handlers of T: each removes its session while its gate is open.
Unlisted(T) == {s \in T : sess[s].gateOf = starts /\ gate}

\* close() of the sessions T, which all are still open.
CloseAll(T, x) ==
    /\ sess' = [s \in Sessions |-> IF s \in T THEN Torn(x[s]) ELSE x[s]]
    /\ registry' = Unrecorded(registry, {x[s].id : s \in T})

\* A handler of s ends in close(), which does nothing the second time.
Closes(s, x) ==
    /\ sess' = [sess EXCEPT ![s] = IF x.closed THEN x ELSE Torn(x)]
    /\ registry' = IF x.closed THEN registry ELSE Unrecorded(registry, {x.id})
    /\ listed' = IF x.closed THEN listed ELSE listed \ Unlisted({s})

(***************************************************************************)
(* start(), stop() and the accept loop                                     *)
(***************************************************************************)
\* A restarted server's loop runs in the scope the last stop() stopped: its
\* first accept completes as stopped.
Start ==
    /\ control = "idle" /\ ~running /\ starts < MaxStarts
    /\ running' = TRUE /\ gate' = TRUE /\ starts' = starts + 1
    /\ loop' = IF scope = "open" THEN "accepting" ELSE "aborted"
    /\ UNCHANGED <<control, scope, broken, listed, sess, requests, registry, nextId,
                   strand, manager>>

\* stop(), up to the wait for the strand.
StopCalled ==
    /\ control = "idle" /\ running
    /\ running' = FALSE /\ gate' = FALSE /\ control' = "stopping"
    /\ UNCHANGED <<starts, loop, scope, broken, listed, sess, requests, registry, nextId,
                   strand, manager>>

Open(T) == {s \in T : ~sess[s].closed}

\* Mutant: the accept loop is not waited for.
OwnerForgetsLoop ==
    /\ control = "stopping" /\ strand = Free
    /\ control' = "draining" /\ scope' = "stopped"
    /\ CloseAll(Open(listed), sess) /\ listed' = {} /\ requests' = {}
    /\ UNCHANGED <<running, gate, starts, loop, broken, nextId, strand, manager>>
\* stop_on_owner(): close the acceptor, stop the scope, cancel the resolver
\* requests, close every session, whose handlers find the gate closed.
StopOnOwner ==
    /\ control = "stopping" /\ strand = Free
    /\ control' = "draining" /\ scope' = "stopped"
    /\ loop' = IF loop = "accepting" THEN "aborted" ELSE loop
    /\ CloseAll(Open(listed), sess) /\ listed' = {} /\ requests' = {}
    /\ UNCHANGED <<running, gate, starts, broken, nextId, strand, manager>>

\* run_drain(): stop() returns when the accept scope is empty.
StopReturns ==
    /\ control = "draining" /\ loop = "none" /\ control' = "idle"
    /\ UNCHANGED <<running, gate, starts, loop, scope, broken, listed, sess, requests,
                   registry, nextId, strand, manager>>

\* The aborted accept completes and the loop returns.
LoopExits ==
    /\ loop = "aborted" /\ strand = Free /\ loop' = "none"
    /\ UNCHANGED <<running, gate, starts, control, scope, broken, listed, sess, requests,
                   registry, nextId, strand, manager>>

\* An accept fails by itself: the loop returns without re-arming.
AcceptFails ==
    /\ loop = "accepting" /\ strand = Free /\ loop' = "none" /\ broken' = TRUE
    /\ UNCHANGED <<running, gate, starts, control, scope, listed, sess, requests,
                   registry, nextId, strand, manager>>

\* An accept completes; the loop returns if the server stopped meanwhile.
Accepts(s) ==
    /\ loop = "accepting" /\ strand = Free /\ sess[s].phase = "free"
    /\ IF running /\ gate
         THEN /\ sess' = [sess EXCEPT ![s].phase = "accepted", ![s].gateOf = starts]
              /\ strand' = <<"accept", s>> /\ loop' = loop
         ELSE /\ sess' = [sess EXCEPT ![s].phase = "gone", ![s].closed = TRUE, ![s].torn = TRUE]
              /\ strand' = strand /\ loop' = "none"
    /\ UNCHANGED <<running, gate, starts, control, scope, broken, listed, requests,
                   registry, nextId, manager>>

\* The session is listed and started if the server still runs, else stopped.
Inserts(s) ==
    /\ strand = <<"accept", s>> /\ strand' = Free
    /\ IF running
         THEN /\ listed' = listed \cup {s}
              /\ sess' = [sess EXCEPT ![s].phase = "handshake"]
              /\ UNCHANGED <<registry, loop>>
         ELSE /\ Closes(s, [sess[s] EXCEPT !.phase = "gone"]) /\ loop' = "none"
    /\ UNCHANGED <<running, gate, starts, control, scope, broken, requests, nextId, manager>>

(***************************************************************************)
(* A session on the strand                                                 *)
(***************************************************************************)
Runs(s, phase) == strand = Free /\ sess[s].phase = phase

Moves(s, phase) == /\ sess' = [sess EXCEPT ![s].phase = phase]
                   /\ UNCHANGED <<listed, registry>>

\* A task of s resumes, in one of the phases in which it awaits the client,
\* with an error, a timeout, a request it must not serve, or after close().
GivesUp(s) ==
    /\ strand = Free
    /\ sess[s].phase \in {"handshake", "protocol", "request", "refusing", "replying",
                          "exchange", "udp"}
    /\ Closes(s, [sess[s] EXCEPT !.phase = "gone"])
    /\ UNCHANGED <<server, requests, nextId, strand, manager>>

\* run_handshake(): the TLS handshake, then the protocol byte.
Handshake(s) ==
    /\ ~sess[s].closed
    /\ \/ Runs(s, "handshake") /\ Moves(s, "protocol")
       \/ Runs(s, "protocol") /\ Moves(s, "request")
    /\ UNCHANGED <<server, requests, nextId, strand, manager>>

\* A request that is answered with an error.
Refuses(s) ==
    /\ Runs(s, "request") /\ ~sess[s].closed /\ Moves(s, "refusing")
    /\ UNCHANGED <<server, requests, nextId, strand, manager>>

\* A SOCKS UDP association: no target, no registry record.
Associates(s) ==
    /\ Runs(s, "request") /\ ~sess[s].closed /\ Moves(s, "udp")
    /\ UNCHANGED <<server, requests, nextId, strand, manager>>

\* open_target(): the check of closed_ ...
OpensTarget(s) ==
    /\ Runs(s, "request") /\ ~sess[s].closed /\ nextId <= MaxIds
    /\ strand' = <<"open", s>>
    /\ UNCHANGED <<server, listed, sess, requests, registry, nextId, manager>>

\* ... then the registry record, the id, and run_open_target, which either
\* needs addresses first or dials at once.
Opening(s) ==
    /\ strand = <<"open", s>> /\ strand' = Free
    /\ registry' = [i \in DOMAIN registry \cup {nextId} |->
                       IF i = nextId THEN s ELSE registry[i]]
    /\ nextId' = nextId + 1
    /\ \E phase \in {"resolving", "dialing"} :
         /\ sess' = [sess EXCEPT ![s].phase = phase, ![s].id = nextId]
         /\ requests' = IF phase = "resolving" THEN requests \cup {s} ELSE requests
    /\ UNCHANGED <<server, listed, manager>>

\* The resolver answers, or its request was cancelled.  route_stream() gives
\* up when the gate is closed, and else resolves again or dials.
Resolved(s) ==
    /\ Runs(s, "resolving") /\ UNCHANGED <<listed, registry>>
    /\ \E again \in BOOLEAN :
         /\ requests' = IF gate /\ again THEN requests \cup {s} ELSE requests \ {s}
         /\ sess' = [sess EXCEPT ![s].phase = IF gate /\ again THEN "resolving" ELSE "dialing"]
    /\ UNCHANGED <<server, nextId, strand, manager>>

\* Mutant: the result of a closed session is kept.
OpenKept(s) ==
    /\ Runs(s, "dialing") /\ sess' = sess /\ strand' = <<"keep", s>>
    /\ UNCHANGED <<server, listed, requests, registry, nextId, manager>>
\* handle_open_result(): a closed session drops the result ...
OpenResult(s) ==
    /\ Runs(s, "dialing")
    /\ IF sess[s].closed
         THEN sess' = [sess EXCEPT ![s].phase = "gone"] /\ strand' = strand
         ELSE sess' = sess /\ strand' = <<"keep", s>>
    /\ UNCHANGED <<server, listed, requests, registry, nextId, manager>>

\* run_http_upgrade_response(): the upstream agreed to the upgrade, and the session is
\* not closed ...
Upgraded(s) ==
    /\ Runs(s, "exchange") /\ ~sess[s].closed
    /\ strand' = <<"keep", s>>
    /\ UNCHANGED <<server, listed, sess, requests, registry, nextId, manager>>

\* ... else a failure is answered, and a handle is kept, for the reply or the exchange.
KeepsHandle(s) ==
    /\ strand = <<"keep", s>> /\ strand' = Free
    /\ \E phase \in {"replying"} \cup
                     IF sess[s].phase = "dialing" THEN {"refusing", "exchange"} ELSE {} :
         sess' = [sess EXCEPT ![s].phase = phase,
                              ![s].remote = IF phase = "refusing" THEN "none" ELSE "held"]
    /\ UNCHANGED <<server, listed, requests, registry, nextId, manager>>

\* start_relay(): the check of closed_, and the handles move to the relay ...
StartRelay(s) ==
    /\ Runs(s, "replying") /\ ~sess[s].closed
    /\ sess' = [sess EXCEPT ![s].remote = "relay"]
    /\ strand' = <<"relay", s>>
    /\ UNCHANGED <<server, listed, requests, registry, nextId, manager>>

\* ... whose pumps run by the time relay_ is assigned.
RelayAssigned(s) ==
    /\ strand = <<"relay", s>> /\ strand' = Free
    /\ sess' = [sess EXCEPT ![s].phase = "relaying", ![s].relay = "running"]
    /\ UNCHANGED <<server, listed, requests, registry, nextId, manager>>

\* The relay's completion handler; after stop() it only finds closed_ set.
RelayEnds(s) ==
    /\ Runs(s, "relaying")
    /\ Closes(s, [sess[s] EXCEPT !.phase = "gone", !.relay = "over", !.remote = "none"])
    /\ UNCHANGED <<server, requests, nextId, strand, manager>>

\* finish_http_forward() on a kept-alive connection: the exchange is reset,
\* its record removed, and the next request is read.
ExchangeEnds(s) ==
    /\ Runs(s, "exchange") /\ ~sess[s].closed
    /\ sess' = [sess EXCEPT ![s].phase = "request", ![s].remote = "none", ![s].id = NoId]
    /\ registry' = Unrecorded(registry, {sess[s].id})
    /\ UNCHANGED <<listed, server, requests, nextId, strand, manager>>

SessionStep(s) ==
    \/ GivesUp(s) \/ Handshake(s) \/ Refuses(s) \/ Associates(s) \/ OpensTarget(s) \/ Opening(s)
    \/ Resolved(s) \/ OpenResult(s) \/ Upgraded(s) \/ KeepsHandle(s)
    \/ StartRelay(s) \/ RelayAssigned(s) \/ RelayEnds(s) \/ ExchangeEnds(s)

(***************************************************************************)
(* close_connection(id) on the management thread                           *)
(***************************************************************************)
\* Under sessions_mutex_, the session that has the id now.
KillFinds(s) ==
    /\ kill = Idle /\ kills < MaxKills
    /\ s \in listed /\ sess[s].id # NoId
    /\ kill' = [at |-> "found", id |-> sess[s].id, target |-> s] /\ kills' = kills + 1
    /\ UNCHANGED <<server, listed, sess, requests, registry, nextId, strand>>

\* close(): closed_.exchange(true) ...
KillClaims ==
    /\ kill.at = "found"
    /\ IF sess[kill.target].closed
         THEN kill' = Idle /\ UNCHANGED sess
         ELSE /\ kill' = [kill EXCEPT !.at = "claimed"]
              /\ sess' = [sess EXCEPT ![kill.target].closed = TRUE]
    /\ UNCHANGED <<server, listed, requests, registry, nextId, strand, kills>>

\* A handler of s is past its check of closed_, and goes on as if s were open.
Within(s) == strand \in {"open", "keep", "relay"} \X {s}

\* ... then the teardown of whatever the session has by then.
KillTears ==
    /\ kill.at = "claimed"
    /\ LET s == kill.target
       IN /\ sess' = [sess EXCEPT ![s] = [Torn(@) EXCEPT !.overtaken = Within(s)]]
          /\ registry' = Unrecorded(registry, {sess[s].id})
          /\ listed' = listed \ Unlisted({s})
    /\ kill' = Idle
    /\ UNCHANGED <<server, requests, nextId, strand, kills>>

Manage == (\E s \in Sessions : KillFinds(s)) \/ KillClaims \/ KillTears

ServerNext ==
    \/ Start \/ StopCalled \/ StopOnOwner \/ StopReturns \/ LoopExits \/ AcceptFails
    \/ \E s \in Sessions : Accepts(s) \/ Inserts(s) \/ SessionStep(s)
    \/ Manage

ServerSpec == ServerInit /\ [][ServerNext]_serverVars

(***************************************************************************)
(* Fairness: the runtime runs what is posted to the strand, and a handler  *)
(* that holds the strand goes on.  Clients, outbounds and the control      *)
(* thread owe nothing.                                                     *)
(***************************************************************************)
ServerFairSpec ==
    /\ ServerSpec
    /\ SF_serverVars(StopOnOwner) /\ WF_serverVars(StopReturns) /\ SF_serverVars(LoopExits)
    /\ \A s \in Sessions : /\ WF_serverVars(Inserts(s)) /\ WF_serverVars(Opening(s))
                          /\ WF_serverVars(KeepsHandle(s)) /\ WF_serverVars(RelayAssigned(s))

(***************************************************************************)
(* Properties                                                              *)
(***************************************************************************)
Quiet == control = "idle" /\ ~running

\* close_connection() has claimed s and is about to tear it down.
BeingClosed(s) == kill.at = "claimed" /\ kill.target = s

\* stop() leaves nothing behind: once it returned, the accept loop is gone, no session is
\* listed, no resolver request is registered, and close() has returned for every session
\* ever accepted or the management thread is in it.  Its outbound handle and relay are
\* then closed (ClosedMeansGone).
StopIsComplete ==
    Quiet => /\ loop = "none" /\ listed = {} /\ requests = {}
             /\ \A s \in Sessions : sess[s].phase # "free" => sess[s].torn \/ BeingClosed(s)

\* The registry has the record of every open connection, each under the id its session
\* answers to, and no record of a connection that was closed; except that a close()
\* which overtook a handler may have missed the record the handler then adds.  Nothing
\* removes that record any more.
HasTarget == {"resolving", "dialing", "replying", "exchange", "relaying"}
RegistryAgrees ==
    /\ \A i \in DOMAIN registry :
          LET s == registry[i]
          IN sess[s].id = i /\ (~sess[s].closed \/ BeingClosed(s) \/ sess[s].overtaken)
    /\ \A s \in Sessions :
          /\ sess[s].id # NoId => sess[s].id \in DOMAIN registry /\ registry[sess[s].id] = s
          /\ sess[s].phase \in HasTarget /\ ~sess[s].closed => sess[s].id # NoId

\* Once close() returned, on whichever thread, the session has no handle, no running
\* relay and no registry record, nor ever gets one again, unless close() overtook a
\* handler; and it is not listed any more, except within a stop() that clears the list.
ClosedMeansGone ==
    \A s \in Sessions : sess[s].torn =>
        /\ \/ sess[s].overtaken
           \/ /\ sess[s].remote = "none" /\ sess[s].relay # "running" /\ sess[s].id = NoId
              /\ \A i \in DOMAIN registry : registry[i] # s
        /\ s \notin listed \/ (control = "stopping" /\ ~gate)

\* sessions_ and the open sessions are the same set, except while stop() is
\* on its way or a handler is between its steps: no open session is out of
\* stop()'s reach.
StopReachesAll ==
    \A s \in Sessions :
        (sess[s].phase \notin {"free", "accepted"} /\ ~sess[s].closed) => s \in listed

\* A running server accepts, unless an accept failed: the loop is there
\* whenever no stop() is in progress.
RunningMeansAccepting == (control = "idle" /\ running /\ ~broken) => loop = "accepting"

\* stop() has not returned yet: not for ever.
StopUnderWay == control # "idle"

(* stop() leaves nothing behind and can reach every open session; the      *)
(* registry has the records of the open connections and, but for a close() *)
(* that overtook a handler, no other; and but for such a close() a session *)
(* whose close() returned holds nothing any more.                          *)
ServerIsSound == /\ ServerTypeOK /\ StopIsComplete /\ RegistryAgrees /\ StopReachesAll
                 /\ ClosedMeansGone
=============================================================================

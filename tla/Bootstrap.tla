----------------------------- MODULE Bootstrap ------------------------------
(***************************************************************************)
(* Upstreams known by name: src/dns/bootstrap_resolver.cpp and             *)
(* bootstrap_dns_transport.cpp, in two parts with variables of their own.  *)
(*                                                                         *)
(* The transport, BootstrapDnsTransport.  Each exchange asks the bootstrap *)
(* resolver for the address and goes on with the one inner transport,      *)
(* which the first of them makes.  stop() is called by another thread, and *)
(* is three steps to the tasks, as its locks are.  To this part the        *)
(* resolver is what it promises: an address or an error, after a while;    *)
(* the inner transport is external: it ends what it is given, at its       *)
(* deadline if not before.                                                 *)
(*                                                                         *)
(* The resolver.  Names are asked of a list of servers in turn, A and then *)
(* AAAA, each within its share of the time that is left, and then of the   *)
(* system.  One task drives a request from await to await; the tasks that  *)
(* watch the time set flags and close the socket to wake it.  The servers  *)
(* and the system are external.                                            *)
(***************************************************************************)
EXTENDS Naturals, FiniteSets

CONSTANTS Ops,       \* exchanges of the transport
          Requests,  \* requests to the resolver
          Servers    \* servers that merge_servers() yields, in order: 1 .. Servers

BootstrapAssumption == Servers \in Nat /\ IsFiniteSet(Requests)

-----------------------------------------------------------------------------

(***************************************************************************)
(* The transport.                                                          *)
(***************************************************************************)
TransportOutcomes == {"answer", "error", "cancelled"}

VARIABLES
    op,       \* exchange -> [phase, outcome, at, resolving]
    listed,   \* operations_
    inner,    \* inner_: "none", "up", "stopped"
    dropped,  \* exchanges that were cancelled
    stop      \* how far stop() is: "no", "flagged", "resolver", "done"

transportVars == <<op, listed, inner, dropped, stop>>

\* at is the await of run(); resolving says that bootstrap_id_ is set.
TransportTypeOK ==
    /\ \A o \in Ops : /\ op[o].phase \in {"idle", "running", "done"}
                      /\ op[o].outcome \in TransportOutcomes \cup {"none"}
                      /\ op[o].at \in {"none", "resolve", "inner", "over"}
                      /\ op[o].resolving \in BOOLEAN
    /\ {listed, dropped} \subseteq SUBSET Ops /\ inner \in {"none", "up", "stopped"}

TransportInit ==
    /\ op = [o \in Ops |-> [phase |-> "idle", outcome |-> "none", at |-> "none",
                            resolving |-> FALSE]]
    /\ listed = {} /\ inner = "none" /\ dropped = {} /\ stop = "no"

Exchanging == {o \in Ops : op[o].phase = "running"}

\* finish() and cancel(): the first one counts, and cancels the resolution.
Finish(r, outcome) ==
    IF r.phase = "done" THEN r
    ELSE [r EXCEPT !.phase = "done", !.outcome = outcome, !.resolving = FALSE]

\* exchange()
Exchange(o) ==
    /\ op[o].phase = "idle"
    /\ IF stop # "no"
       THEN op' = [op EXCEPT ![o] = Finish(@, "cancelled")] /\ UNCHANGED listed
       ELSE /\ op' = [op EXCEPT ![o].phase = "running", ![o].at = "resolve",
                                ![o].resolving = TRUE]
            /\ listed' = listed \cup {o}
    /\ UNCHANGED <<inner, dropped, stop>>
\* The receiver is stopped: let_stopped in wrap().  The operation stays in operations_.
CancelExchange(o) == /\ o \in Exchanging /\ dropped' = dropped \cup {o}
             /\ op' = [op EXCEPT ![o] = Finish(@, "cancelled")]
             /\ UNCHANGED <<listed, inner, stop>>

\* run(), once the resolver answered: with an error, without an address of the family, or
\* with one, for which inner_for() finds or makes the inner transport.
Resolved(o, r) ==
    /\ op[o].at = "resolve"
    /\ LET gone == [op[o] EXCEPT !.resolving = FALSE, !.at = "over"] IN
       \/ /\ op[o].phase = "done"
          /\ op' = [op EXCEPT ![o] = gone] /\ UNCHANGED <<listed, inner>>
       \/ /\ op[o].phase # "done" /\ r = "error"
          /\ op' = [op EXCEPT ![o] = Finish(gone, "error")]
          /\ listed' = listed \ {o} /\ UNCHANGED inner
       \/ /\ op[o].phase # "done" /\ r = "address"
          /\ inner' = IF inner = "none" THEN "up" ELSE inner
          /\ op' = [op EXCEPT ![o] = [gone EXCEPT !.at = "inner"]] /\ UNCHANGED listed
    /\ UNCHANGED <<dropped, stop>>
\* The inner exchange ends; that of an exchange that was cancelled is not stopped, and what
\* it says is dropped.
InnerEnds(o, r) ==
    /\ op[o].at = "inner"
    /\ op' = [op EXCEPT ![o] = [Finish(@, r) EXCEPT !.at = "over"]]
    /\ listed' = IF op[o].phase = "done" THEN listed ELSE listed \ {o}
    /\ UNCHANGED <<inner, dropped, stop>>

\* stop(): the flag and the list; the resolver, which ends what it has, and the inner
\* transport, if there is one by now; then every exchange of the list.
StopFlag == /\ stop = "no" /\ stop' = "flagged" /\ UNCHANGED <<op, listed, inner, dropped>>
StopInner == /\ stop = "flagged" /\ stop' = "resolver"
             /\ inner' = IF inner = "up" THEN "stopped" ELSE inner
             /\ UNCHANGED <<op, listed, dropped>>
StopExchanges == /\ stop = "resolver" /\ stop' = "done"
                 /\ op' = [o \in Ops |-> IF o \in listed THEN Finish(op[o], "cancelled")
                                         ELSE op[o]]
                 /\ UNCHANGED <<listed, inner, dropped>>

TransportNext ==
    \/ StopFlag \/ StopInner \/ StopExchanges
    \/ \E o \in Ops : \/ Exchange(o) \/ CancelExchange(o)
                      \/ \E r \in {"error", "address"} : Resolved(o, r)
                      \/ \E r \in TransportOutcomes : InnerEnds(o, r)
TransportSpec == TransportInit /\ [][TransportNext]_transportVars
\* The resolver and the inner transport end what they are given.
Ends == \E o \in Ops : Resolved(o, "error") \/ Resolved(o, "address")
                       \/ \E r \in TransportOutcomes : InnerEnds(o, r)

-----------------------------------------------------------------------------
TransportPhase == [o \in Ops |-> op[o].phase]
TransportOutcome == [o \in Ops |-> op[o].outcome]

\* An exchange that runs is listed, so that stop() finds it, and has a task that is at the
\* resolver or at the inner transport.
NobodyForgotten == \A o \in Exchanging : /\ o \in listed /\ op[o].at \in {"resolve", "inner"}
                                         /\ op[o].resolving <=> op[o].at = "resolve"
\* What is over is not asked of the resolver any more, and stays listed only if it was
\* cancelled.
NothingLeftResolving ==
    /\ \A o \in Ops : op[o].phase = "done" => ~op[o].resolving
    /\ \A o \in listed : op[o].phase = "done" => op[o].outcome = "cancelled"
\* After stop() no exchange runs, and none can begin.
StopEndsAll == stop = "done" => Exchanging = {}
BootstrapTransportIsSound ==
    TransportTypeOK /\ NobodyForgotten /\ NothingLeftResolving /\ StopEndsAll

-----------------------------------------------------------------------------
(***************************************************************************)
(* The resolver.                                                           *)
(***************************************************************************)
ResolverOutcomes == {"addresses", "error", "timeout", "cancelled"}

VARIABLES
    req,       \* request -> its state, and the await the driver is at
    sys,       \* request -> [at, result] of its request to the system resolver
    timers,    \* run_server_deadline() tasks: [op, attempt]
    watched,   \* run_deadline() tasks: requests
    expired,   \* requests whose deadline has passed
    asked,     \* requests that were cancelled
    stopped

resolverVars == <<req, sys, timers, watched, expired, asked, stopped>>

\* addresses holds the query types that gave some; serverExpired and exceeded are the flags
\* that the timers set.
NewRequest == [phase |-> "idle", outcome |-> "none", at |-> "none", server |-> 0, query |-> 1,
               attempt |-> 0, socket |-> FALSE, addresses |-> {}, serverExpired |-> FALSE,
               exceeded |-> FALSE, inSystem |-> FALSE]

ResolverTypeOK ==
    /\ \A o \in Requests : /\ req[o].phase \in {"idle", "running", "done"}
                           /\ req[o].outcome \in ResolverOutcomes \cup {"none"}
                           /\ req[o].at \in {"none", "send", "receive", "system", "over"}
                           /\ req[o].server \in 0 .. Servers /\ req[o].query \in {1, 2}
                           /\ req[o].addresses \subseteq {1, 2}
                           /\ sys[o].at \in {"none", "running", "posted", "gone"}
    /\ {watched, expired, asked} \subseteq SUBSET Requests

ResolverInit ==
    /\ req = [o \in Requests |-> NewRequest]
    /\ sys = [o \in Requests |-> [at |-> "none", result |-> "none"]]
    /\ timers = {} /\ watched = {} /\ expired = {} /\ asked = {} /\ stopped = FALSE

-----------------------------------------------------------------------------
Running == {o \in Requests : req[o].phase = "running"}

\* complete(): the socket is closed with the request.
Completed(r, outcome) ==
    IF r.phase # "running" THEN r
    ELSE [r EXCEPT !.phase = "done", !.outcome = outcome, !.socket = FALSE]

\* run_system(): the fallback is asked; without an answer from it nothing more happens.
AskSystem(o, r) ==
    /\ req' = [req EXCEPT ![o] = [r EXCEPT !.at = "system", !.inSystem = TRUE]]
    /\ sys' = [sys EXCEPT ![o].at = "running"] /\ UNCHANGED timers
\* run_server(): the socket, the budget, and the A query.
AskServer(o, r, j) ==
    /\ req' = [req EXCEPT ![o] = [r EXCEPT !.at = "send", !.server = j, !.query = 1,
                                           !.attempt = @ + 1, !.socket = TRUE,
                                           !.serverExpired = FALSE]]
    /\ timers' = timers \cup {[op |-> o, attempt |-> r.attempt + 1]} /\ UNCHANGED sys
\* run(), from server j on: one whose socket cannot be opened is passed over.
Drive(o, r, j) ==
    IF r.phase # "running" \/ stopped
    THEN req' = [req EXCEPT ![o] = [r EXCEPT !.at = "over"]] /\ UNCHANGED <<sys, timers>>
    ELSE IF o \in expired \/ r.exceeded THEN AskSystem(o, r)
    ELSE \/ \E k \in j .. Servers : AskServer(o, r, k)
         \/ AskSystem(o, [r EXCEPT !.socket = FALSE])
\* The rest of the loop's body once run_server() gave up.
NextServer(o) == Drive(o, IF o \in expired \/ req[o].exceeded THEN req[o]
                          ELSE [req[o] EXCEPT !.socket = FALSE], req[o].server + 1)

\* resolve()
Resolve(o) ==
    /\ req[o].phase = "idle"
    /\ IF stopped
       THEN /\ req' = [req EXCEPT ![o].phase = "done", ![o].outcome = "cancelled"]
            /\ UNCHANGED <<sys, timers, watched>>
       ELSE /\ Drive(o, [req[o] EXCEPT !.phase = "running"], 1)
            /\ watched' = watched \cup {o}
    /\ UNCHANGED <<expired, asked, stopped>>

\* async_send_to() ends; it may have ended well before the socket was closed.
Sent(o, ok) ==
    /\ req[o].at = "send"
    /\ IF ~ok \/ req[o].phase # "running" \/ stopped \/ req[o].serverExpired THEN NextServer(o)
       ELSE req' = [req EXCEPT ![o].at = "receive"] /\ UNCHANGED <<sys, timers>>
    /\ UNCHANGED <<watched, expired, asked, stopped>>
\* async_receive_from() ends: an answer with addresses or without, one that cannot be
\* decoded, an error, or the socket was closed.  An answer to another query is passed over.
Received(o, answer) ==
    /\ req[o].at = "receive"
    /\ LET r == [req[o] EXCEPT !.addresses = IF answer = "some" THEN @ \cup {req[o].query}
                                             ELSE @] IN
       IF answer = "bad" \/ req[o].phase # "running" \/ stopped \/ req[o].serverExpired
       THEN NextServer(o)
       ELSE IF req[o].query = 2 /\ r.addresses # {}
       THEN /\ req' = [req EXCEPT ![o] = [Completed(r, "addresses") EXCEPT !.at = "over"]]
            /\ UNCHANGED <<sys, timers>>
       ELSE IF req[o].query = 1 /\ ~r.exceeded /\ o \notin expired
       THEN req' = [req EXCEPT ![o] = [r EXCEPT !.at = "send", !.query = 2]]
            /\ UNCHANGED <<sys, timers>>
       ELSE Drive(o, IF o \in expired \/ r.exceeded THEN r ELSE [r EXCEPT !.socket = FALSE],
                  r.server + 1)
    /\ UNCHANGED <<watched, expired, asked, stopped>>

\* run_server_deadline().  Mutant: also of an attempt that is over.
ServerDeadlineStale(t) ==
    /\ t \in timers /\ timers' = timers \ {t}
    /\ req' = IF req[t.op].phase # "running" \/ stopped THEN req
              ELSE [req EXCEPT ![t.op].serverExpired = TRUE,
                               ![t.op].socket = @ /\ req[t.op].attempt # t.attempt]
    /\ UNCHANGED <<sys, watched, expired, asked, stopped>>
ServerDeadline(t) ==
    /\ t \in timers /\ timers' = timers \ {t}
    /\ req' = IF req[t.op].phase # "running" \/ stopped \/ req[t.op].attempt # t.attempt THEN req
              ELSE [req EXCEPT ![t.op].serverExpired = TRUE, ![t.op].socket = FALSE]
    /\ UNCHANGED <<sys, watched, expired, asked, stopped>>
DeadlinePasses(o) == /\ o \notin expired /\ expired' = expired \cup {o}
                     /\ UNCHANGED <<req, sys, timers, watched, asked, stopped>>
\* run_deadline(): once the fallback is asked, its own deadline is the one that counts.
Deadline(o) ==
    /\ o \in watched \cap expired /\ watched' = watched \ {o}
    /\ req' = IF req[o].phase # "running" \/ stopped \/ req[o].inSystem THEN req
              ELSE [req EXCEPT ![o].exceeded = TRUE, ![o].socket = FALSE]
    /\ UNCHANGED <<sys, timers, expired, asked, stopped>>

\* cancel()
Cancel(o) ==
    /\ o \in Running /\ asked' = asked \cup {o}
    /\ req' = [req EXCEPT ![o] = Completed(@, "cancelled")]
    /\ sys' = IF sys[o].at # "running" THEN sys
              ELSE [sys EXCEPT ![o] = [at |-> "posted", result |-> "cancelled"]]
    /\ UNCHANGED <<timers, watched, expired, stopped>>
\* stop(), with that of the system resolver.
Stop ==
    /\ ~stopped /\ stopped' = TRUE
    /\ req' = [o \in Requests |-> Completed(req[o], "cancelled")]
    /\ sys' = [o \in Requests |-> IF sys[o].at # "running" THEN sys[o]
                             ELSE [at |-> "posted", result |-> "cancelled"]]
    /\ UNCHANGED <<timers, watched, expired, asked>>

-----------------------------------------------------------------------------
(* SystemBootstrapResolver: resolve(), run() and run_deadline(); whoever    *)
(* completes the request first posts its result.                            *)

SystemEnds(o, r) ==
    /\ sys[o].at = "running" /\ (r = "timeout" => o \in expired)
    /\ sys' = [sys EXCEPT ![o] = [at |-> "posted", result |-> r]]
    /\ UNCHANGED <<req, timers, watched, expired, asked, stopped>>
\* The handler sends the result to the driver, which completes the request.
SystemAnswers(o) ==
    /\ sys[o].at = "posted" /\ sys' = [sys EXCEPT ![o].at = "gone"]
    /\ req' = [req EXCEPT ![o] = [(IF stopped THEN @ ELSE Completed(@, sys[o].result))
                                  EXCEPT !.at = "over"]]
    /\ UNCHANGED <<timers, watched, expired, asked, stopped>>

Awaits(o) == \/ \E ok \in BOOLEAN : Sent(o, ok)
             \/ \E a \in {"some", "none", "bad"} : Received(o, a)
             \/ SystemAnswers(o)
ResolverNext ==
    \/ \E o \in Requests :
          \/ Resolve(o) \/ Awaits(o) \/ DeadlinePasses(o) \/ Deadline(o) \/ Cancel(o)
          \/ \E r \in {"addresses", "error", "timeout"} : SystemEnds(o, r)
    \/ \E t \in timers : ServerDeadline(t)
    \/ Stop
ResolverSpec == ResolverInit /\ [][ResolverNext]_resolverVars

\* Time passes; a timer whose time has come fires; an await whose socket was closed ends,
\* and so does one whose result was posted.  The servers and the system may be silent.
TimePasses == \/ \E o \in Running : DeadlinePasses(o)
              \/ \E t \in timers : ServerDeadline(t)
              \/ \E o \in Requests : Deadline(o) \/ SystemEnds(o, "timeout") \/ SystemAnswers(o)
              \/ \E o \in Requests : ~req[o].socket /\ (Sent(o, FALSE) \/ Received(o, "bad"))

-----------------------------------------------------------------------------
ResolverPhase == [o \in Requests |-> req[o].phase]
ResolverOutcome == [o \in Requests |-> req[o].outcome]

\* A request that runs is driven: its await is bounded by a timer that will close its
\* socket, or the socket was closed already, or the system has it, with a deadline.
AlwaysDriven ==
    \A o \in Running :
        /\ req[o].at \in {"send", "receive"} /\ req[o].socket
              => [op |-> o, attempt |-> req[o].attempt] \in timers
        /\ req[o].at \in {"send", "receive", "system"}
        /\ req[o].at = "system" => sys[o].at \in {"running", "posted"}
\* A server loses its turn by its own budget, not by that of the one before it.
OwnBudget == \A o \in Running : req[o].serverExpired =>
                 /\ [op |-> o, attempt |-> req[o].attempt] \notin timers /\ ~req[o].socket
\* A request that is over holds no socket.
NothingLeftOpen == \A o \in Requests : req[o].phase = "done" => ~req[o].socket
\* The outcome is one that somebody gave: addresses come from a query or the system, a
\* timeout from the deadline, a cancellation from the user or stop().
OutcomeIsExplained ==
    \A o \in Requests : /\ req[o].outcome = "addresses" =>
                               req[o].addresses # {} \/ sys[o].result = "addresses"
                        /\ req[o].outcome = "timeout" => o \in expired
                        /\ req[o].outcome = "cancelled" => o \in asked \/ stopped
BootstrapIsSound ==
    ResolverTypeOK /\ AlwaysDriven /\ OwnBudget /\ NothingLeftOpen /\ OutcomeIsExplained
=============================================================================

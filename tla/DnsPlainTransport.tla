------------------------- MODULE DnsPlainTransport -------------------------
(***************************************************************************)
(* AsioDnsTransport of src/dns/dns_transport.cpp and its TcpSession.  An   *)
(* exchange is sent over UDP, over TCP when the answer is truncated or     *)
(* prefer_tcp is set; all TCP exchanges of a transport share one           *)
(* connection and are told apart by their transaction ids.  Everything     *)
(* runs on one strand: an action is one handler, the continuations it      *)
(* resumes in place included.                                              *)
(*                                                                         *)
(* Time is what it lets happen: a deadline passes, and the timers that     *)
(* wait for it may fire from then on.                                      *)
(***************************************************************************)
EXTENDS Naturals, Sequences, SequencesExt, FiniteSets

CONSTANTS
    Exchanges,
    MaxId,          \* the largest transaction id (0xffff)
    PreferTcp,      \* config_.prefer_tcp
    MaxGeneration,  \* bound on the number of TCP connections lost
    MaxStray,       \* bound on the packets that match no exchange
    Nothing

Ids == 1..MaxId

Endings == {"answer", "error", "timeout", "cancelled", "noId"}

TransportAssumption ==
    /\ MaxId \in Nat \ {0} /\ MaxGeneration \in Nat /\ MaxStray \in Nat
    /\ PreferTcp \in BOOLEAN
    /\ Nothing \notin Exchanges \cup Endings

VARIABLES
    phase,        \* "running": in operations_
    outcome,
    chain,        \* what the exchange's task awaits
    datagram,     \* datagram_ is open
    queryId,
    nextQueryId,
    activeIds,    \* active_query_ids_
    expired,      \* exchanges whose deadline has passed
    timers,       \* deadline tasks of exchanges still asleep
    sessionTimers,\* deadline tasks of the session: <<exchange, id>>
    pending,      \* pending_ of the session: id -> exchange
    writeQueue,   \* write_queue_
    generation,   \* connection_generation_
    link,         \* connecting_, connected_
    writes,       \* writes in flight
    reads,        \* reads in flight
    isStopped,    \* stopped_
    stray         \* packets so far that match no exchange

exchangeVars == <<phase, outcome, chain, datagram>>
idVars == <<queryId, nextQueryId, activeIds>>
timeVars == <<expired, timers, sessionTimers>>
queueVars == <<pending, writeQueue>>
linkVars == <<generation, link, writes, reads>>
transportVars == <<exchangeVars, idVars, timeVars, queueVars, linkVars, isStopped, stray>>

TransportInit ==
    /\ phase = [o \in Exchanges |-> "idle"]
    /\ outcome = [o \in Exchanges |-> Nothing]
    /\ chain = [o \in Exchanges |-> "none"]
    /\ datagram = [o \in Exchanges |-> FALSE]
    /\ queryId = [o \in Exchanges |-> 0]
    /\ nextQueryId = 1
    /\ activeIds = {}
    /\ expired = {} /\ timers = {} /\ sessionTimers = {}
    /\ pending = [i \in Ids |-> Nothing]
    /\ writeQueue = <<>>
    /\ generation = 0
    /\ link = "down"
    /\ writes = {} /\ reads = {}
    /\ isStopped = FALSE
    /\ stray = 0

-----------------------------------------------------------------------------
(* Transaction ids. *)

After(i) == IF i = MaxId THEN 1 ELSE i + 1

IdAt(k) == ((nextQueryId - 1 + k) % MaxId) + 1

(* next_query_id: the first free id from next_query_id_ on, never 0 *)
NextQueryId == IdAt(CHOOSE k \in 0..(MaxId - 1) :
    IdAt(k) \notin activeIds /\ \A l \in 0..(k - 1) : IdAt(l) \in activeIds)

-----------------------------------------------------------------------------
(* The ends of exchanges: complete() leaves operations_ and frees the id,  *)
(* close_sockets() closes the datagram, and the task of an exchange that   *)
(* awaits the session is resumed and ends.                                 *)

FinishAll(S, r) ==
    /\ phase' = [o \in Exchanges |-> IF o \in S THEN "done" ELSE phase[o]]
    /\ outcome' = [o \in Exchanges |-> IF o \in S THEN r ELSE outcome[o]]
    /\ datagram' = [o \in Exchanges |-> o \notin S /\ datagram[o]]
    /\ chain' = [o \in Exchanges |-> IF o \in S /\ chain[o] = "tcp" THEN "ended" ELSE chain[o]]
    /\ activeIds' = activeIds \ {queryId[o] : o \in S}

(* What is left of the queue q when the ids are erased from it. *)
Without(q, ids) ==
    LET kept[k \in 0..Len(q)] ==
            IF k = 0 THEN <<>>
            ELSE IF q[k] \in ids THEN kept[k - 1] ELSE Append(kept[k - 1], q[k])
    IN kept[Len(q)]

(* fail_request for the session's entries of the exchanges in S *)
Forget(S) ==
    LET ids == {i \in Ids : pending[i] \in S} IN
    /\ pending' = [i \in Ids |-> IF i \in ids THEN Nothing ELSE pending[i]]
    /\ writeQueue' = Without(writeQueue, ids)

(* An exchange ends for a reason of its own, wherever its task is. *)
End(S, r) == FinishAll(S, r) /\ Forget(S)

GoesOn(o, where) == chain' = [chain EXCEPT ![o] = where]

-----------------------------------------------------------------------------
(* The session: writing and connecting. *)

(* flush_writes drops the queued ids nobody waits for. *)
LiveQueue(q, p) ==
    LET live == {k \in DOMAIN q : p[q[k]] # Nothing} IN
    IF live = {} THEN <<>>
    ELSE SubSeq(q, CHOOSE k \in live : \A l \in live : k <= l, Len(q))

WriteInProgress == \E w \in writes : w.gen = generation

(* flush_writes, with the queue, the entries and the flags at the call; a  *)
(* write that was in progress leaves "writes" as it ends.                  *)
FlushWrites(q, p, up, inProgress) ==
    IF ~up \/ inProgress THEN writeQueue' = q /\ UNCHANGED writes
    ELSE /\ writeQueue' = LiveQueue(q, p)
         /\ writes' = {w \in writes : w.gen # generation} \cup
               (IF LiveQueue(q, p) = <<>> THEN {}
                ELSE {[gen |-> generation, id |-> Head(LiveQueue(q, p)),
                       op |-> p[Head(LiveQueue(q, p))]]})

(* TcpSession::exchange, for an exchange whose datagram is closed *)
SessionExchange(o, id) ==
    LET p == [pending EXCEPT ![id] = o] IN
    /\ pending' = p
    /\ link' = IF link = "down" THEN "connecting" ELSE link
    /\ FlushWrites(Append(writeQueue, id), p, link = "connected", WriteInProgress)
    /\ sessionTimers' = sessionTimers \cup {<<o, id>>}
    /\ UNCHANGED <<generation, reads>>

-----------------------------------------------------------------------------
(* exchange() and Operation::start *)

OpenRefused(o) ==
    /\ phase[o] = "idle"
    /\ isStopped \/ activeIds = Ids
    /\ End({o}, IF isStopped THEN "cancelled" ELSE "noId")
    /\ UNCHANGED <<queryId, nextQueryId, timeVars, linkVars, isStopped, stray>>

(* run() looks at the deadline before anything else. *)
OpenExpired(o) ==
    /\ phase[o] = "idle" /\ ~isStopped /\ activeIds # Ids
    /\ nextQueryId' = After(NextQueryId)
    /\ queryId' = [queryId EXCEPT ![o] = NextQueryId]
    /\ phase' = [phase EXCEPT ![o] = "done"]
    /\ outcome' = [outcome EXCEPT ![o] = "timeout"]
    /\ expired' = expired \cup {o}
    /\ timers' = timers \cup {o}
    /\ UNCHANGED <<chain, datagram, activeIds, sessionTimers, queueVars, linkVars, isStopped, stray>>

OpenExchange(o) ==
    /\ phase[o] = "idle" /\ ~isStopped /\ activeIds # Ids
    /\ nextQueryId' = After(NextQueryId)
    /\ queryId' = [queryId EXCEPT ![o] = NextQueryId]
    /\ activeIds' = activeIds \cup {NextQueryId}
    /\ phase' = [phase EXCEPT ![o] = "running"]
    /\ timers' = timers \cup {o}
    /\ \/ /\ PreferTcp
          /\ GoesOn(o, "tcp")
          /\ SessionExchange(o, NextQueryId)
       \/ /\ ~PreferTcp
          /\ GoesOn(o, "opening")
          /\ UNCHANGED <<sessionTimers, queueVars, linkVars>>
    /\ UNCHANGED <<outcome, datagram, expired, isStopped, stray>>

-----------------------------------------------------------------------------
(* The task of an exchange over UDP.  An await may end after the exchange  *)
(* did: its task then only ends.                                           *)

(* A datagram opened for an exchange that is over is closed at once. *)
DatagramOpened(o) ==
    /\ chain[o] = "opening"
    /\ GoesOn(o, IF phase[o] = "running" THEN "sending" ELSE "ended")
    /\ datagram' = [datagram EXCEPT ![o] = phase[o] = "running"]
    /\ UNCHANGED <<phase, outcome, idVars, timeVars, queueVars, linkVars, isStopped, stray>>

UdpSent(o) ==
    /\ chain[o] = "sending"
    /\ GoesOn(o, IF phase[o] = "running" THEN "receiving" ELSE "ended")
    /\ UNCHANGED <<phase, outcome, datagram, idVars, timeVars, queueVars, linkVars, isStopped, stray>>

UdpFails(o) ==
    /\ chain[o] \in {"opening", "sending", "receiving"}
    /\ GoesOn(o, "ended")
    /\ phase' = [phase EXCEPT ![o] = "done"]
    /\ outcome' = [outcome EXCEPT ![o] = IF phase[o] = "running" THEN "error" ELSE @]
    /\ datagram' = [datagram EXCEPT ![o] = FALSE]
    /\ activeIds' = IF phase[o] = "running" THEN activeIds \ {queryId[o]} ELSE activeIds
    /\ UNCHANGED <<queryId, nextQueryId, timeVars, queueVars, linkVars, isStopped, stray>>

(* A packet of another sender, id or question is received and ignored. *)
UdpStray(o) ==
    /\ chain[o] = "receiving" /\ phase[o] = "running" /\ stray < MaxStray
    /\ stray' = stray + 1
    /\ UNCHANGED <<exchangeVars, idVars, timeVars, queueVars, linkVars, isStopped>>

(* The answer, or a packet that cannot be decoded. *)
UdpReceived(o, r) ==
    /\ chain[o] = "receiving" /\ phase[o] = "running"
    /\ phase' = [phase EXCEPT ![o] = "done"]
    /\ outcome' = [outcome EXCEPT ![o] = r]
    /\ datagram' = [datagram EXCEPT ![o] = FALSE]
    /\ GoesOn(o, "ended")
    /\ activeIds' = activeIds \ {queryId[o]}
    /\ UNCHANGED <<queryId, nextQueryId, timeVars, queueVars, linkVars, isStopped, stray>>

UdpTruncated(o) ==
    /\ chain[o] = "receiving" /\ phase[o] = "running"
    /\ GoesOn(o, "tcp")
    /\ datagram' = [datagram EXCEPT ![o] = FALSE]
    /\ SessionExchange(o, queryId[o])
    /\ UNCHANGED <<phase, outcome, idVars, expired, timers, isStopped, stray>>

-----------------------------------------------------------------------------
(* The session's connection. *)

OnConnected ==
    /\ link = "connecting" /\ ~isStopped
    /\ link' = "connected"
    /\ reads' = reads \cup {[gen |-> generation, part |-> "length"]}
    /\ FlushWrites(writeQueue, pending, TRUE, FALSE)
    /\ UNCHANGED <<exchangeVars, idVars, timeVars, pending, generation, isStopped, stray>>

Awaited == {pending[i] : i \in Ids} \ {Nothing}

\* Mutant: the requests of the session are left pending.
LoseLinkOnly(r) ==
    /\ generation < MaxGeneration
    /\ generation' = generation + 1
    /\ link' = "down"
    /\ UNCHANGED <<exchangeVars, activeIds, queueVars>>

(* connection_failed: close_connection, then fail_all *)
LoseLink(r) ==
    /\ generation < MaxGeneration
    /\ generation' = generation + 1
    /\ link' = "down"
    /\ FinishAll(Awaited, r)
    /\ pending' = [i \in Ids |-> Nothing]
    /\ writeQueue' = <<>>

ConnectFails ==
    /\ link = "connecting" /\ ~isStopped
    /\ LoseLink("error")
    /\ UNCHANGED <<queryId, nextQueryId, timeVars, writes, reads, isStopped, stray>>

(* on_write: nothing is left to do for a connection that is closed *)
OnWrite(w) ==
    /\ w \in writes
    /\ IF w.gen # generation THEN writes' = writes \ {w} /\ UNCHANGED writeQueue
       ELSE FlushWrites(IF writeQueue # <<>> /\ Head(writeQueue) = w.id THEN Tail(writeQueue)
                        ELSE writeQueue, pending, TRUE, FALSE)
    /\ UNCHANGED <<exchangeVars, idVars, timeVars, pending, generation, link, reads, isStopped, stray>>

WriteFails(w) ==
    /\ w \in writes /\ w.gen = generation
    /\ writes' = writes \ {w}
    /\ LoseLink("error")
    /\ UNCHANGED <<queryId, nextQueryId, timeVars, reads, isStopped, stray>>

(* A read error, the end of the stream, or a length that is not one. *)
ReadFails(r) ==
    /\ r \in reads /\ r.gen = generation
    /\ reads' = reads \ {r}
    /\ LoseLink("error")
    /\ UNCHANGED <<queryId, nextQueryId, timeVars, writes, isStopped, stray>>

ReadLength(r) ==
    /\ r \in reads /\ r.part = "length"
    /\ reads' = (reads \ {r}) \cup
          (IF r.gen = generation THEN {[gen |-> generation, part |-> "body"]} ELSE {})
    /\ UNCHANGED <<exchangeVars, idVars, timeVars, queueVars, generation, link, writes, isStopped, stray>>

(* dispatch_response: the entry with the id is completed, and the next     *)
(* frame is read.                                                          *)
DispatchResponse(r, id, result) ==
    /\ r \in reads /\ r.part = "body" /\ r.gen = generation
    /\ pending[id] = Nothing => stray < MaxStray
    /\ stray' = IF pending[id] = Nothing THEN stray + 1 ELSE stray
    /\ FinishAll({pending[id]} \ {Nothing}, result)
    /\ pending' = [pending EXCEPT ![id] = Nothing]
    /\ reads' = (reads \ {r}) \cup {[gen |-> generation, part |-> "length"]}
    /\ UNCHANGED <<queryId, nextQueryId, timeVars, writeQueue, generation, link, writes, isStopped>>

-----------------------------------------------------------------------------
(* Deadlines, cancellation and stop. *)

DeadlinePasses(o) ==
    /\ phase[o] # "idle" /\ o \notin expired
    /\ expired' = expired \cup {o}
    /\ UNCHANGED <<exchangeVars, idVars, timers, sessionTimers, queueVars, linkVars, isStopped, stray>>

\* Mutant: the deadline does not reach an exchange that is still opening.
OpDeadlineOnceOpen(o) ==
    /\ o \in timers /\ o \in expired
    /\ timers' = timers \ {o}
    /\ IF phase[o] = "running" /\ chain[o] # "opening" THEN End({o}, "timeout")
       ELSE UNCHANGED <<exchangeVars, activeIds, queueVars>>
    /\ UNCHANGED <<queryId, nextQueryId, expired, sessionTimers, linkVars, isStopped, stray>>

(* run_deadline of the exchange *)
OpDeadline(o) ==
    /\ o \in timers /\ o \in expired
    /\ timers' = timers \ {o}
    /\ IF phase[o] = "running" THEN End({o}, "timeout")
       ELSE UNCHANGED <<exchangeVars, activeIds, queueVars>>
    /\ UNCHANGED <<queryId, nextQueryId, expired, sessionTimers, linkVars, isStopped, stray>>

(* run_deadline of the session: whoever has the id now times out *)
SessionDeadline(o, id) ==
    /\ <<o, id>> \in sessionTimers /\ o \in expired
    /\ sessionTimers' = sessionTimers \ {<<o, id>>}
    /\ End({pending[id]} \ {Nothing}, "timeout")
    /\ UNCHANGED <<queryId, nextQueryId, expired, timers, linkVars, isStopped, stray>>

CancelExchange(o) ==
    /\ phase[o] = "running"
    /\ End({o}, "cancelled")
    /\ UNCHANGED <<queryId, nextQueryId, timeVars, linkVars, isStopped, stray>>

(* stop(): every exchange is cancelled, then the session is closed and     *)
(* what it had in flight is dropped                                        *)
StopTransport ==
    /\ ~isStopped
    /\ isStopped' = TRUE
    /\ FinishAll({o \in Exchanges : phase[o] = "running"}, "cancelled")
    /\ pending' = [i \in Ids |-> Nothing]
    /\ writeQueue' = <<>>
    /\ link' = "down"
    /\ writes' = {} /\ reads' = {}
    /\ UNCHANGED <<queryId, nextQueryId, timeVars, generation, stray>>

TransportNext ==
    \/ \E o \in Exchanges :
          \/ OpenRefused(o) \/ OpenExpired(o) \/ OpenExchange(o)
          \/ DatagramOpened(o) \/ UdpSent(o) \/ UdpFails(o) \/ UdpStray(o) \/ UdpTruncated(o)
          \/ \E r \in {"answer", "error"} : UdpReceived(o, r)
          \/ DeadlinePasses(o) \/ OpDeadline(o) \/ CancelExchange(o)
          \/ \E i \in Ids : SessionDeadline(o, i)
    \/ OnConnected \/ ConnectFails
    \/ \E w \in writes : OnWrite(w) \/ WriteFails(w)
    \/ \E r \in reads : ReadFails(r) \/ ReadLength(r)
    \/ \E r \in reads, i \in Ids, x \in {"answer", "error"} : DispatchResponse(r, i, x)
    \/ StopTransport

TransportSpec == TransportInit /\ [][TransportNext]_transportVars

(* Time passes, and a timer whose time has come fires. *)
TransportFairSpec ==
    /\ TransportSpec
    /\ \A o \in Exchanges : WF_transportVars(DeadlinePasses(o)) /\ WF_transportVars(OpDeadline(o))

-----------------------------------------------------------------------------
(* Properties. *)

(* Types. *)
TransportTypeOK ==
    /\ phase \in [Exchanges -> {"idle", "running", "done"}]
    /\ outcome \in [Exchanges -> Endings \cup {Nothing}]
    /\ chain \in [Exchanges -> {"none", "opening", "sending", "receiving", "tcp", "ended"}]
    /\ datagram \in [Exchanges -> BOOLEAN]
    /\ queryId \in [Exchanges -> 0..MaxId] /\ nextQueryId \in Ids /\ activeIds \subseteq Ids
    /\ expired \subseteq Exchanges /\ timers \subseteq Exchanges /\ sessionTimers \subseteq Exchanges \X Ids
    /\ pending \in [Ids -> Exchanges \cup {Nothing}] /\ writeQueue \in Seq(Ids)
    /\ generation \in 0..MaxGeneration /\ link \in {"down", "connecting", "connected"}
    /\ writes \subseteq [gen : 0..MaxGeneration, id : Ids, op : Exchanges]
    /\ reads \subseteq [gen : 0..MaxGeneration, part : {"length", "body"}]
    /\ isStopped \in BOOLEAN /\ stray \in 0..MaxStray

(* The ids in use are those of the running exchanges, no two of which      *)
(* share one.                                                              *)
IdsUnique ==
    LET running == {o \in Exchanges : phase[o] = "running"} IN
    /\ activeIds = {queryId[o] : o \in running}
    /\ \A a, b \in running : queryId[a] = queryId[b] => a = b

(* The session waits for an answer exactly for the exchanges that wait for *)
(* the session, so that an exchange that is over left nothing behind.      *)
SessionAgrees ==
    /\ \A i \in Ids : pending[i] # Nothing =>
          phase[pending[i]] = "running" /\ chain[pending[i]] = "tcp" /\ queryId[pending[i]] = i
    /\ \A o \in Exchanges : chain[o] = "tcp" => pending[queryId[o]] = o
    /\ \A o \in Exchanges : datagram[o] => phase[o] = "running"

(* A request the session holds has a connection, or one on its way, that   *)
(* reads answers, one frame at a time, and writes requests, one at a time, *)
(* as long as there are any.                                               *)
NoRequestStranded ==
    /\ Awaited # {} => link # "down"
    /\ Cardinality({r \in reads : r.gen = generation}) = IF link = "connected" THEN 1 ELSE 0
    /\ Cardinality({w \in writes : w.gen = generation}) <= 1
    /\ link = "connected" /\ ~WriteInProgress => \A i \in Range(writeQueue) : pending[i] = Nothing

(* Exchanges that were given an id, and whether no more were than there    *)
(* are ids.                                                                *)
Assigned == {o \in Exchanges : queryId[o] # 0}
IdsToSpare == Cardinality(Assigned) <= MaxId

(* Only the exchange's own deadline makes it time out.                     *)
TimesOutByOwnDeadline ==
    \A o \in Exchanges : outcome[o] = "timeout" => o \in expired

(* The transport keeps the promise of an exchange: one outcome, and some   *)
(* outcome, whatever the network does.                                     *)
TransportPromise == INSTANCE DnsExchange WITH
    Ops <- Exchanges, Outcomes <- Endings, NoOutcome <- Nothing

(* The ids in use are those of the running exchanges, each its own; the    *)
(* TCP session waits exactly for the exchanges that wait for it; what it   *)
(* holds has a connection that reads and writes; and until an id is given  *)
(* a second time, an exchange times out by its own deadline only.          *)
TransportIsSound ==
    /\ TransportTypeOK /\ IdsUnique /\ SessionAgrees /\ NoRequestStranded
    /\ IdsToSpare => TimesOutByOwnDeadline
=============================================================================

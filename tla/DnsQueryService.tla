-------------------------- MODULE DnsQueryService --------------------------
(***************************************************************************)
(* The shared DNS query service of src/dns/dns_query_service.cpp: an       *)
(* answer cache, the coalescing of equal queries into one upstream         *)
(* exchange, per-waiter cancellation and shutdown.                         *)
(*                                                                         *)
(* Callers on any thread post closures to the runtime's strand; one strand *)
(* step runs one closure to its end.  While the runtime is not running the *)
(* calls act at once.  The upstream group is seen as it is used here: an   *)
(* exchange that ends once, with an answer or an error, and that a stop    *)
(* request ends at once with "cancelled".                                  *)
(*                                                                         *)
(* A query is its wire image without the transaction id.  An operation is  *)
(* named by the request that opened it.                                    *)
(***************************************************************************)
EXTENDS Naturals, Sequences, FiniteSets, SequencesExt

CONSTANTS
    MaxRequest,    \* bound on the number of requests
    Wires,         \* query packets, transaction id zeroed
    Malformed,     \* the packets without exactly one question
    PacketIds,     \* transaction ids
    NameOf,        \* normalised question name of a packet
    PolicyOf,      \* upstream group the policy router selects for a name
    Groups,        \* configured upstream groups
    Responses,     \* answers an upstream may give
    NegativeTtl,   \* negative_cache_ttl
    U32Max,        \* numeric_limits<uint32_t>::max()
    Capacity,      \* cache_capacity
    MaxClock,      \* bound on the clock
    MaxCancels,    \* bound on the calls of cancel()
    MaxClears,     \* bound on the calls of clear_cache()
    MaxRuntimeStops, \* bound on the stops of the runtime
    MayStop,       \* stop() may be called
    OwnerDrains    \* the owner destroys the service with no query posted

Requests == 1..MaxRequest

(* The outcomes without a packet.  A policy may select "default". *)
Cancelled == "cancelled"
Invalid == "invalid"
BadGroup == "badgroup"
Failed == "failed"
Errors == {Cancelled, Invalid, BadGroup, Failed}

ASSUME DnsQueryAssumption ==
    /\ MaxRequest \in Nat \ {0}
    /\ Malformed \subseteq Wires
    /\ NegativeTtl \in Nat /\ U32Max \in Nat
    /\ Capacity \in Nat /\ MaxClock \in Nat
    /\ MaxCancels \in Nat /\ MaxClears \in Nat /\ MaxRuntimeStops \in Nat
    /\ OwnerDrains \in BOOLEAN /\ MayStop \in BOOLEAN
    /\ \A w \in Wires : PolicyOf[NameOf[w]] \in STRING
    /\ \A p \in Responses : /\ p.rcode \in Nat
                            /\ p.answers \subseteq 0..U32Max
                            /\ p.soa \subseteq [ttl : Nat, minimum : Nat]

VARIABLES
    strand,      \* closures posted to the runtime's strand, oldest first
    running,     \* AsioRuntime::running
    runtimeStops,
    clock,         \* the steady clock
    query,       \* packet and transaction id of every request made
    cancelAsked, \* requests whose cancel() was called
    clears,      \* calls of clear_cache()
    queryStopped,     \* stopped_
    gate,        \* *callback_gate_
    stopAt,      \* progress of the thread inside stop()
    alive,       \* the service has not been destroyed
    opKey,       \* key of every operation
    waiters,     \* waiters_ of every operation
    completed,   \* completed_ of every operation
    exchange,    \* state of the operation's exchange task
    inFlight,    \* in_flight_
    requests,    \* requests_
    cache,       \* cache_
    lru,         \* cache_lru_, most recently used first
    answers,     \* completions posted to the handler of each request
    touched      \* a closure used the service after its destruction

callVars == <<query, cancelAsked, clears>>
stopVars == <<queryStopped, gate, stopAt, alive>>
operationVars == <<opKey, waiters, completed, exchange, inFlight, requests>>
cacheVars == <<cache, lru>>
envVars == <<running, runtimeStops, clock>>
serviceVars == <<strand, callVars, stopVars, operationVars, cacheVars, envVars,
          answers, touched>>

NoKey == <<>>

-----------------------------------------------------------------------------
(* What is cached and for how long. *)

MinOf(S) == CHOOSE x \in S : \A y \in S : x <= y

(* nullopt of cache_ttl is 0: the code never returns a lifetime of 0. *)
CacheTtl(p) ==
    CASE p.rcode = 3 \/ (p.rcode = 0 /\ p.answers = {}) ->
           MinOf({NegativeTtl} \cup {s.ttl : s \in p.soa}
                               \cup {s.minimum : s \in p.soa})
      [] p.rcode = 0 /\ p.answers # {} ->
           LET ttl == MinOf(p.answers) IN IF ttl = U32Max THEN 0 ELSE ttl
      [] OTHER -> 0

IsBuiltinDefault(g) == g \in {"", "default", "$default", "system"}

(* The upstream group of a packet, or BadGroup. *)
GroupOf(w) ==
    LET g == PolicyOf[NameOf[w]] IN
    IF g \in Groups THEN g ELSE IF IsBuiltinDefault(g) THEN "$default" ELSE BadGroup

(* cache_key: the raw wire image with a zero id, and the group. *)
CacheKey(w) == <<w, GroupOf(w)>>

(* erase(lru_position), splice to the front *)
Position(s, x) == CHOOSE i \in DOMAIN s : s[i] = x
Erased(s, x) == IF x \in Range(s) THEN RemoveAt(s, Position(s, x)) ELSE s
ToFront(s, x) == <<x>> \o Erased(s, x)

-----------------------------------------------------------------------------
(* Answers.  One with a packet also tells when complete() saw the packet   *)
(* (born), when it was handed out (at) and the id it was rewritten to.     *)

Err(e) == [ok |-> FALSE, error |-> e]

Packet(p, key) == [ok |-> TRUE, packet |-> p, key |-> key]

(* post_completion *)
PostError(S, e) ==
    answers' = [r \in Requests |-> IF r \in S THEN Append(answers[r], Err(e)) ELSE answers[r]]

(* post_packet: the answer is rewritten to the waiter's response id. *)
Rewritten(result, id, born) ==
    [ok |-> TRUE, packet |-> result.packet, key |-> result.key,
     born |-> born, id |-> id, at |-> clock]

(* The loop over the waiters at the end of complete(). *)
Deliver(W, result) ==
    answers' = [r \in Requests |->
        IF \E w \in W : w.id = r
        THEN LET w == CHOOSE v \in W : v.id = r IN
             Append(answers[r], IF result.ok THEN Rewritten(result, w.responseId, clock) ELSE result)
        ELSE answers[r]]

-----------------------------------------------------------------------------
(* Initial state. *)

QueryInit ==
    /\ strand = <<>>
    /\ running \in BOOLEAN
    /\ runtimeStops = 0
    /\ clock = 0
    /\ query = <<>>
    /\ cancelAsked = {}
    /\ clears = 0
    /\ queryStopped = FALSE
    /\ gate = TRUE
    /\ stopAt = "idle"
    /\ alive = TRUE
    /\ opKey = [r \in Requests |-> NoKey]
    /\ waiters = [r \in Requests |-> {}]
    /\ completed = [r \in Requests |-> FALSE]
    /\ exchange = [r \in Requests |-> "none"]
    /\ inFlight = <<>>
    /\ requests = <<>>
    /\ cache = <<>>
    /\ lru = <<>>
    /\ answers = [r \in Requests |-> <<>>]
    /\ touched = FALSE

-----------------------------------------------------------------------------
(* Bodies that run on the strand, or inline while the runtime is stopped.  *)
(* "rest" is what the strand holds before the body posts anything.         *)

Drop(f, x) == [y \in DOMAIN f \ {x} |-> f[y]]
DropAll(f, S) == [y \in DOMAIN f \ S |-> f[y]]
Put(f, x, v) == [y \in DOMAIN f \cup {x} |-> IF y = x THEN v ELSE f[y]]

(* A refused query, or one answered from the cache, opens nothing. *)
Refuse(r, e) ==
    /\ PostError({r}, e)
    /\ UNCHANGED <<operationVars, cacheVars>>

\* Mutant: an entry is served at the instant it expires.
HitLate(key) == key \in DOMAIN cache /\ cache[key].expires >= clock

Hit(key) == key \in DOMAIN cache /\ cache[key].expires > clock
AnswerFromCache(r, q, key) ==
    /\ lru' = ToFront(lru, key)
    /\ answers' = [answers EXCEPT ![r] =
                     Append(@, Rewritten(cache[key].result, q.id, cache[key].born))]
    /\ UNCHANGED <<operationVars, cache>>

(* The expired entry, if there is one, is dropped before the miss. *)
EraseExpired(key) ==
    /\ cache' = Drop(cache, key)
    /\ lru' = Erased(lru, key)

Waiter(r, q) == [id |-> r, responseId |-> q.id]

Join(r, q, key) ==
    /\ waiters' = [waiters EXCEPT ![inFlight[key]] = @ \cup {Waiter(r, q)}]
    /\ requests' = Put(requests, r, inFlight[key])
    /\ UNCHANGED <<opKey, completed, exchange, inFlight, answers>>

Open(r, q, key) ==
    /\ opKey' = [opKey EXCEPT ![r] = key]
    /\ waiters' = [waiters EXCEPT ![r] = {Waiter(r, q)}]
    /\ exchange' = [exchange EXCEPT ![r] = "running"]
    /\ inFlight' = Put(inFlight, key, r)
    /\ requests' = Put(requests, r, r)
    /\ UNCHANGED <<completed, answers>>

QueryOnOwner(r, q) ==
    LET w == q.wire
        key == CacheKey(w) IN
    \/ queryStopped /\ Refuse(r, Cancelled)
    \/ ~queryStopped /\ w \in Malformed /\ Refuse(r, Invalid)
    \/ ~queryStopped /\ w \notin Malformed /\ GroupOf(w) = BadGroup /\ Refuse(r, BadGroup)
    \/ /\ ~queryStopped /\ w \notin Malformed /\ GroupOf(w) # BadGroup
       /\ \/ Hit(key) /\ AnswerFromCache(r, q, key)
          \/ /\ ~Hit(key)
             /\ EraseExpired(key)
             /\ IF key \in DOMAIN inFlight THEN Join(r, q, key) ELSE Open(r, q, key)

(* complete() leaves in_flight_ alone when a newer operation took the key. *)
Retire(o) ==
    IF opKey[o] \in DOMAIN inFlight /\ inFlight[opKey[o]] = o
    THEN Drop(inFlight, opKey[o]) ELSE inFlight

(* Eviction from the back until there is room, then the new entry. *)
Insert(key, entry) ==
    LET others == Erased(lru, key)
        keep == IF Len(others) >= Capacity THEN SubSeq(others, 1, Capacity - 1) ELSE others IN
    /\ lru' = <<key>> \o keep
    /\ cache' = [k \in Range(keep) \cup {key} |-> IF k = key THEN entry ELSE cache[k]]

Store(o, result) ==
    IF result.ok /\ CacheTtl(result.packet) > 0 /\ Capacity > 0
    THEN Insert(opKey[o], [result |-> result, born |-> clock, expires |-> clock + CacheTtl(result.packet)])
    ELSE UNCHANGED cacheVars

WaiterIds(o) == {w.id : w \in waiters[o]}

Complete(o, result) ==
    /\ inFlight' = Retire(o)
    /\ Store(o, result)
    /\ requests' = DropAll(requests, WaiterIds(o))
    /\ Deliver(waiters[o], result)
    /\ waiters' = [waiters EXCEPT ![o] = {}]

(* Operation::finish *)
FinishOperation(o, result) ==
    /\ UNCHANGED <<opKey, exchange>>
    /\ \/ /\ completed[o]
          /\ UNCHANGED <<waiters, completed, inFlight, requests, cacheVars, answers>>
       \/ /\ ~completed[o]
          /\ completed' = [completed EXCEPT ![o] = TRUE]
          /\ Complete(o, result)

(* The stop request ends the exchange: its task posts a last finish(). *)
Unwound(S) == SetToSeq({[kind |-> "finish", op |-> o, result |-> Err(Cancelled)] :
                           o \in {p \in S : exchange[p] = "running"}})

EndExchanges(S) == exchange' = [o \in Requests |-> IF o \in S THEN "done" ELSE exchange[o]]

\* Mutant: the exchange is ended for all of its waiters.
CancelOnOwnerShared(r, rest) ==
    \/ /\ r \notin DOMAIN requests
       /\ strand' = rest
       /\ UNCHANGED <<operationVars, cacheVars, answers>>
    \/ /\ r \in DOMAIN requests
       /\ LET o == requests[r] IN
          /\ requests' = DropAll(requests, WaiterIds(o))
          /\ PostError(WaiterIds(o), Cancelled)
          /\ waiters' = [waiters EXCEPT ![o] = {}]
          /\ UNCHANGED <<opKey, cacheVars>>
          /\ completed' = [completed EXCEPT ![o] = TRUE]
          /\ EndExchanges({o})
          /\ inFlight' = Retire(o)
          /\ strand' = rest \o Unwound({o})

(* cancel_on_owner, with cancel_shared when the last waiter leaves *)
CancelOnOwner(r, rest) ==
    \/ /\ r \notin DOMAIN requests
       /\ strand' = rest
       /\ UNCHANGED <<operationVars, cacheVars, answers>>
    \/ /\ r \in DOMAIN requests
       /\ LET o == requests[r]
              left == {w \in waiters[o] : w.id # r} IN
          /\ requests' = Drop(requests, r)
          /\ PostError({r} \cap WaiterIds(o), Cancelled)
          /\ waiters' = [waiters EXCEPT ![o] = left]
          /\ UNCHANGED <<opKey, cacheVars>>
          /\ IF left = {} /\ ~completed[o]
             THEN /\ completed' = [completed EXCEPT ![o] = TRUE]
                  /\ EndExchanges({o})
                  /\ inFlight' = Retire(o)
                  /\ strand' = rest \o Unwound({o})
             ELSE /\ strand' = rest
                  /\ UNCHANGED <<completed, exchange, inFlight>>

\* Mutant: the waiters of the exchanges are not answered.
StopOnOwnerForgets(rest) ==
    /\ strand' = rest
    /\ inFlight' = <<>>
    /\ requests' = <<>>
    /\ UNCHANGED <<opKey, waiters, completed, exchange, cacheVars, answers>>

(* stop_on_owner: cancel_shared on every operation, then the groups stop. *)
StopOnOwner(rest) ==
    LET live == {inFlight[k] : k \in DOMAIN inFlight} IN
    /\ completed' = [o \in Requests |-> completed[o] \/ o \in live]
    /\ EndExchanges(live)
    /\ strand' = rest \o Unwound(live)
    /\ PostError(UNION {WaiterIds(o) : o \in live}, Cancelled)
    /\ waiters' = [o \in Requests |-> IF o \in live THEN {} ELSE waiters[o]]
    /\ inFlight' = <<>>
    /\ requests' = <<>>
    /\ UNCHANGED <<opKey, cacheVars>>

ClearAll == cache' = <<>> /\ lru' = <<>>

-----------------------------------------------------------------------------
(* Callers. *)

Post(task) == strand' = Append(strand, task)

(* query(), query_sender(): posted, or run at once when nothing runs. *)
Query(w, id) ==
    LET r == Len(query) + 1
        q == [wire |-> w, id |-> id] IN
    /\ alive /\ r \in Requests
    /\ query' = Append(query, q)
    /\ \/ /\ running
          /\ Post([kind |-> "query", r |-> r])
          /\ UNCHANGED <<operationVars, cacheVars, answers>>
       \/ /\ ~running
          /\ QueryOnOwner(r, q)
          /\ UNCHANGED strand
    /\ UNCHANGED <<cancelAsked, clears, stopVars, envVars, touched>>

Cancel(r) ==
    /\ alive /\ r <= Len(query) /\ r \notin cancelAsked
    /\ Cardinality(cancelAsked) < MaxCancels
    /\ cancelAsked' = cancelAsked \cup {r}
    /\ \/ /\ running
          /\ Post([kind |-> "cancel", r |-> r])
          /\ UNCHANGED <<operationVars, cacheVars, answers>>
       \/ ~running /\ CancelOnOwner(r, strand)
    /\ UNCHANGED <<query, clears, stopVars, envVars, touched>>

ClearCache ==
    /\ alive /\ clears < MaxClears
    /\ clears' = clears + 1
    /\ \/ /\ running
          /\ Post([kind |-> "clear"])
          /\ UNCHANGED cacheVars
       \/ /\ ~running
          /\ ClearAll
          /\ UNCHANGED strand
    /\ UNCHANGED <<query, cancelAsked, stopVars, operationVars, envVars, answers, touched>>

(* stop(): the flag, the gate, the closure on the strand, the semaphore. *)
StopFlag ==
    /\ MayStop /\ stopAt = "idle"
    /\ queryStopped' = TRUE
    /\ stopAt' = "flag"
    /\ UNCHANGED <<strand, callVars, gate, alive, operationVars, cacheVars, envVars, answers, touched>>

StopGate ==
    /\ stopAt = "flag"
    /\ gate' = FALSE
    /\ stopAt' = "gate"
    /\ UNCHANGED <<strand, callVars, queryStopped, alive, operationVars, cacheVars, envVars, answers, touched>>

(* dispatch() runs at once when stop() was called from a strand closure, *)
(* and so does stop() while the runtime is not running.                  *)
StopDispatch ==
    /\ stopAt = "gate"
    /\ \/ /\ running
          /\ Post([kind |-> "stop"])
          /\ stopAt' = "posted"
          /\ UNCHANGED <<operationVars, cacheVars, answers>>
       \/ /\ StopOnOwner(strand)
          /\ stopAt' = "done"
    /\ UNCHANGED <<callVars, queryStopped, gate, alive, envVars, touched>>

QueryPosted == \E i \in DOMAIN strand : strand[i].kind = "query"

(* ~DnsQueryService once its stop() has returned *)
Destroy ==
    /\ alive /\ stopAt = "done"
    /\ OwnerDrains => ~QueryPosted
    /\ alive' = FALSE
    /\ UNCHANGED <<strand, callVars, queryStopped, gate, stopAt, operationVars, cacheVars, envVars,
                   answers, touched>>

-----------------------------------------------------------------------------
(* The strand. *)

\* Mutant: a query behind the closed gate is dropped.
RunQueryDropped(task, rest) ==
    /\ strand' = rest
    /\ IF gate THEN QueryOnOwner(task.r, query[task.r]) ELSE UNCHANGED <<operationVars, cacheVars, answers>>
    /\ UNCHANGED <<stopAt, touched>>

(* A query behind a closed gate is answered through runtime_, a member. *)
RunQuery(task, rest) ==
    /\ strand' = rest
    /\ \/ gate /\ QueryOnOwner(task.r, query[task.r]) /\ UNCHANGED touched
       \/ /\ ~gate
          /\ Refuse(task.r, Cancelled)
          /\ touched' = (touched \/ ~alive)
    /\ UNCHANGED stopAt

RunCancel(task, rest) ==
    /\ IF gate THEN CancelOnOwner(task.r, rest)
       ELSE strand' = rest /\ UNCHANGED <<operationVars, cacheVars, answers>>
    /\ UNCHANGED <<stopAt, touched>>

RunClear(task, rest) ==
    /\ strand' = rest
    /\ IF gate THEN ClearAll ELSE UNCHANGED cacheVars
    /\ UNCHANGED <<operationVars, answers, stopAt, touched>>

RunFinish(task, rest) ==
    /\ strand' = rest
    /\ FinishOperation(task.op, task.result)
    /\ UNCHANGED <<stopAt, touched>>

RunStop(task, rest) ==
    /\ StopOnOwner(rest)
    /\ stopAt' = "done"
    /\ UNCHANGED touched

StrandStep(kind) ==
    /\ running /\ strand # <<>>
    /\ LET task == Head(strand)
           rest == Tail(strand) IN
       /\ task.kind = kind
       /\ CASE kind = "query"  -> RunQuery(task, rest)
            [] kind = "cancel" -> RunCancel(task, rest)
            [] kind = "clear"  -> RunClear(task, rest)
            [] kind = "finish" -> RunFinish(task, rest)
            [] kind = "stop"   -> RunStop(task, rest)
    /\ UNCHANGED <<callVars, queryStopped, gate, alive, envVars>>

-----------------------------------------------------------------------------
(* The rest of the program. *)

(* The exchange task ends and posts finish() to the strand. *)
UpstreamEnds(o) ==
    /\ running /\ exchange[o] = "running"
    /\ exchange' = [exchange EXCEPT ![o] = "done"]
    /\ \E result \in {Err(Failed)} \cup {Packet(p, opKey[o]) : p \in Responses} :
          Post([kind |-> "finish", op |-> o, result |-> result])
    /\ UNCHANGED <<callVars, stopVars, opKey, waiters, completed, inFlight, requests,
                   cacheVars, envVars, answers, touched>>

ClockTicks ==
    /\ clock < MaxClock
    /\ clock' = clock + 1
    /\ UNCHANGED <<strand, running, runtimeStops, callVars, stopVars, operationVars, cacheVars,
                   answers, touched>>

RuntimeStart ==
    /\ ~running
    /\ running' = TRUE
    /\ UNCHANGED <<strand, runtimeStops, clock, callVars, stopVars, operationVars, cacheVars,
                   answers, touched>>

(* run() returns only when no closure and no I/O is outstanding. *)
RuntimeStop ==
    /\ running /\ runtimeStops < MaxRuntimeStops
    /\ strand = <<>> /\ \A o \in Requests : exchange[o] # "running"
    /\ running' = FALSE
    /\ runtimeStops' = runtimeStops + 1
    /\ UNCHANGED <<strand, clock, callVars, stopVars, operationVars, cacheVars, answers, touched>>

QueryNext ==
    \/ \E w \in Wires, id \in PacketIds : Query(w, id)
    \/ \E r \in Requests : Cancel(r)
    \/ ClearCache
    \/ StopFlag
    \/ StopGate
    \/ StopDispatch
    \/ Destroy
    \/ \E kind \in {"query", "cancel", "clear", "finish", "stop"} : StrandStep(kind)
    \/ \E o \in Requests : UpstreamEnds(o)
    \/ ClockTicks
    \/ RuntimeStart
    \/ RuntimeStop

QuerySpec == QueryInit /\ [][QueryNext]_serviceVars

(* The workers keep draining the strand, and every exchange ends by its    *)
(* deadline.  Nobody is obliged to call anything.                          *)
QueryFairSpec ==
    /\ QuerySpec
    /\ \A kind \in {"query", "cancel", "clear", "finish", "stop"} :
          WF_serviceVars(StrandStep(kind))
    /\ \A o \in Requests : WF_serviceVars(UpstreamEnds(o))
    /\ WF_serviceVars(RuntimeStart)

-----------------------------------------------------------------------------
(* Properties. *)

Keys == {CacheKey(w) : w \in Wires \ Malformed}

Results == [ok : {FALSE}, error : Errors] \cup [ok : {TRUE}, packet : Responses, key : Keys]

Answers == [ok : {FALSE}, error : Errors]
             \cup [ok : {TRUE}, packet : Responses, key : Keys, born : 0..MaxClock,
                   id : PacketIds, at : 0..MaxClock]

(* The closures on the strand *)
Tasks == [kind : {"query", "cancel"}, r : Requests]
             \cup [kind : {"finish"}, op : Requests, result : Results]
             \cup [kind : {"clear", "stop"}]

CallsTyped ==
    /\ strand \in Seq(Tasks)
    /\ running \in BOOLEAN /\ clock \in 0..MaxClock
    /\ query \in Seq([wire : Wires, id : PacketIds]) /\ Len(query) <= MaxRequest
    /\ cancelAsked \subseteq Requests
    /\ clears \in 0..MaxClears /\ runtimeStops \in 0..MaxRuntimeStops
    /\ queryStopped \in BOOLEAN /\ gate \in BOOLEAN /\ alive \in BOOLEAN /\ touched \in BOOLEAN
    /\ stopAt \in {"idle", "flag", "gate", "posted", "done"}
OperationsTyped ==
    /\ opKey \in [Requests -> Keys \cup {NoKey}]
    /\ waiters \in [Requests -> SUBSET [id : Requests, responseId : PacketIds]]
    /\ completed \in [Requests -> BOOLEAN]
    /\ exchange \in [Requests -> {"none", "running", "done"}]
    /\ DOMAIN inFlight \subseteq Keys /\ Range(inFlight) \subseteq Requests
    /\ DOMAIN requests \subseteq Requests /\ Range(requests) \subseteq Requests
    /\ answers \in [Requests -> Seq(Answers)]
(* A positive answer is cached for less than the largest TTL, which        *)
(* cache_ttl refuses.                                                      *)
CacheTyped ==
    /\ DOMAIN cache \subseteq Keys /\ lru \in Seq(Keys)
    /\ \A k \in DOMAIN cache :
          /\ cache[k] \in [result : Results, born : 0..MaxClock, expires : Nat]
          /\ cache[k].result.ok
          /\ cache[k].result.packet.rcode = 0 /\ cache[k].result.packet.answers # {}
                => cache[k].expires - cache[k].born < U32Max

(* Every variable has its type. *)
QueryTypeOK == CallsTyped /\ OperationsTyped /\ CacheTyped

(* A request is answered at most once, with its own transaction id and the *)
(* answer to its own packet (complete() and the cache share packets        *)
(* between requests that differ in their id).                              *)
AnsweredOnceAsAsked ==
    \A r \in Requests :
        /\ Len(answers[r]) <= 1
        /\ \A i \in DOMAIN answers[r] :
              answers[r][i].ok => /\ answers[r][i].id = query[r].id
                                  /\ answers[r][i].key = CacheKey(query[r].wire)

Waiting(r) == \E k \in DOMAIN inFlight : r \in WaiterIds(inFlight[k])
Queued(r) == \E i \in DOMAIN strand : strand[i] = [kind |-> "query", r |-> r]

(* No request is lost: until it is answered it is a closure on the strand  *)
(* or a waiter of an operation that in_flight_ can still find.             *)
NoRequestLost ==
    \A r \in 1..Len(query) :
        Cardinality({x \in {"answered", "waiting", "queued"} :
            \/ x = "answered" /\ answers[r] # <<>>
            \/ x = "waiting" /\ Waiting(r)
            \/ x = "queued" /\ Queued(r)}) = 1

(* in_flight_, requests_, waiters_ and completed_ tell the same story: an  *)
(* operation that can be joined still has an exchange or a finish() to     *)
(* come and somebody who waits, and cancel() finds every waiter.           *)
IndexesAgree ==
    /\ \A k \in DOMAIN inFlight :
          LET o == inFlight[k] IN
          /\ opKey[o] = k /\ ~completed[o] /\ waiters[o] # {}
          /\ exchange[o] = "running"
                \/ \E i \in DOMAIN strand : strand[i].kind = "finish" /\ strand[i].op = o
    /\ \A o \in Requests : waiters[o] # {} => o \in Range(inFlight)
    /\ \A r \in Requests, o \in Requests :
          (r \in DOMAIN requests /\ requests[r] = o) <=> r \in WaiterIds(o)

(* The cache and its LRU list hold the same keys, each once, and never     *)
(* more than cache_capacity of them.                                       *)
CacheConsistent ==
    /\ Range(lru) = DOMAIN cache
    /\ Len(lru) = Cardinality(DOMAIN cache)
    /\ Len(lru) <= Capacity

(* A positive answer served from the cache is younger than each of its     *)
(* records, a negative one than the configured and the SOA lifetimes (the  *)
(* records an NXDOMAIN answer may carry do not bound its life).            *)
AnswersAreFresh ==
    \A r \in Requests : \A i \in DOMAIN answers[r] :
        LET a == answers[r][i] IN
        a.ok /\ a.at # a.born =>
            /\ a.packet.rcode = 0 => \A t \in a.packet.answers : a.at < a.born + t
            /\ a.packet.rcode = 3 \/ a.packet.answers = {} =>
                  /\ a.at < a.born + NegativeTtl
                  /\ \A s \in a.packet.soa : a.at < a.born + s.minimum /\ a.at < a.born + s.ttl

(* Cancellation is per waiter: only a request that was cancelled itself,   *)
(* or one of a stopped service, ends as cancelled.                         *)
CancelIsIsolated ==
    \A r \in Requests : \A i \in DOMAIN answers[r] :
        answers[r][i] = Err(Cancelled) => r \in cancelAsked \/ queryStopped

(* Equal packets share one exchange: there are never two exchanges for one *)
(* cache key.                                                              *)
OneExchangePerKey ==
    \A o, p \in Requests :
        exchange[o] = "running" /\ exchange[p] = "running" /\ opKey[o] = opKey[p] => o = p

(* Once stop() returned nothing is in flight and nothing starts again.     *)
StoppedIsQuiet ==
    stopAt = "done" =>
        /\ inFlight = <<>> /\ requests = <<>>
        /\ \A o \in Requests : exchange[o] # "running" /\ waiters[o] = {}

(* No closure uses the service after its destruction. *)
NoUseAfterDestruction == ~touched

(* Equivalent questions, equal once normalised, share one exchange. *)
OneExchangePerQuestion ==
    \A o, p \in Requests :
        /\ exchange[o] = "running" /\ exchange[p] = "running"
        /\ NameOf[opKey[o][1]] = NameOf[opKey[p][1]] /\ opKey[o][2] = opKey[p][2]
        => o = p

(* Every query is answered. *)
EveryQueryAnswered == \A r \in Requests : r <= Len(query) => answers[r] # <<>>

(* Every query() is answered once, under its own id and to its own packet; *)
(* until then it is posted or waits for an exchange; and a stopped service *)
(* has nothing left to answer.                                             *)
RequestsAnswered == QueryTypeOK /\ NoRequestLost /\ StoppedIsQuiet /\ AnsweredOnceAsAsked

(* Equal questions share one exchange, in_flight_, requests_ and the       *)
(* waiters agree about it, and cancelling one request leaves the others.   *)
SharingIsSound == IndexesAgree /\ CancelIsIsolated /\ OneExchangePerKey

(* cache_ and its LRU list agree within cache_capacity, and a cached       *)
(* packet is served only while each of its records lives.                  *)
CacheIsSound == CacheConsistent /\ AnswersAreFresh
=============================================================================

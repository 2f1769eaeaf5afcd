--------------------------- MODULE DnsPlainProofs ---------------------------
(***************************************************************************)
(* Proofs about DnsPlainTransport, for every set of exchanges, number of   *)
(* transaction ids, number of lost connections and stray packets, with and *)
(* without prefer_tcp: what the transport keeps in step (TransportIsSound),*)
(* whose deadline makes an exchange time out, and that the transport       *)
(* implements DnsExchange.                                                 *)
(***************************************************************************)
EXTENDS DnsPlainTransport, FiniteSetTheorems, WellFoundedInduction, TLAPS

-----------------------------------------------------------------------------
(* Facts about numbers, queues and ids. *)

(* A set of naturals that is not empty has a least element.                *)
LEMMA LeastExists ==
    ASSUME NEW S \in SUBSET Nat, S # {}
    PROVE  \E x \in S : \A y \in S : x <= y
<1> DEFINE R == {ss \in Nat \X Nat : ss[1] < ss[2]}
<1>1. R = OpToRel(<, Nat)
  BY Zenon DEF OpToRel
<1>2. IsWellFoundedOn(R, Nat)
  BY <1>1, NatLessThanWellFounded, Zenon
<1> HIDE DEF R
<1>3. PICK x \in S : \A y \in S : ~(<<y, x>> \in R)
  BY <1>2, WFMin, Zenon
<1>4. ASSUME NEW y \in S PROVE x <= y
  <2>1. x \in Nat /\ y \in Nat
    OBVIOUS
  <2>2. y < x => <<y, x>> \in R
    BY <2>1 DEF R
  <2> QED BY <1>3, <2>1, <2>2
<1> QED BY <1>4

(* The elements kept are in the queue and are not erased. *)
LEMMA WithoutFacts ==
    ASSUME NEW S, NEW q \in Seq(S), NEW ids
    PROVE  Without(q, ids) \in Seq(S) /\ Range(Without(q, ids)) \subseteq Range(q) \ ids
<1> DEFINE Step(g, k) == IF q[k] \in ids THEN g[k - 1] ELSE Append(g[k - 1], q[k])
           Rule(g) == [k \in 0..Len(q) |-> IF k = 0 THEN <<>> ELSE Step(g, k)]
           Upto(n, f) == \A k \in 0..n : f[k] = IF k = 0 THEN <<>> ELSE Step(f, k)
           kept == CHOOSE g : g = Rule(g)
           Good == {s \in Seq(S) : Range(s) \subseteq Range(q) \ ids}
<1>1. Len(q) \in Nat
  OBVIOUS
<1>2. \E f : f = [k \in 0..Len(q) |-> f[k]] /\ Upto(Len(q), f)
  <2> DEFINE Bad == {n \in 0..Len(q) : ~\E f : f = [k \in 0..n |-> f[k]] /\ Upto(n, f)}
  <2>1. SUFFICES ASSUME Bad # {} PROVE FALSE
    BY <1>1
  <2>2. PICK n \in Bad : \A m \in Bad : n <= m
    <3> HIDE DEF Upto
    <3>1. Bad \in SUBSET Nat
      OBVIOUS
    <3> HIDE DEF Bad
    <3> QED BY <2>1, <3>1, LeastExists
  <2>3. CASE n = 0
    <3> DEFINE f == [k \in 0..0 |-> <<>>]
    <3>1. f = [k \in 0..0 |-> f[k]] /\ Upto(0, f)
      OBVIOUS
    <3> HIDE DEF f, Upto
    <3> QED BY <2>3, <3>1
  <2>4. CASE n # 0
    <3>1. n - 1 \in 0..Len(q) /\ n - 1 \notin Bad /\ n \in Nat
      BY <1>1, <2>2, <2>4
    <3>2. PICK f : f = [k \in 0..(n - 1) |-> f[k]] /\ Upto(n - 1, f)
      <4> HIDE DEF Upto
      <4> QED BY <3>1
    <3> DEFINE g == [k \in 0..n |-> IF k = n THEN Step(f, n) ELSE f[k]]
    <3>3. g = [k \in 0..n |-> g[k]]
      OBVIOUS
    <3>4. ASSUME NEW k \in 0..n PROVE g[k] = IF k = 0 THEN <<>> ELSE Step(g, k)
      <4>1. k # n => k \in 0..(n - 1) /\ g[k] = f[k] /\ (k # 0 => g[k - 1] = f[k - 1])
        BY <2>4, <3>1
      <4>2. k = n => g[k] = Step(f, n) /\ g[n - 1] = f[n - 1]
        BY <2>4, <3>1
      <4> QED BY <2>4, <3>1, <3>2, <4>1, <4>2
    <3>5. Upto(n, g)
      <4> HIDE DEF g
      <4> QED BY <3>4
    <3> HIDE DEF Upto, g
    <3> QED BY <3>3, <3>5
  <2> QED BY <2>3, <2>4
<1>3. kept = Rule(kept)
  <2>1. PICK f : f = [k \in 0..Len(q) |-> f[k]] /\ Upto(Len(q), f)
    <3> HIDE DEF Upto
    <3> QED BY <1>2
  <2>2. f = Rule(f)
    BY <2>1
  <2> HIDE DEF Rule
  <2> QED BY <2>2
<1>4. Without(q, ids) = kept[Len(q)]
  BY DEF Without
<1> HIDE DEF kept
<1>5. \A k \in 0..Len(q) : kept[k] \in Good
  <2> DEFINE Bad == {n \in 0..Len(q) : kept[n] \notin Good}
  <2>1. SUFFICES ASSUME Bad # {} PROVE FALSE
    OBVIOUS
  <2>2. Bad \in SUBSET Nat
    OBVIOUS
  <2>3. PICK n \in Bad : \A m \in Bad : n <= m
    <3> HIDE DEF Bad
    <3> QED BY <2>1, <2>2, LeastExists
  <2>4. n # 0
    <3>1. kept[0] = <<>>
      BY <1>1, <1>3
    <3>2. <<>> \in Good
      BY DEF Range
    <3> QED BY <3>1, <3>2
  <2>5. n - 1 \in 0..Len(q) /\ n - 1 \notin Bad /\ n \in 1..Len(q)
    BY <1>1, <2>3, <2>4
  <2>6. kept[n - 1] \in Good
    BY <2>5
  <2>7. kept[n] = Step(kept, n)
    <3>1. n \in 0..Len(q) /\ kept[n] = Rule(kept)[n]
      <4> HIDE DEF Rule
      <4> QED BY <1>3, <2>3
    <3> HIDE DEF Step
    <3> QED BY <2>4, <3>1
  <2>8. q[n] \in S /\ q[n] \in Range(q)
    BY <2>5 DEF Range
  <2>9. ASSUME q[n] \notin ids PROVE Append(kept[n - 1], q[n]) \in Good
    <3> DEFINE s == kept[n - 1]
               t == Append(s, q[n])
    <3>1. s \in Seq(S) /\ Range(s) \subseteq Range(q) \ ids
      BY <2>6
    <3> HIDE DEF s
    <3>2. t \in Seq(S) /\ \A i \in DOMAIN t : t[i] = q[n] \/ t[i] \in Range(s)
      BY <2>8, <3>1 DEF Range
    <3> HIDE DEF t
    <3>3. Range(t) \subseteq Range(q) \ ids
      BY <2>8, <2>9, <3>1, <3>2 DEF Range
    <3> QED BY <3>2, <3>3 DEF t, s
  <2> QED BY <2>3, <2>6, <2>7, <2>9
<1> QED BY <1>1, <1>4, <1>5

(* The remainder of a number below twice the divisor.                      *)
LEMMA OneTurn ==
    ASSUME NEW n \in Nat \ {0}, NEW x \in 0..(2 * n - 1)
    PROVE  x % n = IF x < n THEN x ELSE x - n
  OBVIOUS

(* The search for an id finds one that is free whenever there is one.      *)
LEMMA NextIdFree ==
    ASSUME TransportAssumption, nextQueryId \in Ids, activeIds \subseteq Ids, activeIds # Ids
    PROVE  NextQueryId \in Ids \ activeIds
<1> USE DEF TransportAssumption, Ids
<1>1. ASSUME NEW k \in 0..(MaxId - 1)
      PROVE  /\ IdAt(k) = IF nextQueryId + k <= MaxId THEN nextQueryId + k
                          ELSE nextQueryId + k - MaxId
             /\ IdAt(k) \in Ids
  <2> DEFINE x == nextQueryId - 1 + k
  <2>1. x \in 0..(2 * MaxId - 1) /\ MaxId \in Nat \ {0} /\ IdAt(k) = (x % MaxId) + 1
    BY DEF IdAt
  <2>2. x % MaxId = IF x < MaxId THEN x ELSE x - MaxId
    <3> HIDE DEF x
    <3> QED BY <2>1, OneTurn
  <2> QED BY <2>1, <2>2
<1>2. ASSUME NEW i \in Ids PROVE \E k \in 0..(MaxId - 1) : IdAt(k) = i
  <2>1. CASE i >= nextQueryId
    <3>1. i - nextQueryId \in 0..(MaxId - 1)
      BY <2>1
    <3>2. IdAt(i - nextQueryId) = i
      BY <1>1, <3>1
    <3> QED BY <3>1, <3>2
  <2>2. CASE i < nextQueryId
    <3>1. i - nextQueryId + MaxId \in 0..(MaxId - 1)
      BY <2>2
    <3>2. IdAt(i - nextQueryId + MaxId) = i
      BY <1>1, <3>1
    <3> QED BY <3>1, <3>2
  <2> QED BY <2>1, <2>2
<1> DEFINE Free == {k \in 0..(MaxId - 1) : IdAt(k) \notin activeIds}
<1>3. Free \in SUBSET Nat /\ Free # {}
  <2>1. PICK i \in Ids : i \notin activeIds
    OBVIOUS
  <2>2. PICK k \in 0..(MaxId - 1) : IdAt(k) = i
    BY <1>2
  <2>3. k \in Free
    BY <2>1, <2>2
  <2> QED BY <2>3
<1>4. PICK k \in Free : \A l \in Free : k <= l
  <2> HIDE DEF Free
  <2> QED BY <1>3, LeastExists
<1>5. \A l \in 0..(k - 1) : IdAt(l) \in activeIds
  <2> SUFFICES ASSUME NEW l \in 0..(k - 1), IdAt(l) \notin activeIds PROVE FALSE
    OBVIOUS
  <2> QED BY <1>4
<1>6. NextQueryId \in {IdAt(l) : l \in Free}
  BY <1>4, <1>5 DEF NextQueryId
<1> QED BY <1>1, <1>6

(* What is left of a queue once the ids nobody waits for are dropped.      *)
LEMMA LiveQueueFacts ==
    ASSUME NEW q \in Seq(Ids), NEW p \in [Ids -> Exchanges \cup {Nothing}]
    PROVE  /\ LiveQueue(q, p) \in Seq(Ids)
           /\ Range(LiveQueue(q, p)) \subseteq Range(q)
           /\ LiveQueue(q, p) # <<>> =>
                 Head(LiveQueue(q, p)) \in Ids /\ p[Head(LiveQueue(q, p))] \in Exchanges
<1> DEFINE live == {k \in DOMAIN q : p[q[k]] # Nothing}
<1>1. CASE live = {}
  <2>1. LiveQueue(q, p) = <<>>
    BY <1>1 DEF LiveQueue
  <2> QED BY <2>1 DEF Range
<1>2. CASE live # {}
  <2>1. live \in SUBSET Nat
    OBVIOUS
  <2>2. \E k \in live : \A l \in live : k <= l
    <3> HIDE DEF live
    <3> QED BY <1>2, <2>1, LeastExists
  <2> DEFINE first == CHOOSE k \in live : \A l \in live : k <= l
  <2>3. first \in live
    <3> HIDE DEF live
    <3> QED BY <2>2
  <2>4. LiveQueue(q, p) = SubSeq(q, first, Len(q))
    BY <1>2 DEF LiveQueue
  <2> HIDE DEF first
  <2>5. first \in 1..Len(q) /\ q[first] \in Ids /\ p[q[first]] # Nothing
    BY <2>3
  <2> DEFINE t == SubSeq(q, first, Len(q))
  <2>6. t \in Seq(Ids) /\ Len(t) = Len(q) - first + 1 /\ \A i \in 1..Len(t) : t[i] = q[first + i - 1]
    BY <2>5
  <2> HIDE DEF t
  <2>7. Head(t) = q[first]
    BY <2>5, <2>6
  <2>8. Range(t) \subseteq Range(q)
    <3>1. \A i \in DOMAIN t : first + i - 1 \in DOMAIN q /\ t[i] = q[first + i - 1]
      BY <2>5, <2>6
    <3> QED BY <3>1 DEF Range
  <2> QED BY <2>4, <2>5, <2>6, <2>7, <2>8 DEF t
<1> QED BY <1>1, <1>2

-----------------------------------------------------------------------------
(* What runs, and what waits for the session, has an id.                   *)
HaveIds ==
    \A o \in Exchanges : phase[o] = "running" \/ chain[o] = "tcp" => queryId[o] \in Ids

(* An exchange that has not begun has no id and no task.                   *)
NotBegun ==
    \A o \in Exchanges : phase[o] = "idle" => chain[o] = "none" /\ queryId[o] = 0

(* A deadline task of the session names the exchange it was started for    *)
(* and the id that exchange has.                                           *)
TimersAgree == \A t \in sessionTimers : queryId[t[1]] = t[2]

(* The reads and writes of the connection there is now.                    *)
OfThisLink(S) == {x \in S : x.gen = generation}

(* A connection reads one frame at a time and writes one request at a      *)
(* time; without one there is neither.                                     *)
ConnectionAgrees ==
    /\ \A x \in reads \cup writes : x.gen <= generation
    /\ link # "connected" => OfThisLink(reads) = {} /\ OfThisLink(writes) = {}
    /\ link = "connected" => OfThisLink(reads) # {}
    /\ \A r, s \in OfThisLink(reads) : r = s
    /\ \A v, w \in OfThisLink(writes) : v = w

(* Whoever waits has a connection on its way, and a connection with nothing *)
(* to write has nothing queued that anybody waits for.                     *)
QueueServed ==
    /\ Awaited # {} => link # "down"
    /\ link = "connected" /\ ~WriteInProgress => \A i \in Range(writeQueue) : pending[i] = Nothing

(* The inductive invariant. *)
IInv == /\ TransportAssumption
        /\ TransportTypeOK /\ IdsUnique /\ SessionAgrees
        /\ HaveIds /\ NotBegun /\ TimersAgree /\ ConnectionAgrees /\ QueueServed

(* A new transport has no exchange, no id in use and no connection.        *)
LEMMA InitIInv == TransportAssumption /\ TransportInit => IInv
<1> SUFFICES ASSUME TransportAssumption, TransportInit PROVE IInv
  OBVIOUS
<1> USE DEF TransportAssumption, Ids
<1>1. TransportTypeOK
  <2>1. /\ phase \in [Exchanges -> {"idle", "running", "done"}]
        /\ outcome \in [Exchanges -> Endings \cup {Nothing}]
        /\ chain \in [Exchanges -> {"none", "opening", "sending", "receiving", "tcp", "ended"}]
        /\ datagram \in [Exchanges -> BOOLEAN] /\ isStopped \in BOOLEAN
    BY DEF TransportInit
  <2>2. /\ queryId \in [Exchanges -> 0..MaxId] /\ nextQueryId \in Ids
        /\ pending \in [Ids -> Exchanges \cup {Nothing}] /\ writeQueue \in Seq(Ids)
        /\ generation \in 0..MaxGeneration /\ stray \in 0..MaxStray
    BY DEF TransportInit
  <2> QED BY <2>1, <2>2 DEF TransportInit, TransportTypeOK
<1>2. IdsUnique /\ SessionAgrees /\ HaveIds /\ NotBegun /\ TimersAgree
  BY DEF TransportInit, IdsUnique, SessionAgrees, HaveIds, NotBegun, TimersAgree
<1>3. ConnectionAgrees
  BY DEF TransportInit, ConnectionAgrees, OfThisLink
<1>4. QueueServed
  BY DEF TransportInit, QueueServed, Awaited
<1> QED BY <1>1, <1>2, <1>3, <1>4 DEF IInv

(* The invariant says that what the session holds is served. *)
LEMMA Served == IInv => NoRequestStranded
<1> SUFFICES ASSUME IInv PROVE NoRequestStranded
  OBVIOUS
<1>1. Cardinality(OfThisLink(reads)) = IF link = "connected" THEN 1 ELSE 0
  <2>1. CASE link = "connected"
    <3>1. PICK r \in OfThisLink(reads) : OfThisLink(reads) \subseteq {r}
      BY <2>1 DEF IInv, ConnectionAgrees
    <3>2. Cardinality({r}) = 1 /\ OfThisLink(reads) = {r}
      BY <3>1, FS_Singleton
    <3> QED BY <2>1, <3>2
  <2>2. CASE link # "connected"
    BY <2>2, FS_EmptySet DEF IInv, ConnectionAgrees
  <2> QED BY <2>1, <2>2
<1>2. Cardinality(OfThisLink(writes)) <= 1
  <2>1. CASE OfThisLink(writes) = {}
    BY <2>1, FS_EmptySet
  <2>2. CASE OfThisLink(writes) # {}
    <3>1. PICK w \in OfThisLink(writes) : OfThisLink(writes) \subseteq {w}
      BY <2>2 DEF IInv, ConnectionAgrees
    <3>2. Cardinality({w}) = 1 /\ OfThisLink(writes) = {w}
      BY <3>1, FS_Singleton
    <3> QED BY <3>2
  <2> QED BY <2>1, <2>2
<1> QED BY <1>1, <1>2 DEF IInv, NoRequestStranded, QueueServed, OfThisLink

-----------------------------------------------------------------------------
(* The stages of a task. *)
Chains == {"none", "opening", "sending", "receiving", "tcp", "ended"}

(* Exchanges that end leave their id and what the session holds for them.  *)
LEMMA EndsKeep ==
    ASSUME IInv, NEW S \in SUBSET Exchanges, \A o \in S : phase[o] # "done",
           phase' = [o \in Exchanges |-> IF o \in S THEN "done" ELSE phase[o]],
           activeIds' = activeIds \ {queryId[o] : o \in S},
           pending' = [i \in Ids |-> IF pending[i] \in S THEN Nothing ELSE pending[i]],
           \A o \in Exchanges : chain'[o] = "tcp" => chain[o] = "tcp" /\ o \notin S,
           \A o \in Exchanges \ S : chain[o] \in {"none", "tcp"} => chain'[o] = chain[o],
           \A o \in Exchanges : datagram'[o] => phase'[o] = "running",
           queryId' = queryId
    PROVE  /\ IdsUnique' /\ SessionAgrees' /\ HaveIds' /\ NotBegun'
           /\ activeIds' \subseteq Ids /\ pending' \in [Ids -> Exchanges \cup {Nothing}]
           /\ phase' \in [Exchanges -> {"idle", "running", "done"}]
<1> USE DEF IInv, TransportTypeOK
<1>1. \A o \in Exchanges : phase'[o] = "running" <=> phase[o] = "running" /\ o \notin S
  OBVIOUS
<1>2. \A o \in Exchanges : phase'[o] = "idle" <=> phase[o] = "idle" /\ o \notin S
  OBVIOUS
<1>3. \A o \in S : phase[o] = "running" \/ queryId[o] \notin Ids
  BY DEF NotBegun, Ids, TransportAssumption
<1>4. IdsUnique'
  <2>1. activeIds' = {queryId[o] : o \in {p \in Exchanges : phase'[p] = "running"}}
    <3>1. ASSUME NEW o \in Exchanges, phase'[o] = "running"
          PROVE  queryId[o] \in activeIds /\ queryId[o] \notin {queryId[p] : p \in S}
      <4>1. phase[o] = "running" /\ o \notin S /\ queryId[o] \in Ids
        BY <1>1, <3>1 DEF HaveIds
      <4>2. ASSUME NEW p \in S, queryId[p] = queryId[o] PROVE FALSE
        BY <1>3, <4>1, <4>2 DEF IdsUnique
      <4> QED BY <4>1, <4>2 DEF IdsUnique
    <3> DEFINE R == {p \in Exchanges : phase'[p] = "running"}
    <3>2. ASSUME NEW i \in activeIds' PROVE \E o \in R : i = queryId[o]
      BY <1>1, <3>2 DEF IdsUnique
    <3>3. \A o \in R : queryId[o] \in activeIds'
      BY <3>1
    <3> HIDE DEF R
    <3>5. activeIds' = {queryId[o] : o \in R}
      <4>1. activeIds' \subseteq {queryId[o] : o \in R}
        BY ONLY <3>2
      <4>2. {queryId[o] : o \in R} \subseteq activeIds'
        BY ONLY <3>3
      <4> QED BY ONLY <4>1, <4>2
    <3> QED BY <3>5 DEF R
  <2>2. \A a, b \in Exchanges : phase'[a] = "running" /\ phase'[b] = "running" /\ queryId[a] = queryId[b]
                             => a = b
    BY <1>1 DEF IdsUnique
  <2>3. queryId' = queryId
    OBVIOUS
  <2> HIDE DEF IInv, TransportTypeOK
  <2> QED BY ONLY <2>1, <2>2, <2>3 DEF IdsUnique
<1>5. \A i \in Ids : pending'[i] # Nothing => pending'[i] = pending[i] /\ pending[i] \notin S
  OBVIOUS
<1>6. SessionAgrees'
  <2>1. ASSUME NEW i \in Ids, pending'[i] # Nothing
        PROVE  /\ phase'[pending'[i]] = "running" /\ chain'[pending'[i]] = "tcp"
               /\ queryId[pending'[i]] = i
    BY <1>1, <1>5, <2>1 DEF SessionAgrees
  <2>2. ASSUME NEW o \in Exchanges, chain'[o] = "tcp" PROVE pending'[queryId[o]] = o
    BY <2>2 DEF SessionAgrees, HaveIds
  <2> QED BY <2>1, <2>2 DEF SessionAgrees
<1>7. HaveIds'
  BY <1>1 DEF HaveIds
<1>8. NotBegun'
  BY <1>2 DEF NotBegun
<1> QED BY <1>4, <1>6, <1>7, <1>8

(* The connection stays what it is while requests only leave the session.  *)
LEMMA ConnectionKept ==
    ASSUME IInv, UNCHANGED linkVars,
           \A i \in Ids : pending'[i] # Nothing => pending'[i] = pending[i],
           Range(writeQueue') \subseteq Range(writeQueue)
    PROVE  ConnectionAgrees' /\ QueueServed'
<1>1. UNCHANGED <<generation, link, writes, reads>>
  BY DEF linkVars
<1>2. ConnectionAgrees'
  BY <1>1 DEF IInv, ConnectionAgrees, OfThisLink
<1>3. Awaited' \subseteq Awaited
  BY DEF Awaited
<1>4. WriteInProgress' <=> WriteInProgress
  BY <1>1 DEF WriteInProgress
<1>5. \A i \in Range(writeQueue) : i \in Ids
  BY DEF IInv, TransportTypeOK, Range
<1>6. QueueServed'
  BY <1>1, <1>3, <1>4, <1>5 DEF IInv, QueueServed
<1> QED BY <1>2, <1>6

(* complete() and the task that is resumed, wherever the exchanges are. *)
LEMMA EndKeeps ==
    ASSUME IInv, NEW S \in SUBSET Exchanges, \A o \in S : phase[o] # "done",
           NEW r \in Endings, End(S, r), UNCHANGED <<queryId, nextQueryId, linkVars, isStopped, stray>>,
           expired' \subseteq Exchanges, timers' \subseteq Exchanges, sessionTimers' \subseteq sessionTimers
    PROVE  IInv'
<1>1. /\ phase' = [o \in Exchanges |-> IF o \in S THEN "done" ELSE phase[o]]
      /\ outcome' = [o \in Exchanges |-> IF o \in S THEN r ELSE outcome[o]]
      /\ datagram' = [o \in Exchanges |-> o \notin S /\ datagram[o]]
      /\ chain' = [o \in Exchanges |-> IF o \in S /\ chain[o] = "tcp" THEN "ended" ELSE chain[o]]
      /\ activeIds' = activeIds \ {queryId[o] : o \in S}
  BY DEF End, FinishAll
<1> DEFINE ids == {i \in Ids : pending[i] \in S}
<1>2. /\ pending' = [i \in Ids |-> IF pending[i] \in S THEN Nothing ELSE pending[i]]
      /\ writeQueue' = Without(writeQueue, ids)
  BY DEF End, Forget
<1>3. writeQueue' \in Seq(Ids) /\ Range(writeQueue') \subseteq Range(writeQueue)
  <2> HIDE DEF ids
  <2>1. writeQueue \in Seq(Ids)
    BY DEF IInv, TransportTypeOK
  <2> QED BY <1>2, <2>1, WithoutFacts
<1>4. /\ IdsUnique' /\ SessionAgrees' /\ HaveIds' /\ NotBegun'
      /\ activeIds' \subseteq Ids /\ pending' \in [Ids -> Exchanges \cup {Nothing}]
      /\ phase' \in [Exchanges -> {"idle", "running", "done"}]
  <2>1. /\ \A o \in Exchanges : chain'[o] = "tcp" => chain[o] = "tcp" /\ o \notin S
        /\ \A o \in Exchanges \ S : chain[o] \in {"none", "tcp"} => chain'[o] = chain[o]
        /\ \A o \in Exchanges : datagram'[o] => phase'[o] = "running"
        /\ queryId' = queryId
    BY <1>1 DEF IInv, SessionAgrees
  <2> QED BY <1>1, <1>2, <2>1, EndsKeep
<1>5. ConnectionAgrees' /\ QueueServed'
  BY <1>2, <1>3, ConnectionKept DEF IInv, TransportTypeOK
<1>6. TransportTypeOK'
  <2>1. /\ outcome' \in [Exchanges -> Endings \cup {Nothing}]
        /\ chain' \in [Exchanges -> Chains] /\ datagram' \in [Exchanges -> BOOLEAN]
    BY <1>1 DEF IInv, TransportTypeOK, Chains
  <2> QED BY <1>3, <1>4, <2>1 DEF IInv, TransportTypeOK, Chains, linkVars
<1>7. TimersAgree'
  BY DEF IInv, TimersAgree
<1> QED BY <1>4, <1>5, <1>6, <1>7 DEF IInv

(* An exchange that is refused had no id, no entry and no timer.           *)
LEMMA OpenRefusedKeeps ==
    ASSUME IInv, NEW o \in Exchanges, OpenRefused(o)
    PROVE  IInv'
<1>1. End({o}, IF isStopped THEN "cancelled" ELSE "noId") /\ phase[o] = "idle"
  BY DEF OpenRefused
<1>2. UNCHANGED <<queryId, nextQueryId, linkVars, isStopped, stray>> /\ UNCHANGED timeVars
  BY DEF OpenRefused
<1>3. expired' \subseteq Exchanges /\ timers' \subseteq Exchanges /\ sessionTimers' \subseteq sessionTimers
  BY <1>2 DEF IInv, TransportTypeOK, timeVars
<1>4. (IF isStopped THEN "cancelled" ELSE "noId") \in Endings
  BY DEF Endings
<1> HIDE DEF IInv
<1> QED BY <1>1, <1>2, <1>3, <1>4, EndKeeps

(* A deadline that passes and a timer that fires for nobody change nothing. *)
LEMMA TimersChange ==
    ASSUME IInv, expired' \subseteq Exchanges, timers' \subseteq Exchanges,
           UNCHANGED <<phase, outcome, chain, datagram, activeIds, pending, writeQueue, queryId,
                       nextQueryId, sessionTimers, generation, link, writes, reads, isStopped, stray>>
    PROVE  IInv'
<1>1. TransportTypeOK'
  BY DEF IInv, TransportTypeOK
<1>2. IdsUnique' /\ SessionAgrees' /\ HaveIds' /\ NotBegun'
  BY DEF IInv, IdsUnique, SessionAgrees, HaveIds, NotBegun
<1>3. TimersAgree'
  BY DEF IInv, TimersAgree
<1>4. ConnectionAgrees' /\ QueueServed'
  BY DEF IInv, ConnectionAgrees, OfThisLink, QueueServed, Awaited, WriteInProgress
<1> QED BY <1>1, <1>2, <1>3, <1>4 DEF IInv

(* The deadline of a running exchange ends it.                             *)
LEMMA OpDeadlineKeeps ==
    ASSUME IInv, NEW o \in Exchanges, OpDeadline(o)
    PROVE  IInv'
<1>1. /\ UNCHANGED <<queryId, nextQueryId, expired, sessionTimers, linkVars, isStopped, stray>>
      /\ timers' \subseteq Exchanges /\ expired' \subseteq Exchanges
  BY DEF OpDeadline, IInv, TransportTypeOK
<1>2. CASE phase[o] = "running"
  <2>1. End({o}, "timeout") /\ "timeout" \in Endings /\ phase[o] # "done"
    BY <1>2 DEF OpDeadline, Endings
  <2> QED BY <1>1, <2>1, EndKeeps
<1>3. CASE phase[o] # "running"
  <2>1. UNCHANGED <<exchangeVars, activeIds, queueVars>>
    BY <1>3 DEF OpDeadline
  <2>2. UNCHANGED <<phase, outcome, chain, datagram, activeIds, pending, writeQueue, queryId,
                    nextQueryId, expired, sessionTimers, generation, link, writes, reads, isStopped, stray>>
    BY <1>1, <2>1 DEF exchangeVars, queueVars, linkVars
  <2> QED BY <1>1, <2>2, TimersChange
<1> QED BY <1>2, <1>3

(* The session's deadline ends whoever has the id, who is running.         *)
LEMMA SessionDeadlineKeeps ==
    ASSUME IInv, NEW o \in Exchanges, NEW id \in Ids, SessionDeadline(o, id)
    PROVE  IInv'
<1>1. /\ UNCHANGED <<queryId, nextQueryId, expired, linkVars, isStopped, stray>>
      /\ timers' \subseteq Exchanges /\ expired' \subseteq Exchanges /\ sessionTimers' \subseteq sessionTimers
  BY DEF SessionDeadline, IInv, TransportTypeOK
<1> DEFINE S == {pending[id]} \ {Nothing}
<1>2. S \in SUBSET Exchanges /\ \A p \in S : phase[p] = "running"
  BY DEF IInv, TransportTypeOK, SessionAgrees
<1>3. End(S, "timeout") /\ "timeout" \in Endings
  BY DEF SessionDeadline, Endings
<1> HIDE DEF S
<1>4. \A p \in S : phase[p] # "done"
  BY <1>2
<1> QED BY <1>1, <1>2, <1>3, <1>4, EndKeeps

(* cancel_exchange() ends a running exchange.                              *)
LEMMA CancelExchangeKeeps ==
    ASSUME IInv, NEW o \in Exchanges, CancelExchange(o)
    PROVE  IInv'
<1>1. End({o}, "cancelled") /\ "cancelled" \in Endings /\ phase[o] # "done"
  BY DEF CancelExchange, Endings
<1>2. UNCHANGED <<queryId, nextQueryId, linkVars, isStopped, stray>> /\ UNCHANGED timeVars
  BY DEF CancelExchange
<1>3. expired' \subseteq Exchanges /\ timers' \subseteq Exchanges /\ sessionTimers' \subseteq sessionTimers
  BY <1>2 DEF IInv, TransportTypeOK, timeVars
<1> QED BY <1>1, <1>2, <1>3, EndKeeps

(* Several exchanges end with what they share. *)
LEMMA FinishTypes ==
    ASSUME IInv, NEW S \in SUBSET Exchanges, NEW r \in Endings, FinishAll(S, r),
           \A o \in S : phase[o] = "running", UNCHANGED queryId,
           pending' = [i \in Ids |-> IF pending[i] \in S THEN Nothing ELSE pending[i]]
    PROVE  /\ IdsUnique' /\ SessionAgrees' /\ HaveIds' /\ NotBegun'
           /\ activeIds' \subseteq Ids /\ pending' \in [Ids -> Exchanges \cup {Nothing}]
           /\ phase' \in [Exchanges -> {"idle", "running", "done"}]
           /\ outcome' \in [Exchanges -> Endings \cup {Nothing}]
           /\ chain' \in [Exchanges -> Chains] /\ datagram' \in [Exchanges -> BOOLEAN]
<1>1. /\ phase' = [o \in Exchanges |-> IF o \in S THEN "done" ELSE phase[o]]
      /\ outcome' = [o \in Exchanges |-> IF o \in S THEN r ELSE outcome[o]]
      /\ datagram' = [o \in Exchanges |-> o \notin S /\ datagram[o]]
      /\ chain' = [o \in Exchanges |-> IF o \in S /\ chain[o] = "tcp" THEN "ended" ELSE chain[o]]
      /\ activeIds' = activeIds \ {queryId[o] : o \in S}
  BY DEF FinishAll
<1>2. /\ \A o \in S : phase[o] # "done"
      /\ \A o \in Exchanges : chain'[o] = "tcp" => chain[o] = "tcp" /\ o \notin S
      /\ \A o \in Exchanges \ S : chain[o] \in {"none", "tcp"} => chain'[o] = chain[o]
      /\ \A o \in Exchanges : datagram'[o] => phase'[o] = "running"
  BY <1>1 DEF IInv, SessionAgrees
<1>3. /\ IdsUnique' /\ SessionAgrees' /\ HaveIds' /\ NotBegun'
      /\ activeIds' \subseteq Ids /\ pending' \in [Ids -> Exchanges \cup {Nothing}]
      /\ phase' \in [Exchanges -> {"idle", "running", "done"}]
  BY <1>1, <1>2, EndsKeep
<1>4. /\ outcome' \in [Exchanges -> Endings \cup {Nothing}]
      /\ chain' \in [Exchanges -> Chains] /\ datagram' \in [Exchanges -> BOOLEAN]
  BY <1>1 DEF IInv, TransportTypeOK, Chains
<1> QED BY <1>3, <1>4

(* connection_failed: a connection of a generation that is over has no     *)
(* read, no write and nobody who waits.                                    *)
LEMMA LoseLinkKeeps ==
    ASSUME IInv, NEW r \in Endings, LoseLink(r), reads' \subseteq reads, writes' \subseteq writes,
           UNCHANGED <<queryId, nextQueryId, timeVars, isStopped, stray>>
    PROVE  IInv'
<1>1. Awaited \in SUBSET Exchanges /\ \A o \in Awaited : phase[o] = "running"
  BY DEF IInv, TransportTypeOK, SessionAgrees, Awaited
<1>2. /\ FinishAll(Awaited, r) /\ pending' = [i \in Ids |-> Nothing] /\ writeQueue' = <<>>
      /\ generation < MaxGeneration /\ generation' = generation + 1 /\ link' = "down"
  BY DEF LoseLink
<1>3. pending' = [i \in Ids |-> IF pending[i] \in Awaited THEN Nothing ELSE pending[i]]
  BY <1>2 DEF Awaited
<1>4. /\ IdsUnique' /\ SessionAgrees' /\ HaveIds' /\ NotBegun'
      /\ activeIds' \subseteq Ids /\ pending' \in [Ids -> Exchanges \cup {Nothing}]
      /\ phase' \in [Exchanges -> {"idle", "running", "done"}]
      /\ outcome' \in [Exchanges -> Endings \cup {Nothing}]
      /\ chain' \in [Exchanges -> Chains] /\ datagram' \in [Exchanges -> BOOLEAN]
  <2> HIDE DEF IInv
  <2> QED BY <1>1, <1>2, <1>3, FinishTypes
<1>5. generation' \in 0..MaxGeneration /\ generation' > generation /\ generation \in Nat
  BY <1>2 DEF IInv, TransportTypeOK, TransportAssumption
<1>6. TransportTypeOK'
  BY <1>2, <1>4, <1>5 DEF IInv, TransportTypeOK, Chains, timeVars
<1>7. ConnectionAgrees'
  <2>1. \A x \in reads' \cup writes' : x.gen \in Nat /\ x.gen <= generation
    BY DEF IInv, TransportTypeOK, ConnectionAgrees
  <2>2. \A x \in reads' \cup writes' : x.gen <= generation' /\ x.gen # generation'
    BY <1>5, <2>1
  <2> QED BY <1>2, <2>2 DEF ConnectionAgrees, OfThisLink
<1>8. QueueServed' /\ TimersAgree'
  BY <1>2 DEF QueueServed, Awaited, TimersAgree, IInv, timeVars
<1> QED BY <1>4, <1>6, <1>7, <1>8 DEF IInv

(* stop() leaves no request, no read and no write.                         *)
LEMMA StopKeeps == ASSUME IInv, StopTransport PROVE IInv'
<1> DEFINE S == {o \in Exchanges : phase[o] = "running"}
<1>1. /\ FinishAll(S, "cancelled") /\ "cancelled" \in Endings
      /\ pending' = [i \in Ids |-> Nothing] /\ writeQueue' = <<>> /\ link' = "down"
      /\ writes' = {} /\ reads' = {} /\ isStopped' = TRUE
      /\ UNCHANGED <<queryId, nextQueryId, timeVars, generation, stray>>
  BY DEF StopTransport, Endings
<1>2. pending' = [i \in Ids |-> IF pending[i] \in S THEN Nothing ELSE pending[i]]
  BY <1>1 DEF IInv, TransportTypeOK, SessionAgrees
<1>3. S \in SUBSET Exchanges /\ \A o \in S : phase[o] = "running"
  OBVIOUS
<1>4. /\ IdsUnique' /\ SessionAgrees' /\ HaveIds' /\ NotBegun'
      /\ activeIds' \subseteq Ids /\ pending' \in [Ids -> Exchanges \cup {Nothing}]
      /\ phase' \in [Exchanges -> {"idle", "running", "done"}]
      /\ outcome' \in [Exchanges -> Endings \cup {Nothing}]
      /\ chain' \in [Exchanges -> Chains] /\ datagram' \in [Exchanges -> BOOLEAN]
  <2> HIDE DEF S, IInv
  <2> QED BY <1>1, <1>2, <1>3, FinishTypes
<1>5. TransportTypeOK'
  BY <1>1, <1>4 DEF IInv, TransportTypeOK, Chains, timeVars
<1>6. ConnectionAgrees' /\ QueueServed' /\ TimersAgree'
  BY <1>1 DEF ConnectionAgrees, OfThisLink, QueueServed, Awaited, TimersAgree, IInv, timeVars
<1> QED BY <1>4, <1>5, <1>6 DEF IInv

(* A response ends the exchange that has its id, if there is one.          *)
LEMMA DispatchResponseKeeps ==
    ASSUME IInv, NEW r \in reads, NEW id \in Ids, NEW result \in {"answer", "error"},
           DispatchResponse(r, id, result)
    PROVE  IInv'
<1> DEFINE S == {pending[id]} \ {Nothing}
<1>1. /\ FinishAll(S, result) /\ result \in Endings
      /\ pending' = [pending EXCEPT ![id] = Nothing]
      /\ reads' = (reads \ {r}) \cup {[gen |-> generation, part |-> "length"]}
      /\ r.gen = generation /\ stray' \in 0..MaxStray
      /\ UNCHANGED <<queryId, nextQueryId, timeVars, writeQueue, generation, link, writes, isStopped>>
  BY DEF DispatchResponse, Endings, IInv, TransportTypeOK, TransportAssumption
<1>2. S \in SUBSET Exchanges /\ \A o \in S : phase[o] = "running"
  BY DEF IInv, TransportTypeOK, SessionAgrees
<1>3. pending' = [i \in Ids |-> IF pending[i] \in S THEN Nothing ELSE pending[i]]
  <2>1. ASSUME NEW i \in Ids, pending[i] \in S PROVE i = id
    BY <2>1 DEF IInv, SessionAgrees
  <2> QED BY <1>1, <2>1 DEF IInv, TransportTypeOK
<1>4. /\ IdsUnique' /\ SessionAgrees' /\ HaveIds' /\ NotBegun'
      /\ activeIds' \subseteq Ids /\ pending' \in [Ids -> Exchanges \cup {Nothing}]
      /\ phase' \in [Exchanges -> {"idle", "running", "done"}]
      /\ outcome' \in [Exchanges -> Endings \cup {Nothing}]
      /\ chain' \in [Exchanges -> Chains] /\ datagram' \in [Exchanges -> BOOLEAN]
  <2> HIDE DEF S, IInv
  <2> QED BY <1>1, <1>2, <1>3, FinishTypes
<1>5. TransportTypeOK'
  <2>1. reads' \subseteq [gen : 0..MaxGeneration, part : {"length", "body"}]
    BY <1>1 DEF IInv, TransportTypeOK
  <2> QED BY <1>1, <1>4, <2>1 DEF IInv, TransportTypeOK, Chains, timeVars
<1>6. ConnectionAgrees'
  <2>1. link = "connected" /\ r \in OfThisLink(reads) /\ \A s \in OfThisLink(reads) : s = r
    BY <1>1 DEF IInv, ConnectionAgrees, OfThisLink
  <2>2. OfThisLink(reads)' = {[gen |-> generation, part |-> "length"]}
    BY <1>1, <2>1 DEF OfThisLink
  <2>3. OfThisLink(writes)' = OfThisLink(writes)
    BY <1>1 DEF OfThisLink
  <2>4. \A x \in (reads \cup writes)' : x.gen <= generation'
    BY <1>1 DEF IInv, ConnectionAgrees, TransportTypeOK
  <2> QED BY <1>1, <2>1, <2>2, <2>3, <2>4 DEF IInv, ConnectionAgrees
<1>7. QueueServed'
  <2>1. Awaited' \subseteq Awaited /\ (WriteInProgress' <=> WriteInProgress)
    BY <1>1 DEF IInv, TransportTypeOK, Awaited, WriteInProgress
  <2>2. \A i \in Range(writeQueue) : i \in Ids
    BY DEF IInv, TransportTypeOK, Range
  <2> QED BY <1>1, <1>3, <2>1, <2>2 DEF IInv, QueueServed, TransportTypeOK
<1>8. TimersAgree'
  BY <1>1 DEF IInv, TimersAgree, timeVars
<1> QED BY <1>4, <1>5, <1>6, <1>7, <1>8 DEF IInv

-----------------------------------------------------------------------------
(* Writing. *)

(* flush_writes starts at most one write, of a request somebody waits for, *)
(* and leaves the queue to the write that is in progress.                  *)
LEMMA FlushFacts ==
    ASSUME IInv, NEW q \in Seq(Ids), NEW p \in [Ids -> Exchanges \cup {Nothing}],
           NEW up \in BOOLEAN, NEW busy \in BOOLEAN, FlushWrites(q, p, up, busy)
    PROVE  /\ writeQueue' \in Seq(Ids)
           /\ writes' \subseteq [gen : 0..MaxGeneration, id : Ids, op : Exchanges]
           /\ \A w \in writes' : w.gen <= generation
           /\ ~up \/ busy => writes' = writes
           /\ up /\ ~busy =>
                 /\ \A v, w \in writes' : v.gen = generation /\ w.gen = generation => v = w
                 /\ writeQueue' = <<>> \/ \E w \in writes' : w.gen = generation
<1>1. CASE ~up \/ busy
  BY <1>1 DEF FlushWrites, IInv, TransportTypeOK, ConnectionAgrees
<1>2. CASE up /\ ~busy
  <2> DEFINE live == LiveQueue(q, p)
             fresh == [gen |-> generation, id |-> Head(live), op |-> p[Head(live)]]
  <2>1. /\ writeQueue' = live
        /\ writes' = {w \in writes : w.gen # generation} \cup (IF live = <<>> THEN {} ELSE {fresh})
    BY <1>2 DEF FlushWrites
  <2>2. /\ live \in Seq(Ids)
        /\ live # <<>> => Head(live) \in Ids /\ p[Head(live)] \in Exchanges
    BY LiveQueueFacts
  <2> HIDE DEF live
  <2>3. fresh.gen = generation /\ generation \in 0..MaxGeneration
    BY DEF IInv, TransportTypeOK
  <2>4. live # <<>> => fresh \in [gen : 0..MaxGeneration, id : Ids, op : Exchanges]
    BY <2>2, <2>3
  <2> HIDE DEF fresh
  <2>5. generation <= generation
    BY <2>3 DEF TransportAssumption, IInv
  <2> QED BY <1>2, <2>1, <2>2, <2>3, <2>4, <2>5 DEF IInv, TransportTypeOK, ConnectionAgrees
<1> QED BY <1>1, <1>2

(* A request given to the session is written, or waits for the connection  *)
(* or for the write before it.                                             *)
LEMMA SessionExchangeFacts ==
    ASSUME IInv, NEW o \in Exchanges, NEW id \in Ids, SessionExchange(o, id)
    PROVE  /\ pending' = [pending EXCEPT ![id] = o]
           /\ writeQueue' \in Seq(Ids)
           /\ writes' \subseteq [gen : 0..MaxGeneration, id : Ids, op : Exchanges]
           /\ link' \in {"connecting", "connected"}
           /\ sessionTimers' = sessionTimers \cup {<<o, id>>}
           /\ UNCHANGED <<generation, reads>>
           /\ ConnectionAgrees' /\ QueueServed'
<1> DEFINE p == [pending EXCEPT ![id] = o]
           q == Append(writeQueue, id)
           up == link = "connected"
<1>1. /\ pending' = p
      /\ link' = IF link = "down" THEN "connecting" ELSE link
      /\ FlushWrites(q, p, up, WriteInProgress)
      /\ sessionTimers' = sessionTimers \cup {<<o, id>>}
      /\ UNCHANGED <<generation, reads>>
  BY DEF SessionExchange
<1>2. p \in [Ids -> Exchanges \cup {Nothing}] /\ q \in Seq(Ids) /\ link \in {"down", "connecting", "connected"}
  BY DEF IInv, TransportTypeOK
<1> HIDE DEF p, q
<1>3. up \in BOOLEAN /\ WriteInProgress \in BOOLEAN
  BY DEF WriteInProgress
<1>4. /\ writeQueue' \in Seq(Ids)
      /\ writes' \subseteq [gen : 0..MaxGeneration, id : Ids, op : Exchanges]
      /\ \A w \in writes' : w.gen <= generation
      /\ ~up \/ WriteInProgress => writes' = writes
      /\ up /\ ~WriteInProgress =>
            /\ \A v, w \in writes' : v.gen = generation /\ w.gen = generation => v = w
            /\ writeQueue' = <<>> \/ \E w \in writes' : w.gen = generation
  <2> HIDE DEF up, IInv
  <2> QED BY <1>1, <1>2, <1>3, FlushFacts
<1>5. link' \in {"connecting", "connected"} /\ (link' = "connected" <=> up)
  BY <1>1, <1>2
<1>6. ConnectionAgrees'
  <2>1. \A x \in (reads \cup writes)' : x.gen <= generation'
    BY <1>1, <1>4 DEF IInv, ConnectionAgrees
  <2>2. OfThisLink(reads)' = OfThisLink(reads)
    BY <1>1 DEF OfThisLink
  <2>3. \A v, w \in OfThisLink(writes)' : v = w
    BY <1>1, <1>4 DEF IInv, ConnectionAgrees, OfThisLink
  <2>4. ~up => OfThisLink(writes)' = {}
    BY <1>1, <1>4 DEF IInv, ConnectionAgrees, OfThisLink
  <2> QED BY <1>1, <1>5, <2>1, <2>2, <2>3, <2>4 DEF IInv, ConnectionAgrees
<1>7. QueueServed'
  <2>1. up /\ WriteInProgress => WriteInProgress'
    BY <1>1, <1>4 DEF WriteInProgress
  <2>2. up /\ ~WriteInProgress => WriteInProgress' \/ writeQueue' = <<>>
    BY <1>1, <1>4 DEF WriteInProgress
  <2>3. writeQueue' = <<>> => Range(writeQueue') = {}
    BY DEF Range
  <2> QED BY <1>5, <2>1, <2>2, <2>3 DEF QueueServed
<1> QED BY <1>1, <1>4, <1>5, <1>6, <1>7 DEF p

(* A new connection reads its first frame and writes what has waited.      *)
LEMMA OnConnectedKeeps == ASSUME IInv, OnConnected PROVE IInv'
<1>1. /\ link' = "connected" /\ link = "connecting"
      /\ reads' = reads \cup {[gen |-> generation, part |-> "length"]}
      /\ FlushWrites(writeQueue, pending, TRUE, FALSE)
      /\ UNCHANGED <<exchangeVars, idVars, timeVars, pending, generation, isStopped, stray>>
  BY DEF OnConnected
<1>2. writeQueue \in Seq(Ids) /\ pending \in [Ids -> Exchanges \cup {Nothing}] /\ generation \in 0..MaxGeneration
  BY DEF IInv, TransportTypeOK
<1>3. /\ writeQueue' \in Seq(Ids)
      /\ writes' \subseteq [gen : 0..MaxGeneration, id : Ids, op : Exchanges]
      /\ \A w \in writes' : w.gen <= generation
      /\ \A v, w \in writes' : v.gen = generation /\ w.gen = generation => v = w
      /\ writeQueue' = <<>> \/ \E w \in writes' : w.gen = generation
  <2> HIDE DEF IInv
  <2> QED BY <1>1, <1>2, FlushFacts
<1>4. TransportTypeOK'
  <2>1. reads' \subseteq [gen : 0..MaxGeneration, part : {"length", "body"}]
    BY <1>1, <1>2 DEF IInv, TransportTypeOK
  <2> QED BY <1>1, <1>3, <2>1 DEF IInv, TransportTypeOK, exchangeVars, idVars, timeVars
<1>5. IdsUnique' /\ SessionAgrees' /\ HaveIds' /\ NotBegun' /\ TimersAgree'
  BY <1>1 DEF IInv, IdsUnique, SessionAgrees, HaveIds, NotBegun, TimersAgree, exchangeVars,
     idVars, timeVars
<1>6. ConnectionAgrees'
  <2>1. OfThisLink(reads)' = {[gen |-> generation, part |-> "length"]}
    BY <1>1 DEF IInv, ConnectionAgrees, OfThisLink
  <2>2. generation <= generation
    BY <1>2
  <2>3. \A x \in (reads \cup writes)' : x.gen <= generation'
    BY <1>1, <1>3, <2>2 DEF IInv, ConnectionAgrees
  <2> QED BY <1>1, <1>3, <2>1, <2>3 DEF ConnectionAgrees, OfThisLink
<1>7. QueueServed'
  <2>1. writeQueue' = <<>> \/ WriteInProgress'
    BY <1>1, <1>3 DEF WriteInProgress
  <2>2. writeQueue' = <<>> => Range(writeQueue') = {}
    BY DEF Range
  <2> QED BY <1>1, <2>1, <2>2 DEF QueueServed
<1> QED BY <1>4, <1>5, <1>6, <1>7 DEF IInv

(* A write that ends starts the next one, unless its connection is gone.   *)
LEMMA OnWriteKeeps == ASSUME IInv, NEW w \in writes, OnWrite(w) PROVE IInv'
<1> DEFINE q == IF writeQueue # <<>> /\ Head(writeQueue) = w.id THEN Tail(writeQueue) ELSE writeQueue
<1>1. UNCHANGED <<exchangeVars, idVars, timeVars, pending, generation, link, reads, isStopped, stray>>
  BY DEF OnWrite
<1>2. writeQueue \in Seq(Ids) /\ pending \in [Ids -> Exchanges \cup {Nothing}]
  BY DEF IInv, TransportTypeOK
<1>3. q \in Seq(Ids)
  BY <1>2
<1>4. IdsUnique' /\ SessionAgrees' /\ HaveIds' /\ NotBegun' /\ TimersAgree'
  BY <1>1 DEF IInv, IdsUnique, SessionAgrees, HaveIds, NotBegun, TimersAgree, exchangeVars,
     idVars, timeVars
<1>5. CASE w.gen # generation
  <2>1. writes' = writes \ {w} /\ UNCHANGED writeQueue
    BY <1>5 DEF OnWrite
  <2>2. TransportTypeOK'
    BY <1>1, <2>1 DEF IInv, TransportTypeOK, exchangeVars, idVars, timeVars
  <2>3. OfThisLink(writes)' = OfThisLink(writes) /\ OfThisLink(reads)' = OfThisLink(reads)
    BY <1>1, <1>5, <2>1 DEF OfThisLink
  <2>4. ConnectionAgrees'
    BY <1>1, <2>1, <2>3 DEF IInv, ConnectionAgrees
  <2>5. WriteInProgress' <=> WriteInProgress
    BY <2>3 DEF WriteInProgress, OfThisLink
  <2>6. QueueServed'
    BY <1>1, <2>1, <2>5 DEF IInv, QueueServed, Awaited
  <2> QED BY <1>4, <2>2, <2>4, <2>6 DEF IInv
<1>6. CASE w.gen = generation
  <2>1. FlushWrites(q, pending, TRUE, FALSE)
    BY <1>6 DEF OnWrite
  <2> HIDE DEF q
  <2>2. /\ writeQueue' \in Seq(Ids)
        /\ writes' \subseteq [gen : 0..MaxGeneration, id : Ids, op : Exchanges]
        /\ \A x \in writes' : x.gen <= generation
        /\ \A v, x \in writes' : v.gen = generation /\ x.gen = generation => v = x
        /\ writeQueue' = <<>> \/ \E x \in writes' : x.gen = generation
    <3> HIDE DEF IInv
    <3> QED BY <1>2, <1>3, <2>1, FlushFacts
  <2>3. link = "connected"
    BY <1>6 DEF IInv, ConnectionAgrees, OfThisLink
  <2>4. TransportTypeOK'
    BY <1>1, <2>2 DEF IInv, TransportTypeOK, exchangeVars, idVars, timeVars
  <2>5. ConnectionAgrees'
    <3>1. OfThisLink(reads)' = OfThisLink(reads)
      BY <1>1 DEF OfThisLink
    <3>2. \A x \in (reads \cup writes)' : x.gen <= generation'
      BY <1>1, <2>2 DEF IInv, ConnectionAgrees
    <3>3. \A v, x \in OfThisLink(writes)' : v = x
      BY <1>1, <2>2 DEF OfThisLink
    <3> QED BY <1>1, <2>3, <3>1, <3>2, <3>3 DEF IInv, ConnectionAgrees
  <2>6. QueueServed'
    <3>1. writeQueue' = <<>> \/ WriteInProgress'
      BY <1>1, <2>2 DEF WriteInProgress
    <3>2. writeQueue' = <<>> => Range(writeQueue') = {}
      BY DEF Range
    <3> QED BY <1>1, <2>3, <3>1, <3>2 DEF QueueServed
  <2> QED BY <1>4, <2>4, <2>5, <2>6 DEF IInv
<1> QED BY <1>5, <1>6

(* However the connection fails, its requests fail with it.                *)
LEMMA LinkFailsKeeps ==
    ASSUME IInv, \/ ConnectFails
                 \/ \E w \in writes : WriteFails(w)
                 \/ \E r \in reads : ReadFails(r)
    PROVE  IInv'
<1>1. /\ LoseLink("error") /\ "error" \in Endings /\ reads' \subseteq reads /\ writes' \subseteq writes
      /\ UNCHANGED <<queryId, nextQueryId, timeVars, isStopped, stray>>
  BY DEF ConnectFails, WriteFails, ReadFails, Endings
<1> HIDE DEF IInv
<1> QED BY <1>1, LoseLinkKeeps

(* After the length of a frame its body is read.                           *)
LEMMA ReadLengthKeeps == ASSUME IInv, NEW r \in reads, ReadLength(r) PROVE IInv'
<1> DEFINE body == [gen |-> generation, part |-> "body"]
<1>1. /\ reads' = (reads \ {r}) \cup (IF r.gen = generation THEN {body} ELSE {})
      /\ UNCHANGED <<exchangeVars, idVars, timeVars, queueVars, generation, link, writes, isStopped, stray>>
  BY DEF ReadLength
<1>2. IdsUnique' /\ SessionAgrees' /\ HaveIds' /\ NotBegun' /\ TimersAgree' /\ QueueServed'
  BY <1>1 DEF IInv, IdsUnique, SessionAgrees, HaveIds, NotBegun, TimersAgree, QueueServed, Awaited,
              WriteInProgress, exchangeVars, idVars, timeVars, queueVars
<1>3. generation \in 0..MaxGeneration
  BY DEF IInv, TransportTypeOK
<1>4. TransportTypeOK'
  <2>1. reads' \subseteq [gen : 0..MaxGeneration, part : {"length", "body"}]
    BY <1>1, <1>3 DEF IInv, TransportTypeOK
  <2> QED BY <1>1, <2>1 DEF IInv, TransportTypeOK, exchangeVars, idVars, timeVars, queueVars
<1>5. ConnectionAgrees'
  <2>1. OfThisLink(writes)' = OfThisLink(writes)
    BY <1>1 DEF OfThisLink
  <2>2. \A x \in (reads \cup writes)' : x.gen <= generation'
    BY <1>1, <1>3 DEF IInv, ConnectionAgrees
  <2>3. CASE r.gen # generation
    <3>1. OfThisLink(reads)' = OfThisLink(reads)
      BY <1>1, <2>3 DEF OfThisLink
    <3> QED BY <1>1, <2>1, <2>2, <3>1 DEF IInv, ConnectionAgrees
  <2>4. CASE r.gen = generation
    <3>1. r \in OfThisLink(reads) /\ \A s \in OfThisLink(reads) : s = r
      BY <2>4 DEF IInv, ConnectionAgrees, OfThisLink
    <3>2. OfThisLink(reads)' = {body}
      BY <1>1, <2>4, <3>1 DEF OfThisLink
    <3> HIDE DEF body
    <3> QED BY <1>1, <2>1, <2>2, <3>1, <3>2 DEF IInv, ConnectionAgrees
  <2> QED BY <2>3, <2>4
<1> QED BY <1>2, <1>4, <1>5 DEF IInv

-----------------------------------------------------------------------------
(* The task of an exchange. *)

(* A step of the exchange's own task while the session is not involved.    *)
LEMMA TaskKeeps ==
    ASSUME IInv, NEW o \in Exchanges, NEW S \in SUBSET {o}, \A p \in S : phase[p] = "running",
           NEW where \in Chains, where # "tcp",
           chain[o] \notin {"none", "tcp"}, chain' = [chain EXCEPT ![o] = where],
           phase' = [phase EXCEPT ![o] = IF o \in S THEN "done" ELSE @],
           outcome' \in [Exchanges -> Endings \cup {Nothing}],
           activeIds' = activeIds \ {queryId[p] : p \in S},
           datagram' \in [Exchanges -> BOOLEAN], \A p \in Exchanges : datagram'[p] => phase'[p] = "running",
           stray' \in 0..MaxStray,
           UNCHANGED <<queryId, nextQueryId, timeVars, queueVars, linkVars, isStopped>>
    PROVE  IInv'
<1>1. phase' = [p \in Exchanges |-> IF p \in S THEN "done" ELSE phase[p]]
  BY DEF IInv, TransportTypeOK
<1>2. pending' = [i \in Ids |-> IF pending[i] \in S THEN Nothing ELSE pending[i]]
  <2>1. \A i \in Ids : pending[i] \notin S
    BY DEF IInv, TransportTypeOK, SessionAgrees, TransportAssumption
  <2> QED BY <2>1 DEF IInv, TransportTypeOK, queueVars
<1>3. /\ S \in SUBSET Exchanges /\ \A p \in S : phase[p] # "done"
      /\ \A p \in Exchanges : chain'[p] = "tcp" => chain[p] = "tcp" /\ p \notin S
      /\ \A p \in Exchanges \ S : chain[p] \in {"none", "tcp"} => chain'[p] = chain[p]
  BY DEF IInv, TransportTypeOK
<1>4. /\ IdsUnique' /\ SessionAgrees' /\ HaveIds' /\ NotBegun'
      /\ activeIds' \subseteq Ids /\ pending' \in [Ids -> Exchanges \cup {Nothing}]
      /\ phase' \in [Exchanges -> {"idle", "running", "done"}]
  <2> HIDE DEF IInv
  <2> QED BY <1>1, <1>2, <1>3, EndsKeep
<1>5. TransportTypeOK'
  BY <1>4 DEF IInv, TransportTypeOK, Chains, timeVars, queueVars, linkVars
<1>6. ConnectionAgrees' /\ QueueServed'
  BY ConnectionKept DEF queueVars
<1>7. TimersAgree'
  BY DEF IInv, TimersAgree, timeVars
<1> QED BY <1>4, <1>5, <1>6, <1>7 DEF IInv

(* The datagram is open as long as its exchange runs.                      *)
LEMMA DatagramOpenedKeeps ==
    ASSUME IInv, NEW o \in Exchanges, DatagramOpened(o) PROVE IInv'
<1> DEFINE where == IF phase[o] = "running" THEN "sending" ELSE "ended"
<1>1. /\ chain[o] = "opening" /\ chain' = [chain EXCEPT ![o] = where] /\ where \in Chains /\ where # "tcp"
      /\ datagram' = [datagram EXCEPT ![o] = phase[o] = "running"]
      /\ UNCHANGED <<phase, outcome, idVars, timeVars, queueVars, linkVars, isStopped, stray>>
  BY DEF DatagramOpened, GoesOn, Chains
<1>2. /\ phase' = [phase EXCEPT ![o] = IF o \in {} THEN "done" ELSE @]
      /\ activeIds' = activeIds \ {queryId[p] : p \in {}}
      /\ outcome' \in [Exchanges -> Endings \cup {Nothing}]
      /\ datagram' \in [Exchanges -> BOOLEAN] /\ stray' \in 0..MaxStray
      /\ \A p \in Exchanges : datagram'[p] => phase'[p] = "running"
  BY <1>1 DEF IInv, TransportTypeOK, SessionAgrees, idVars
<1> HIDE DEF IInv, where
<1> QED BY <1>1, <1>2, TaskKeeps DEF idVars

(* The query was sent, or its exchange is over.                            *)
LEMMA UdpSentKeeps ==
    ASSUME IInv, NEW o \in Exchanges, UdpSent(o) PROVE IInv'
<1> DEFINE where == IF phase[o] = "running" THEN "receiving" ELSE "ended"
<1>1. /\ chain[o] = "sending" /\ chain' = [chain EXCEPT ![o] = where] /\ where \in Chains /\ where # "tcp"
      /\ UNCHANGED <<phase, outcome, datagram, idVars, timeVars, queueVars, linkVars, isStopped, stray>>
  BY DEF UdpSent, GoesOn, Chains
<1>2. /\ phase' = [phase EXCEPT ![o] = IF o \in {} THEN "done" ELSE @]
      /\ activeIds' = activeIds \ {queryId[p] : p \in {}}
      /\ outcome' \in [Exchanges -> Endings \cup {Nothing}]
      /\ datagram' \in [Exchanges -> BOOLEAN] /\ stray' \in 0..MaxStray
      /\ \A p \in Exchanges : datagram'[p] => phase'[p] = "running"
  BY <1>1 DEF IInv, TransportTypeOK, SessionAgrees, idVars
<1> HIDE DEF IInv, where
<1> QED BY <1>1, <1>2, TaskKeeps DEF idVars

(* An answer or an error ends the exchange if it still runs.               *)
LEMMA UdpEndsKeeps ==
    ASSUME IInv, NEW o \in Exchanges, UdpFails(o) \/ \E r \in {"answer", "error"} : UdpReceived(o, r)
    PROVE  IInv'
<1> DEFINE S == IF phase[o] = "running" THEN {o} ELSE {}
<1>1. /\ chain[o] \in {"opening", "sending", "receiving"} /\ chain' = [chain EXCEPT ![o] = "ended"]
      /\ phase' = [phase EXCEPT ![o] = "done"]
      /\ datagram' = [datagram EXCEPT ![o] = FALSE]
      /\ UNCHANGED <<queryId, nextQueryId, timeVars, queueVars, linkVars, isStopped, stray>>
  BY DEF UdpFails, UdpReceived, GoesOn
<1>2. activeIds' = IF phase[o] = "running" THEN activeIds \ {queryId[o]} ELSE activeIds
  BY DEF UdpFails, UdpReceived
<1>3. outcome' \in [Exchanges -> Endings \cup {Nothing}]
  BY DEF UdpFails, UdpReceived, IInv, TransportTypeOK, Endings
<1>4. phase[o] \in {"running", "done"}
  BY <1>1 DEF IInv, NotBegun, TransportTypeOK
<1>5. /\ phase' = [phase EXCEPT ![o] = IF o \in S THEN "done" ELSE @]
      /\ activeIds' = activeIds \ {queryId[p] : p \in S}
      /\ S \in SUBSET {o} /\ \A p \in S : phase[p] = "running"
  BY <1>1, <1>2, <1>4 DEF IInv, TransportTypeOK
<1>6. /\ datagram' \in [Exchanges -> BOOLEAN] /\ stray' \in 0..MaxStray
      /\ \A p \in Exchanges : datagram'[p] => phase'[p] = "running"
  BY <1>1 DEF IInv, TransportTypeOK, SessionAgrees
<1>7. "ended" \in Chains /\ chain[o] \notin {"none", "tcp"}
  BY <1>1 DEF Chains
<1> HIDE DEF S, IInv
<1> QED BY <1>1, <1>3, <1>5, <1>6, <1>7, TaskKeeps

(* A packet of somebody else is ignored.                                   *)
LEMMA UdpStrayKeeps ==
    ASSUME IInv, NEW o \in Exchanges, UdpStray(o) PROVE IInv'
<1>1. /\ stray' \in 0..MaxStray
      /\ UNCHANGED <<exchangeVars, idVars, timeVars, queueVars, linkVars, isStopped>>
  BY DEF UdpStray, IInv, TransportTypeOK, TransportAssumption
<1>2. TransportTypeOK'
  BY <1>1 DEF IInv, TransportTypeOK, exchangeVars, idVars, timeVars, queueVars, linkVars
<1>3. IdsUnique' /\ SessionAgrees' /\ HaveIds' /\ NotBegun' /\ TimersAgree'
  BY <1>1 DEF IInv, IdsUnique, SessionAgrees, HaveIds, NotBegun, TimersAgree, exchangeVars, idVars,
              timeVars, queueVars
<1>4. ConnectionAgrees' /\ QueueServed'
  BY <1>1, ConnectionKept DEF queueVars
<1> QED BY <1>2, <1>3, <1>4 DEF IInv

(* The answer was cut: the exchange goes on over TCP, under its id.        *)
LEMMA UdpTruncatedKeeps ==
    ASSUME IInv, NEW o \in Exchanges, UdpTruncated(o) PROVE IInv'
<1> DEFINE id == queryId[o]
<1>1. /\ chain[o] = "receiving" /\ phase[o] = "running"
      /\ chain' = [chain EXCEPT ![o] = "tcp"] /\ datagram' = [datagram EXCEPT ![o] = FALSE]
      /\ SessionExchange(o, id)
      /\ UNCHANGED <<phase, outcome, idVars, expired, timers, isStopped, stray>>
  BY DEF UdpTruncated, GoesOn
<1>2. id \in Ids
  BY <1>1 DEF IInv, HaveIds
<1> HIDE DEF id
<1>3. /\ pending' = [pending EXCEPT ![id] = o]
      /\ writeQueue' \in Seq(Ids)
      /\ writes' \subseteq [gen : 0..MaxGeneration, id : Ids, op : Exchanges]
      /\ link' \in {"connecting", "connected"}
      /\ sessionTimers' = sessionTimers \cup {<<o, id>>}
      /\ UNCHANGED <<generation, reads>>
      /\ ConnectionAgrees' /\ QueueServed'
  <2> HIDE DEF IInv
  <2> QED BY <1>1, <1>2, SessionExchangeFacts
<1>4. queryId' = queryId /\ id = queryId[o]
  BY <1>1 DEF idVars, id
<1>5. TransportTypeOK'
  BY <1>1, <1>2, <1>3 DEF IInv, TransportTypeOK, idVars
<1>6. IdsUnique' /\ HaveIds' /\ NotBegun'
  BY <1>1 DEF IInv, IdsUnique, HaveIds, NotBegun, idVars, TransportTypeOK
<1>7. SessionAgrees'
  <2>1. ASSUME NEW i \in Ids, pending'[i] # Nothing
        PROVE  phase[pending'[i]] = "running" /\ chain'[pending'[i]] = "tcp" /\ queryId[pending'[i]] = i
    BY <1>1, <1>2, <1>3, <1>4, <2>1 DEF IInv, SessionAgrees, TransportTypeOK
  <2>2. ASSUME NEW p \in Exchanges, chain'[p] = "tcp" PROVE pending'[queryId[p]] = p
    <3>1. CASE p = o
      BY <1>2, <1>3, <1>4, <3>1 DEF IInv, TransportTypeOK
    <3>2. CASE p # o
      <4>1. chain[p] = "tcp" /\ pending[queryId[p]] = p /\ queryId[p] \in Ids
        BY <1>1, <2>2, <3>2 DEF IInv, SessionAgrees, TransportTypeOK, HaveIds
      <4>2. phase[p] = "running"
        BY <4>1 DEF IInv, SessionAgrees, TransportAssumption
      <4>3. queryId[p] # id
        BY <1>1, <1>4, <3>2, <4>2 DEF IInv, IdsUnique
      <4> QED BY <1>3, <4>1, <4>3 DEF IInv, TransportTypeOK
    <3> QED BY <3>1, <3>2
  <2>3. ASSUME NEW p \in Exchanges, datagram'[p] PROVE phase[p] = "running"
    BY <1>1, <2>3 DEF IInv, SessionAgrees, TransportTypeOK
  <2> QED BY <1>1, <1>4, <2>1, <2>2, <2>3 DEF SessionAgrees
<1>8. TimersAgree'
  BY <1>3, <1>4 DEF IInv, TimersAgree
<1> QED BY <1>3, <1>5, <1>6, <1>7, <1>8 DEF IInv

(* An id is given to an exchange that had none: no entry, no timer names   *)
(* it.                                                                     *)
LEMMA FreshIds ==
    ASSUME IInv, NEW o \in Exchanges, phase[o] = "idle", activeIds # Ids,
           nextQueryId' = After(NextQueryId), queryId' = [queryId EXCEPT ![o] = NextQueryId]
    PROVE  /\ NextQueryId \in Ids \ activeIds
           /\ nextQueryId' \in Ids
           /\ queryId' \in [Exchanges -> 0..MaxId]
           /\ queryId'[o] = NextQueryId
           /\ \A p \in Exchanges \ {o} : queryId'[p] = queryId[p]
           /\ \A t \in sessionTimers : t[1] # o
           /\ \A i \in Ids : pending[i] # o
<1>1. NextQueryId \in Ids \ activeIds
  BY NextIdFree DEF IInv, TransportTypeOK
<1>2. nextQueryId' \in Ids
  BY <1>1 DEF After, Ids, IInv, TransportAssumption
<1>3. queryId' \in [Exchanges -> 0..MaxId] /\ queryId'[o] = NextQueryId
  BY <1>1 DEF IInv, TransportTypeOK, Ids
<1>4. \A p \in Exchanges \ {o} : queryId'[p] = queryId[p]
  BY DEF IInv, TransportTypeOK
<1>5. \A t \in sessionTimers : t[1] # o
  <2> SUFFICES ASSUME NEW t \in sessionTimers, t[1] = o PROVE FALSE
    OBVIOUS
  <2>1. t[2] \in Ids /\ queryId[o] = t[2]
    BY DEF IInv, TransportTypeOK, TimersAgree
  <2>2. queryId[o] = 0
    BY DEF IInv, NotBegun
  <2> QED BY <2>1, <2>2 DEF Ids
<1>6. \A i \in Ids : pending[i] # o
  BY DEF IInv, SessionAgrees, TransportAssumption
<1> QED BY <1>1, <1>2, <1>3, <1>4, <1>5, <1>6

(* An exchange whose deadline is over as it begins only used up an id. *)
LEMMA OpenExpiredKeeps ==
    ASSUME IInv, NEW o \in Exchanges, OpenExpired(o) PROVE IInv'
<1>1. /\ phase[o] = "idle" /\ activeIds # Ids
      /\ nextQueryId' = After(NextQueryId)
      /\ queryId' = [queryId EXCEPT ![o] = NextQueryId]
      /\ phase' = [phase EXCEPT ![o] = "done"]
      /\ outcome' = [outcome EXCEPT ![o] = "timeout"]
      /\ expired' = expired \cup {o} /\ timers' = timers \cup {o}
      /\ UNCHANGED <<chain, datagram, activeIds, sessionTimers, queueVars, linkVars, isStopped, stray>>
  BY DEF OpenExpired
<1>2. /\ nextQueryId' \in Ids /\ queryId' \in [Exchanges -> 0..MaxId]
      /\ \A p \in Exchanges \ {o} : queryId'[p] = queryId[p]
      /\ \A t \in sessionTimers : t[1] # o
      /\ \A i \in Ids : pending[i] # o
  <2> HIDE DEF IInv
  <2> QED BY <1>1, FreshIds
<1>3. chain[o] = "none" /\ ~datagram[o]
  BY <1>1 DEF IInv, NotBegun, SessionAgrees
<1>4. TransportTypeOK'
  BY <1>1, <1>2 DEF IInv, TransportTypeOK, Endings, queueVars, linkVars
<1>5. \A p \in Exchanges : phase'[p] = "running" <=> phase[p] = "running" /\ p # o
  BY <1>1 DEF IInv, TransportTypeOK
<1>6. IdsUnique'
  <2> DEFINE R == {p \in Exchanges : phase[p] = "running"}
  <2>1. {p \in Exchanges : phase'[p] = "running"} = R /\ o \notin R
    BY <1>1, <1>5
  <2>2. \A p \in R : queryId'[p] = queryId[p]
    BY <1>2, <2>1
  <2>3. activeIds = {queryId[p] : p \in R} /\ \A a, b \in R : queryId[a] = queryId[b] => a = b
    BY DEF IInv, IdsUnique
  <2> HIDE DEF R
  <2>4. {queryId'[p] : p \in R} = {queryId[p] : p \in R}
    BY <2>2
  <2>5. \A a, b \in R : queryId'[a] = queryId'[b] => a = b
    BY <2>2, <2>3
  <2>6. activeIds' = {queryId'[p] : p \in R}
    BY <1>1, <2>3, <2>4
  <2> QED BY <2>1, <2>5, <2>6 DEF IdsUnique
<1>7. SessionAgrees'
  <2>1. ASSUME NEW i \in Ids, pending'[i] # Nothing
        PROVE  phase'[pending'[i]] = "running" /\ chain'[pending'[i]] = "tcp" /\ queryId'[pending'[i]] = i
    BY <1>1, <1>2, <1>5, <2>1 DEF IInv, SessionAgrees, TransportTypeOK, queueVars
  <2>2. ASSUME NEW p \in Exchanges, chain'[p] = "tcp" PROVE pending'[queryId'[p]] = p
    <3>1. p # o
      BY <1>1, <1>3, <2>2
    <3> QED BY <1>1, <1>2, <2>2, <3>1 DEF IInv, SessionAgrees, queueVars
  <2>3. ASSUME NEW p \in Exchanges, datagram'[p] PROVE phase'[p] = "running"
    BY <1>1, <1>3, <1>5, <2>3 DEF IInv, SessionAgrees
  <2> QED BY <2>1, <2>2, <2>3 DEF SessionAgrees
<1>8. HaveIds' /\ NotBegun'
  BY <1>1, <1>2, <1>3, <1>5 DEF IInv, HaveIds, NotBegun, TransportTypeOK
<1>9. TimersAgree'
  BY <1>1, <1>2 DEF IInv, TimersAgree, TransportTypeOK
<1>10. ConnectionAgrees' /\ QueueServed'
  BY <1>1, ConnectionKept DEF queueVars
<1> QED BY <1>4, <1>6, <1>7, <1>8, <1>9, <1>10 DEF IInv

(* An exchange begins, at once over TCP or with a datagram to be opened.   *)
LEMMA OpenKeeps ==
    ASSUME IInv, NEW o \in Exchanges, OpenExchange(o) PROVE IInv'
<1> DEFINE id == NextQueryId
           tcp == chain' = [chain EXCEPT ![o] = "tcp"] /\ SessionExchange(o, id)
           udp == /\ chain' = [chain EXCEPT ![o] = "opening"]
                  /\ UNCHANGED <<sessionTimers, queueVars, linkVars>>
<1>1. /\ phase[o] = "idle" /\ activeIds # Ids
      /\ nextQueryId' = After(id)
      /\ queryId' = [queryId EXCEPT ![o] = id]
      /\ activeIds' = activeIds \cup {id}
      /\ phase' = [phase EXCEPT ![o] = "running"]
      /\ timers' = timers \cup {o}
      /\ tcp \/ udp
      /\ UNCHANGED <<outcome, datagram, expired, isStopped, stray>>
  BY DEF OpenExchange, GoesOn
<1>2. /\ id \in Ids \ activeIds /\ nextQueryId' \in Ids /\ queryId' \in [Exchanges -> 0..MaxId]
      /\ queryId'[o] = id
      /\ \A p \in Exchanges \ {o} : queryId'[p] = queryId[p]
      /\ \A t \in sessionTimers : t[1] # o
      /\ \A i \in Ids : pending[i] # o
  <2> HIDE DEF IInv, tcp, udp
  <2> QED BY <1>1, FreshIds
<1>3. chain[o] = "none" /\ ~datagram[o]
  BY <1>1 DEF IInv, NotBegun, SessionAgrees
<1>4. \A p \in Exchanges : phase'[p] = "running" <=> phase[p] = "running" \/ p = o
  BY <1>1 DEF IInv, TransportTypeOK
<1> HIDE DEF id, tcp, udp
<1>5. IdsUnique'
  <2> DEFINE R == {p \in Exchanges : phase[p] = "running"}
  <2>1. {p \in Exchanges : phase'[p] = "running"} = R \cup {o} /\ o \notin R
    BY <1>1, <1>4
  <2>2. \A p \in R : queryId'[p] = queryId[p]
    BY <1>2, <2>1
  <2>3. activeIds = {queryId[p] : p \in R} /\ \A a, b \in R : queryId[a] = queryId[b] => a = b
    BY DEF IInv, IdsUnique
  <2> HIDE DEF R
  <2>4. {queryId'[p] : p \in R \cup {o}} = {queryId[p] : p \in R} \cup {id}
    BY <1>2, <2>2
  <2>5. \A a, b \in R \cup {o} : queryId'[a] = queryId'[b] => a = b
    BY <1>2, <2>2, <2>3
  <2>6. activeIds' = {queryId'[p] : p \in R \cup {o}}
    BY <1>1, <2>3, <2>4
  <2> QED BY <2>1, <2>5, <2>6 DEF IdsUnique
<1>6. /\ pending' = pending \/ (pending' = [pending EXCEPT ![id] = o] /\ chain' = [chain EXCEPT ![o] = "tcp"])
      /\ pending' = pending => chain' = [chain EXCEPT ![o] = "opening"]
      /\ writeQueue' \in Seq(Ids)
      /\ writes' \subseteq [gen : 0..MaxGeneration, id : Ids, op : Exchanges]
      /\ reads' = reads /\ generation' = generation
      /\ link' \in {"down", "connecting", "connected"}
      /\ sessionTimers' = sessionTimers \/ sessionTimers' = sessionTimers \cup {<<o, id>>}
      /\ ConnectionAgrees' /\ QueueServed'
  <2>1. CASE tcp
    <3>1. /\ pending' = [pending EXCEPT ![id] = o]
          /\ writeQueue' \in Seq(Ids)
          /\ writes' \subseteq [gen : 0..MaxGeneration, id : Ids, op : Exchanges]
          /\ link' \in {"connecting", "connected"}
          /\ sessionTimers' = sessionTimers \cup {<<o, id>>}
          /\ UNCHANGED <<generation, reads>>
          /\ ConnectionAgrees' /\ QueueServed'
      <4> HIDE DEF IInv
      <4> QED BY <1>2, <2>1, SessionExchangeFacts DEF tcp
    <3>2. pending' # pending
      <4>1. pending'[id] = o
        BY <1>2, <3>1 DEF IInv, TransportTypeOK
      <4> QED BY <1>2, <4>1
    <3> QED BY <2>1, <3>1, <3>2 DEF tcp
  <2>2. CASE udp
    <3>1. UNCHANGED <<pending, writeQueue, writes, reads, generation, link, sessionTimers>>
      BY <2>2 DEF udp, queueVars, linkVars
    <3>2. ConnectionAgrees' /\ QueueServed'
      BY <2>2, ConnectionKept DEF udp, queueVars
    <3> QED BY <2>2, <3>1, <3>2 DEF udp, IInv, TransportTypeOK
  <2> QED BY <1>1, <2>1, <2>2
<1>7. chain' = [chain EXCEPT ![o] = "tcp"] \/ chain' = [chain EXCEPT ![o] = "opening"]
  BY <1>6
<1>8. TransportTypeOK'
  <2>1. /\ pending' \in [Ids -> Exchanges \cup {Nothing}]
        /\ sessionTimers' \subseteq Exchanges \X Ids
    <3>1. pending \in [Ids -> Exchanges \cup {Nothing}] /\ sessionTimers \subseteq Exchanges \X Ids
      BY DEF IInv, TransportTypeOK
    <3>2. <<o, id>> \in Exchanges \X Ids
      BY <1>2
    <3> QED BY <1>2, <1>6, <3>1, <3>2
  <2>2. /\ phase' \in [Exchanges -> {"idle", "running", "done"}]
        /\ chain' \in [Exchanges -> {"none", "opening", "sending", "receiving", "tcp", "ended"}]
        /\ activeIds' \subseteq Ids /\ timers' \subseteq Exchanges
    BY <1>1, <1>2, <1>7 DEF IInv, TransportTypeOK
  <2> QED BY <1>1, <1>2, <1>6, <2>1, <2>2 DEF IInv, TransportTypeOK
<1>9. SessionAgrees'
  <2>1. ASSUME NEW i \in Ids, pending'[i] # Nothing
        PROVE  phase'[pending'[i]] = "running" /\ chain'[pending'[i]] = "tcp" /\ queryId'[pending'[i]] = i
    <3>1. CASE pending'[i] = o
      <4>1. pending' # pending
        BY <1>2, <3>1
      <4>2. i = id
        BY <1>2, <1>6, <3>1, <4>1 DEF IInv, TransportTypeOK
      <4> QED BY <1>1, <1>2, <1>6, <3>1, <4>1, <4>2 DEF IInv, TransportTypeOK
    <3>2. CASE pending'[i] # o
      <4>1. pending'[i] = pending[i]
        BY <1>2, <1>6, <3>2 DEF IInv, TransportTypeOK
      <4>2. pending[i] \in Exchanges \ {o}
        BY <2>1, <3>2, <4>1 DEF IInv, TransportTypeOK
      <4>3. phase[pending[i]] = "running" /\ chain[pending[i]] = "tcp" /\ queryId[pending[i]] = i
        BY <2>1, <4>1 DEF IInv, SessionAgrees
      <4> QED BY <1>2, <1>4, <1>7, <4>1, <4>2, <4>3 DEF IInv, TransportTypeOK
    <3> QED BY <3>1, <3>2
  <2>2. ASSUME NEW p \in Exchanges, chain'[p] = "tcp" PROVE pending'[queryId'[p]] = p
    <3>1. CASE p = o
      <4>1. chain' # [chain EXCEPT ![o] = "opening"]
        BY <2>2, <3>1 DEF IInv, TransportTypeOK
      <4> QED BY <1>2, <1>6, <3>1, <4>1 DEF IInv, TransportTypeOK
    <3>2. CASE p # o
      <4>1. chain[p] = "tcp" /\ pending[queryId[p]] = p /\ queryId[p] \in Ids
        BY <1>7, <2>2, <3>2 DEF IInv, SessionAgrees, TransportTypeOK, HaveIds
      <4>2. queryId[p] \in activeIds
        <5>1. phase[p] = "running"
          BY <4>1 DEF IInv, SessionAgrees, TransportAssumption
        <5> QED BY <5>1 DEF IInv, IdsUnique
      <4>3. queryId[p] # id
        BY <1>2, <4>2
      <4> QED BY <1>2, <1>6, <3>2, <4>1, <4>3 DEF IInv, TransportTypeOK
    <3> QED BY <3>1, <3>2
  <2>3. ASSUME NEW p \in Exchanges, datagram'[p] PROVE phase'[p] = "running"
    BY <1>1, <1>4, <2>3 DEF IInv, SessionAgrees
  <2> QED BY <2>1, <2>2, <2>3 DEF SessionAgrees
<1>10. HaveIds'
  <2>1. \A p \in Exchanges \ {o} : chain'[p] = chain[p]
    BY <1>7 DEF IInv, TransportTypeOK
  <2> QED BY <1>2, <1>4, <2>1 DEF IInv, HaveIds
<1>11. NotBegun'
  <2>1. \A p \in Exchanges : phase'[p] = "idle" => p # o /\ phase[p] = "idle"
    BY <1>1 DEF IInv, TransportTypeOK
  <2>2. \A p \in Exchanges \ {o} : chain'[p] = chain[p]
    BY <1>7 DEF IInv, TransportTypeOK
  <2> QED BY <1>2, <2>1, <2>2 DEF IInv, NotBegun
<1>12. TimersAgree'
  <2>1. ASSUME NEW t \in sessionTimers PROVE queryId'[t[1]] = t[2]
    BY <1>2 DEF IInv, TimersAgree, TransportTypeOK
  <2> QED BY <1>2, <1>6, <2>1 DEF TimersAgree
<1> QED BY <1>5, <1>6, <1>8, <1>9, <1>10, <1>11, <1>12 DEF IInv

(* A deadline passes. *)
LEMMA DeadlinePassesKeeps ==
    ASSUME IInv, NEW o \in Exchanges, DeadlinePasses(o) PROVE IInv'
<1>1. /\ expired' \subseteq Exchanges /\ timers' \subseteq Exchanges
      /\ UNCHANGED <<phase, outcome, chain, datagram, activeIds, pending, writeQueue, queryId,
                     nextQueryId, sessionTimers, generation, link, writes, reads, isStopped, stray>>
  BY DEF DeadlinePasses, IInv, TransportTypeOK, exchangeVars, idVars, queueVars, linkVars
<1> HIDE DEF IInv
<1> QED BY <1>1, TimersChange

(* Every step of the transport keeps the invariant.                        *)
LEMMA StepKeeps == IInv /\ [TransportNext]_transportVars => IInv'
<1> SUFFICES ASSUME IInv, [TransportNext]_transportVars PROVE IInv'
  OBVIOUS
<1>1. ASSUME NEW o \in Exchanges, OpenRefused(o) \/ OpenExpired(o) \/ OpenExchange(o) PROVE IInv'
  BY <1>1, OpenRefusedKeeps, OpenExpiredKeeps, OpenKeeps
<1>2. ASSUME NEW o \in Exchanges, DatagramOpened(o) \/ UdpSent(o) \/ UdpStray(o) \/ UdpTruncated(o)
      PROVE  IInv'
  BY <1>2, DatagramOpenedKeeps, UdpSentKeeps, UdpStrayKeeps, UdpTruncatedKeeps
<1>3. ASSUME NEW o \in Exchanges, UdpFails(o) \/ \E r \in {"answer", "error"} : UdpReceived(o, r)
      PROVE  IInv'
  BY <1>3, UdpEndsKeeps
<1>4. ASSUME NEW o \in Exchanges, DeadlinePasses(o) \/ OpDeadline(o) \/ CancelExchange(o) PROVE IInv'
  BY <1>4, DeadlinePassesKeeps, OpDeadlineKeeps, CancelExchangeKeeps
<1>5. ASSUME NEW o \in Exchanges, NEW i \in Ids, SessionDeadline(o, i) PROVE IInv'
  BY <1>5, SessionDeadlineKeeps
<1>6. CASE OnConnected
  BY <1>6, OnConnectedKeeps
<1>7. ASSUME NEW w \in writes, OnWrite(w) PROVE IInv'
  BY <1>7, OnWriteKeeps
<1>8. ASSUME NEW r \in reads, ReadLength(r) PROVE IInv'
  BY <1>8, ReadLengthKeeps
<1>9. CASE ConnectFails \/ (\E w \in writes : WriteFails(w)) \/ (\E r \in reads : ReadFails(r))
  BY <1>9, LinkFailsKeeps
<1>10. ASSUME NEW r \in reads, NEW i \in Ids, NEW x \in {"answer", "error"}, DispatchResponse(r, i, x)
       PROVE  IInv'
  BY <1>10, DispatchResponseKeeps
<1>11. CASE StopTransport
  BY <1>11, StopKeeps
<1>12. CASE UNCHANGED transportVars
  BY <1>12, TimersChange DEF IInv, TransportTypeOK, transportVars, exchangeVars, idVars, timeVars,
     queueVars, linkVars
<1> HIDE DEF IInv
<1> QED BY <1>1, <1>2, <1>3, <1>4, <1>5, <1>6, <1>7, <1>8, <1>9, <1>10, <1>11, <1>12
           DEF TransportNext

(* While there are ids to spare they are given in order, and none is given *)
(* twice.                                                                  *)
IdsInOrder ==
    LET n == Cardinality(Assigned) IN
    /\ \A o \in Assigned : queryId[o] \in 1..n
    /\ \A a, b \in Assigned : queryId[a] = queryId[b] => a = b
    /\ nextQueryId = IF n = MaxId THEN 1 ELSE n + 1

(* Whatever is said of ids that were given once.                           *)
Thrifty ==
    /\ IsFiniteSet(Assigned)
    /\ IdsToSpare => IdsInOrder /\ TimesOutByOwnDeadline

(* No exchange has an id and none has ended at first.                      *)
LEMMA InitThrifty == TransportAssumption /\ TransportInit => Thrifty
<1> SUFFICES ASSUME TransportAssumption, TransportInit PROVE Thrifty
  OBVIOUS
<1>1. Assigned = {}
  BY DEF TransportInit, Assigned
<1>2. Cardinality(Assigned) = 0 /\ IsFiniteSet(Assigned)
  BY <1>1, FS_EmptySet
<1>3. IdsInOrder
  BY <1>1, <1>2 DEF TransportInit, IdsInOrder, TransportAssumption
<1>4. TimesOutByOwnDeadline
  BY DEF TransportInit, TimesOutByOwnDeadline, TransportAssumption, Endings
<1> QED BY <1>2, <1>3, <1>4 DEF Thrifty

(* The exchange that begins is one more that has an id.                    *)
LEMMA OneMoreAssigned ==
    ASSUME IInv, IsFiniteSet(Assigned), NEW o \in Exchanges, phase[o] = "idle",
           activeIds # Ids, queryId' = [queryId EXCEPT ![o] = NextQueryId]
    PROVE  /\ o \notin Assigned /\ Assigned' = Assigned \cup {o}
           /\ IsFiniteSet(Assigned') /\ Cardinality(Assigned) \in Nat
           /\ Cardinality(Assigned') = Cardinality(Assigned) + 1
<1>1. o \notin Assigned
  BY DEF Assigned, IInv, NotBegun
<1>2. NextQueryId \in Ids /\ NextQueryId # 0
  BY NextIdFree DEF IInv, TransportTypeOK, Ids
<1>3. Assigned' = Assigned \cup {o}
  BY <1>2 DEF Assigned, IInv, TransportTypeOK
<1> QED BY <1>1, <1>3, FS_AddElement, FS_CardinalityType

(* next_query_id finds the id after the last one given.                    *)
LEMMA NextInOrder ==
    ASSUME IInv, IsFiniteSet(Assigned), IdsInOrder, IdsToSpare',
           NEW o \in Exchanges, phase[o] = "idle", activeIds # Ids,
           nextQueryId' = After(NextQueryId), queryId' = [queryId EXCEPT ![o] = NextQueryId]
    PROVE  IdsInOrder'
<1> DEFINE n == Cardinality(Assigned)
<1>1. n \in Nat /\ o \notin Assigned /\ Assigned \subseteq Exchanges
  BY OneMoreAssigned DEF Assigned
<1>2. Assigned' = Assigned \cup {o} /\ Cardinality(Assigned') = n + 1
  BY OneMoreAssigned
<1>3. n < MaxId /\ MaxId \in Nat
  <2>1. n + 1 <= MaxId
    BY <1>2 DEF IdsToSpare
  <2> QED BY <1>1, <2>1 DEF IInv, TransportAssumption
<1>4. nextQueryId = n + 1
  BY <1>1, <1>3 DEF IdsInOrder
<1>5. \A i \in activeIds : i \in 1..n
  BY DEF IInv, IdsUnique, HaveIds, IdsInOrder, Assigned, Ids
<1> HIDE DEF n
<1>6. NextQueryId = n + 1
  <2>1. IdAt(0) = n + 1
    <3>1. (n + 1) - 1 + 0 = n /\ n % MaxId = n
      BY <1>1, <1>3, OneTurn
    <3> QED BY <1>4, <3>1 DEF IdAt
  <2>2. IdAt(0) \notin activeIds
    BY <1>1, <1>5, <2>1
  <2>3. \A k \in 0..(MaxId - 1) : (\A l \in 0..(k - 1) : IdAt(l) \in activeIds) => k = 0
    BY <1>3, <2>2
  <2>4. 0 \in 0..(MaxId - 1) /\ \A l \in 0..(0 - 1) : IdAt(l) \in activeIds
    <3>1. 0..(0 - 1) = {} /\ 0 \in 0..(MaxId - 1)
      BY <1>1, <1>3
    <3> QED BY <3>1
  <2> DEFINE k == CHOOSE k \in 0..(MaxId - 1) :
                     IdAt(k) \notin activeIds /\ \A l \in 0..(k - 1) : IdAt(l) \in activeIds
  <2>5. k = 0
    BY <2>2, <2>3, <2>4
  <2>6. NextQueryId = IdAt(k)
    BY DEF NextQueryId
  <2> HIDE DEF k
  <2> QED BY <2>1, <2>5, <2>6
<1>7. queryId' = [queryId EXCEPT ![o] = n + 1] /\ queryId \in [Exchanges -> 0..MaxId]
  BY <1>6 DEF IInv, TransportTypeOK
<1>8. /\ \A a \in Assigned : queryId'[a] = queryId[a] /\ queryId[a] \in 1..n
      /\ queryId'[o] = n + 1
  BY <1>1, <1>7 DEF IdsInOrder, n
<1>9. \A a \in Assigned' : queryId'[a] \in 1..(n + 1)
  BY <1>1, <1>2, <1>8
<1>10. \A a, b \in Assigned' : queryId'[a] = queryId'[b] => a = b
  BY <1>1, <1>2, <1>8 DEF IdsInOrder
<1>11. nextQueryId' = IF n + 1 = MaxId THEN 1 ELSE n + 1 + 1
  BY <1>6 DEF After
<1> QED BY <1>2, <1>9, <1>10, <1>11 DEF IdsInOrder

(* Only an exchange that begins is given an id.                            *)
LEMMA WhoIsGivenAnId ==
    ASSUME [TransportNext]_transportVars
    PROVE  \/ UNCHANGED <<queryId, nextQueryId>>
           \/ \E o \in Exchanges :
                 /\ phase[o] = "idle" /\ activeIds # Ids
                 /\ nextQueryId' = After(NextQueryId)
                 /\ queryId' = [queryId EXCEPT ![o] = NextQueryId]
<1> DEFINE same == UNCHANGED <<queryId, nextQueryId>>
           given(o) == /\ phase[o] = "idle" /\ activeIds # Ids
                       /\ nextQueryId' = After(NextQueryId)
                       /\ queryId' = [queryId EXCEPT ![o] = NextQueryId]
<1>1. ASSUME NEW o \in Exchanges, OpenExpired(o) \/ OpenExchange(o) PROVE given(o)
  BY <1>1 DEF OpenExpired, OpenExchange
<1>2. ASSUME NEW o \in Exchanges,
             OpenRefused(o) \/ DeadlinePasses(o) \/ OpDeadline(o) \/ CancelExchange(o)
      PROVE  same
  BY <1>2 DEF OpenRefused, DeadlinePasses, OpDeadline, CancelExchange, idVars
<1>3. ASSUME NEW o \in Exchanges,
             \/ DatagramOpened(o) \/ UdpSent(o) \/ UdpFails(o) \/ UdpStray(o)
             \/ UdpTruncated(o) \/ \E r \in {"answer", "error"} : UdpReceived(o, r)
      PROVE  same
  BY <1>3 DEF DatagramOpened, UdpSent, UdpFails, UdpStray, UdpTruncated, UdpReceived, idVars
<1>4. ASSUME NEW o \in Exchanges, NEW i \in Ids, SessionDeadline(o, i) PROVE same
  BY <1>4 DEF SessionDeadline
<1>5. ASSUME \/ OnConnected \/ ConnectFails \/ StopTransport
             \/ \E w \in writes : OnWrite(w) \/ WriteFails(w)
             \/ \E r \in reads : ReadFails(r) \/ ReadLength(r)
      PROVE  same
  BY <1>5 DEF OnConnected, ConnectFails, StopTransport, OnWrite, WriteFails, ReadFails,
              ReadLength, idVars
<1>6. ASSUME NEW r \in reads, NEW i \in Ids, NEW x \in {"answer", "error"},
             DispatchResponse(r, i, x)
      PROVE  same
  BY <1>6 DEF DispatchResponse
<1>7. UNCHANGED transportVars => same
  BY DEF transportVars, idVars
<1> HIDE DEF same, given
<1>8. same \/ \E o \in Exchanges : given(o)
  BY <1>1, <1>2, <1>3, <1>4, <1>5, <1>6, <1>7 DEF TransportNext
<1> QED BY <1>8 DEF same, given

(* A deadline that has passed stays passed, and an exchange that times out *)
(* in a step is one whose deadline has passed.                             *)
LEMMA TimesOutOnTime ==
    IInv /\ IdsInOrder /\ TimesOutByOwnDeadline /\ [TransportNext]_transportVars => TimesOutByOwnDeadline'
<1> SUFFICES ASSUME IInv, IdsInOrder, TimesOutByOwnDeadline, [TransportNext]_transportVars,
                    NEW p \in Exchanges, outcome'[p] = "timeout"
             PROVE  p \in expired'
  BY DEF TimesOutByOwnDeadline
<1> DEFINE late == p \in expired'
<1>1. outcome[p] = "timeout" => p \in expired
  BY DEF TimesOutByOwnDeadline
<1>2. ASSUME expired \subseteq expired', outcome' = outcome PROVE late
  BY <1>1, <1>2
<1>3. ASSUME NEW S, NEW r, FinishAll(S, r), r = "timeout" => S \subseteq expired, expired' = expired
      PROVE  late
  BY <1>1, <1>3 DEF FinishAll
<1>4. ASSUME NEW o \in Exchanges, OpenExpired(o) PROVE late
  <2>1. outcome' = [outcome EXCEPT ![o] = "timeout"] /\ expired' = expired \cup {o}
    BY <1>4 DEF OpenExpired
  <2> QED BY <1>1, <2>1 DEF IInv, TransportTypeOK
<1>5. ASSUME NEW o \in Exchanges, \/ OpenExchange(o) \/ DatagramOpened(o) \/ UdpSent(o) \/ UdpStray(o)
                                  \/ UdpTruncated(o) \/ DeadlinePasses(o)
      PROVE  expired \subseteq expired' /\ outcome' = outcome
  BY <1>5 DEF OpenExchange, DatagramOpened, UdpSent, UdpStray, UdpTruncated, DeadlinePasses,
     exchangeVars, timeVars
<1>6. ASSUME NEW o \in Exchanges, UdpFails(o) \/ \E r \in {"answer", "error"} : UdpReceived(o, r) PROVE late
  <2>1. /\ expired' = expired
        /\ \E r \in {"answer", "error", outcome[o]} : outcome' = [outcome EXCEPT ![o] = r]
    BY <1>6 DEF UdpFails, UdpReceived, timeVars
  <2> QED BY <1>1, <2>1 DEF IInv, TransportTypeOK
<1>7. ASSUME NEW o \in Exchanges, OpenRefused(o) \/ CancelExchange(o) PROVE late
  <2>1. /\ expired' = expired
        /\ FinishAll({o}, "cancelled") \/ FinishAll({o}, "noId")
    BY <1>7 DEF OpenRefused, CancelExchange, End, timeVars
  <2> QED BY <1>3, <2>1
<1>8. ASSUME NEW o \in Exchanges, OpDeadline(o) PROVE late
  <2>1. o \in expired /\ expired' = expired
    BY <1>8 DEF OpDeadline
  <2>2. CASE phase[o] = "running"
    BY <1>3, <1>8, <2>1, <2>2 DEF OpDeadline, End
  <2>3. CASE phase[o] # "running"
    BY <1>2, <1>8, <2>1, <2>3 DEF OpDeadline, exchangeVars
  <2> QED BY <2>2, <2>3
<1>9. ASSUME NEW o \in Exchanges, NEW i \in Ids, SessionDeadline(o, i) PROVE late
  <2>1. <<o, i>> \in sessionTimers /\ o \in expired /\ expired' = expired
        /\ FinishAll({pending[i]} \ {Nothing}, "timeout")
    BY <1>9 DEF SessionDeadline, End
  <2>2. queryId[o] = i
    BY <2>1 DEF IInv, TimersAgree
  <2>3. pending[i] # Nothing => pending[i] \in Exchanges /\ queryId[pending[i]] = i
    BY DEF IInv, SessionAgrees, TransportTypeOK
  <2>4. i # 0
    BY DEF Ids
  <2>5. pending[i] # Nothing => pending[i] = o
    BY <2>2, <2>3, <2>4 DEF IdsInOrder, Assigned
  <2> QED BY <1>3, <2>1, <2>5
<1>10. ASSUME \/ OnConnected
              \/ \E w \in writes : OnWrite(w)
              \/ \E r \in reads : ReadLength(r)
       PROVE  expired' = expired /\ outcome' = outcome
  BY <1>10 DEF OnConnected, OnWrite, ReadLength, exchangeVars, timeVars
<1>11. ASSUME ConnectFails \/ (\E w \in writes : WriteFails(w)) \/ (\E r \in reads : ReadFails(r))
       PROVE  late
  <2>1. expired' = expired /\ FinishAll(Awaited, "error")
    BY <1>11 DEF ConnectFails, WriteFails, ReadFails, LoseLink, timeVars
  <2> QED BY <1>3, <2>1
<1>12. ASSUME NEW r \in reads, NEW i \in Ids, NEW x \in {"answer", "error"}, DispatchResponse(r, i, x)
       PROVE  late
  <2>1. expired' = expired /\ FinishAll({pending[i]} \ {Nothing}, x)
    BY <1>12 DEF DispatchResponse, timeVars
  <2> QED BY <1>3, <2>1
<1>13. ASSUME StopTransport PROVE late
  <2>1. expired' = expired /\ FinishAll({o \in Exchanges : phase[o] = "running"}, "cancelled")
    BY <1>13 DEF StopTransport, timeVars
  <2> QED BY <1>3, <2>1
<1>14. UNCHANGED transportVars => expired' = expired /\ outcome' = outcome
  BY DEF transportVars, exchangeVars, timeVars
<1> HIDE DEF late, IInv, IdsInOrder
<1>15. ASSUME \/ OnConnected
              \/ \E w \in writes : OnWrite(w)
              \/ \E r \in reads : ReadLength(r)
              \/ \E o \in Exchanges : \/ OpenExchange(o) \/ DatagramOpened(o) \/ UdpSent(o)
                                      \/ UdpStray(o) \/ UdpTruncated(o) \/ DeadlinePasses(o)
              \/ UNCHANGED transportVars
       PROVE  late
  <2>1. expired \subseteq expired' /\ outcome' = outcome
    BY <1>5, <1>10, <1>14, <1>15
  <2> QED BY <1>2, <2>1
<1>16. late
  <2>1. ASSUME NEW o \in Exchanges,
               \/ OpenRefused(o) \/ OpenExpired(o) \/ UdpFails(o) \/ OpDeadline(o) \/ CancelExchange(o)
               \/ (\E r \in {"answer", "error"} : UdpReceived(o, r))
               \/ (\E i \in Ids : SessionDeadline(o, i))
        PROVE  late
    BY <1>4, <1>6, <1>7, <1>8, <1>9, <2>1
  <2> QED BY <1>11, <1>12, <1>13, <1>15, <2>1 DEF TransportNext
<1> QED BY <1>16 DEF late

(* What is said of ids that were given once stays true.                    *)
LEMMA StaysThrifty == IInv /\ Thrifty /\ [TransportNext]_transportVars => Thrifty'
<1> SUFFICES ASSUME IInv, Thrifty, [TransportNext]_transportVars PROVE Thrifty'
  OBVIOUS
<1>1. IsFiniteSet(Assigned') /\ (IdsToSpare' => IdsToSpare /\ IdsInOrder')
  <2>1. CASE UNCHANGED <<queryId, nextQueryId>>
    <3>1. Assigned' = Assigned
      BY <2>1 DEF Assigned
    <3>2. (IdsToSpare' <=> IdsToSpare) /\ (IdsInOrder => IdsInOrder')
      BY <2>1, <3>1 DEF IdsToSpare, IdsInOrder
    <3> QED BY <3>1, <3>2 DEF Thrifty
  <2>2. ASSUME NEW o \in Exchanges, phase[o] = "idle", activeIds # Ids,
               nextQueryId' = After(NextQueryId), queryId' = [queryId EXCEPT ![o] = NextQueryId]
        PROVE  IsFiniteSet(Assigned') /\ (IdsToSpare' => IdsToSpare /\ IdsInOrder')
    <3>1. /\ IsFiniteSet(Assigned') /\ Cardinality(Assigned) \in Nat
          /\ Cardinality(Assigned') = Cardinality(Assigned) + 1
      BY <2>2, OneMoreAssigned DEF Thrifty
    <3>2. IdsToSpare' => IdsToSpare
      BY <3>1 DEF IdsToSpare, IInv, TransportAssumption
    <3>3. IdsToSpare' => IdsInOrder'
      BY <2>2, <3>2, NextInOrder DEF Thrifty
    <3> QED BY <3>1, <3>2, <3>3
  <2> QED BY <2>1, <2>2, WhoIsGivenAnId
<1>2. IdsToSpare' => TimesOutByOwnDeadline'
  BY <1>1, TimesOutOnTime DEF Thrifty
<1> QED BY <1>1, <1>2 DEF Thrifty

(* The ids in use are those of the running exchanges, no two of which      *)
(* share one; the TCP session waits exactly for the exchanges that wait    *)
(* for it, and what it holds has a connection, or one on its way, that     *)
(* reads and writes (complete, fail_request, connection_failed).  And an   *)
(* exchange times out by its own deadline, though the session's timer      *)
(* names an id and ends whoever has it, until an id is given a second time *)
(* (run_deadline of TcpSession, next_query_id).                            *)
THEOREM SoundTransport == TransportAssumption => (TransportSpec => []TransportIsSound)
<1> DEFINE Inv == IInv /\ Thrifty
<1>1. TransportAssumption /\ TransportInit => Inv
  BY InitIInv, InitThrifty
<1>2. Inv /\ [TransportNext]_transportVars => Inv'
  BY StepKeeps, StaysThrifty
<1>3. Inv => TransportIsSound
  BY Served DEF IInv, Thrifty, TransportIsSound
<1> QED BY <1>1, <1>2, <1>3, PTL DEF TransportSpec

-----------------------------------------------------------------------------
(* The promise. *)

(* complete() is the End of one exchange, or of several that are running.  *)
LEMMA FinishesOne ==
    ASSUME IInv, NEW o \in Exchanges, NEW r \in Endings, FinishAll({o}, r), phase[o] # "done"
    PROVE  TransportPromise!End(o)
<1>1. phase' = [phase EXCEPT ![o] = "done"] /\ outcome' = [outcome EXCEPT ![o] = r]
  BY DEF FinishAll, IInv, TransportTypeOK
<1>2. phase[o] \in {"idle", "running"}
  BY DEF IInv, TransportTypeOK
<1> QED BY <1>1, <1>2 DEF TransportPromise!End

(* What ends with the connection, or with the transport, was running.      *)
LEMMA FinishesTogether ==
    ASSUME IInv, NEW S \in SUBSET Exchanges, NEW r \in Endings, FinishAll(S, r),
           \A o \in S : phase[o] = "running"
    PROVE  TransportPromise!EndTogether
<1>1. S \in SUBSET {o \in Exchanges : phase[o] = "running"}
  OBVIOUS
<1> QED BY <1>1 DEF FinishAll, TransportPromise!EndTogether

(* Every step of the transport is one of DnsExchange, or nothing to it.    *)
LEMMA PromiseStep ==
    IInv /\ [TransportNext]_transportVars => [TransportPromise!Next]_<<phase, outcome>>
<1> SUFFICES ASSUME IInv, [TransportNext]_transportVars
             PROVE  TransportPromise!Next \/ UNCHANGED <<phase, outcome>>
  OBVIOUS
<1> DEFINE kept == TransportPromise!Next \/ UNCHANGED <<phase, outcome>>
<1>1. \A o \in Exchanges : TransportPromise!Begin(o) \/ TransportPromise!End(o) => kept
  BY DEF TransportPromise!Next
<1>2. TransportPromise!EndTogether => kept
  BY DEF TransportPromise!Next
<1>3. UNCHANGED <<phase, outcome>> => kept
  OBVIOUS
<1> HIDE DEF kept
<1>4. "answer" \in Endings /\ "error" \in Endings /\ "timeout" \in Endings /\ "cancelled" \in Endings
      /\ "noId" \in Endings
  BY DEF Endings
<1>5. ASSUME NEW o \in Exchanges, OpenExchange(o) PROVE kept
  <2>1. TransportPromise!Begin(o)
    BY <1>5 DEF OpenExchange, TransportPromise!Begin
  <2> QED BY <1>1, <2>1
<1>6. ASSUME NEW o \in Exchanges, OpenExpired(o) PROVE kept
  <2>1. TransportPromise!End(o)
    BY <1>4, <1>6 DEF OpenExpired, TransportPromise!End
  <2> QED BY <1>1, <2>1
<1>7. ASSUME NEW o \in Exchanges, OpenRefused(o) \/ CancelExchange(o) PROVE kept
  <2>1. phase[o] # "done" /\ \E r \in {"cancelled", "noId"} : FinishAll({o}, r)
    BY <1>7 DEF OpenRefused, CancelExchange, End
  <2>2. TransportPromise!End(o)
    BY <1>4, <2>1, FinishesOne
  <2> QED BY <1>1, <2>2
<1>8. ASSUME NEW o \in Exchanges, OpDeadline(o) PROVE kept
  <2>1. CASE phase[o] = "running"
    <3>1. FinishAll({o}, "timeout") /\ phase[o] # "done"
      BY <1>8, <2>1 DEF OpDeadline, End
    <3>2. TransportPromise!End(o)
      BY <1>4, <3>1, FinishesOne
    <3> QED BY <1>1, <3>2
  <2>2. CASE phase[o] # "running"
    BY <1>3, <1>8, <2>2 DEF OpDeadline, exchangeVars
  <2> QED BY <2>1, <2>2
<1>9. ASSUME NEW o \in Exchanges, \/ DatagramOpened(o) \/ UdpSent(o) \/ UdpStray(o)
                                  \/ UdpTruncated(o) \/ DeadlinePasses(o)
      PROVE  kept
  BY <1>3, <1>9 DEF DatagramOpened, UdpSent, UdpStray, UdpTruncated, DeadlinePasses, exchangeVars
<1>10. ASSUME NEW o \in Exchanges, UdpReceived(o, "answer") \/ UdpReceived(o, "error") PROVE kept
  <2>1. TransportPromise!End(o)
    BY <1>4, <1>10 DEF UdpReceived, TransportPromise!End
  <2> QED BY <1>1, <2>1
<1>11. ASSUME NEW o \in Exchanges, UdpFails(o) PROVE kept
  <2>1. /\ phase' = [phase EXCEPT ![o] = "done"]
        /\ outcome' = [outcome EXCEPT ![o] = IF phase[o] = "running" THEN "error" ELSE @]
        /\ phase[o] \in {"running", "done"}
    BY <1>11 DEF UdpFails, IInv, TransportTypeOK, NotBegun
  <2>2. CASE phase[o] = "running"
    <3>1. TransportPromise!End(o)
      BY <1>4, <2>1, <2>2 DEF TransportPromise!End
    <3> QED BY <1>1, <3>1
  <2>3. CASE phase[o] = "done"
    <3>1. phase' = phase /\ outcome' = outcome
      BY <2>1, <2>3 DEF IInv, TransportTypeOK
    <3> QED BY <1>3, <3>1
  <2> QED BY <2>1, <2>2, <2>3
<1>12. ASSUME NEW S, NEW r \in Endings, S \in SUBSET Exchanges, FinishAll(S, r),
              \A o \in S : phase[o] = "running"
       PROVE  kept
  BY <1>2, <1>12, FinishesTogether
<1>13. \A i \in Ids : {pending[i]} \ {Nothing} \in SUBSET Exchanges
                      /\ \A o \in {pending[i]} \ {Nothing} : phase[o] = "running"
  BY DEF IInv, TransportTypeOK, SessionAgrees
<1>14. ASSUME NEW o \in Exchanges, NEW i \in Ids, SessionDeadline(o, i) PROVE kept
  <2>1. FinishAll({pending[i]} \ {Nothing}, "timeout")
    BY <1>14 DEF SessionDeadline, End
  <2> QED BY <1>4, <1>12, <1>13, <2>1
<1>15. ASSUME NEW r \in reads, NEW i \in Ids, NEW x \in {"answer", "error"}, DispatchResponse(r, i, x)
       PROVE  kept
  <2>1. FinishAll({pending[i]} \ {Nothing}, x) /\ x \in Endings
    BY <1>4, <1>15 DEF DispatchResponse
  <2> QED BY <1>12, <1>13, <2>1
<1>16. ASSUME ConnectFails \/ (\E w \in writes : WriteFails(w)) \/ (\E r \in reads : ReadFails(r))
       PROVE  kept
  <2>1. FinishAll(Awaited, "error")
    BY <1>16 DEF ConnectFails, WriteFails, ReadFails, LoseLink
  <2>2. Awaited \in SUBSET Exchanges /\ \A o \in Awaited : phase[o] = "running"
    BY DEF IInv, TransportTypeOK, SessionAgrees, Awaited
  <2> QED BY <1>4, <1>12, <2>1, <2>2
<1>17. ASSUME OnConnected \/ (\E w \in writes : OnWrite(w)) \/ (\E r \in reads : ReadLength(r)) PROVE kept
  BY <1>3, <1>17 DEF OnConnected, OnWrite, ReadLength, exchangeVars
<1>18. ASSUME StopTransport PROVE kept
  <2>1. FinishAll({o \in Exchanges : phase[o] = "running"}, "cancelled")
    BY <1>18 DEF StopTransport
  <2> QED BY <1>4, <1>12, <2>1
<1>19. UNCHANGED transportVars => kept
  BY <1>3 DEF transportVars, exchangeVars
<1> HIDE DEF IInv
<1>20. kept
  BY <1>5, <1>6, <1>7, <1>8, <1>9, <1>10, <1>11, <1>14, <1>15, <1>16, <1>17, <1>18, <1>19
     DEF TransportNext
<1> QED BY <1>20 DEF kept

(* An exchange of the transport ends exactly once, with one outcome that   *)
(* never changes, whatever ends it: an answer, an error, a deadline, a     *)
(* cancellation, the loss of the connection it shares or stop().           *)
THEOREM KeepsTransportPromise == TransportAssumption => (TransportSpec => TransportPromise!Spec)
<1>1. TransportAssumption /\ TransportInit => IInv /\ TransportPromise!Init
  BY InitIInv DEF TransportInit, TransportPromise!Init
<1>2. IInv /\ [TransportNext]_transportVars => IInv'
  BY StepKeeps
<1>3. IInv /\ [TransportNext]_transportVars => [TransportPromise!Next]_<<phase, outcome>>
  BY PromiseStep
<1> QED BY <1>1, <1>2, <1>3, PTL DEF TransportSpec, TransportPromise!Spec,
           TransportPromise!exchangeVars
=============================================================================

--------------------------- MODULE DnsQueryProofs ---------------------------
(***************************************************************************)
(* Proofs about DnsQueryService, for any packets, ids and answers, any     *)
(* number of requests and any capacity of the cache.                       *)
(***************************************************************************)
EXTENDS DnsQueryService, FiniteSetTheorems, SequenceTheorems, WellFoundedInduction, TLAPS

-----------------------------------------------------------------------------
(* The inductive invariant. *)

Posted == Range(strand)
Live == Range(inFlight)
Opened(o) == opKey[o] # NoKey
QueryTask(r) == [kind |-> "query", r |-> r]

\* stop() sets the flag, then closes the gate, then ends what is live.
StopInOrder ==
    /\ stopAt # "idle" \/ ~gate => queryStopped
    /\ stopAt \in {"gate", "posted", "done"} => ~gate

\* The life of an operation: not opened, live, completed.
OperationsLive ==
    /\ \A o \in Requests : ~Opened(o) => exchange[o] = "none" /\ waiters[o] = {} /\ ~completed[o]
    /\ \A o \in Requests : Opened(o) => o <= Len(query)
    /\ \A o \in Requests : o \in Live <=> Opened(o) /\ ~completed[o]
    /\ \A o \in Requests : o \in Live <=> waiters[o] # {}
    /\ \A o \in Requests : exchange[o] = "running" => o \in Live
    /\ \A k \in DOMAIN inFlight : opKey[inFlight[k]] = k

\* A live operation has an exchange, or a finish() to come.
LiveEnds ==
    \A o \in Live : exchange[o] = "running" \/ \E t \in Posted : t.kind = "finish" /\ t.op = o

\* A waiter was asked for what its operation asks for, and cancel() finds it.
WaitersAgree ==
    /\ \A o \in Requests : \A w \in waiters[o] :
          /\ w.id <= Len(query) /\ w.responseId = query[w.id].id
          /\ CacheKey(query[w.id].wire) = opKey[o]
    /\ \A r \in Requests, o \in Requests :
          (r \in DOMAIN requests /\ requests[r] = o) <=> r \in WaiterIds(o)

\* No query is posted twice.
QueriesOnce(s) == \A i, j \in DOMAIN s : s[i].kind = "query" /\ s[j] = s[i] => i = j

\* A request is in one place: it is posted, or waits, or was answered.
Unanswered(r) == answers[r] = <<>>
InOnePlace ==
    /\ \A r \in Requests : QueryTask(r) \in Posted => /\ r <= Len(query) /\ Unanswered(r)
                                                      /\ r \notin DOMAIN requests /\ ~Opened(r)
    /\ \A r \in DOMAIN requests : Unanswered(r)
    /\ \A r \in Requests : r > Len(query) => Unanswered(r)
    /\ \A r \in Requests : /\ r <= Len(query) /\ Unanswered(r) /\ r \notin DOMAIN requests
                           => QueryTask(r) \in Posted
    /\ QueriesOnce(strand)

\* What the closures on the strand carry.
TaskAgrees(t) ==
    /\ t.kind = "cancel" => t.r \in cancelAsked
    /\ t.kind = "stop" => ~gate
    /\ t.kind = "finish" => /\ Opened(t.op) /\ exchange[t.op] = "done"
                            /\ t.result.ok => t.result.key = opKey[t.op]
                            /\ t.result = Err(Cancelled) => completed[t.op]
TasksAgree == \A t \in Posted : TaskAgrees(t)

\* An answer is the request's own, young enough, and "cancelled" has a reason.
Fresh(a) ==
    a.ok /\ a.at # a.born =>
        /\ a.packet.rcode = 0 => \A t \in a.packet.answers : a.at < a.born + t
        /\ a.packet.rcode = 3 \/ a.packet.answers = {} =>
              /\ a.at < a.born + NegativeTtl
              /\ \A s \in a.packet.soa : a.at < a.born + s.minimum /\ a.at < a.born + s.ttl
Own(r, a) ==
    /\ a.ok => a.id = query[r].id /\ a.key = CacheKey(query[r].wire)
    /\ a = Err(Cancelled) => r \in cancelAsked \/ queryStopped
    /\ Fresh(a)
AnswersAgree ==
    \A r \in Requests : Len(answers[r]) <= 1 /\ \A i \in DOMAIN answers[r] : Own(r, answers[r][i])

Distinct(s) == \A i, j \in DOMAIN s : s[i] = s[j] => i = j

\* The LRU list holds each key once; an entry holds its answer for its lifetime.
CacheAgrees ==
    /\ Range(lru) = DOMAIN cache /\ Len(lru) <= Capacity /\ Distinct(lru)
    /\ \A k \in DOMAIN cache :
          /\ cache[k].result.key = k
          /\ CacheTtl(cache[k].result.packet) > 0
          /\ cache[k].expires = cache[k].born + CacheTtl(cache[k].result.packet)

\* Where every request and every operation is.
Agreement == /\ OperationsTyped /\ OperationsLive /\ LiveEnds /\ WaitersAgree
             /\ InOnePlace /\ TasksAgree /\ AnswersAgree

IInv == CallsTyped /\ CacheTyped /\ StopInOrder /\ Agreement /\ CacheAgrees /\ StoppedIsQuiet
-----------------------------------------------------------------------------
(* Sequences and sets: the closures on the strand, the LRU list, lifetimes. *)

(* Every set of naturals that is not empty has a least element, MinOf. *)
LEMMA MinOfFacts ==
    ASSUME NEW S \in SUBSET Nat, S # {}
    PROVE  MinOf(S) \in S /\ \A y \in S : MinOf(S) <= y
<1> DEFINE R == {ss \in Nat \X Nat : ss[1] < ss[2]}
<1>1. R = OpToRel(<, Nat)
  BY Zenon DEF OpToRel
<1>2. IsWellFoundedOn(R, Nat)
  BY <1>1, NatLessThanWellFounded, Zenon
<1> HIDE DEF R
<1>3. PICK x \in S : \A y \in S : ~(<<y, x>> \in R)
  BY <1>2, WFMin, Zenon
<1>4. ASSUME NEW y \in S PROVE x <= y
  <2>1. x \in Nat /\ y \in Nat
    OBVIOUS
  <2>2. y < x => <<y, x>> \in R
    BY <2>1 DEF R
  <2> QED BY <1>3, <2>1, <2>2
<1>5. \E z \in S : \A y \in S : z <= y
  BY <1>4
<1> QED BY <1>5, Zenon DEF MinOf

(* Taking the first closure off the strand: it and the rest are what was   *)
(* there.                                                                  *)
LEMMA TakenOff ==
    ASSUME NEW T, NEW s \in Seq(T), s # <<>>
    PROVE  /\ Head(s) \in T /\ Tail(s) \in Seq(T) /\ Head(s) = s[1]
           /\ Len(s) \in Nat \ {0} /\ Len(Tail(s)) = Len(s) - 1
           /\ \A i \in DOMAIN Tail(s) : i + 1 \in DOMAIN s /\ Tail(s)[i] = s[i + 1]
           /\ Range(s) = {Head(s)} \cup Range(Tail(s))
<1>1. /\ Len(s) \in Nat \ {0} /\ Len(Tail(s)) = Len(s) - 1 /\ Head(s) = s[1]
      /\ Head(s) \in T /\ Tail(s) \in Seq(T)
      /\ \A i \in 1 .. Len(Tail(s)) : Tail(s)[i] = s[i + 1]
      /\ DOMAIN s = 1 .. Len(s) /\ DOMAIN Tail(s) = 1 .. Len(Tail(s))
  OBVIOUS
<1>2. ASSUME NEW i \in DOMAIN s PROVE s[i] = Head(s) \/ \E j \in DOMAIN Tail(s) : s[i] = Tail(s)[j]
  <2>1. CASE i = 1
    BY <1>1, <2>1
  <2>2. CASE i # 1
    <3>1. i - 1 \in DOMAIN Tail(s) /\ i - 1 + 1 = i
      BY <1>1, <2>2
    <3> QED BY <1>1, <3>1
  <2> QED BY <2>1, <2>2
<1>3. \A i \in DOMAIN Tail(s) : i + 1 \in DOMAIN s /\ Tail(s)[i] = s[i + 1]
  BY <1>1
<1>4. 1 \in DOMAIN s
  BY <1>1
<1>5. Range(s) \subseteq {Head(s)} \cup Range(Tail(s))
  BY <1>2 DEF Range
<1>6. Range(Tail(s)) \subseteq Range(s) /\ Head(s) \in Range(s)
  BY <1>1, <1>3, <1>4 DEF Range
<1> QED BY <1>1, <1>3, <1>5, <1>6

(* Closures posted together are behind those that were there.              *)
LEMMA PutBehind ==
    ASSUME NEW T, NEW s \in Seq(T), NEW u \in Seq(T)
    PROVE  /\ s \o u \in Seq(T)
           /\ Range(s \o u) = Range(s) \cup Range(u)
           /\ DOMAIN s \subseteq DOMAIN (s \o u)
           /\ \A i \in DOMAIN s : (s \o u)[i] = s[i]
           /\ \A i \in DOMAIN (s \o u) : i \in DOMAIN s \/ (s \o u)[i] \in Range(u)
<1>1. /\ Len(s) \in Nat /\ Len(u) \in Nat /\ DOMAIN s = 1 .. Len(s) /\ DOMAIN u = 1 .. Len(u)
      /\ s \o u \in Seq(T) /\ DOMAIN (s \o u) = 1 .. Len(s) + Len(u)
      /\ \A i \in 1 .. Len(s) + Len(u) : (s \o u)[i] = IF i <= Len(s) THEN s[i] ELSE u[i - Len(s)]
  OBVIOUS
<1>2. \A i \in DOMAIN s : i \in DOMAIN (s \o u) /\ (s \o u)[i] = s[i]
  BY <1>1
<1>3. \A j \in DOMAIN u : j + Len(s) \in DOMAIN (s \o u) /\ (s \o u)[j + Len(s)] = u[j]
  BY <1>1
<1>4. \A i \in DOMAIN (s \o u) :
          i \in DOMAIN s \/ (i - Len(s) \in DOMAIN u /\ (s \o u)[i] = u[i - Len(s)])
  BY <1>1
<1>5. Range(s \o u) \subseteq Range(s) \cup Range(u)
  BY <1>2, <1>4 DEF Range
<1>6. Range(s) \cup Range(u) \subseteq Range(s \o u)
  BY <1>2, <1>3 DEF Range
<1>7. \A i \in DOMAIN (s \o u) : i \in DOMAIN s \/ (s \o u)[i] \in Range(u)
  BY <1>4 DEF Range
<1> QED BY <1>1, <1>2, <1>5, <1>6, <1>7

(* A closure that is posted is the last one, behind those that were        *)
(* there.                                                                  *)
LEMMA Appended ==
    ASSUME NEW T, NEW s \in Seq(T), NEW x \in T
    PROVE  /\ Append(s, x) \in Seq(T)
           /\ Range(Append(s, x)) = Range(s) \cup {x}
           /\ DOMAIN s \subseteq DOMAIN Append(s, x)
           /\ \A i \in DOMAIN s : Append(s, x)[i] = s[i]
           /\ \A i \in DOMAIN Append(s, x) : i \in DOMAIN s \/ (i = Len(s) + 1 /\ Append(s, x)[i] = x)
<1>1. /\ Len(s) \in Nat /\ DOMAIN s = 1 .. Len(s)
      /\ Append(s, x) \in Seq(T) /\ DOMAIN Append(s, x) = 1 .. Len(s) + 1
      /\ \A i \in 1 .. Len(s) : Append(s, x)[i] = s[i]
      /\ Append(s, x)[Len(s) + 1] = x
  OBVIOUS
<1> HIDE DEF Range
<1>2. \A i \in DOMAIN Append(s, x) : i \in DOMAIN s \/ (i = Len(s) + 1 /\ Append(s, x)[i] = x)
  BY <1>1
<1>3. DOMAIN s \subseteq DOMAIN Append(s, x) /\ Len(s) + 1 \in DOMAIN Append(s, x)
  BY <1>1
<1>4. Range(Append(s, x)) = Range(s) \cup {x}
  BY <1>1, <1>2, <1>3 DEF Range
<1> QED BY <1>1, <1>2, <1>3, <1>4

\* The finish() closures of the exchanges that a stop request ended.
Unwinding(S) == {[kind |-> "finish", op |-> o, result |-> Err(Cancelled)] :
                     o \in {p \in S : exchange[p] = "running"}}

(* What the exchanges that are ended post: one finish() each, and nothing  *)
(* else.                                                                   *)
LEMMA UnwoundFacts ==
    ASSUME MaxRequest \in Nat, NEW S \in SUBSET Requests
    PROVE  /\ Unwound(S) \in Seq(Tasks)
           /\ Range(Unwound(S)) \subseteq Unwinding(S)
<1> DEFINE R == {p \in S : exchange[p] = "running"}
           F == Unwinding(S)
           f == [o \in R |-> [kind |-> "finish", op |-> o, result |-> Err(Cancelled)]]
<1>1. IsFiniteSet(R)
  <2>1. R \in SUBSET Requests
    OBVIOUS
  <2>2. IsFiniteSet(Requests)
    BY FS_Interval DEF Requests
  <2> HIDE DEF R
  <2> QED BY <2>1, <2>2, FS_Subset
<1>2. f \in Surjection(R, F)
  BY DEF Surjection, Unwinding
<1>3. IsFiniteSet(F)
  <2> HIDE DEF R, F, f
  <2> QED BY <1>1, <1>2, FS_Surjection
<1>4. Cardinality(F) \in Nat /\ \E g \in [1 .. Cardinality(F) -> F] : IsInjective(g)
  <2> HIDE DEF F
  <2>1. Cardinality(F) \in Nat /\ ExistsBijection(1 .. Cardinality(F), F)
    BY <1>3, FS_CardinalityType
  <2> QED BY <2>1 DEF ExistsBijection, Bijection, Injection, Surjection, IsInjective
<1>5. F \subseteq Tasks
  <2>1. Err(Cancelled) \in Results
    BY DEF Results, Err, Errors
  <2>2. \A o \in Requests : [kind |-> "finish", op |-> o, result |-> Err(Cancelled)] \in Tasks
    BY <2>1 DEF Tasks
  <2>3. R \subseteq Requests
    OBVIOUS
  <2> QED BY <2>2, <2>3 DEF Unwinding
<1>6. Unwound(S) = SetToSeq(F)
  BY DEF Unwound, Unwinding
<1>7. SetToSeq(F) \in [1 .. Cardinality(F) -> F]
  <2> HIDE DEF F
  <2> QED BY <1>4, Zenon DEF SetToSeq
<1>8. ASSUME NEW n \in Nat, NEW g \in [1 .. n -> F] PROVE g \in Seq(Tasks) /\ Range(g) \subseteq F
  <2> HIDE DEF F
  <2>1. g \in Seq(Tasks)
    BY <1>5
  <2> QED BY <2>1 DEF Range
<1> HIDE DEF F
<1>9. SetToSeq(F) \in Seq(Tasks) /\ Range(SetToSeq(F)) \subseteq F
  BY <1>4, <1>7, <1>8
<1> QED BY <1>6, <1>9 DEF F
(* Taking a closure off the strand posts no query twice, and takes the     *)
(* query away.                                                             *)
LEMMA OnceInTail ==
    ASSUME NEW s \in Seq(Tasks), s # <<>>, QueriesOnce(s)
    PROVE  /\ QueriesOnce(Tail(s))
           /\ Head(s).kind = "query" => Head(s) \notin Range(Tail(s))
<1>1. /\ Head(s) = s[1] /\ 1 \in DOMAIN s
      /\ \A i \in DOMAIN Tail(s) : i \in Nat \ {0} /\ i + 1 \in DOMAIN s /\ Tail(s)[i] = s[i + 1]
  BY TakenOff
<1>2. ASSUME NEW i \in DOMAIN Tail(s), NEW j \in DOMAIN Tail(s),
             Tail(s)[i].kind = "query", Tail(s)[j] = Tail(s)[i]
      PROVE  i = j
  <2>1. i + 1 = j + 1
    BY <1>1, <1>2 DEF QueriesOnce
  <2> QED BY <1>1, <2>1
<1>3. ASSUME NEW i \in DOMAIN Tail(s), Head(s).kind = "query", Tail(s)[i] = Head(s) PROVE FALSE
  <2>1. 1 = i + 1
    BY <1>1, <1>3 DEF QueriesOnce
  <2> QED BY <1>1, <2>1
<1> QED BY <1>2, <1>3 DEF QueriesOnce, Range

(* Posting closures that are not queries posts no query twice.             *)
LEMMA OnceBehind ==
    ASSUME NEW s \in Seq(Tasks), NEW u \in Seq(Tasks), QueriesOnce(s),
           \A x \in Range(u) : x.kind # "query"
    PROVE  QueriesOnce(s \o u)
<1>1. /\ \A i \in DOMAIN s : (s \o u)[i] = s[i]
      /\ \A i \in DOMAIN (s \o u) : i \in DOMAIN s \/ (s \o u)[i] \in Range(u)
  BY PutBehind
<1> DEFINE v == s \o u
<1>2. \A i \in DOMAIN v : v[i].kind = "query" => i \in DOMAIN s /\ v[i] = s[i]
  BY <1>1
<1> HIDE DEF v
<1>3. QueriesOnce(v)
  BY <1>2 DEF QueriesOnce
<1> QED BY <1>3 DEF v

(* Posting a query that was not posted posts no query twice.               *)
LEMMA OnceAppended ==
    ASSUME NEW s \in Seq(Tasks), NEW x \in Tasks, QueriesOnce(s),
           x.kind = "query" => x \notin Range(s)
    PROVE  QueriesOnce(Append(s, x))
<1> DEFINE v == Append(s, x)
<1>1. /\ \A i \in DOMAIN s : v[i] = s[i] /\ s[i] \in Range(s)
      /\ \A i \in DOMAIN v : i \in DOMAIN s \/ (i = Len(s) + 1 /\ v[i] = x)
  BY Appended DEF Range
<1> HIDE DEF v
<1>2. QueriesOnce(v)
  BY <1>1 DEF QueriesOnce
<1> QED BY <1>2 DEF v

-----------------------------------------------------------------------------
(* Answers.  What was asked, cancelled and stopped stays so (Onward).       *)

Onward ==
    /\ cancelAsked \subseteq cancelAsked' /\ (queryStopped => queryStopped') /\ (gate' => gate)
    /\ Len(query) <= Len(query') /\ \A r \in Requests : r <= Len(query) => query'[r] = query[r]

\* The requests of R, not answered yet, get an answer of their own.
Answering(R) ==
    /\ answers' = [r \in Requests |-> answers'[r]]
    /\ \A r \in Requests \ R : answers'[r] = answers[r]
    /\ \A r \in R : \E a \in Answers : answers'[r] = Append(answers[r], a) /\ Own(r, a)'

(* Answering each request at most once, with what is its own, keeps        *)
(* AnswersAgree.                                                           *)
LEMMA AnsweringOK ==
    ASSUME IInv, Onward, NEW R \in SUBSET Requests, \A r \in R : Unanswered(r), Answering(R)
    PROVE  /\ AnswersAgree' /\ answers' \in [Requests -> Seq(Answers)]
           /\ \A r \in Requests : Unanswered(r)' <=> Unanswered(r) /\ r \notin R
<1>1. /\ answers \in [Requests -> Seq(Answers)]
      /\ \A r \in Requests : r > Len(query) => answers[r] = <<>>
      /\ Len(query) \in Nat /\ \A r \in Requests : r \in Int
  BY DEF IInv, Agreement, OperationsTyped, InOnePlace, Unanswered, CallsTyped, Requests
<1>2. ASSUME NEW r \in R
      PROVE  /\ answers'[r] \in Seq(Answers) /\ Len(answers'[r]) = 1 /\ answers'[r] # <<>>
             /\ \A i \in DOMAIN answers'[r] : Own(r, answers[r][i])'
  <2>1. PICK a \in Answers : answers'[r] = Append(<<>>, a) /\ Own(r, a)'
    BY DEF Answering, Unanswered
  <2>2. /\ Append(<<>>, a) \in Seq(Answers) /\ Len(Append(<<>>, a)) = 1
        /\ DOMAIN Append(<<>>, a) = {1} /\ Append(<<>>, a)[1] = a /\ Append(<<>>, a) # <<>>
    BY <2>1
  <2>3. answers'[r][1] = a
    BY <2>1, <2>2
  <2>4. Own(r, answers[r][1])'
    BY <2>1, <2>3
  <2> QED BY <2>1, <2>2, <2>4
<1>3. ASSUME NEW r \in Requests \ R
      PROVE  /\ answers'[r] = answers[r] /\ Len(answers'[r]) <= 1
             /\ \A i \in DOMAIN answers'[r] : Own(r, answers[r][i])'
  <2>1. answers'[r] = answers[r] /\ Len(answers[r]) <= 1
    BY DEF Answering, IInv, Agreement, AnswersAgree
  <2>2. ASSUME NEW i \in DOMAIN answers[r] PROVE Own(r, answers[r][i])'
    <3>1. Own(r, answers[r][i])
      BY DEF IInv, Agreement, AnswersAgree
    <3>2. r <= Len(query)
      BY <1>1, <2>2
    <3>3. query'[r] = query[r]
      BY <3>2 DEF Onward
    <3> QED BY <2>1, <3>1, <3>3 DEF Own, Onward, Fresh
  <2> QED BY <2>1, <2>2
<1>4. answers' \in [Requests -> Seq(Answers)]
  BY <1>1, <1>2, <1>3 DEF Answering
<1>5. AnswersAgree'
  BY <1>2, <1>3 DEF AnswersAgree
<1>6. \A r \in Requests : Unanswered(r)' <=> Unanswered(r) /\ r \notin R
  BY <1>2, <1>3 DEF Unanswered
<1> QED BY <1>4, <1>5, <1>6
-----------------------------------------------------------------------------
(* Places.  The requests of R arrive: their query leaves the strand, or is  *)
(* made and runs at once.                                                   *)

Arriving(R) ==
    /\ Onward /\ strand' \in Seq(Tasks) /\ QueriesOnce(strand')
    /\ \A r \in Requests : QueryTask(r) \in Posted' <=> QueryTask(r) \in Posted /\ r \notin R
    /\ Len(query)' \in Nat
    /\ \A r \in Requests : r <= Len(query)' <=> r <= Len(query) \/ r \in R
    /\ \A r \in R : Unanswered(r) /\ r \notin DOMAIN requests /\ ~Opened(r)
    /\ \A t \in Posted' : t \in Posted \/ TaskAgrees(t)'
    /\ \A t \in Posted : t.kind = "finish" /\ t.op \in Live' => t \in Posted'

\* Those of A are answered, and what was arranged for an operation stays.
Placing(R, A) ==
    /\ A \subseteq R \cup DOMAIN requests
    /\ DOMAIN requests' = (DOMAIN requests \cup R) \ A
    /\ \A o \in Requests : Opened(o)' => Opened(o) \/ o \in R
    /\ \A o \in Requests : Opened(o) => opKey'[o] = opKey[o]
    /\ \A o \in Requests : exchange[o] = "done" => exchange'[o] = "done"
    /\ \A o \in Requests : completed[o] => completed'[o]
    /\ Answering(A)

(* Requests that arrive are placed: answered, or waiting for an            *)
(* operation; the others stay where they are.                              *)
LEMMA PlacesOK ==
    ASSUME IInv, NEW R \in SUBSET Requests, NEW A \in SUBSET Requests, Arriving(R), Placing(R, A)
    PROVE  InOnePlace' /\ TasksAgree' /\ AnswersAgree' /\ answers' \in [Requests -> Seq(Answers)]
<1>1. /\ \A r \in Requests : QueryTask(r) \in Posted => /\ r <= Len(query) /\ Unanswered(r)
                                                        /\ r \notin DOMAIN requests /\ ~Opened(r)
      /\ \A r \in DOMAIN requests : Unanswered(r)
      /\ \A r \in Requests : r > Len(query) => Unanswered(r)
      /\ \A r \in Requests : /\ r <= Len(query) /\ Unanswered(r) /\ r \notin DOMAIN requests
                             => QueryTask(r) \in Posted
  BY DEF IInv, Agreement, InOnePlace
<1>2. DOMAIN requests \subseteq Requests /\ \A r \in DOMAIN requests : requests[r] \in Requests
  BY DEF IInv, Agreement, OperationsTyped, Range
<1>3. \A r \in DOMAIN requests : r <= Len(query)
  <2>1. ASSUME NEW r \in DOMAIN requests PROVE r \in WaiterIds(requests[r])
    BY <1>2, <2>1 DEF IInv, Agreement, WaitersAgree
  <2>2. ASSUME NEW o \in Requests, NEW r \in WaiterIds(o) PROVE r <= Len(query)
    BY <2>2 DEF IInv, Agreement, WaitersAgree, WaiterIds
  <2> QED BY <1>2, <2>1, <2>2
<1>4. \A r \in A : Unanswered(r)
  BY <1>1 DEF Arriving, Placing
<1>5. /\ AnswersAgree' /\ answers' \in [Requests -> Seq(Answers)]
      /\ \A r \in Requests : Unanswered(r)' <=> Unanswered(r) /\ r \notin A
  BY <1>4, AnsweringOK DEF Arriving, Placing
<1>6. TasksAgree'
  <2>1. \A t \in Posted : TaskAgrees(t) /\ t \in Tasks
    BY DEF IInv, Agreement, TasksAgree, Posted, CallsTyped, Range
  <2>2. ASSUME NEW t \in Posted PROVE TaskAgrees(t)'
    <3>1. (t.kind = "cancel" => t.r \in cancelAsked') /\ (t.kind = "stop" => ~gate')
      BY <2>1 DEF TaskAgrees, Arriving, Onward
    <3>2. ASSUME t.kind = "finish" PROVE t.op \in Requests
      BY <2>1, <3>2 DEF Tasks
    <3>3. ASSUME t.kind = "finish"
          PROVE  /\ opKey'[t.op] # NoKey /\ exchange'[t.op] = "done"
                 /\ t.result.ok => t.result.key = opKey'[t.op]
                 /\ t.result = Err(Cancelled) => completed'[t.op]
      BY <2>1, <3>2, <3>3 DEF TaskAgrees, Placing, Opened
    <3> QED BY <3>1, <3>3 DEF TaskAgrees, Opened
  <2> QED BY <2>2 DEF TasksAgree, Arriving
<1>7. InOnePlace'
  <2>1. ASSUME NEW r \in Requests, QueryTask(r) \in Posted'
        PROVE  r <= Len(query)' /\ Unanswered(r)' /\ r \notin DOMAIN requests' /\ ~Opened(r)'
    BY <1>1, <1>5, <2>1 DEF Arriving, Placing
  <2>2. ASSUME NEW r \in DOMAIN requests' PROVE Unanswered(r)'
    BY <1>1, <1>2, <1>5, <2>2 DEF Arriving, Placing
  <2>3. ASSUME NEW r \in Requests, r > Len(query)' PROVE Unanswered(r)'
    <3>1. Len(query) \in Nat /\ Len(query)' \in Nat /\ r \in Nat
      BY DEF IInv, CallsTyped, Arriving, Requests
    <3>2. ~(r <= Len(query)) /\ r \notin R
      BY <2>3, <3>1 DEF Arriving
    <3>3. r \notin A /\ r > Len(query)
      BY <1>3, <3>1, <3>2 DEF Placing
    <3> QED BY <1>1, <1>5, <3>3
  <2>4. ASSUME NEW r \in Requests, r <= Len(query)', Unanswered(r)', r \notin DOMAIN requests'
        PROVE  QueryTask(r) \in Posted'
    BY <1>1, <1>5, <2>4 DEF Arriving, Placing
  <2> QED BY <2>1, <2>2, <2>3, <2>4 DEF InOnePlace, Arriving, QueryTask
<1> QED BY <1>5, <1>6, <1>7
-----------------------------------------------------------------------------
(* Operations: what each change of them keeps of the agreement.             *)

\* A waiter that stays still agrees with its operation.
LEMMA WaiterKept ==
    ASSUME IInv, Onward, NEW o \in Requests, NEW w \in waiters[o], opKey'[o] = opKey[o]
    PROVE  /\ w.id \in Requests /\ w.id <= Len(query)' /\ w.responseId = query'[w.id].id
           /\ CacheKey(query'[w.id].wire) = opKey'[o]
<1>1. w.id <= Len(query) /\ w.responseId = query[w.id].id /\ CacheKey(query[w.id].wire) = opKey[o]
  BY DEF IInv, Agreement, WaitersAgree
<1>2. w.id \in Requests
  BY DEF IInv, Agreement, OperationsTyped
<1>3. Len(query) <= Len(query') /\ query'[w.id] = query[w.id]
  BY <1>1, <1>2 DEF Onward
<1>4. Len(query) \in Nat /\ w.id \in Nat
  BY <1>2 DEF IInv, CallsTyped, Requests
<1> QED BY <1>1, <1>2, <1>3, <1>4

\* Operations that stay: only calls come in, and no finish() is lost.
LEMMA OperationsStay ==
    ASSUME IInv, Onward, Len(query)' \in Nat, UNCHANGED operationVars,
           answers' \in [Requests -> Seq(Answers)],
           \A t \in Posted : t.kind = "finish" /\ t.op \in Live' => t \in Posted'
    PROVE  OperationsTyped' /\ OperationsLive' /\ LiveEnds' /\ WaitersAgree'
<1> USE DEF operationVars
<1>1. OperationsTyped'
  BY DEF IInv, Agreement, OperationsTyped, Range
<1>2. Len(query) \in Nat /\ Len(query) <= Len(query)' /\ \A o \in Requests : o \in Nat
  BY DEF IInv, CallsTyped, Onward, Requests
<1>3. OperationsLive'
  <2>1. OperationsLive
    BY DEF IInv, Agreement
  <2>2. \A o \in Requests : Opened(o)' => o <= Len(query)'
    BY <1>2, <2>1 DEF OperationsLive, Opened
  <2> QED BY <2>1, <2>2 DEF OperationsLive, Opened, Live, Range
<1>4. LiveEnds'
  <2>1. LiveEnds /\ Live' = Live
    BY DEF IInv, Agreement, Live, Range
  <2> QED BY <2>1 DEF LiveEnds
<1>5. WaitersAgree'
  <2>1. \A o \in Requests : \A w \in waiters[o] :
           /\ w.id <= Len(query)' /\ w.responseId = query'[w.id].id
           /\ CacheKey(query'[w.id].wire) = opKey'[o]
    BY WaiterKept
  <2>2. \A r \in Requests, o \in Requests :
          (r \in DOMAIN requests /\ requests[r] = o) <=> r \in WaiterIds(o)
    BY DEF IInv, Agreement, WaitersAgree
  <2> QED BY <2>1, <2>2 DEF WaitersAgree, WaiterIds, CacheKey, GroupOf
<1> QED BY <1>1, <1>3, <1>4, <1>5

(* A body that leaves the operations alone keeps what is said of them.     *)
LEMMA StayOK ==
    ASSUME IInv, NEW R \in SUBSET Requests, Arriving(R), Answering(R), UNCHANGED operationVars
    PROVE  Agreement'
<1>1. Placing(R, R)
  BY DEF Arriving, Placing, Opened, operationVars
<1>2. InOnePlace' /\ TasksAgree' /\ AnswersAgree' /\ answers' \in [Requests -> Seq(Answers)]
  BY <1>1, PlacesOK
<1>3. OperationsTyped' /\ OperationsLive' /\ LiveEnds' /\ WaitersAgree'
  BY <1>2, OperationsStay DEF Arriving
<1> QED BY <1>2, <1>3 DEF Agreement

\* A query that joins or opens an operation: what it asks is known by now.
Asks(r, q, key) ==
    /\ r \in Requests /\ q = query'[r] /\ q.id \in PacketIds
    /\ key = CacheKey(q.wire) /\ key \in Keys

(* A request that joins a live operation (add_waiter) waits for what it    *)
(* asked for, and cancel() finds it.                                       *)
LEMMA JoinOK ==
    ASSUME IInv, NEW r \in Requests, NEW q, NEW key, Asks(r, q, key), Arriving({r}), Answering({}),
           key \in DOMAIN inFlight, Join(r, q, key)
    PROVE  Agreement'
<1>0. PICK o : o = inFlight[key]
  OBVIOUS
<1>1. /\ o \in Requests /\ o \in Live /\ opKey[o] = key /\ Opened(o) /\ ~completed[o]
      /\ r \notin DOMAIN requests /\ ~Opened(r)
  BY <1>0 DEF IInv, Agreement, OperationsTyped, OperationsLive, Live, Range, Arriving
<1>2. /\ waiters' = [waiters EXCEPT ![o] = @ \cup {Waiter(r, q)}]
      /\ requests' = Put(requests, r, o)
      /\ opKey' = opKey /\ completed' = completed /\ exchange' = exchange /\ inFlight' = inFlight
  BY <1>0 DEF Join
<1>3. DOMAIN requests' = DOMAIN requests \cup {r} /\ requests'[r] = o
      /\ \A x \in DOMAIN requests : requests'[x] = requests[x]
  BY <1>1, <1>2 DEF Put
<1>4. Placing({r}, {})
  BY <1>2, <1>3 DEF Arriving, Placing, Opened
<1>5. InOnePlace' /\ TasksAgree' /\ AnswersAgree' /\ answers' \in [Requests -> Seq(Answers)]
  BY <1>4, PlacesOK
<1>6. /\ waiters \in [Requests -> SUBSET [id : Requests, responseId : PacketIds]]
      /\ Waiter(r, q) \in [id : Requests, responseId : PacketIds]
      /\ DOMAIN requests \subseteq Requests /\ \A x \in DOMAIN requests : requests[x] \in Requests
  BY DEF IInv, Agreement, OperationsTyped, Asks, Waiter, Range
<1>7. /\ waiters' \in [Requests -> SUBSET [id : Requests, responseId : PacketIds]]
      /\ waiters'[o] = waiters[o] \cup {Waiter(r, q)}
      /\ \A p \in Requests \ {o} : waiters'[p] = waiters[p]
  BY <1>1, <1>2, <1>6
<1>8. OperationsTyped'
  <2>1. Range(requests)' \subseteq Requests
    BY <1>1, <1>3, <1>6 DEF Range
  <2> QED BY <1>1, <1>2, <1>3, <1>5, <1>6, <1>7, <2>1 DEF IInv, Agreement, OperationsTyped, Range
<1>9. Len(query) \in Nat /\ Len(query) <= Len(query)' /\ Len(query)' \in Nat /\ r <= Len(query)'
      /\ \A x \in Requests : x \in Nat
  BY DEF IInv, CallsTyped, Arriving, Onward, Requests
<1>10. OperationsLive'
  <2>1. OperationsLive /\ Live' = Live
    BY <1>2 DEF IInv, Agreement, Live, Range
  <2>2. \A p \in Requests : Opened(p)' => p <= Len(query)'
    BY <1>2, <1>9, <2>1 DEF OperationsLive, Opened
  <2>3. \A p \in Requests : waiters'[p] = {} <=> waiters[p] = {}
    BY <1>1, <1>7, <2>1 DEF OperationsLive
  <2> QED BY <1>2, <2>1, <2>2, <2>3 DEF OperationsLive, Opened
<1>11. LiveEnds'
  <2>1. LiveEnds /\ Live' = Live
    BY <1>2 DEF IInv, Agreement, Live, Range
  <2> QED BY <1>2, <2>1 DEF LiveEnds, Arriving
<1>12. WaitersAgree'
  <2>1. ASSUME NEW p \in Requests, NEW w \in waiters'[p]
        PROVE  /\ w.id <= Len(query)' /\ w.responseId = query'[w.id].id
               /\ CacheKey(query'[w.id].wire) = opKey'[p]
    <3>1. CASE w \in waiters[p]
      BY <1>2, <3>1, WaiterKept DEF Arriving
    <3>2. CASE p = o /\ w = Waiter(r, q)
      BY <1>1, <1>2, <1>9, <3>2 DEF Waiter, Asks
    <3> QED BY <1>7, <2>1, <3>1, <3>2
  <2>2. \A x \in Requests, p \in Requests :
          (x \in DOMAIN requests /\ requests[x] = p) <=> x \in WaiterIds(p)
    BY DEF IInv, Agreement, WaitersAgree
  <2>3. WaiterIds(o)' = WaiterIds(o) \cup {r} /\ \A p \in Requests \ {o} : WaiterIds(p)' = WaiterIds(p)
    <3>1. WaiterIds(o)' = {w.id : w \in waiters[o] \cup {Waiter(r, q)}}
      BY <1>7 DEF WaiterIds
    <3>2. WaiterIds(o)' \subseteq WaiterIds(o) \cup {r}
      BY <3>1 DEF WaiterIds, Waiter
    <3>3. Waiter(r, q).id = r
      BY DEF Waiter
    <3>4. WaiterIds(o) \cup {r} \subseteq WaiterIds(o)'
      BY <3>1, <3>3 DEF WaiterIds
    <3> QED BY <1>7, <3>2, <3>4 DEF WaiterIds
  <2>4. ASSUME NEW x \in Requests, NEW p \in Requests
        PROVE  (x \in DOMAIN requests' /\ requests'[x] = p) <=> x \in WaiterIds(p)'
    <3>1. CASE x = r
      BY <1>1, <1>3, <2>2, <2>3, <3>1
    <3>2. CASE x # r
      BY <1>1, <1>3, <2>2, <2>3, <3>2
    <3> QED BY <3>1, <3>2
  <2> QED BY <2>1, <2>4 DEF WaitersAgree, CacheKey, GroupOf
<1> QED BY <1>5, <1>8, <1>10, <1>11, <1>12 DEF Agreement

(* A request that opens an operation is its first waiter, under a key      *)
(* that was free.                                                          *)
LEMMA OpenOK ==
    ASSUME IInv, NEW r \in Requests, NEW q, NEW key, Asks(r, q, key), Arriving({r}), Answering({}),
           key \notin DOMAIN inFlight, Open(r, q, key)
    PROVE  Agreement'
<1>1. OperationsTyped /\ OperationsLive /\ LiveEnds
  BY DEF IInv, Agreement
<1>2. r \notin DOMAIN requests /\ ~Opened(r) /\ waiters[r] = {} /\ ~completed[r] /\ r \notin Live
      /\ exchange[r] = "none" /\ key # NoKey
  BY <1>1 DEF OperationsLive, Arriving, Asks, CacheKey, NoKey
<1>3. /\ opKey' = [opKey EXCEPT ![r] = key]
      /\ waiters' = [waiters EXCEPT ![r] = {Waiter(r, q)}]
      /\ exchange' = [exchange EXCEPT ![r] = "running"]
      /\ inFlight' = Put(inFlight, key, r) /\ requests' = Put(requests, r, r)
      /\ completed' = completed
  BY DEF Open
<1>4. /\ opKey' \in [Requests -> Keys \cup {NoKey}] /\ opKey'[r] = key
      /\ \A o \in Requests \ {r} : opKey'[o] = opKey[o]
      /\ waiters' \in [Requests -> SUBSET [id : Requests, responseId : PacketIds]]
      /\ waiters'[r] = {Waiter(r, q)} /\ \A o \in Requests \ {r} : waiters'[o] = waiters[o]
      /\ exchange' \in [Requests -> {"none", "running", "done"}] /\ exchange'[r] = "running"
      /\ \A o \in Requests \ {r} : exchange'[o] = exchange[o]
  BY <1>1, <1>3 DEF OperationsTyped, Asks, Waiter
<1>5. DOMAIN requests' = DOMAIN requests \cup {r} /\ requests'[r] = r
      /\ \A x \in DOMAIN requests : requests'[x] = requests[x]
  BY <1>2, <1>3 DEF Put
<1>6. DOMAIN inFlight' = DOMAIN inFlight \cup {key} /\ inFlight'[key] = r
      /\ \A k \in DOMAIN inFlight : inFlight'[k] = inFlight[k]
  BY <1>3 DEF Put
<1>7. Placing({r}, {})
  <2>1. \A o \in Requests : exchange[o] = "done" => exchange'[o] = "done"
    BY <1>2, <1>4
  <2> QED BY <1>2, <1>3, <1>4, <1>5, <2>1 DEF Placing, Opened
<1>8. InOnePlace' /\ TasksAgree' /\ AnswersAgree' /\ answers' \in [Requests -> Seq(Answers)]
  BY <1>7, PlacesOK
<1>9. OperationsTyped'
  <2>1. Range(requests)' \subseteq Requests
    BY <1>1, <1>5 DEF Range, OperationsTyped
  <2>2. Range(inFlight)' \subseteq Requests
    BY <1>1, <1>6 DEF Range, OperationsTyped
  <2>3. DOMAIN inFlight' \subseteq Keys /\ DOMAIN requests' \subseteq Requests
    BY <1>1, <1>5, <1>6 DEF OperationsTyped, Asks
  <2>4. completed' \in [Requests -> BOOLEAN]
    BY <1>1, <1>3 DEF OperationsTyped
  <2> QED BY <1>4, <1>8, <2>1, <2>2, <2>3, <2>4 DEF OperationsTyped
<1>10. Len(query) \in Nat /\ Len(query) <= Len(query)' /\ Len(query)' \in Nat /\ r <= Len(query)'
       /\ \A x \in Requests : x \in Nat
  BY DEF IInv, CallsTyped, Arriving, Onward, Requests
<1>11. Live' = Live \cup {r}
  <2>1. Live \subseteq Live' /\ r \in Live'
    BY <1>6 DEF Live, Range
  <2>2. Live' \subseteq Live \cup {r}
    BY <1>6 DEF Live, Range
  <2> QED BY <2>1, <2>2
<1>12. OperationsLive'
  <2>1. \A p \in Requests : Opened(p)' <=> Opened(p) \/ p = r
    BY <1>2, <1>4 DEF Opened
  <2>2. \A p \in Requests : Opened(p)' => p <= Len(query)'
    BY <1>1, <1>10, <2>1 DEF OperationsLive
  <2>3. \A k \in DOMAIN inFlight' : opKey'[inFlight'[k]] = k
    <3>1. ASSUME NEW k \in DOMAIN inFlight PROVE inFlight[k] \in Requests \ {r} /\ opKey[inFlight[k]] = k
      BY <1>1, <1>2 DEF OperationsTyped, OperationsLive, Live, Range
    <3> QED BY <1>4, <1>6, <3>1
  <2>4. ASSUME NEW p \in Requests
        PROVE  /\ ~Opened(p)' => exchange'[p] = "none" /\ waiters'[p] = {} /\ ~completed'[p]
               /\ p \in Live' <=> Opened(p)' /\ ~completed'[p]
               /\ p \in Live' <=> waiters'[p] # {}
               /\ exchange'[p] = "running" => p \in Live'
    <3>1. CASE p = r
      BY <1>2, <1>3, <1>4, <1>11, <2>1, <3>1
    <3>2. CASE p # r
      BY <1>1, <1>3, <1>4, <1>11, <2>1, <3>2 DEF OperationsLive
    <3> QED BY <3>1, <3>2
  <2> QED BY <2>2, <2>3, <2>4 DEF OperationsLive
<1>13. LiveEnds'
  <2>1. \A o \in Live : o \in Requests \ {r}
    BY <1>1, <1>2 DEF OperationsTyped, Live
  <2>2. ASSUME NEW o \in Live, NEW t \in Posted, t.kind = "finish", t.op = o
        PROVE  t \in Posted'
    BY <1>11, <2>2 DEF Arriving
  <2>3. ASSUME NEW o \in Live PROVE exchange'[o] = "running" \/ \E t \in Posted' : t.kind = "finish" /\ t.op = o
    BY <1>1, <1>4, <2>1, <2>2 DEF LiveEnds
  <2> QED BY <1>4, <1>11, <2>3 DEF LiveEnds
<1>14. WaitersAgree'
  <2>1. ASSUME NEW p \in Requests, NEW w \in waiters'[p]
        PROVE  /\ w.id <= Len(query)' /\ w.responseId = query'[w.id].id
               /\ CacheKey(query'[w.id].wire) = opKey'[p]
    <3>1. CASE p # r
      BY <1>4, <2>1, <3>1, WaiterKept DEF Arriving
    <3>2. CASE p = r
      BY <1>4, <1>10, <2>1, <3>2 DEF Waiter, Asks
    <3> QED BY <3>1, <3>2
  <2>2. \A x \in Requests, p \in Requests :
          (x \in DOMAIN requests /\ requests[x] = p) <=> x \in WaiterIds(p)
    BY DEF IInv, Agreement, WaitersAgree
  <2>3. WaiterIds(r)' = {r} /\ WaiterIds(r) = {} /\ \A p \in Requests \ {r} : WaiterIds(p)' = WaiterIds(p)
    BY <1>2, <1>4 DEF WaiterIds, Waiter
  <2>4. \A x \in Requests, p \in Requests :
          (x \in DOMAIN requests' /\ requests'[x] = p) <=> x \in WaiterIds(p)'
    BY <1>2, <1>5, <2>2, <2>3
  <2> QED BY <2>1, <2>4 DEF WaitersAgree, CacheKey, GroupOf
<1> QED BY <1>8, <1>9, <1>12, <1>13, <1>14 DEF Agreement
\* One of several waiters leaves.
Leaving(r, o) ==
    /\ waiters' = [waiters EXCEPT ![o] = {w \in @ : w.id # r}]
    /\ requests' = Drop(requests, r)
    /\ UNCHANGED <<opKey, completed, exchange, inFlight>>

(* A waiter that leaves others behind leaves the operation to them.        *)
LEMMA LeaveOK ==
    ASSUME IInv, NEW r \in DOMAIN requests, NEW o, o = requests[r], \E w \in waiters[o] : w.id # r,
           Arriving({}), Answering({r}), Leaving(r, o)
    PROVE  Agreement'
<1>1. OperationsTyped /\ OperationsLive /\ LiveEnds
  BY DEF IInv, Agreement
<1>2. r \in Requests /\ o \in Requests /\ \A x \in DOMAIN requests : x \in Requests /\ requests[x] \in Requests
  BY <1>1 DEF OperationsTyped, Range
<1>3. /\ DOMAIN requests' = DOMAIN requests \ {r}
      /\ \A x \in DOMAIN requests \ {r} : requests'[x] = requests[x]
      /\ opKey' = opKey /\ completed' = completed /\ exchange' = exchange /\ inFlight' = inFlight
  BY DEF Leaving, Drop
<1>4. /\ waiters' \in [Requests -> SUBSET [id : Requests, responseId : PacketIds]]
      /\ waiters'[o] = {w \in waiters[o] : w.id # r}
      /\ \A p \in Requests \ {o} : waiters'[p] = waiters[p]
  BY <1>1, <1>2 DEF OperationsTyped, Leaving
<1>5. Placing({}, {r})
  BY <1>3 DEF Placing, Opened
<1>6. InOnePlace' /\ TasksAgree' /\ AnswersAgree' /\ answers' \in [Requests -> Seq(Answers)]
  BY <1>2, <1>5, PlacesOK
<1>7. OperationsTyped'
  <2>1. Range(requests)' \subseteq Requests
    BY <1>2, <1>3 DEF Range
  <2> QED BY <1>1, <1>2, <1>3, <1>4, <1>6, <2>1 DEF OperationsTyped, Range
<1>8. Len(query) \in Nat /\ Len(query) <= Len(query)' /\ Len(query)' \in Nat /\ \A x \in Requests : x \in Nat
  BY DEF IInv, CallsTyped, Arriving, Onward, Requests
<1>9. Live' = Live
  BY <1>3 DEF Live, Range
<1>10. OperationsLive'
  <2>1. \A p \in Requests : Opened(p)' => p <= Len(query)'
    BY <1>1, <1>3, <1>8 DEF OperationsLive, Opened
  <2>2. \A p \in Requests : waiters'[p] = {} <=> waiters[p] = {}
    BY <1>4
  <2> QED BY <1>1, <1>3, <1>9, <2>1, <2>2 DEF OperationsLive, Opened
<1>11. LiveEnds'
  BY <1>1, <1>3, <1>9 DEF LiveEnds, Arriving
<1>12. WaitersAgree'
  <2>1. ASSUME NEW p \in Requests, NEW w \in waiters'[p]
        PROVE  /\ w.id <= Len(query)' /\ w.responseId = query'[w.id].id
               /\ CacheKey(query'[w.id].wire) = opKey'[p]
    <3>1. w \in waiters[p]
      BY <1>4, <2>1
    <3> QED BY <1>3, <3>1, WaiterKept DEF Arriving
  <2>2. \A x \in Requests, p \in Requests :
          (x \in DOMAIN requests /\ requests[x] = p) <=> x \in WaiterIds(p)
    BY DEF IInv, Agreement, WaitersAgree
  <2>3. WaiterIds(o)' = WaiterIds(o) \ {r}
    <3>1. WaiterIds(o)' = {w.id : w \in {v \in waiters[o] : v.id # r}}
      BY <1>4 DEF WaiterIds
    <3> QED BY <3>1 DEF WaiterIds
  <2>4. \A p \in Requests \ {o} : WaiterIds(p)' = WaiterIds(p)
    BY <1>4 DEF WaiterIds
  <2>5. ASSUME NEW x \in Requests, NEW p \in Requests
        PROVE  (x \in DOMAIN requests' /\ requests'[x] = p) <=> x \in WaiterIds(p)'
    <3>1. CASE x = r
      BY <1>2, <1>3, <2>2, <2>3, <2>4, <3>1
    <3>2. CASE x # r
      BY <1>2, <1>3, <2>2, <2>3, <2>4, <3>2
    <3> QED BY <3>1, <3>2
  <2> QED BY <2>1, <2>5 DEF WaitersAgree, CacheKey, GroupOf
<1> QED BY <1>6, <1>7, <1>10, <1>11, <1>12 DEF Agreement

\* The operations of S complete: nobody waits for them any more.
Waited(S) == UNION {WaiterIds(o) : o \in S}
Settling(S) ==
    /\ opKey' = opKey
    /\ completed' = [o \in Requests |-> completed[o] \/ o \in S]
    /\ exchange' = [o \in Requests |-> IF o \in S THEN "done" ELSE exchange[o]]
    /\ waiters' = [o \in Requests |-> IF o \in S THEN {} ELSE waiters[o]]
    /\ DOMAIN inFlight' = {k \in DOMAIN inFlight : inFlight[k] \notin S}
    /\ \A k \in DOMAIN inFlight' : inFlight'[k] = inFlight[k]
    /\ DOMAIN requests' = {r \in DOMAIN requests : requests[r] \notin S}
    /\ \A r \in DOMAIN requests' : requests'[r] = requests[r]

(* Operations that end together leave in_flight_, with all of their        *)
(* waiters out of requests_.                                               *)
LEMMA SettleOK ==
    ASSUME IInv, NEW S \in SUBSET Live, Arriving({}), Answering(Waited(S)), Settling(S)
    PROVE  Agreement'
<1>1. OperationsTyped /\ OperationsLive /\ LiveEnds /\ S \in SUBSET Requests
  BY DEF IInv, Agreement, OperationsTyped, Live
<1>2. \A x \in Requests, p \in Requests :
          (x \in DOMAIN requests /\ requests[x] = p) <=> x \in WaiterIds(p)
  BY DEF IInv, Agreement, WaitersAgree
<1>3. \A x \in DOMAIN requests : x \in Requests /\ requests[x] \in Requests
  BY <1>1 DEF OperationsTyped, Range
<1>4. Waited(S) \in SUBSET Requests /\ \A x \in Requests : x \in Waited(S) <=> x \in DOMAIN requests /\ requests[x] \in S
  <2>1. \A o \in S : WaiterIds(o) \subseteq Requests
    BY <1>1 DEF OperationsTyped, WaiterIds
  <2>2. \A x \in Requests : x \in Waited(S) <=> \E o \in S : x \in WaiterIds(o)
    BY DEF Waited
  <2> QED BY <1>1, <1>2, <2>1, <2>2 DEF Waited
<1>5. /\ DOMAIN requests' = DOMAIN requests \ Waited(S)
      /\ \A x \in DOMAIN requests' : x \in DOMAIN requests /\ requests'[x] = requests[x] /\ requests[x] \notin S
      /\ opKey' = opKey
  BY <1>3, <1>4 DEF Settling
<1>6. \A o \in S : Opened(o) /\ ~completed[o]
  BY <1>1 DEF OperationsLive
<1>7. /\ waiters' \in [Requests -> SUBSET [id : Requests, responseId : PacketIds]]
      /\ completed' \in [Requests -> BOOLEAN]
      /\ exchange' \in [Requests -> {"none", "running", "done"}]
  <2>1. waiters' \in [Requests -> SUBSET [id : Requests, responseId : PacketIds]]
    BY <1>1 DEF OperationsTyped, Settling
  <2>2. completed' \in [Requests -> BOOLEAN]
    BY <1>1 DEF OperationsTyped, Settling
  <2>3. exchange' \in [Requests -> {"none", "running", "done"}]
    BY <1>1 DEF OperationsTyped, Settling
  <2> QED BY <2>1, <2>2, <2>3
<1>8. /\ \A o \in S : waiters'[o] = {} /\ completed'[o] /\ exchange'[o] = "done"
      /\ \A o \in Requests \ S : waiters'[o] = waiters[o] /\ completed'[o] = completed[o] /\ exchange'[o] = exchange[o]
  <2>1. \A o \in S : waiters'[o] = {} /\ completed'[o] /\ exchange'[o] = "done"
    BY <1>1 DEF Settling
  <2>2. \A o \in Requests \ S : waiters'[o] = waiters[o] /\ exchange'[o] = exchange[o]
    BY <1>1 DEF Settling
  <2>3. \A o \in Requests \ S : completed'[o] = completed[o]
    BY <1>1, Zenon DEF Settling, OperationsTyped
  <2> QED BY <2>1, <2>2, <2>3
<1>9. Placing({}, Waited(S))
  <2>1. \A o \in Requests : completed[o] => completed'[o]
    BY <1>8, Zenon
  <2>2. \A o \in Requests : exchange[o] = "done" => exchange'[o] = "done"
    BY <1>8, Zenon
  <2> QED BY <1>4, <1>5, <2>1, <2>2 DEF Placing, Opened
<1>10. InOnePlace' /\ TasksAgree' /\ AnswersAgree' /\ answers' \in [Requests -> Seq(Answers)]
  BY <1>4, <1>9, PlacesOK
<1>11. /\ DOMAIN inFlight' \subseteq DOMAIN inFlight
       /\ \A k \in DOMAIN inFlight' : inFlight'[k] = inFlight[k]
       /\ \A k \in DOMAIN inFlight : k \in DOMAIN inFlight' <=> inFlight[k] \notin S
  BY DEF Settling
<1>12. Live' = Live \ S
  <2>1. Live' \subseteq Live \ S
    BY <1>11 DEF Live, Range
  <2>2. Live \ S \subseteq Live'
    BY <1>11 DEF Live, Range
  <2> QED BY <2>1, <2>2
<1>13. OperationsTyped'
  <2>1. Range(requests)' \subseteq Requests /\ DOMAIN requests' \subseteq Requests
    BY <1>3, <1>5 DEF Range
  <2>2. Range(inFlight)' \subseteq Requests /\ DOMAIN inFlight' \subseteq Keys
    BY <1>1, <1>12, <1>11 DEF OperationsTyped, Live
  <2>3. opKey' \in [Requests -> Keys \cup {NoKey}]
    BY <1>1, <1>5 DEF OperationsTyped
  <2> QED BY <1>7, <1>10, <2>1, <2>2, <2>3 DEF OperationsTyped
<1>14. Len(query) \in Nat /\ Len(query) <= Len(query)' /\ Len(query)' \in Nat /\ \A x \in Requests : x \in Nat
  BY DEF IInv, CallsTyped, Arriving, Onward, Requests
<1>15. OperationsLive'
  <2>1. \A p \in Requests : Opened(p)' <=> Opened(p)
    BY <1>5 DEF Opened
  <2>2. \A p \in Requests : Opened(p)' => p <= Len(query)'
    BY <1>1, <1>14, <2>1 DEF OperationsLive
  <2>3. \A k \in DOMAIN inFlight' : opKey'[inFlight'[k]] = k
    BY <1>1, <1>5, <1>11 DEF OperationsLive
  <2>4. ASSUME NEW p \in Requests
        PROVE  /\ ~Opened(p)' => exchange'[p] = "none" /\ waiters'[p] = {} /\ ~completed'[p]
               /\ p \in Live' <=> Opened(p)' /\ ~completed'[p]
               /\ p \in Live' <=> waiters'[p] # {}
               /\ exchange'[p] = "running" => p \in Live'
    <3>1. CASE p \in S
      BY <1>6, <1>8, <1>12, <2>1, <3>1
    <3>2. CASE p \notin S
      <4>1. /\ ~Opened(p) => exchange[p] = "none" /\ waiters[p] = {} /\ ~completed[p]
            /\ p \in Live <=> Opened(p) /\ ~completed[p]
            /\ p \in Live <=> waiters[p] # {}
            /\ exchange[p] = "running" => p \in Live
        BY <1>1 DEF OperationsLive
      <4>2. waiters'[p] = waiters[p] /\ completed'[p] = completed[p] /\ exchange'[p] = exchange[p]
        BY <1>8, <3>2
      <4>3. p \in Live' <=> p \in Live
        BY <1>12, <3>2
      <4> QED BY <2>1, <4>1, <4>2, <4>3, Zenon
    <3> QED BY <3>1, <3>2
  <2> QED BY <2>2, <2>3, <2>4 DEF OperationsLive
<1>16. LiveEnds'
  <2>1. ASSUME NEW o \in Live' PROVE exchange'[o] = "running" \/ \E t \in Posted' : t.kind = "finish" /\ t.op = o
    <3>1. o \in Live /\ o \in Requests \ S
      BY <1>1, <1>12, <2>1 DEF OperationsTyped, Live
    <3>2. exchange[o] = "running" \/ \E t \in Posted : t.kind = "finish" /\ t.op = o
      BY <1>1, <3>1 DEF LiveEnds
    <3>3. ASSUME NEW t \in Posted, t.kind = "finish", t.op = o PROVE t \in Posted'
      BY <2>1, <3>3 DEF Arriving
    <3> QED BY <1>8, <3>1, <3>2, <3>3
  <2> QED BY <2>1 DEF LiveEnds
<1>17. WaitersAgree'
  <2>1. ASSUME NEW p \in Requests, NEW w \in waiters'[p]
        PROVE  /\ w.id <= Len(query)' /\ w.responseId = query'[w.id].id
               /\ CacheKey(query'[w.id].wire) = opKey'[p]
    <3>1. w \in waiters[p]
      BY <1>8, <2>1
    <3> QED BY <1>5, <3>1, WaiterKept DEF Arriving
  <2>2. /\ \A p \in S : WaiterIds(p)' = {}
        /\ \A p \in Requests \ S : WaiterIds(p)' = WaiterIds(p)
    BY <1>8 DEF WaiterIds
  <2>3. ASSUME NEW x \in Requests, NEW p \in Requests
        PROVE  (x \in DOMAIN requests' /\ requests'[x] = p) <=> x \in WaiterIds(p)'
    <3>1. CASE p \in S
      BY <1>5, <2>2, <3>1
    <3>2. CASE p \notin S
      BY <1>2, <1>4, <1>5, <2>2, <3>2
    <3> QED BY <3>1, <3>2
  <2> QED BY <2>1, <2>3 DEF WaitersAgree, CacheKey, GroupOf
<1> QED BY <1>10, <1>13, <1>15, <1>16, <1>17 DEF Agreement
(* The end of one operation, by complete() or by the cancel of its last    *)
(* waiter: it leaves in_flight_ only if the key is still its own.          *)
LEMMA EndOK ==
    ASSUME IInv, NEW o \in Requests, exchange[o] = "running", Arriving({}), Answering({}),
           exchange' = [exchange EXCEPT ![o] = "done"],
           UNCHANGED <<opKey, waiters, completed, inFlight, requests>>,
           \E t \in Posted' : t.kind = "finish" /\ t.op = o
    PROVE  Agreement'
<1>1. OperationsTyped /\ OperationsLive /\ LiveEnds
  BY DEF IInv, Agreement
<1>2. /\ exchange' \in [Requests -> {"none", "running", "done"}] /\ exchange'[o] = "done"
      /\ \A p \in Requests \ {o} : exchange'[p] = exchange[p]
      /\ opKey' = opKey /\ waiters' = waiters /\ completed' = completed
      /\ inFlight' = inFlight /\ requests' = requests
  BY <1>1 DEF OperationsTyped
<1>3. Placing({}, {})
  BY <1>2 DEF Placing, Opened
<1>4. InOnePlace' /\ TasksAgree' /\ AnswersAgree' /\ answers' \in [Requests -> Seq(Answers)]
  BY <1>3, PlacesOK
<1>5. OperationsTyped'
  BY <1>1, <1>2, <1>4 DEF OperationsTyped, Range
<1>6. Len(query) \in Nat /\ Len(query) <= Len(query)' /\ Len(query)' \in Nat /\ \A x \in Requests : x \in Nat
  BY DEF IInv, CallsTyped, Arriving, Onward, Requests
<1>7. Live' = Live
  BY <1>2 DEF Live, Range
<1>8. OperationsLive'
  <2>1. \A p \in Requests : Opened(p)' => p <= Len(query)'
    BY <1>1, <1>2, <1>6 DEF OperationsLive, Opened
  <2>2. \A p \in Requests : exchange'[p] = "running" => exchange[p] = "running"
    BY <1>2
  <2>3. \A p \in Requests : exchange[p] = "none" => exchange'[p] = "none"
    BY <1>2
  <2> QED BY <1>1, <1>2, <1>7, <2>1, <2>2, <2>3 DEF OperationsLive, Opened
<1>9. LiveEnds'
  <2>1. ASSUME NEW p \in Live, p # o PROVE exchange'[p] = "running" \/ \E t \in Posted' : t.kind = "finish" /\ t.op = p
    <3>1. p \in Requests
      BY <1>1 DEF OperationsTyped, Live
    <3>2. \A t \in Posted : t.kind = "finish" /\ t.op = p => t \in Posted'
      BY <1>7 DEF Arriving
    <3> QED BY <1>1, <1>2, <2>1, <3>1, <3>2 DEF LiveEnds
  <2> QED BY <1>7, <2>1 DEF LiveEnds
<1>10. WaitersAgree'
  <2>1. \A p \in Requests : \A w \in waiters[p] :
           /\ w.id <= Len(query)' /\ w.responseId = query'[w.id].id
           /\ CacheKey(query'[w.id].wire) = opKey'[p]
    BY <1>2, WaiterKept DEF Arriving
  <2>2. \A x \in Requests, p \in Requests :
          (x \in DOMAIN requests /\ requests[x] = p) <=> x \in WaiterIds(p)
    BY DEF IInv, Agreement, WaitersAgree
  <2> QED BY <1>2, <2>1, <2>2 DEF WaitersAgree, WaiterIds, CacheKey, GroupOf
<1> QED BY <1>4, <1>5, <1>8, <1>9, <1>10 DEF Agreement

-----------------------------------------------------------------------------
(* The strand.  What is left of it, without the closures of X.              *)

Remaining(rest, X) ==
    /\ rest \in Seq(Tasks) /\ QueriesOnce(rest)
    /\ Range(rest) \subseteq Posted /\ Posted \ Range(rest) \subseteq X
    /\ \A t \in X : t.kind = "query" => t \notin Range(rest)

(* Closures that stay posted remain, whatever is posted behind them.       *)
LEMMA AllRemains ==
    ASSUME IInv
    PROVE  Remaining(strand, {})
BY DEF IInv, Agreement, InOnePlace, CallsTyped, Remaining, Posted

(* When the first closure has run, the others remain.                      *)
LEMMA TailRemains ==
    ASSUME IInv, strand # <<>>
    PROVE  Remaining(Tail(strand), {Head(strand)})
<1>1. strand \in Seq(Tasks) /\ QueriesOnce(strand)
  BY DEF IInv, Agreement, InOnePlace, CallsTyped
<1>2. Tail(strand) \in Seq(Tasks) /\ Range(strand) = {Head(strand)} \cup Range(Tail(strand))
  BY <1>1, TakenOff
<1>3. QueriesOnce(Tail(strand)) /\ (Head(strand).kind = "query" => Head(strand) \notin Range(Tail(strand)))
  BY <1>1, OnceInTail
<1> QED BY <1>2, <1>3 DEF Remaining, Posted

\* Whatever is posted behind it, but for queries, agrees.
LEMMA ArrivingOK ==
    ASSUME IInv, NEW R \in SUBSET Requests, NEW rest, NEW X, NEW u \in Seq(Tasks),
           Remaining(rest, X), strand' = rest \o u, Onward, Len(query)' \in Nat,
           \A t \in Range(u) : t.kind # "query" /\ TaskAgrees(t)',
           \A t \in X : t.kind = "finish" => t.op \notin Live',
           \A r \in Requests : QueryTask(r) \in Range(rest) <=> QueryTask(r) \in Posted /\ r \notin R,
           \A r \in Requests : r <= Len(query)' <=> r <= Len(query) \/ r \in R,
           \A r \in R : Unanswered(r) /\ r \notin DOMAIN requests /\ ~Opened(r)
    PROVE  Arriving(R)
<1>1. rest \in Seq(Tasks) /\ QueriesOnce(rest) /\ Range(rest) \subseteq Posted /\ Posted \ Range(rest) \subseteq X
  BY DEF Remaining
<1>2. strand' \in Seq(Tasks) /\ Posted' = Range(rest) \cup Range(u)
  <2>1. rest \o u \in Seq(Tasks) /\ Range(rest \o u) = Range(rest) \cup Range(u)
    BY <1>1, PutBehind
  <2>2. Posted' = Range(rest \o u)
    BY DEF Posted, Range
  <2> QED BY <2>1, <2>2
<1>3. QueriesOnce(strand')
  BY <1>1, OnceBehind
<1>4. \A r \in Requests : QueryTask(r) \in Posted' <=> QueryTask(r) \in Posted /\ r \notin R
  BY <1>2 DEF QueryTask
<1>5. \A t \in Posted' : t \in Posted \/ TaskAgrees(t)'
  BY <1>1, <1>2
<1>6. \A t \in Posted : t.kind = "finish" /\ t.op \in Live' => t \in Posted'
  BY <1>1, <1>2
<1> QED BY <1>2, <1>3, <1>4, <1>5, <1>6 DEF Arriving
-----------------------------------------------------------------------------
(* The cache.                                                               *)

(* cache_ttl stays within every lifetime it looks at.                       *)
LEMMA LifetimeOK ==
    ASSUME NEW p \in Responses, CacheTtl(p) > 0
    PROVE  /\ CacheTtl(p) \in Nat
           /\ p.rcode = 0 => \A t \in p.answers : CacheTtl(p) <= t
           /\ p.rcode = 3 \/ p.answers = {} =>
                 CacheTtl(p) <= NegativeTtl /\ \A s \in p.soa : CacheTtl(p) <= s.ttl /\ CacheTtl(p) <= s.minimum
           /\ p.rcode = 0 /\ p.answers # {} => CacheTtl(p) < U32Max
<1>1. /\ p.rcode \in Nat /\ p.answers \subseteq 0..U32Max /\ p.soa \subseteq [ttl : Nat, minimum : Nat]
      /\ NegativeTtl \in Nat /\ U32Max \in Nat
  BY DnsQueryAssumption
<1>2. CASE p.rcode = 3 \/ (p.rcode = 0 /\ p.answers = {})
  <2> DEFINE N == {NegativeTtl} \cup {s.ttl : s \in p.soa} \cup {s.minimum : s \in p.soa}
  <2>1. N \in SUBSET Nat /\ NegativeTtl \in N /\ \A s \in p.soa : s.ttl \in N /\ s.minimum \in N
    BY <1>1
  <2>2. CacheTtl(p) = MinOf(N)
    BY <1>2 DEF CacheTtl
  <2> HIDE DEF N
  <2>3. MinOf(N) \in N /\ \A y \in N : MinOf(N) <= y
    BY <2>1, MinOfFacts
  <2>4. CacheTtl(p) \in Nat /\ CacheTtl(p) <= NegativeTtl
    BY <2>1, <2>2, <2>3
  <2>5. \A s \in p.soa : CacheTtl(p) <= s.ttl /\ CacheTtl(p) <= s.minimum
    BY <2>1, <2>2, <2>3
  <2>6. p.rcode = 0 => p.answers = {}
    BY <1>2
  <2> QED BY <2>4, <2>5, <2>6
<1>3. CASE p.rcode = 0 /\ p.answers # {}
  <2>1. p.answers \in SUBSET Nat
    BY <1>1
  <2>2. MinOf(p.answers) \in p.answers /\ \A y \in p.answers : MinOf(p.answers) <= y
    BY <1>3, <2>1, MinOfFacts
  <2>3. CacheTtl(p) = IF MinOf(p.answers) = U32Max THEN 0 ELSE MinOf(p.answers)
    BY <1>3 DEF CacheTtl
  <2>4. MinOf(p.answers) \in Nat /\ MinOf(p.answers) <= U32Max
    BY <1>1, <2>2
  <2> QED BY <1>1, <1>3, <2>2, <2>3, <2>4
<1>4. CASE p.rcode # 3 /\ p.rcode # 0
  BY <1>4 DEF CacheTtl
<1> QED BY <1>2, <1>3, <1>4

(* Erasing a key from the LRU list takes it out once and leaves the        *)
(* others in their order.                                                  *)
LEMMA ErasedOK ==
    ASSUME NEW T, NEW s \in Seq(T), Distinct(s), NEW x
    PROVE  /\ Erased(s, x) \in Seq(T) /\ Distinct(Erased(s, x))
           /\ Range(Erased(s, x)) = Range(s) \ {x} /\ Len(Erased(s, x)) <= Len(s)
           /\ x \in Range(s) => Len(Erased(s, x)) < Len(s)
<1>1. CASE x \notin Range(s)
  BY <1>1 DEF Erased
<1>2. CASE x \in Range(s)
  <2>1. PICK i : i = Position(s, x)
    OBVIOUS
  <2>2. i \in DOMAIN s /\ s[i] = x
    BY <1>2, <2>1, Zenon DEF Position, Range
  <2>3. /\ Len(s) \in Nat /\ DOMAIN s = 1 .. Len(s) /\ i \in 1 .. Len(s)
        /\ \A k \in 1 .. Len(s) : s[k] \in T
    BY <2>2
  <2> DEFINE e == RemoveAt(s, i)
  <2>4. Erased(s, x) = e
    BY <1>2, <2>1 DEF Erased
  <2>5. /\ SubSeq(s, 1, i - 1) \in Seq(T) /\ Len(SubSeq(s, 1, i - 1)) = i - 1
        /\ \A k \in 1 .. i - 1 : SubSeq(s, 1, i - 1)[k] = s[k]
        /\ SubSeq(s, i + 1, Len(s)) \in Seq(T) /\ Len(SubSeq(s, i + 1, Len(s))) = Len(s) - i
        /\ \A k \in 1 .. Len(s) - i : SubSeq(s, i + 1, Len(s))[k] = s[k + i]
    <3>1. /\ i - 1 \in Int /\ i + 1 \in Int /\ Len(s) \in Int /\ 1 \in Int
          /\ \A k \in 1 .. i - 1 : s[k] \in T
          /\ \A k \in i + 1 .. Len(s) : s[k] \in T
      BY <2>3
    <3>2. /\ SubSeq(s, 1, i - 1) \in Seq(T)
          /\ Len(SubSeq(s, 1, i - 1)) = IF 1 <= i - 1 THEN i - 1 - 1 + 1 ELSE 0
          /\ \A k \in 1 .. i - 1 - 1 + 1 : SubSeq(s, 1, i - 1)[k] = s[1 + k - 1]
      BY <3>1, SubSeqProperties
    <3>3. /\ SubSeq(s, i + 1, Len(s)) \in Seq(T)
          /\ Len(SubSeq(s, i + 1, Len(s))) = IF i + 1 <= Len(s) THEN Len(s) - (i + 1) + 1 ELSE 0
          /\ \A k \in 1 .. Len(s) - (i + 1) + 1 : SubSeq(s, i + 1, Len(s))[k] = s[i + 1 + k - 1]
      BY <3>1, SubSeqProperties
    <3>4. \A k \in 1 .. i - 1 : k \in 1 .. i - 1 - 1 + 1 /\ 1 + k - 1 = k
      BY <2>3
    <3>5. \A k \in 1 .. Len(s) - i : k \in 1 .. Len(s) - (i + 1) + 1 /\ i + 1 + k - 1 = k + i
      BY <2>3
    <3>6. (IF 1 <= i - 1 THEN i - 1 - 1 + 1 ELSE 0) = i - 1
      BY <2>3
    <3>7. (IF i + 1 <= Len(s) THEN Len(s) - (i + 1) + 1 ELSE 0) = Len(s) - i
      <4>1. PICK n : n = Len(s)
        OBVIOUS
      <4>2. n \in Nat /\ i \in 1 .. n
        BY <2>3, <4>1
      <4>3. (IF i + 1 <= n THEN n - (i + 1) + 1 ELSE 0) = n - i
        BY <4>2
      <4> QED BY <4>1, <4>3
    <3> QED BY <3>2, <3>3, <3>4, <3>5, <3>6, <3>7, Zenon
  <2>6. /\ e \in Seq(T) /\ Len(e) = Len(s) - 1
        /\ \A k \in 1 .. Len(s) - 1 : e[k] = IF k < i THEN s[k] ELSE s[k + 1]
    <3> DEFINE a == SubSeq(s, 1, i - 1)
               b == SubSeq(s, i + 1, Len(s))
    <3>1. e = a \o b
      BY DEF RemoveAt
    <3>2. /\ a \in Seq(T) /\ b \in Seq(T) /\ Len(a) = i - 1 /\ Len(b) = Len(s) - i
          /\ \A k \in 1 .. i - 1 : a[k] = s[k]
          /\ \A k \in 1 .. Len(s) - i : b[k] = s[k + i]
      BY <2>5
    <3> HIDE DEF a, b, e
    <3>3. /\ a \o b \in Seq(T) /\ Len(a \o b) = Len(s) - 1
          /\ \A k \in 1 .. Len(s) - 1 : (a \o b)[k] = IF k <= i - 1 THEN a[k] ELSE b[k - (i - 1)]
      <4>1. /\ a \o b \in Seq(T) /\ Len(a \o b) = Len(a) + Len(b)
            /\ \A k \in 1 .. Len(a) + Len(b) :
                  (a \o b)[k] = IF k <= Len(a) THEN a[k] ELSE b[k - Len(a)]
        BY <3>2, ConcatProperties
      <4>2. Len(a) + Len(b) = Len(s) - 1
        BY <2>3, <3>2
      <4> QED BY <3>2, <4>1, <4>2, Zenon
    <3>4. \A k \in 1 .. Len(s) - 1 : k > i - 1 => k - (i - 1) \in 1 .. Len(s) - i /\ k - (i - 1) + i = k + 1
      BY <2>3
    <3>5. \A k \in 1 .. Len(s) - 1 : (a \o b)[k] = IF k < i THEN s[k] ELSE s[k + 1]
      BY <2>3, <3>2, <3>3, <3>4
    <3> QED BY <3>1, <3>3, <3>5
  <2> HIDE DEF e
  <2>7. DOMAIN e = 1 .. Len(s) - 1
    BY <2>6
  <2>8. Distinct(e)
    BY <2>3, <2>6, <2>7 DEF Distinct
  <2>9. \A k \in DOMAIN e : e[k] \in Range(s) \ {x}
    <3>1. ASSUME NEW k \in DOMAIN e PROVE \E j \in DOMAIN s : j # i /\ e[k] = s[j]
      <4>1. CASE k < i
        BY <2>3, <2>6, <2>7, <4>1
      <4>2. CASE ~(k < i)
        <5>1. k + 1 \in DOMAIN s /\ k + 1 # i /\ e[k] = s[k + 1]
          BY <2>3, <2>6, <2>7, <4>2
        <5> QED BY <5>1
      <4> QED BY <4>1, <4>2
    <3> QED BY <2>2, <3>1 DEF Distinct, Range
  <2>10. ASSUME NEW k \in DOMAIN s, s[k] # x PROVE \E j \in DOMAIN e : e[j] = s[k]
    <3>1. CASE k < i
      BY <2>3, <2>6, <2>7, <3>1
    <3>2. CASE k > i
      <4>1. k - 1 \in DOMAIN e /\ e[k - 1] = s[k]
        BY <2>3, <2>6, <2>7, <3>2
      <4> QED BY <4>1
    <3> QED BY <2>2, <2>3, <2>10, <3>1, <3>2
  <2>11. Range(e) = Range(s) \ {x}
    BY <2>9, <2>10 DEF Range
  <2> QED BY <2>3, <2>4, <2>6, <2>8, <2>11
<1> QED BY <1>1, <1>2

(* Splicing a key to the front keeps the keys of the list, each once.      *)
LEMMA FrontedOK ==
    ASSUME NEW T, NEW s \in Seq(T), Distinct(s), NEW x \in T, x \notin Range(s)
    PROVE  /\ <<x>> \o s \in Seq(T) /\ Distinct(<<x>> \o s)
           /\ Range(<<x>> \o s) = {x} \cup Range(s) /\ Len(<<x>> \o s) = Len(s) + 1
<1> DEFINE f == <<x>> \o s
<1>1. /\ f \in Seq(T) /\ Len(s) \in Nat /\ DOMAIN s = 1 .. Len(s) /\ DOMAIN f = 1 .. Len(s) + 1
      /\ Len(f) = Len(s) + 1 /\ f[1] = x
      /\ \A k \in 1 .. Len(s) : f[k + 1] = s[k]
  OBVIOUS
<1> HIDE DEF f
<1>2. \A k \in DOMAIN s : s[k] # x
  BY DEF Range
<1>3. \A k \in DOMAIN f : k = 1 \/ (k - 1 \in DOMAIN s /\ f[k] = s[k - 1])
  BY <1>1
<1>4. Distinct(f)
  BY <1>1, <1>2, <1>3 DEF Distinct
<1>5. Range(f) \subseteq {x} \cup Range(s)
  BY <1>1, <1>3 DEF Range
<1>6. {x} \cup Range(s) \subseteq Range(f)
  <2>1. \A k \in DOMAIN s : k + 1 \in DOMAIN f /\ f[k + 1] = s[k]
    BY <1>1
  <2>2. 1 \in DOMAIN f
    BY <1>1
  <2> QED BY <1>1, <2>1, <2>2 DEF Range
<1> QED BY <1>1, <1>4, <1>5, <1>6 DEF f
(* What is left after evictions from the back holds each key once, within  *)
(* the length.                                                             *)
LEMMA PrefixOK ==
    ASSUME NEW T, NEW s \in Seq(T), Distinct(s), NEW n \in Nat, n <= Len(s)
    PROVE  /\ SubSeq(s, 1, n) \in Seq(T) /\ Distinct(SubSeq(s, 1, n))
           /\ Range(SubSeq(s, 1, n)) \subseteq Range(s) /\ Len(SubSeq(s, 1, n)) = n
<1>1. Len(s) \in Nat /\ DOMAIN s = 1 .. Len(s) /\ \A k \in 1 .. n : k \in DOMAIN s /\ s[k] \in T
  OBVIOUS
<1> DEFINE p == SubSeq(s, 1, n)
<1>2. /\ p \in Seq(T) /\ Len(p) = IF 1 <= n THEN n - 1 + 1 ELSE 0
      /\ \A k \in 1 .. n - 1 + 1 : p[k] = s[1 + k - 1]
  <2>1. 1 \in Int /\ n \in Int
    OBVIOUS
  <2> QED BY <1>1, <2>1, SubSeqProperties
<1> HIDE DEF p
<1>3. (IF 1 <= n THEN n - 1 + 1 ELSE 0) = n
  OBVIOUS
<1>4. \A k \in 1 .. n : k \in 1 .. n - 1 + 1 /\ 1 + k - 1 = k
  OBVIOUS
<1>5. p \in Seq(T) /\ Len(p) = n /\ \A k \in 1 .. n : p[k] = s[k]
  <2>1. p \in Seq(T) /\ Len(p) = n
    BY <1>2
  <2>2. \A k \in 1 .. n : p[k] = s[k]
    BY <1>2, <1>4, Zenon
  <2> QED BY <2>1, <2>2
<1>6. DOMAIN p = 1 .. n
  BY <1>5
<1>7. Distinct(p) /\ Range(p) \subseteq Range(s)
  BY <1>1, <1>5, <1>6 DEF Distinct, Range
<1> QED BY <1>5, <1>7 DEF p

\* A hit: the entry becomes the most recently used one.
LEMMA HitOK ==
    ASSUME IInv, NEW key \in Keys, key \in DOMAIN cache, cache' = cache, lru' = ToFront(lru, key)
    PROVE  CacheTyped' /\ CacheAgrees'
<1>1. lru \in Seq(Keys) /\ Distinct(lru) /\ Range(lru) = DOMAIN cache /\ Len(lru) <= Capacity
  BY DEF IInv, CacheTyped, CacheAgrees
<1>2. /\ Erased(lru, key) \in Seq(Keys) /\ Distinct(Erased(lru, key))
      /\ Range(Erased(lru, key)) = Range(lru) \ {key} /\ Len(Erased(lru, key)) < Len(lru)
  BY <1>1, ErasedOK
<1>3. /\ lru' \in Seq(Keys) /\ Distinct(lru') /\ Range(lru') = {key} \cup (Range(lru) \ {key})
      /\ Len(lru') = Len(Erased(lru, key)) + 1
  <2>1. key \notin Range(Erased(lru, key))
    BY <1>2
  <2> QED BY <1>2, <2>1, FrontedOK DEF ToFront
<1>4. Len(lru') <= Len(lru) /\ Len(lru') \in Nat /\ Len(lru) \in Nat
  BY <1>1, <1>2, <1>3
<1>5. CacheTyped'
  BY <1>3 DEF IInv, CacheTyped
<1>6. CacheAgrees'
  <2>1. Range(lru') = DOMAIN cache' /\ Len(lru') <= Capacity
    <3>1. Capacity \in Int
      BY DnsQueryAssumption
    <3>2. Len(lru') <= Capacity
      BY <1>1, <1>4, <3>1
    <3>3. Range(lru') = DOMAIN cache
      BY <1>1, <1>3
    <3> QED BY <3>2, <3>3
  <2>2. \A k \in DOMAIN cache' :
          /\ cache'[k].result.key = k
          /\ CacheTtl(cache'[k].result.packet) > 0
          /\ cache'[k].expires = cache'[k].born + CacheTtl(cache'[k].result.packet)
    BY DEF IInv, CacheAgrees
  <2> QED BY <1>3, <2>1, <2>2 DEF CacheAgrees, Distinct, Range, CacheTtl, MinOf
<1> QED BY <1>5, <1>6
(* A cache that is left alone stays sound.                                 *)
LEMMA CacheKept ==
    ASSUME IInv, UNCHANGED cacheVars
    PROVE  CacheTyped' /\ CacheAgrees'
<1>1. cache' = cache /\ lru' = lru /\ CacheTyped /\ CacheAgrees
  BY DEF cacheVars, IInv
<1>2. CacheTyped'
  BY <1>1 DEF CacheTyped
<1>3. CacheAgrees'
  BY <1>1 DEF CacheAgrees, Distinct, Range
<1> QED BY <1>2, <1>3

\* A miss: the expired entry is dropped.
LEMMA MissOK ==
    ASSUME IInv, NEW key, EraseExpired(key)
    PROVE  CacheTyped' /\ CacheAgrees'
<1>1. lru \in Seq(Keys) /\ Distinct(lru) /\ Range(lru) = DOMAIN cache /\ Len(lru) <= Capacity
  BY DEF IInv, CacheTyped, CacheAgrees
<1>2. /\ lru' \in Seq(Keys) /\ Distinct(lru') /\ Range(lru') = Range(lru) \ {key}
      /\ Len(lru') <= Len(lru) /\ Len(lru') \in Nat /\ Len(lru) \in Nat
  BY <1>1, ErasedOK DEF EraseExpired
<1>3. /\ DOMAIN cache' = DOMAIN cache \ {key}
      /\ \A k \in DOMAIN cache' : cache'[k] = cache[k]
  BY DEF EraseExpired, Drop
<1>4. CacheTyped'
  BY <1>2, <1>3 DEF IInv, CacheTyped
<1>5. Len(lru') <= Capacity
  BY <1>1, <1>2, DnsQueryAssumption
<1>6. \A k \in DOMAIN cache' :
          /\ cache'[k].result.key = k
          /\ CacheTtl(cache'[k].result.packet) > 0
          /\ cache'[k].expires = cache'[k].born + CacheTtl(cache'[k].result.packet)
  BY <1>3 DEF IInv, CacheAgrees
<1>7. Range(lru') = DOMAIN cache'
  BY <1>1, <1>2, <1>3
<1> QED BY <1>2, <1>4, <1>5, <1>6, <1>7 DEF CacheAgrees, Distinct, Range, CacheTtl, MinOf

(* clear_cache() leaves an empty index and an empty list.                  *)
LEMMA ClearOK ==
    ASSUME ClearAll
    PROVE  CacheTyped' /\ CacheAgrees'
<1>1. cache' = <<>> /\ lru' = <<>> /\ DOMAIN <<>> = {} /\ Len(<<>>) = 0 /\ Range(<<>>) = {} /\ Distinct(<<>>)
  BY DEF ClearAll, Range, Distinct
<1>2. 0 <= Capacity
  BY DnsQueryAssumption
<1>3. DOMAIN cache' = {} /\ lru' \in Seq(Keys)
  BY <1>1
<1>4. Range(lru') = {} /\ Distinct(lru') /\ Len(lru') <= Capacity
  BY <1>1, <1>2 DEF Distinct, Range
<1>5. CacheTyped'
  BY <1>3 DEF CacheTyped
<1>6. CacheAgrees'
  BY <1>3, <1>4 DEF CacheAgrees, Distinct, Range
<1> QED BY <1>5, <1>6

\* An answer is stored: the least recently used entries make room for it.
LEMMA StoreOK ==
    ASSUME IInv, NEW o, NEW result \in Results, Store(o, result), result.ok => result.key = opKey[o]
    PROVE  CacheTyped' /\ CacheAgrees'
<1>1. CASE UNCHANGED cacheVars
  BY <1>1, CacheKept
<1>2. CASE ~UNCHANGED cacheVars
  <2> DEFINE key == result.key
             ttl == CacheTtl(result.packet)
             entry == [result |-> result, born |-> clock, expires |-> clock + ttl]
             others == Erased(lru, key)
             keep == IF Len(others) >= Capacity THEN SubSeq(others, 1, Capacity - 1) ELSE others
  <2>1. result.ok /\ ttl > 0 /\ Capacity > 0 /\ Insert(key, entry)
    BY <1>2 DEF Store
  <2>2. result.packet \in Responses /\ key \in Keys
    BY <2>1 DEF Results
  <2>3. lru' = <<key>> \o keep /\ cache' = [k \in Range(keep) \cup {key} |-> IF k = key THEN entry ELSE cache[k]]
    BY <2>1 DEF Insert
  <2>4. /\ ttl \in Nat
        /\ result.packet.rcode = 0 /\ result.packet.answers # {} => ttl < U32Max
    BY <2>1, <2>2, LifetimeOK
  <2>5. clock \in 0..MaxClock /\ MaxClock \in Nat /\ Capacity \in Nat /\ U32Max \in Nat
    BY DnsQueryAssumption DEF IInv, CallsTyped
  <2>6. lru \in Seq(Keys) /\ Distinct(lru) /\ Range(lru) = DOMAIN cache /\ Len(lru) <= Capacity
    BY DEF IInv, CacheTyped, CacheAgrees
  <2> HIDE DEF key, ttl
  <2>7. /\ others \in Seq(Keys) /\ Distinct(others) /\ Range(others) = Range(lru) \ {key}
        /\ Len(others) <= Len(lru) /\ Len(others) \in Nat /\ Len(lru) \in Nat
    BY <2>6, ErasedOK
  <2> HIDE DEF others
  <2>8. /\ keep \in Seq(Keys) /\ Distinct(keep) /\ Range(keep) \subseteq Range(others) /\ Len(keep) < Capacity
    <3>1. CASE Len(others) >= Capacity
      <4>1. Capacity - 1 \in Nat /\ Capacity - 1 <= Len(others)
        BY <2>1, <2>5, <2>7, <3>1
      <4>2. keep = SubSeq(others, 1, Capacity - 1)
        BY <3>1
      <4> HIDE DEF keep
      <4>3. /\ keep \in Seq(Keys) /\ Distinct(keep) /\ Range(keep) \subseteq Range(others)
            /\ Len(keep) = Capacity - 1
        BY <2>7, <4>1, <4>2, PrefixOK
      <4> QED BY <2>5, <4>3
    <3>2. CASE ~(Len(others) >= Capacity)
      BY <2>5, <2>7, <3>2
    <3> QED BY <3>1, <3>2
  <2> HIDE DEF keep
  <2>9. /\ lru' \in Seq(Keys) /\ Distinct(lru') /\ Range(lru') = {key} \cup Range(keep)
        /\ Len(lru') = Len(keep) + 1 /\ Len(keep) \in Nat
    <3>1. key \notin Range(keep)
      BY <2>7, <2>8
    <3> QED BY <2>2, <2>3, <2>8, <3>1, FrontedOK
  <2>10. Len(lru') <= Capacity
    BY <2>5, <2>8, <2>9
  <2>11. /\ DOMAIN cache' = {key} \cup Range(keep) /\ cache'[key] = entry
         /\ \A k \in DOMAIN cache' : k # key => k \in DOMAIN cache /\ cache'[k] = cache[k]
    BY <2>3, <2>6, <2>7, <2>8
  <2>12. entry \in [result : Results, born : 0..MaxClock, expires : Nat]
    BY <2>4, <2>5
  <2>13. /\ entry.result = result /\ entry.born = clock /\ entry.expires = clock + ttl
    OBVIOUS
  <2> HIDE DEF entry
  <2>14. entry.result.packet.rcode = 0 /\ entry.result.packet.answers # {} => entry.expires - entry.born < U32Max
    BY <2>4, <2>5, <2>13
  <2>15. CacheTyped'
    <3>1. ASSUME NEW k \in DOMAIN cache'
          PROVE  /\ cache'[k] \in [result : Results, born : 0..MaxClock, expires : Nat]
                 /\ cache'[k].result.ok
                 /\ cache'[k].result.packet.rcode = 0 /\ cache'[k].result.packet.answers # {}
                       => cache'[k].expires - cache'[k].born < U32Max
      <4>1. CASE k = key
        BY <2>1, <2>11, <2>12, <2>13, <2>14, <4>1
      <4>2. CASE k # key
        BY <2>11, <4>2 DEF IInv, CacheTyped
      <4> QED BY <4>1, <4>2
    <3>2. DOMAIN cache' \subseteq Keys
      BY <2>2, <2>6, <2>7, <2>8, <2>11 DEF IInv, CacheTyped
    <3> QED BY <2>9, <3>1, <3>2 DEF CacheTyped
  <2>16. ASSUME NEW k \in DOMAIN cache'
         PROVE  /\ cache'[k].result.key = k
                /\ CacheTtl(cache'[k].result.packet) > 0
                /\ cache'[k].expires = cache'[k].born + CacheTtl(cache'[k].result.packet)
    <3>1. CASE k = key
      BY <2>1, <2>11, <2>13, <3>1 DEF key, ttl
    <3>2. CASE k # key
      BY <2>11, <3>2 DEF IInv, CacheAgrees
    <3> QED BY <3>1, <3>2
  <2>17. Range(lru') = DOMAIN cache'
    BY <2>9, <2>11
  <2>18. CacheAgrees'
    BY <2>9, <2>10, <2>16, <2>17 DEF CacheAgrees, Distinct, Range, CacheTtl, MinOf
  <2> QED BY <2>15, <2>18
<1> QED BY <1>1, <1>2
-----------------------------------------------------------------------------
(* The bodies of the strand: query.                                         *)

(* Answers that are left alone are answers to nobody.                      *)
LEMMA NobodyAnswered ==
    ASSUME IInv, answers' = answers
    PROVE  Answering({})
BY DEF IInv, Agreement, OperationsTyped, Answering

(* post_completion with an error is an answer of the request's own when    *)
(* it is not "cancelled", or has a reason to be.                           *)
LEMMA ErrorsOK ==
    ASSUME IInv, NEW R \in SUBSET Requests, NEW e \in Errors, PostError(R, e),
           e = Cancelled => \A r \in R : r \in cancelAsked' \/ queryStopped'
    PROVE  Answering(R)
<1>1. answers' = [r \in Requests |-> IF r \in R THEN Append(answers[r], Err(e)) ELSE answers[r]]
  BY DEF PostError
<1>2. Err(e) \in Answers /\ Err(e).ok = FALSE /\ Err(e).error = e /\ Err(Cancelled).error = Cancelled
  BY DEF Answers, Err
<1>3. ASSUME NEW r \in R PROVE Own(r, Err(e))'
  <2>1. Err(e) = Err(Cancelled) => r \in cancelAsked' \/ queryStopped'
    BY <1>2, Zenon
  <2> QED BY <1>2, <2>1 DEF Own, Fresh
<1> QED BY <1>1, <1>2, <1>3 DEF Answering

\* What is served from the cache is what was asked for, and still lives.
LEMMA ServedOK ==
    ASSUME IInv, Onward, NEW r \in Requests, NEW q, NEW key, Asks(r, q, key), Hit(key),
           AnswerFromCache(r, q, key)
    PROVE  Answering({r})
<1> DEFINE p == cache[key].result.packet
           born == cache[key].born
           a == Rewritten(cache[key].result, q.id, cache[key].born)
<1>1. /\ key \in DOMAIN cache /\ cache[key].expires > clock
      /\ cache[key] \in [result : Results, born : 0..MaxClock, expires : Nat]
      /\ cache[key].result.ok /\ cache[key].result.key = key
      /\ CacheTtl(p) > 0 /\ cache[key].expires = born + CacheTtl(p)
      /\ clock \in 0..MaxClock
  BY DEF Hit, IInv, CacheTyped, CacheAgrees, CallsTyped
<1>2. p \in Responses /\ born \in 0..MaxClock /\ q.id \in PacketIds /\ key \in Keys
  BY <1>1 DEF Results, Asks
<1>3. a \in Answers /\ a.ok /\ a.packet = p /\ a.key = key /\ a.id = q.id /\ a.at = clock /\ a.born = born
  BY <1>1, <1>2 DEF Rewritten, Answers
<1>4. /\ CacheTtl(p) \in Nat
      /\ p.rcode = 0 => \A t \in p.answers : CacheTtl(p) <= t
      /\ p.rcode = 3 \/ p.answers = {} =>
            CacheTtl(p) <= NegativeTtl /\ \A s \in p.soa : CacheTtl(p) <= s.ttl /\ CacheTtl(p) <= s.minimum
  BY <1>1, <1>2, LifetimeOK
<1>5. /\ p.answers \subseteq 0..U32Max /\ p.soa \subseteq [ttl : Nat, minimum : Nat]
      /\ NegativeTtl \in Nat /\ U32Max \in Nat /\ MaxClock \in Nat
  BY <1>2, DnsQueryAssumption
<1>6. clock < born + CacheTtl(p) /\ clock \in Nat /\ born \in Nat
  BY <1>1, <1>2, <1>4, <1>5
<1>7. answers' = [answers EXCEPT ![r] = Append(@, a)] /\ answers \in [Requests -> Seq(Answers)]
  BY DEF AnswerFromCache, IInv, Agreement, OperationsTyped
<1> HIDE DEF a, p, born
<1>8. Fresh(a)
  <2>1. p.rcode = 0 => \A t \in p.answers : clock < born + t
    BY <1>4, <1>5, <1>6
  <2>2. p.rcode = 3 \/ p.answers = {} =>
            /\ clock < born + NegativeTtl
            /\ \A s \in p.soa : clock < born + s.minimum /\ clock < born + s.ttl
    BY <1>4, <1>5, <1>6
  <2> QED BY <1>3, <2>1, <2>2 DEF Fresh
<1>9. a # Err(Cancelled)
  BY <1>3 DEF Err
<1>10. PICK b : b = a
  OBVIOUS
<1>11. b \in Answers /\ b.id = query'[r].id /\ b.key = CacheKey(query'[r].wire) /\ Fresh(b) /\ b # Err(Cancelled)
  BY <1>3, <1>8, <1>9, <1>10 DEF Asks
<1>12. Own(r, b)'
  BY <1>11 DEF Own, Fresh, CacheKey, GroupOf
<1>13. answers'[r] = Append(answers[r], b) /\ \A x \in Requests \ {r} : answers'[x] = answers[x]
  BY <1>7, <1>10
<1>14. answers' = [x \in Requests |-> answers'[x]]
  BY <1>7
<1> QED BY <1>11, <1>12, <1>13, <1>14 DEF Answering

(* query_on_owner keeps the invariant: refused, answered from the cache,   *)
(* joined or opened.                                                       *)
LEMMA QueryBodyOK ==
    ASSUME IInv, NEW r \in Requests, NEW q, q = query'[r], q \in [wire : Wires, id : PacketIds],
           Arriving({r}), QueryOnOwner(r, q)
    PROVE  /\ Agreement' /\ CacheTyped' /\ CacheAgrees'
           /\ queryStopped => UNCHANGED operationVars
<1>1. Onward /\ Len(query)' \in Nat
  BY DEF Arriving
<1>2. ASSUME NEW e \in Errors, Refuse(r, e), e = Cancelled => queryStopped
      PROVE  Agreement' /\ CacheTyped' /\ CacheAgrees' /\ UNCHANGED operationVars
  <2>1. Answering({r})
    BY <1>1, <1>2, ErrorsOK DEF Refuse, Onward
  <2> QED BY <1>1, <1>2, <2>1, StayOK, CacheKept DEF Refuse
<1>3. CASE queryStopped /\ Refuse(r, Cancelled)
  BY <1>2, <1>3 DEF Errors
<1>4. CASE ~queryStopped /\ Refuse(r, Invalid)
  BY <1>2, <1>4 DEF Errors, Invalid, Cancelled
<1>5. CASE ~queryStopped /\ Refuse(r, BadGroup)
  BY <1>2, <1>5 DEF Errors, BadGroup, Cancelled
<1>6. ASSUME ~queryStopped, q.wire \notin Malformed, NEW key, key = CacheKey(q.wire)
      PROVE  Asks(r, q, key)
  BY <1>6 DEF Asks, Keys
<1>7. CASE ~queryStopped /\ q.wire \notin Malformed
           /\ Hit(CacheKey(q.wire)) /\ AnswerFromCache(r, q, CacheKey(q.wire))
  <2>1. PICK key : key = CacheKey(q.wire)
    OBVIOUS
  <2>2. Asks(r, q, key) /\ Hit(key) /\ AnswerFromCache(r, q, key)
    BY <1>6, <1>7, <2>1
  <2>3. Answering({r})
    BY <1>1, <2>2, ServedOK
  <2>4. CacheTyped' /\ CacheAgrees'
    BY <2>2, HitOK DEF AnswerFromCache, Hit, Asks
  <2> QED BY <1>1, <1>7, <2>2, <2>3, <2>4, StayOK DEF AnswerFromCache
<1>8. CASE /\ ~queryStopped /\ q.wire \notin Malformed /\ EraseExpired(CacheKey(q.wire))
           /\ IF CacheKey(q.wire) \in DOMAIN inFlight THEN Join(r, q, CacheKey(q.wire))
              ELSE Open(r, q, CacheKey(q.wire))
  <2>1. PICK key : key = CacheKey(q.wire)
    OBVIOUS
  <2>2. /\ Asks(r, q, key) /\ EraseExpired(key)
        /\ (key \in DOMAIN inFlight /\ Join(r, q, key)) \/ (key \notin DOMAIN inFlight /\ Open(r, q, key))
    BY <1>6, <1>8, <2>1
  <2>3. answers' = answers
    BY <2>2 DEF Join, Open
  <2>4. Answering({})
    BY <2>3, NobodyAnswered
  <2>5. CacheTyped' /\ CacheAgrees'
    BY <2>2, MissOK
  <2>6. Agreement'
    BY <2>2, <2>4, JoinOK, OpenOK
  <2> QED BY <1>8, <2>5, <2>6
<1> QED BY <1>3, <1>4, <1>5, <1>7, <1>8 DEF QueryOnOwner
-----------------------------------------------------------------------------
(* The bodies of the strand: cancel, stop, finish.                          *)

\* No query arrives: what remains of the strand, and what is posted behind it.
LEMMA NothingArrives ==
    ASSUME IInv, NEW rest, NEW X, NEW u \in Seq(Tasks), Remaining(rest, X), strand' = rest \o u,
           Onward, query' = query,
           \A t \in Range(u) : t.kind # "query" /\ TaskAgrees(t)',
           \A t \in X : t.kind # "query" /\ (t.kind = "finish" => t.op \notin Live')
    PROVE  Arriving({})
<1>1. \A r \in Requests : QueryTask(r) \in Range(rest) <=> QueryTask(r) \in Posted
  BY DEF Remaining, QueryTask
<1>2. Len(query)' = Len(query) /\ Len(query) \in Nat
  BY DEF IInv, CallsTyped
<1> QED BY <1>1, <1>2, ArrivingOK

(* A body that posts nothing leaves the strand as it was.                  *)
LEMMA NothingPosted ==
    ASSUME IInv, NEW rest, NEW X, Remaining(rest, X), strand' = rest,
           Onward, query' = query,
           \A t \in X : t.kind # "query" /\ (t.kind = "finish" => t.op \notin Live')
    PROVE  Arriving({})
<1>1. rest \in Seq(Tasks)
  BY DEF Remaining
<1>2. rest \o <<>> = rest /\ <<>> \in Seq(Tasks) /\ Range(<<>>) = {}
  BY <1>1, ConcatEmptySeq DEF Range
<1>3. strand' = rest \o <<>> /\ \A t \in Range(<<>>) : t.kind # "query" /\ TaskAgrees(t)'
  BY <1>2
<1> QED BY <1>2, <1>3, NothingArrives

(* Posting one closure that carries what it should keeps TasksAgree.       *)
LEMMA OnePosted ==
    ASSUME IInv, NEW t \in Tasks, t.kind # "query", TaskAgrees(t)', strand' = Append(strand, t),
           Onward, query' = query
    PROVE  Arriving({}) /\ t \in Posted'
<1>1. strand \in Seq(Tasks) /\ Remaining(strand, {})
  BY AllRemains DEF IInv, CallsTyped
<1>2. strand' = strand \o <<t>> /\ <<t>> \in Seq(Tasks)
  BY <1>1
<1>3. \A x \in Range(<<t>>) : x = t
  BY DEF Range
<1>4. \A x \in Range(<<t>>) : x.kind # "query" /\ TaskAgrees(x)'
  BY <1>3 DEF TaskAgrees, Opened
<1>5. t \in Posted'
  BY <1>1, Appended DEF Posted, Range
<1>6. PICK u, X : u = <<t>> /\ X = {}
  OBVIOUS
<1>7. u \in Seq(Tasks) /\ Remaining(strand, X) /\ strand' = strand \o u
  BY <1>1, <1>2, <1>6
<1>8. \A x \in Range(u) : x.kind # "query" /\ TaskAgrees(x)'
  BY <1>4, <1>6
<1>9. \A x \in X : x.kind # "query" /\ (x.kind = "finish" => x.op \notin Live')
  BY <1>6
<1>10. Arriving({})
  BY <1>7, <1>8, <1>9, NothingArrives
<1> QED BY <1>5, <1>10

\* The closures of the exchanges that a stop request ends agree.
LEMMA UnwindingOK ==
    ASSUME IInv, NEW S \in SUBSET Live, Settling(S)
    PROVE  /\ Unwound(S) \in Seq(Tasks)
           /\ \A t \in Range(Unwound(S)) : t.kind # "query" /\ TaskAgrees(t)'
           /\ Live' = Live \ S
<1>1. S \in SUBSET Requests /\ MaxRequest \in Nat
  BY DnsQueryAssumption DEF IInv, Agreement, OperationsTyped, Live
<1>2. Unwound(S) \in Seq(Tasks) /\ Range(Unwound(S)) \subseteq Unwinding(S)
  BY <1>1, UnwoundFacts
<1>3. ASSUME NEW o \in S PROVE opKey'[o] # NoKey /\ exchange'[o] = "done" /\ completed'[o]
  <2>1. Opened(o) /\ o \in Requests
    BY <1>1 DEF IInv, Agreement, OperationsLive
  <2> QED BY <2>1 DEF Settling, Opened
<1>4. ASSUME NEW o \in S, NEW t, t = [kind |-> "finish", op |-> o, result |-> Err(Cancelled)]
      PROVE  t.kind # "query" /\ TaskAgrees(t)'
  <2>1. t.kind = "finish" /\ t.op = o /\ t.result = Err(Cancelled) /\ t.result.ok = FALSE
    BY <1>4 DEF Err
  <2> QED BY <1>3, <2>1 DEF TaskAgrees, Opened
<1>5. \A t \in Unwinding(S) : t.kind # "query" /\ TaskAgrees(t)'
  BY <1>4 DEF Unwinding
<1>6. Live' = Live \ S
  <2>1. Live' \subseteq Live \ S
    BY DEF Settling, Live, Range
  <2>2. Live \ S \subseteq Live'
    BY DEF Settling, Live, Range
  <2> QED BY <2>1, <2>2
<1> QED BY <1>2, <1>5, <1>6

\* A live operation, alone, completes.
LEMMA RetireOK ==
    ASSUME IInv, NEW o \in Live, inFlight' = Retire(o)
    PROVE  /\ DOMAIN inFlight' = {k \in DOMAIN inFlight : inFlight[k] \notin {o}}
           /\ \A k \in DOMAIN inFlight' : inFlight'[k] = inFlight[k]
<1>1. opKey[o] \in DOMAIN inFlight /\ inFlight[opKey[o]] = o
      /\ \A k \in DOMAIN inFlight : inFlight[k] = o => k = opKey[o]
  <2>1. PICK k \in DOMAIN inFlight : inFlight[k] = o
    BY DEF Live, Range
  <2>2. \A j \in DOMAIN inFlight : opKey[inFlight[j]] = j
    BY DEF IInv, Agreement, OperationsLive
  <2> QED BY <2>1, <2>2
<1>2. inFlight' = Drop(inFlight, opKey[o])
  BY <1>1 DEF Retire
<1> QED BY <1>1, <1>2 DEF Drop

(* cancel_on_owner keeps the invariant, when others wait and when the      *)
(* last waiter leaves.                                                     *)
LEMMA CancelBodyOK ==
    ASSUME IInv, NEW r \in Requests, r \in cancelAsked', NEW rest, NEW X, Remaining(rest, X),
           \A t \in X : t.kind # "query" /\ t.kind # "finish",
           Onward, query' = query, CancelOnOwner(r, rest)
    PROVE  /\ strand' \in Seq(Tasks) /\ Agreement' /\ CacheTyped' /\ CacheAgrees'
           /\ requests = <<>> => UNCHANGED operationVars
<1>1. CASE r \notin DOMAIN requests
  <2>1. strand' = rest /\ UNCHANGED operationVars /\ UNCHANGED cacheVars /\ answers' = answers
    BY <1>1 DEF CancelOnOwner
  <2>2. Arriving({}) /\ Answering({})
    BY <2>1, NothingPosted, NobodyAnswered
  <2>3. Len(query)' \in Nat
    BY DEF IInv, CallsTyped
  <2>4. strand' \in Seq(Tasks)
    BY <2>2 DEF Arriving
  <2> QED BY <2>1, <2>2, <2>3, <2>4, StayOK, CacheKept
<1>2. CASE r \in DOMAIN requests
  <2>1. PICK o : o = requests[r]
    OBVIOUS
  <2> DEFINE left == {w \in waiters[o] : w.id # r}
  <2>2. /\ requests' = Drop(requests, r)
        /\ PostError({r} \cap WaiterIds(o), Cancelled)
        /\ waiters' = [waiters EXCEPT ![o] = left]
        /\ opKey' = opKey /\ UNCHANGED cacheVars
        /\ IF left = {} /\ ~completed[o]
           THEN /\ completed' = [completed EXCEPT ![o] = TRUE]
                /\ EndExchanges({o})
                /\ inFlight' = Retire(o)
                /\ strand' = rest \o Unwound({o})
           ELSE /\ strand' = rest
                /\ UNCHANGED <<completed, exchange, inFlight>>
    BY <1>2, <2>1 DEF CancelOnOwner
  <2>3. o \in Requests /\ OperationsTyped /\ OperationsLive /\ WaitersAgree
    BY <1>2, <2>1 DEF IInv, Agreement, OperationsTyped, Range
  <2>4. r \in WaiterIds(o) /\ o \in Live /\ ~completed[o] /\ Opened(o)
    BY <1>2, <2>1, <2>3 DEF WaitersAgree, OperationsLive, WaiterIds
  <2>5. Answering({r})
    <3>1. PostError({r}, Cancelled)
      BY <2>2, <2>4 DEF PostError
    <3>2. {r} \in SUBSET Requests /\ Cancelled \in Errors /\ \A x \in {r} : x \in cancelAsked' \/ queryStopped'
      BY DEF Errors
    <3> QED BY <3>1, <3>2, ErrorsOK
  <2>6. CacheTyped' /\ CacheAgrees'
    BY <2>2, CacheKept
  <2>7. requests # <<>>
    <3>1. DOMAIN <<>> = {}
      OBVIOUS
    <3> QED BY <1>2, <3>1
  <2>8. CASE left # {}
    <3>1. Leaving(r, o) /\ strand' = rest
      BY <2>2, <2>8 DEF Leaving
    <3>2. Arriving({})
      BY <3>1, NothingPosted
    <3>3. strand' \in Seq(Tasks)
      BY <3>2 DEF Arriving
    <3> QED BY <1>2, <2>1, <2>5, <2>6, <2>7, <2>8, <3>1, <3>2, <3>3, LeaveOK
  <2>9. CASE left = {}
    <3>1. WaiterIds(o) = {r}
      BY <2>4, <2>9 DEF WaiterIds
    <3>2. Waited({o}) = {r}
      BY <3>1 DEF Waited
    <3>3. \A x \in DOMAIN requests : x # r <=> requests[x] \notin {o}
      <4>1. \A x \in DOMAIN requests : x \in Requests
        BY <2>3 DEF OperationsTyped
      <4> QED BY <2>1, <2>3, <3>1, <4>1 DEF WaitersAgree
    <3>4. Settling({o})
      <4>1. completed' = [p \in Requests |-> completed[p] \/ p \in {o}]
        <5>1. completed \in [Requests -> BOOLEAN] /\ completed' = [completed EXCEPT ![o] = TRUE]
          BY <2>2, <2>3, <2>4, <2>9 DEF OperationsTyped
        <5>2. \A p \in Requests : completed'[p] = (completed[p] \/ p \in {o})
          BY <2>3, <5>1
        <5> QED BY <5>1, <5>2
      <4>2. exchange' = [p \in Requests |-> IF p \in {o} THEN "done" ELSE exchange[p]]
        BY <2>2, <2>4, <2>9 DEF EndExchanges
      <4>3. waiters' = [p \in Requests |-> IF p \in {o} THEN {} ELSE waiters[p]]
        BY <2>2, <2>3, <2>9 DEF OperationsTyped
      <4>4. /\ DOMAIN inFlight' = {k \in DOMAIN inFlight : inFlight[k] \notin {o}}
            /\ \A k \in DOMAIN inFlight' : inFlight'[k] = inFlight[k]
        BY <2>2, <2>4, <2>9, RetireOK
      <4>5. /\ DOMAIN requests' = {x \in DOMAIN requests : requests[x] \notin {o}}
            /\ \A x \in DOMAIN requests' : requests'[x] = requests[x]
        BY <2>2, <3>3 DEF Drop
      <4> QED BY <2>2, <4>1, <4>2, <4>3, <4>4, <4>5 DEF Settling
    <3>5. /\ Unwound({o}) \in Seq(Tasks)
          /\ \A t \in Range(Unwound({o})) : t.kind # "query" /\ TaskAgrees(t)'
      BY <2>4, <3>4, UnwindingOK
    <3>6. strand' = rest \o Unwound({o})
      BY <2>2, <2>4, <2>9
    <3>7. Arriving({})
      BY <3>5, <3>6, NothingArrives
    <3>8. Agreement'
      BY <2>4, <2>5, <3>2, <3>4, <3>7, SettleOK
    <3>9. strand' \in Seq(Tasks)
      BY <3>7 DEF Arriving
    <3> QED BY <2>6, <2>7, <3>8, <3>9
  <2> QED BY <2>8, <2>9
<1> QED BY <1>1, <1>2
(* stop_on_owner keeps the invariant, and nothing is in flight after it.   *)
LEMMA StopBodyOK ==
    ASSUME IInv, NEW rest, NEW X, Remaining(rest, X), \A t \in X : t.kind # "query" /\ t.kind # "finish",
           Onward, query' = query, queryStopped, StopOnOwner(rest)
    PROVE  /\ strand' \in Seq(Tasks) /\ Agreement' /\ CacheTyped' /\ CacheAgrees'
           /\ inFlight' = <<>> /\ requests' = <<>>
           /\ \A o \in Requests : exchange'[o] # "running" /\ waiters'[o] = {}
<1>1. OperationsTyped /\ OperationsLive /\ WaitersAgree
  BY DEF IInv, Agreement
<1>2. {inFlight[k] : k \in DOMAIN inFlight} = Live
  BY DEF Live, Range
<1>3. /\ completed' = [o \in Requests |-> completed[o] \/ o \in Live]
      /\ EndExchanges(Live)
      /\ strand' = rest \o Unwound(Live)
      /\ PostError(UNION {WaiterIds(o) : o \in Live}, Cancelled)
      /\ waiters' = [o \in Requests |-> IF o \in Live THEN {} ELSE waiters[o]]
      /\ inFlight' = <<>> /\ requests' = <<>>
      /\ opKey' = opKey /\ UNCHANGED cacheVars
  BY <1>2 DEF StopOnOwner
<1>4. Live \subseteq Requests
  BY <1>1 DEF OperationsTyped, Live
<1>5. Settling(Live)
  <2>1. DOMAIN inFlight' = {} /\ DOMAIN requests' = {}
    BY <1>3
  <2>2. \A k \in DOMAIN inFlight : inFlight[k] \in Live
    BY DEF Live, Range
  <2>3. \A r \in DOMAIN requests : requests[r] \in Live
    BY <1>1 DEF OperationsTyped, OperationsLive, WaitersAgree, WaiterIds, Range
  <2> QED BY <1>3, <2>1, <2>2, <2>3 DEF Settling, EndExchanges
<1>6. /\ Unwound(Live) \in Seq(Tasks)
      /\ \A t \in Range(Unwound(Live)) : t.kind # "query" /\ TaskAgrees(t)'
  BY <1>5, UnwindingOK
<1>7. Arriving({})
  BY <1>3, <1>6, NothingArrives
<1>8. Answering(Waited(Live))
  <2>1. Waited(Live) \in SUBSET Requests
    BY <1>1, <1>4 DEF Waited, WaiterIds, OperationsTyped
  <2>2. PostError(Waited(Live), Cancelled) /\ Cancelled \in Errors /\ queryStopped'
    BY <1>3 DEF Waited, Errors, Onward
  <2> QED BY <2>1, <2>2, ErrorsOK
<1>9. Agreement'
  BY <1>5, <1>7, <1>8, SettleOK
<1>10. CacheTyped' /\ CacheAgrees'
  BY <1>3, CacheKept
<1>11. \A o \in Requests : exchange'[o] # "running" /\ waiters'[o] = {}
  <2>1. \A o \in Requests : exchange[o] = "running" => o \in Live
    BY <1>1 DEF OperationsLive
  <2>2. \A o \in Requests : o \notin Live => waiters[o] = {}
    BY <1>1 DEF OperationsLive
  <2> QED BY <1>3, <2>1, <2>2 DEF EndExchanges
<1>12. strand' \in Seq(Tasks)
  BY <1>7 DEF Arriving
<1> QED BY <1>3, <1>9, <1>10, <1>11, <1>12

(* The answers complete() hands to the waiters are their own: their id,    *)
(* their packet, born now.                                                 *)
LEMMA DeliverOK ==
    ASSUME IInv, Onward, NEW o \in Requests, NEW result \in Results, Deliver(waiters[o], result),
           result.ok => result.key = opKey[o], result # Err(Cancelled)
    PROVE  Answering(WaiterIds(o))
<1>1. /\ waiters \in [Requests -> SUBSET [id : Requests, responseId : PacketIds]]
      /\ answers \in [Requests -> Seq(Answers)]
      /\ clock \in 0..MaxClock
  BY DEF IInv, Agreement, OperationsTyped, CallsTyped
<1>2. ASSUME NEW r \in WaiterIds(o)
      PROVE  \E a \in Answers : answers'[r] = Append(answers[r], a) /\ Own(r, a)'
  <2> DEFINE w == CHOOSE v \in waiters[o] : v.id = r
             a == IF result.ok THEN Rewritten(result, w.responseId, clock) ELSE result
  <2>1. w \in waiters[o] /\ w.id = r
    BY <1>2 DEF WaiterIds
  <2>2. r \in Requests
    BY <1>1, <2>1
  <2>3. answers'[r] = Append(answers[r], a)
    <3>1. \E v \in waiters[o] : v.id = r
      BY <2>1
    <3> QED BY <2>2, <3>1 DEF Deliver
  <2> HIDE DEF w
  <2>4. w.responseId = query'[r].id /\ CacheKey(query'[r].wire) = opKey[o] /\ w.responseId \in PacketIds
    <3>1. /\ w.id <= Len(query) /\ w.responseId = query[w.id].id
          /\ CacheKey(query[w.id].wire) = opKey[o]
      BY <2>1 DEF IInv, Agreement, WaitersAgree
    <3> QED BY <1>1, <2>1, <2>2, <3>1 DEF Onward
  <2>5. /\ a \in Answers /\ a # Err(Cancelled) /\ Fresh(a)
        /\ a.ok => a.id = query'[r].id /\ a.key = CacheKey(query'[r].wire)
    <3>1. CASE result.ok
      <4>1. a = Rewritten(result, w.responseId, clock)
        BY <3>1
      <4>2. result.packet \in Responses /\ result.key \in Keys
        BY <3>1 DEF Results
      <4>3. /\ a \in Answers /\ a.ok /\ a.at = a.born /\ a.key = opKey[o] /\ a.id = w.responseId
        BY <1>1, <2>4, <3>1, <4>1, <4>2 DEF Rewritten, Answers
      <4> QED BY <2>4, <4>3 DEF Fresh, Err
    <3>2. CASE ~result.ok
      <4>1. a = result /\ result \in [ok : {FALSE}, error : Errors]
        BY <3>2 DEF Results
      <4> QED BY <3>2, <4>1 DEF Answers, Fresh
    <3> QED BY <3>1, <3>2
  <2> HIDE DEF a
  <2>6. PICK b : b = a
    OBVIOUS
  <2>7. b \in Answers /\ answers'[r] = Append(answers[r], b) /\ b # Err(Cancelled) /\ Fresh(b)
        /\ (b.ok => b.id = query'[r].id /\ b.key = CacheKey(query'[r].wire))
    BY <2>3, <2>5, <2>6
  <2>8. Own(r, b)'
    BY <2>7 DEF Own, Fresh, CacheKey, GroupOf
  <2> QED BY <2>7, <2>8
<1>3. \A r \in Requests \ WaiterIds(o) : answers'[r] = answers[r]
  <2>1. ASSUME NEW r \in Requests, r \notin WaiterIds(o) PROVE ~\E w \in waiters[o] : w.id = r
    BY <2>1 DEF WaiterIds
  <2> QED BY <2>1 DEF Deliver
<1>4. answers' = [r \in Requests |-> answers'[r]]
  BY DEF Deliver
<1> QED BY <1>2, <1>3, <1>4 DEF Answering

(* finish() keeps the invariant, the first one with complete() and a       *)
(* later one, which does nothing.                                          *)
LEMMA FinishBodyOK ==
    ASSUME IInv, NEW rest, NEW t \in Posted, Remaining(rest, {t}), t.kind = "finish",
           Onward, query' = query, strand' = rest, FinishOperation(t.op, t.result)
    PROVE  /\ strand' \in Seq(Tasks) /\ Agreement' /\ CacheTyped' /\ CacheAgrees'
           /\ inFlight = <<>> => UNCHANGED operationVars
<1>1. OperationsTyped /\ OperationsLive /\ WaitersAgree /\ TaskAgrees(t) /\ t \in Tasks
  BY DEF IInv, Agreement, TasksAgree, Posted, CallsTyped, Range
<1>2. PICK o, result : o = t.op /\ result = t.result
  OBVIOUS
<1>3. /\ o \in Requests /\ result \in Results /\ Opened(o) /\ exchange[o] = "done"
      /\ result.ok => result.key = opKey[o]
      /\ result = Err(Cancelled) => completed[o]
  BY <1>1, <1>2 DEF TaskAgrees, Tasks
<1>4. Len(query)' \in Nat
  BY DEF IInv, CallsTyped
<1>5. strand' \in Seq(Tasks)
  BY DEF Remaining
<1>6. CASE completed[o]
  <2>1. UNCHANGED operationVars /\ UNCHANGED cacheVars /\ answers' = answers
    BY <1>2, <1>6 DEF FinishOperation, operationVars
  <2>2. o \notin Live'
    BY <1>1, <1>3, <1>6, <2>1 DEF OperationsLive, operationVars, Live, Range
  <2>3. Arriving({})
    <3>1. \A x \in {t} : x.kind # "query" /\ (x.kind = "finish" => x.op \notin Live')
      BY <1>2, <2>2
    <3> QED BY <3>1, NothingPosted
  <2>4. Answering({})
    BY <2>1, NobodyAnswered
  <2> QED BY <1>4, <1>5, <2>1, <2>3, <2>4, StayOK, CacheKept
<1>7. CASE ~completed[o]
  <2>1. /\ opKey' = opKey /\ exchange' = exchange
        /\ completed' = [completed EXCEPT ![o] = TRUE]
        /\ inFlight' = Retire(o) /\ Store(o, result)
        /\ requests' = DropAll(requests, WaiterIds(o))
        /\ Deliver(waiters[o], result)
        /\ waiters' = [waiters EXCEPT ![o] = {}]
    BY <1>2, <1>7 DEF FinishOperation, Complete
  <2>2. o \in Live
    BY <1>1, <1>3, <1>7 DEF OperationsLive
  <2>3. Answering(WaiterIds(o))
    BY <1>3, <1>7, <2>1, DeliverOK
  <2>4. Waited({o}) = WaiterIds(o)
    BY DEF Waited
  <2>5. Settling({o})
    <3>1. completed' = [p \in Requests |-> completed[p] \/ p \in {o}]
      <4>1. completed \in [Requests -> BOOLEAN]
        BY <1>1 DEF OperationsTyped
      <4>2. \A p \in Requests : completed'[p] = (completed[p] \/ p \in {o})
        BY <1>3, <2>1, <4>1
      <4> QED BY <2>1, <4>1, <4>2
    <3>2. exchange' = [p \in Requests |-> IF p \in {o} THEN "done" ELSE exchange[p]]
      BY <1>1, <1>3, <2>1 DEF OperationsTyped
    <3>3. waiters' = [p \in Requests |-> IF p \in {o} THEN {} ELSE waiters[p]]
      BY <1>1, <1>3, <2>1 DEF OperationsTyped
    <3>4. /\ DOMAIN inFlight' = {k \in DOMAIN inFlight : inFlight[k] \notin {o}}
          /\ \A k \in DOMAIN inFlight' : inFlight'[k] = inFlight[k]
      BY <2>1, <2>2, RetireOK
    <3>5. \A x \in DOMAIN requests : x \notin WaiterIds(o) <=> requests[x] \notin {o}
      <4>1. \A x \in DOMAIN requests : x \in Requests
        BY <1>1 DEF OperationsTyped
      <4> QED BY <1>1, <1>3, <4>1 DEF WaitersAgree
    <3>6. /\ DOMAIN requests' = {x \in DOMAIN requests : requests[x] \notin {o}}
          /\ \A x \in DOMAIN requests' : requests'[x] = requests[x]
      BY <2>1, <3>5 DEF DropAll
    <3> QED BY <2>1, <3>1, <3>2, <3>3, <3>4, <3>6 DEF Settling
  <2>6. o \notin Live'
    BY <2>2, <2>5, UnwindingOK
  <2>7. Arriving({})
    <3>1. \A x \in {t} : x.kind # "query" /\ (x.kind = "finish" => x.op \notin Live')
      BY <1>2, <2>6
    <3> QED BY <3>1, NothingPosted
  <2>8. Agreement'
    BY <2>2, <2>3, <2>4, <2>5, <2>7, SettleOK
  <2>9. CacheTyped' /\ CacheAgrees'
    BY <1>3, <2>1, StoreOK
  <2>10. inFlight # <<>>
    <3>1. DOMAIN <<>> = {} /\ DOMAIN inFlight # {}
      BY <2>2 DEF Live, Range
    <3> QED BY <3>1
  <2> QED BY <1>5, <2>8, <2>9, <2>10
<1> QED BY <1>6, <1>7
-----------------------------------------------------------------------------
(* The actions.                                                             *)

\* A query is posted.
LEMMA PostedOK ==
    ASSUME IInv, NEW r \in Requests, r = Len(query) + 1, NEW q, query' = Append(query, q),
           strand' = Append(strand, QueryTask(r)), Onward, Len(query)' = r,
           UNCHANGED <<operationVars, answers>>
    PROVE  Agreement' /\ strand' \in Seq(Tasks)
<1>1. QueryTask(r) \in Tasks /\ strand \in Seq(Tasks) /\ QueriesOnce(strand)
  BY DEF QueryTask, Tasks, IInv, CallsTyped, Agreement, InOnePlace
<1>2. /\ Len(query) \in Nat /\ \A x \in Requests : x \in Nat
      /\ answers' = answers /\ answers \in [Requests -> Seq(Answers)]
      /\ requests' = requests /\ opKey' = opKey
  BY DEF IInv, CallsTyped, Agreement, OperationsTyped, Requests, operationVars
<1>3. strand' \in Seq(Tasks) /\ Posted' = Posted \cup {QueryTask(r)}
  BY <1>1, Appended DEF Posted, Range
<1>4. QueryTask(r) \notin Posted
  BY <1>2 DEF IInv, Agreement, InOnePlace
<1>5. QueriesOnce(strand')
  BY <1>1, <1>4, OnceAppended DEF Posted
<1>6. AnswersAgree'
  <2>1. Answering({})
    BY <1>2, NobodyAnswered
  <2> QED BY <2>1, AnsweringOK
<1>7. TasksAgree'
  <2>1. \A t \in Posted : TaskAgrees(t)
    BY DEF IInv, Agreement, TasksAgree
  <2>2. \A t \in Posted : TaskAgrees(t)'
    BY <2>1 DEF TaskAgrees, Opened, Onward, operationVars
  <2>3. TaskAgrees(QueryTask(r))'
    BY DEF TaskAgrees, QueryTask
  <2> QED BY <1>3, <2>2, <2>3 DEF TasksAgree
<1>8. OperationsTyped' /\ OperationsLive' /\ LiveEnds' /\ WaitersAgree'
  BY <1>2, <1>3, OperationsStay
<1>9. InOnePlace'
  <2>1. InOnePlace /\ OperationsLive
    BY DEF IInv, Agreement
  <2>2. r \notin DOMAIN requests /\ ~Opened(r) /\ Unanswered(r)
    <3>1. \A x \in DOMAIN requests : x \in Requests /\ requests[x] \in Requests
      BY DEF IInv, Agreement, OperationsTyped, Range
    <3>2. r \in DOMAIN requests => r <= Len(query)
      BY <3>1 DEF IInv, Agreement, WaitersAgree, WaiterIds
    <3> QED BY <1>2, <2>1, <3>2 DEF InOnePlace, OperationsLive
  <2>3. ASSUME NEW x \in Requests, QueryTask(x) \in Posted'
        PROVE  x <= Len(query)' /\ Unanswered(x)' /\ x \notin DOMAIN requests' /\ ~Opened(x)'
    <3>1. x = r \/ QueryTask(x) \in Posted
      BY <1>3, <2>3 DEF QueryTask
    <3> QED BY <1>2, <2>1, <2>2, <3>1 DEF InOnePlace, Unanswered, Opened
  <2>4. ASSUME NEW x \in Requests, x <= Len(query)', Unanswered(x)', x \notin DOMAIN requests'
        PROVE  QueryTask(x) \in Posted'
    <3>1. CASE x = r
      BY <1>3, <3>1
    <3>2. CASE x # r
      BY <1>2, <1>3, <2>1, <2>4, <3>2 DEF InOnePlace, Unanswered
    <3> QED BY <3>1, <3>2
  <2>5. \A x \in DOMAIN requests' : Unanswered(x)'
    BY <1>2, <2>1 DEF InOnePlace, Unanswered
  <2>6. \A x \in Requests : x > Len(query)' => Unanswered(x)'
    BY <1>2, <2>1 DEF InOnePlace, Unanswered
  <2> QED BY <1>5, <2>3, <2>4, <2>5, <2>6 DEF InOnePlace, QueryTask
<1> QED BY <1>3, <1>6, <1>7, <1>8, <1>9 DEF Agreement

\* What every step but those of stop() brings.
LEMMA Together ==
    ASSUME IInv, Agreement', CacheTyped', CacheAgrees', CallsTyped', UNCHANGED <<queryStopped, gate, stopAt>>,
           stopAt = "done" => UNCHANGED operationVars
    PROVE  IInv'
<1>1. StopInOrder'
  BY DEF IInv, StopInOrder
<1>2. StoppedIsQuiet'
  BY DEF IInv, StoppedIsQuiet, operationVars
<1> QED BY <1>1, <1>2 DEF IInv

(* A service whose stop() has returned has no exchange and no waiter.      *)
LEMMA QuietFacts ==
    ASSUME IInv, stopAt = "done"
    PROVE  inFlight = <<>> /\ requests = <<>> /\ queryStopped /\ ~gate
BY DEF IInv, StoppedIsQuiet, StopInOrder

(* query() keeps the invariant, posted or run at once.                     *)
LEMMA QueryOK ==
    ASSUME IInv, NEW w \in Wires, NEW id \in PacketIds, Query(w, id)
    PROVE  IInv'
<1>1. PICK r, q : r = Len(query) + 1 /\ q = [wire |-> w, id |-> id]
  OBVIOUS
<1>2. /\ r \in Requests /\ query' = Append(query, q)
      /\ UNCHANGED <<cancelAsked, clears, stopVars, envVars, touched>>
  BY <1>1 DEF Query
<1>3. /\ query \in Seq([wire : Wires, id : PacketIds]) /\ Len(query) \in Nat /\ q \in [wire : Wires, id : PacketIds]
      /\ MaxRequest \in Nat
  BY <1>1, DnsQueryAssumption DEF IInv, CallsTyped
<1>4. /\ query' \in Seq([wire : Wires, id : PacketIds]) /\ Len(query') = r /\ query'[r] = q
      /\ \A x \in Requests : x <= Len(query) => query'[x] = query[x]
  BY <1>1, <1>2, <1>3 DEF Requests
<1>5. Onward /\ Len(query)' \in Nat /\ Len(query)' = r
  <2>1. Len(query)' = r /\ r \in Nat /\ Len(query) <= r
    BY <1>1, <1>3, <1>4
  <2>2. cancelAsked' = cancelAsked /\ queryStopped' = queryStopped /\ gate' = gate
    BY <1>2 DEF stopVars
  <2> QED BY <1>4, <2>1, <2>2 DEF Onward
<1>6. ASSUME strand' \in Seq(Tasks) PROVE CallsTyped'
  <2>1. Len(query') <= MaxRequest
    BY <1>2, <1>3, <1>4 DEF Requests
  <2> QED BY <1>2, <1>4, <1>6, <2>1 DEF IInv, CallsTyped, stopVars, envVars
<1>7. CASE Post([kind |-> "query", r |-> r]) /\ UNCHANGED <<operationVars, cacheVars, answers>>
  <2>1. Agreement' /\ strand' \in Seq(Tasks)
    BY <1>1, <1>2, <1>5, <1>7, PostedOK DEF Post, QueryTask
  <2>2. CacheTyped' /\ CacheAgrees'
    BY <1>7, CacheKept
  <2> QED BY <1>2, <1>6, <1>7, <2>1, <2>2, Together DEF stopVars
<1>8. CASE QueryOnOwner(r, q) /\ UNCHANGED strand
  <2>1. /\ Unanswered(r) /\ r \notin DOMAIN requests /\ ~Opened(r) /\ QueryTask(r) \notin Posted
    <3>1. \A x \in DOMAIN requests : x \in Requests /\ requests[x] \in Requests
      BY DEF IInv, Agreement, OperationsTyped, Range
    <3>2. r \in DOMAIN requests => r <= Len(query)
      BY <3>1 DEF IInv, Agreement, WaitersAgree, WaiterIds
    <3> QED BY <1>1, <1>2, <1>3, <3>2 DEF IInv, Agreement, InOnePlace, OperationsLive
  <2>2. Arriving({r})
    <3>1. Posted' = Posted /\ strand' = strand /\ strand \in Seq(Tasks) /\ QueriesOnce(strand)
      BY <1>8 DEF Posted, Range, IInv, CallsTyped, Agreement, InOnePlace
    <3>2. \A x \in Requests : x <= Len(query)' <=> x <= Len(query) \/ x \in {r}
      BY <1>1, <1>3, <1>5 DEF Requests
    <3>3. \A x \in Requests : QueryTask(x) \in Posted' <=> QueryTask(x) \in Posted /\ x \notin {r}
      BY <2>1, <3>1
    <3> QED BY <1>5, <2>1, <3>1, <3>2, <3>3 DEF Arriving
  <2>3. /\ Agreement' /\ CacheTyped' /\ CacheAgrees'
        /\ queryStopped => UNCHANGED operationVars
    BY <1>2, <1>3, <1>4, <1>8, <2>2, QueryBodyOK
  <2>4. CallsTyped'
    BY <1>6, <2>2 DEF Arriving
  <2> QED BY <1>2, <2>3, <2>4, QuietFacts, Together DEF stopVars
<1> QED BY <1>1, <1>7, <1>8 DEF Query
\* Steps that leave the calls alone.
LEMMA SameCalls ==
    ASSUME IInv, UNCHANGED <<query, queryStopped, gate>>, cancelAsked \subseteq cancelAsked'
    PROVE  Onward /\ Len(query)' \in Nat
BY DEF Onward, IInv, CallsTyped

(* cancel() keeps the invariant, posted or run at once.                    *)
LEMMA CancelOK ==
    ASSUME IInv, NEW r \in Requests, Cancel(r)
    PROVE  IInv'
<1>1. /\ cancelAsked' = cancelAsked \cup {r}
      /\ UNCHANGED <<query, clears, stopVars, envVars, touched>>
  BY DEF Cancel
<1>2. Onward /\ Len(query)' \in Nat
  BY <1>1, SameCalls DEF stopVars
<1>3. ASSUME strand' \in Seq(Tasks) PROVE CallsTyped'
  BY <1>1, <1>3 DEF IInv, CallsTyped, stopVars, envVars
<1>4. CASE Post([kind |-> "cancel", r |-> r]) /\ UNCHANGED <<operationVars, cacheVars, answers>>
  <2>1. PICK t : t = [kind |-> "cancel", r |-> r]
    OBVIOUS
  <2>2. t \in Tasks /\ t.kind = "cancel" /\ t.r = r /\ strand' = Append(strand, t)
    BY <1>4, <2>1 DEF Tasks, Post
  <2>3. TaskAgrees(t)'
    BY <1>1, <2>2 DEF TaskAgrees
  <2>4. t.kind # "query"
    BY <2>2
  <2>5. Arriving({})
    BY <1>1, <1>2, <2>2, <2>3, <2>4, OnePosted
  <2>6. Agreement'
    BY <1>4, <2>5, NobodyAnswered, StayOK
  <2>7. CacheTyped' /\ CacheAgrees'
    BY <1>4, CacheKept
  <2>8. CallsTyped'
    BY <1>3, <2>5 DEF Arriving
  <2> QED BY <1>1, <1>4, <2>6, <2>7, <2>8, Together DEF stopVars
<1>5. CASE CancelOnOwner(r, strand)
  <2>1. /\ strand' \in Seq(Tasks) /\ Agreement' /\ CacheTyped' /\ CacheAgrees'
        /\ requests = <<>> => UNCHANGED operationVars
    BY <1>1, <1>2, <1>5, AllRemains, CancelBodyOK
  <2>2. CallsTyped'
    BY <1>3, <2>1
  <2> QED BY <1>1, <2>1, <2>2, QuietFacts, Together DEF stopVars
<1> QED BY <1>4, <1>5 DEF Cancel
\* Steps that reach neither the strand, nor operations, nor the cache.
LEMMA CalmOK ==
    ASSUME IInv, UNCHANGED <<strand, query, cancelAsked, operationVars, cacheVars, answers>>,
           queryStopped => queryStopped', gate' => gate
    PROVE  Agreement' /\ CacheTyped' /\ CacheAgrees'
<1>1. Onward /\ Len(query)' \in Nat
  BY DEF Onward, IInv, CallsTyped
<1>2. Arriving({})
  BY <1>1, AllRemains, NothingPosted
<1>3. Agreement'
  BY <1>2, NobodyAnswered, StayOK
<1> QED BY <1>3, CacheKept

(* clear_cache() keeps the invariant, posted or run at once.               *)
LEMMA ClearCacheOK ==
    ASSUME IInv, ClearCache
    PROVE  IInv'
<1>1. /\ clears < MaxClears /\ clears' = clears + 1
      /\ UNCHANGED <<query, cancelAsked, stopVars, operationVars, envVars, answers, touched>>
  BY DEF ClearCache
<1>2. Onward /\ Len(query)' \in Nat
  BY <1>1, SameCalls DEF stopVars
<1>3. ASSUME strand' \in Seq(Tasks) PROVE CallsTyped'
  <2>1. clears' \in 0..MaxClears
    BY <1>1, DnsQueryAssumption DEF IInv, CallsTyped
  <2> QED BY <1>1, <1>3, <2>1 DEF IInv, CallsTyped, stopVars, envVars
<1>4. CASE Post([kind |-> "clear"]) /\ UNCHANGED cacheVars
  <2>1. PICK t : t = [kind |-> "clear"]
    OBVIOUS
  <2>2. t \in Tasks /\ t.kind = "clear" /\ strand' = Append(strand, t)
    BY <1>4, <2>1 DEF Tasks, Post
  <2>3. TaskAgrees(t)' /\ t.kind # "query"
    BY <2>2 DEF TaskAgrees
  <2>4. Arriving({})
    BY <1>1, <1>2, <2>2, <2>3, OnePosted
  <2>5. Agreement'
    BY <1>1, <2>4, NobodyAnswered, StayOK
  <2>6. CacheTyped' /\ CacheAgrees'
    BY <1>4, CacheKept
  <2>7. CallsTyped'
    BY <1>3, <2>4 DEF Arriving
  <2> QED BY <1>1, <2>5, <2>6, <2>7, Together DEF stopVars
<1>5. CASE ClearAll /\ UNCHANGED strand
  <2>1. Arriving({})
    BY <1>1, <1>2, <1>5, AllRemains, NothingPosted
  <2>2. Agreement'
    BY <1>1, <2>1, NobodyAnswered, StayOK
  <2>3. CacheTyped' /\ CacheAgrees'
    BY <1>5, ClearOK
  <2>4. CallsTyped'
    BY <1>3, <2>1 DEF Arriving
  <2> QED BY <1>1, <2>2, <2>3, <2>4, Together DEF stopVars
<1> QED BY <1>4, <1>5 DEF ClearCache

(* stop() keeps the invariant as it sets stopped_.                         *)
LEMMA StopFlagOK ==
    ASSUME IInv, StopFlag
    PROVE  IInv'
<1>1. /\ stopAt = "idle" /\ queryStopped' = TRUE /\ stopAt' = "flag"
      /\ UNCHANGED <<strand, callVars, gate, alive, operationVars, cacheVars, envVars, answers, touched>>
  BY DEF StopFlag
<1>2. Agreement' /\ CacheTyped' /\ CacheAgrees'
  BY <1>1, CalmOK DEF callVars
<1>3. CallsTyped'
  BY <1>1 DEF IInv, CallsTyped, callVars, envVars
<1>4. StopInOrder' /\ StoppedIsQuiet'
  BY <1>1 DEF IInv, StopInOrder, StoppedIsQuiet
<1> QED BY <1>2, <1>3, <1>4 DEF IInv

(* stop() keeps the invariant as it closes the gate.                       *)
LEMMA StopGateOK ==
    ASSUME IInv, StopGate
    PROVE  IInv'
<1>1. /\ stopAt = "flag" /\ gate' = FALSE /\ stopAt' = "gate"
      /\ UNCHANGED <<strand, callVars, queryStopped, alive, operationVars, cacheVars, envVars, answers, touched>>
  BY DEF StopGate
<1>2. Agreement' /\ CacheTyped' /\ CacheAgrees'
  BY <1>1, CalmOK DEF callVars
<1>3. CallsTyped'
  BY <1>1 DEF IInv, CallsTyped, callVars, envVars
<1>4. StopInOrder' /\ StoppedIsQuiet'
  BY <1>1 DEF IInv, StopInOrder, StoppedIsQuiet
<1> QED BY <1>2, <1>3, <1>4 DEF IInv

(* stop() keeps the invariant as it posts or runs stop_on_owner.           *)
LEMMA StopDispatchOK ==
    ASSUME IInv, StopDispatch
    PROVE  IInv'
<1>1. stopAt = "gate" /\ UNCHANGED <<callVars, queryStopped, gate, alive, envVars, touched>>
  BY DEF StopDispatch
<1>2. queryStopped /\ ~gate
  BY <1>1 DEF IInv, StopInOrder
<1>3. Onward /\ Len(query)' \in Nat
  BY <1>1, SameCalls DEF callVars
<1>4. ASSUME strand' \in Seq(Tasks), stopAt' \in {"posted", "done"} PROVE CallsTyped' /\ StopInOrder'
  BY <1>1, <1>2, <1>4 DEF IInv, CallsTyped, StopInOrder, callVars, envVars
<1>5. CASE Post([kind |-> "stop"]) /\ stopAt' = "posted" /\ UNCHANGED <<operationVars, cacheVars, answers>>
  <2>1. PICK t : t = [kind |-> "stop"]
    OBVIOUS
  <2>2. t \in Tasks /\ t.kind = "stop" /\ strand' = Append(strand, t)
    BY <1>5, <2>1 DEF Tasks, Post
  <2>3. TaskAgrees(t)' /\ t.kind # "query"
    BY <1>1, <1>2, <2>2 DEF TaskAgrees
  <2>4. Arriving({})
    BY <1>1, <1>3, <2>2, <2>3, OnePosted DEF callVars
  <2>5. Agreement'
    BY <1>5, <2>4, NobodyAnswered, StayOK
  <2>6. CacheTyped' /\ CacheAgrees'
    BY <1>5, CacheKept
  <2>7. CallsTyped' /\ StopInOrder'
    BY <1>4, <1>5, <2>4 DEF Arriving
  <2>8. StoppedIsQuiet'
    BY <1>5 DEF StoppedIsQuiet
  <2> QED BY <2>5, <2>6, <2>7, <2>8 DEF IInv
<1>6. CASE StopOnOwner(strand) /\ stopAt' = "done"
  <2>1. /\ strand' \in Seq(Tasks) /\ Agreement' /\ CacheTyped' /\ CacheAgrees'
        /\ inFlight' = <<>> /\ requests' = <<>>
        /\ \A o \in Requests : exchange'[o] # "running" /\ waiters'[o] = {}
    <3>1. \A t \in {} : t.kind # "query" /\ t.kind # "finish"
      OBVIOUS
    <3> QED BY <1>1, <1>2, <1>3, <1>6, <3>1, AllRemains, StopBodyOK DEF callVars
  <2>2. CallsTyped' /\ StopInOrder'
    BY <1>4, <1>6, <2>1
  <2>3. StoppedIsQuiet'
    BY <2>1 DEF StoppedIsQuiet
  <2> QED BY <2>1, <2>2, <2>3 DEF IInv
<1> QED BY <1>5, <1>6 DEF StopDispatch

(* The destructor keeps the invariant.                                     *)
LEMMA DestroyOK ==
    ASSUME IInv, Destroy
    PROVE  IInv'
<1>1. /\ alive' = FALSE
      /\ UNCHANGED <<strand, callVars, queryStopped, gate, stopAt, operationVars, cacheVars, envVars,
                     answers, touched>>
  BY DEF Destroy
<1>2. Agreement' /\ CacheTyped' /\ CacheAgrees'
  BY <1>1, CalmOK DEF callVars
<1>3. CallsTyped'
  BY <1>1 DEF IInv, CallsTyped, callVars, envVars
<1> QED BY <1>1, <1>2, <1>3, Together

(* The end of an exchange, which posts finish(), keeps the invariant.      *)
LEMMA UpstreamEndsOK ==
    ASSUME IInv, NEW o \in Requests, UpstreamEnds(o)
    PROVE  IInv'
<1>1. /\ exchange[o] = "running" /\ exchange' = [exchange EXCEPT ![o] = "done"]
      /\ UNCHANGED <<callVars, stopVars, opKey, waiters, completed, inFlight, requests,
                     cacheVars, envVars, answers, touched>>
  BY DEF UpstreamEnds
<1>2. PICK result \in {Err(Failed)} \cup {Packet(p, opKey[o]) : p \in Responses} :
          Post([kind |-> "finish", op |-> o, result |-> result])
  BY DEF UpstreamEnds
<1>3. OperationsTyped /\ OperationsLive
  BY DEF IInv, Agreement
<1>4. Opened(o) /\ opKey[o] \in Keys /\ o \in Live
  BY <1>1, <1>3 DEF OperationsTyped, OperationsLive, Opened
<1>5. result \in Results /\ (result.ok => result.key = opKey[o]) /\ result # Err(Cancelled)
  <2>1. CASE result = Err(Failed)
    BY <2>1 DEF Err, Results, Errors, Failed, Cancelled
  <2>2. ASSUME NEW p \in Responses, result = Packet(p, opKey[o])
        PROVE  result \in Results /\ result.key = opKey[o] /\ result # Err(Cancelled)
    <3>1. result = [ok |-> TRUE, packet |-> p, key |-> opKey[o]] /\ result.ok = TRUE
      BY <2>2 DEF Packet
    <3>2. Err(Cancelled).ok = FALSE
      BY DEF Err
    <3>3. result \in Results
      BY <1>4, <3>1 DEF Results
    <3> QED BY <3>1, <3>2, <3>3
  <2> QED BY <1>2, <2>1, <2>2
<1>6. PICK t : t = [kind |-> "finish", op |-> o, result |-> result]
  OBVIOUS
<1>7. t \in Tasks /\ t.kind = "finish" /\ t.op = o /\ t.result = result /\ strand' = Append(strand, t)
  BY <1>2, <1>5, <1>6 DEF Tasks, Post
<1>8. Onward /\ Len(query)' \in Nat
  BY <1>1, SameCalls DEF callVars, stopVars
<1>9. TaskAgrees(t)'
  <2>1. exchange'[o] = "done" /\ opKey'[o] = opKey[o]
    BY <1>1, <1>3 DEF OperationsTyped
  <2> QED BY <1>4, <1>5, <1>7, <2>1 DEF TaskAgrees, Opened
<1>10. Arriving({}) /\ t \in Posted'
  BY <1>1, <1>7, <1>8, <1>9, OnePosted DEF callVars
<1>11. Agreement'
  <2>1. \E x \in Posted' : x.kind = "finish" /\ x.op = o
    BY <1>7, <1>10
  <2> QED BY <1>1, <1>10, <2>1, NobodyAnswered, EndOK
<1>12. CacheTyped' /\ CacheAgrees'
  BY <1>1, CacheKept
<1>13. CallsTyped'
  BY <1>1, <1>10 DEF Arriving, IInv, CallsTyped, callVars, stopVars, envVars
<1>14. stopAt # "done"
  BY <1>1 DEF IInv, StoppedIsQuiet
<1> QED BY <1>1, <1>11, <1>12, <1>13, <1>14, Together DEF stopVars
-----------------------------------------------------------------------------
(* The strand runs one closure.                                             *)

(* A posted query keeps the invariant as it runs, before the gate and      *)
(* behind it.                                                              *)
LEMMA RunQueryOK ==
    ASSUME IInv, StrandStep("query")
    PROVE  IInv'
<1>1. PICK t, rest : t = Head(strand) /\ rest = Tail(strand)
  OBVIOUS
<1>2. /\ strand # <<>> /\ t.kind = "query" /\ RunQuery(t, rest)
      /\ UNCHANGED <<callVars, queryStopped, gate, alive, envVars>>
  BY <1>1 DEF StrandStep
<1>3. strand' = rest /\ stopAt' = stopAt
  BY <1>2 DEF RunQuery
<1>4. /\ t \in Tasks /\ t \in Posted /\ Remaining(rest, {t}) /\ rest \in Seq(Tasks)
      /\ Posted = {t} \cup Range(rest)
  <2>1. strand \in Seq(Tasks)
    BY DEF IInv, CallsTyped
  <2> QED BY <1>1, <1>2, <2>1, TailRemains, TakenOff DEF Posted, Remaining
<1>5. t.r \in Requests /\ t = QueryTask(t.r)
  BY <1>2, <1>4 DEF Tasks, QueryTask
<1>6. PICK r : r = t.r
  OBVIOUS
<1>7. r \in Requests /\ t = QueryTask(r) /\ r <= Len(query) /\ Unanswered(r) /\ r \notin DOMAIN requests /\ ~Opened(r)
  BY <1>4, <1>5, <1>6 DEF IInv, Agreement, InOnePlace
<1>8. Onward /\ Len(query)' \in Nat /\ query' = query
  BY <1>2, SameCalls DEF callVars
<1>9. Arriving({r})
  <2>1. Posted' = Range(rest) /\ t \notin Range(rest) /\ QueriesOnce(rest)
    BY <1>2, <1>3, <1>4 DEF Remaining, Posted, Range
  <2>2. \A x \in Requests : QueryTask(x) = t <=> x = r
    BY <1>7 DEF QueryTask
  <2>3. \A x \in Requests : QueryTask(x) \in Posted' <=> QueryTask(x) \in Posted /\ x \notin {r}
    BY <1>4, <2>1, <2>2
  <2>4. \A x \in Requests : x <= Len(query)' <=> x <= Len(query) \/ x \in {r}
    BY <1>7, <1>8
  <2> QED BY <1>2, <1>3, <1>4, <1>7, <1>8, <2>1, <2>3, <2>4 DEF Arriving
<1>10. CallsTyped'
  <2>1. touched' \in BOOLEAN
    <3>1. touched \in BOOLEAN /\ alive \in BOOLEAN
      BY DEF IInv, CallsTyped
    <3>2. touched' = touched \/ touched' = (touched \/ ~alive)
      BY <1>2 DEF RunQuery
    <3>3. CASE touched' = touched
      BY <3>1, <3>3
    <3>4. CASE touched' = (touched \/ ~alive)
      BY <3>1, <3>4
    <3> QED BY <3>2, <3>3, <3>4
  <2> QED BY <1>2, <1>3, <1>4, <2>1 DEF IInv, CallsTyped, callVars, envVars
<1>11. CASE gate /\ QueryOnOwner(r, query[r])
  <2>1. query[r] = query'[r] /\ query[r] \in [wire : Wires, id : PacketIds]
    <3>1. query \in Seq([wire : Wires, id : PacketIds]) /\ r \in 1 .. Len(query)
      BY <1>7 DEF IInv, CallsTyped, Requests
    <3>2. query[r] \in [wire : Wires, id : PacketIds]
      BY <3>1, ElementOfSeq
    <3> QED BY <1>8, <3>2
  <2>2. Agreement' /\ CacheTyped' /\ CacheAgrees'
    BY <1>7, <1>9, <1>11, <2>1, QueryBodyOK
  <2>3. stopAt # "done"
    BY <1>11, QuietFacts
  <2> QED BY <1>2, <1>3, <1>10, <2>2, <2>3, Together
<1>12. CASE ~gate /\ Refuse(r, Cancelled)
  <2>1. queryStopped'
    BY <1>2, <1>12 DEF IInv, StopInOrder
  <2>2. Answering({r})
    BY <1>7, <1>12, <2>1, ErrorsOK DEF Refuse, Errors
  <2>3. Agreement'
    BY <1>7, <1>9, <1>12, <2>2, StayOK DEF Refuse
  <2> QED BY <1>2, <1>3, <1>10, <1>12, <2>3, CacheKept, Together DEF Refuse
<1> QED BY <1>2, <1>6, <1>11, <1>12 DEF RunQuery

(* The other closures of the strand keep the invariant as they run.        *)
LEMMA RunOtherOK ==
    ASSUME IInv, NEW kind \in {"cancel", "clear", "finish", "stop"}, StrandStep(kind)
    PROVE  IInv'
<1>1. PICK t, rest : t = Head(strand) /\ rest = Tail(strand)
  OBVIOUS
<1>2. /\ strand # <<>> /\ t.kind = kind
      /\ UNCHANGED <<callVars, queryStopped, gate, alive, envVars>>
      /\ kind = "cancel" => RunCancel(t, rest)
      /\ kind = "clear" => RunClear(t, rest)
      /\ kind = "finish" => RunFinish(t, rest)
      /\ kind = "stop" => RunStop(t, rest)
  BY <1>1 DEF StrandStep
<1>3. t \in Tasks /\ t \in Posted /\ Remaining(rest, {t}) /\ rest \in Seq(Tasks) /\ TaskAgrees(t)
  <2>1. strand \in Seq(Tasks)
    BY DEF IInv, CallsTyped
  <2>2. t \in Posted /\ Remaining(rest, {t}) /\ rest \in Seq(Tasks) /\ t \in Tasks
    BY <1>1, <1>2, <2>1, TailRemains, TakenOff DEF Posted, Remaining
  <2> QED BY <2>2 DEF IInv, Agreement, TasksAgree
<1>4. Onward /\ Len(query)' \in Nat /\ query' = query /\ cancelAsked' = cancelAsked
  BY <1>2, SameCalls DEF callVars
<1>5. ASSUME strand' \in Seq(Tasks), touched' = touched, stopAt' = stopAt \/ stopAt' = "done"
      PROVE  CallsTyped'
  BY <1>2, <1>5 DEF IInv, CallsTyped, callVars, envVars
<1>6. \A x \in {t} : x.kind # "query" /\ (x.kind = "finish" => kind = "finish")
  BY <1>2
<1>7. ASSUME strand' = rest, kind # "finish", UNCHANGED <<operationVars, answers, stopAt, touched>>,
             CacheTyped' /\ CacheAgrees'
      PROVE  IInv'
  <2>1. \A x \in {t} : x.kind # "query" /\ (x.kind = "finish" => x.op \notin Live')
    BY <1>6, <1>7
  <2>2. Arriving({})
    BY <1>3, <1>4, <1>7, <2>1, NothingPosted
  <2>3. Agreement'
    BY <1>7, <2>2, NobodyAnswered, StayOK
  <2>4. CallsTyped'
    BY <1>3, <1>5, <1>7
  <2> QED BY <1>2, <1>7, <2>3, <2>4, Together
<1>8. CASE kind = "cancel"
  <2>1. CASE gate
    <3>1. CancelOnOwner(t.r, rest) /\ stopAt' = stopAt /\ touched' = touched
      BY <1>2, <1>8, <2>1 DEF RunCancel
    <3>2. PICK r : r = t.r
      OBVIOUS
    <3>3. r \in Requests /\ r \in cancelAsked' /\ CancelOnOwner(r, rest)
      BY <1>2, <1>3, <1>4, <1>8, <3>1, <3>2 DEF Tasks, TaskAgrees
    <3>4. \A x \in {t} : x.kind # "query" /\ x.kind # "finish"
      BY <1>2, <1>8
    <3>5. strand' \in Seq(Tasks) /\ Agreement' /\ CacheTyped' /\ CacheAgrees'
      BY <1>3, <1>4, <3>3, <3>4, CancelBodyOK
    <3>6. stopAt # "done"
      BY <2>1, QuietFacts
    <3> QED BY <1>2, <1>5, <3>1, <3>5, <3>6, Together
  <2>2. CASE ~gate
    <3>1. strand' = rest /\ UNCHANGED <<operationVars, answers, stopAt, touched>> /\ UNCHANGED cacheVars
      BY <1>2, <1>8, <2>2 DEF RunCancel
    <3> QED BY <1>7, <1>8, <3>1, CacheKept
  <2> QED BY <2>1, <2>2
<1>9. CASE kind = "clear"
  <2>1. strand' = rest /\ UNCHANGED <<operationVars, answers, stopAt, touched>>
        /\ (ClearAll \/ UNCHANGED cacheVars)
    BY <1>2, <1>9 DEF RunClear
  <2>2. CacheTyped' /\ CacheAgrees'
    BY <2>1, ClearOK, CacheKept
  <2> QED BY <1>7, <1>9, <2>1, <2>2
<1>10. CASE kind = "finish"
  <2>1. strand' = rest /\ FinishOperation(t.op, t.result) /\ stopAt' = stopAt /\ touched' = touched
    BY <1>2, <1>10 DEF RunFinish
  <2>2. /\ strand' \in Seq(Tasks) /\ Agreement' /\ CacheTyped' /\ CacheAgrees'
        /\ inFlight = <<>> => UNCHANGED operationVars
    BY <1>2, <1>3, <1>4, <1>10, <2>1, FinishBodyOK
  <2> QED BY <1>2, <1>5, <2>1, <2>2, QuietFacts, Together
<1>11. CASE kind = "stop"
  <2>1. StopOnOwner(rest) /\ stopAt' = "done" /\ touched' = touched
    BY <1>2, <1>11 DEF RunStop
  <2>2. queryStopped /\ ~gate
    BY <1>2, <1>3, <1>11 DEF IInv, StopInOrder, TaskAgrees
  <2>3. \A x \in {t} : x.kind # "query" /\ x.kind # "finish"
    BY <1>2, <1>11
  <2>4. /\ strand' \in Seq(Tasks) /\ Agreement' /\ CacheTyped' /\ CacheAgrees'
        /\ inFlight' = <<>> /\ requests' = <<>>
        /\ \A o \in Requests : exchange'[o] # "running" /\ waiters'[o] = {}
    BY <1>3, <1>4, <2>1, <2>2, <2>3, StopBodyOK
  <2>5. CallsTyped' /\ StopInOrder' /\ StoppedIsQuiet'
    BY <1>2, <1>5, <2>1, <2>2, <2>4 DEF StopInOrder, StoppedIsQuiet
  <2> QED BY <2>4, <2>5 DEF IInv
<1> QED BY <1>8, <1>9, <1>10, <1>11
-----------------------------------------------------------------------------
(* The inductive invariant holds.                                           *)

(* The invariant holds of a new service.                                   *)
LEMMA InitOK == QueryInit => IInv
<1> SUFFICES ASSUME QueryInit
             PROVE  IInv
  OBVIOUS
<1> USE DEF QueryInit
<1>1. /\ <<>> \in Seq(Tasks) /\ <<>> \in Seq([wire : Wires, id : PacketIds]) /\ <<>> \in Seq(Keys)
      /\ <<>> \in Seq(Answers) /\ Len(<<>>) = 0 /\ DOMAIN <<>> = {} /\ Range(<<>>) = {}
  BY DEF Range
<1>2. /\ MaxRequest \in Nat /\ MaxClock \in Nat /\ Capacity \in Nat /\ MaxClears \in Nat /\ MaxRuntimeStops \in Nat
  BY DnsQueryAssumption
<1>3. CallsTyped
  <2>1. strand \in Seq(Tasks) /\ query \in Seq([wire : Wires, id : PacketIds])
    BY <1>1
  <2>2. Len(query) <= MaxRequest
    BY <1>1, <1>2
  <2>3. clock \in 0..MaxClock /\ clears \in 0..MaxClears /\ runtimeStops \in 0..MaxRuntimeStops
    BY <1>2
  <2>4. /\ running \in BOOLEAN /\ cancelAsked \subseteq Requests
        /\ queryStopped \in BOOLEAN /\ gate \in BOOLEAN /\ alive \in BOOLEAN /\ touched \in BOOLEAN
        /\ stopAt \in {"idle", "flag", "gate", "posted", "done"}
    OBVIOUS
  <2> QED BY <2>1, <2>2, <2>3, <2>4 DEF CallsTyped
<1>4. CacheTyped /\ CacheAgrees
  <2>1. DOMAIN cache = {} /\ lru \in Seq(Keys)
    BY <1>1
  <2>2. Range(lru) = {} /\ Distinct(lru) /\ Len(lru) <= Capacity
    BY <1>1, <1>2 DEF Distinct
  <2> QED BY <2>1, <2>2 DEF CacheTyped, CacheAgrees
<1>5. StopInOrder /\ StoppedIsQuiet
  BY DEF StopInOrder, StoppedIsQuiet
<1>6. DOMAIN inFlight = {} /\ DOMAIN requests = {} /\ Live = {} /\ Posted = {}
  BY <1>1 DEF Live, Posted
<1>7. OperationsTyped
  BY <1>1 DEF OperationsTyped
<1>8. OperationsLive /\ LiveEnds
  BY <1>6 DEF OperationsLive, LiveEnds, Opened
<1>9. WaitersAgree
  BY <1>6 DEF WaitersAgree, WaiterIds
<1>10. InOnePlace
  <2>1. QueriesOnce(strand)
    BY <1>1 DEF QueriesOnce
  <2>2. \A r \in Requests : ~(r <= Len(query))
    BY <1>1, <1>2 DEF Requests
  <2> QED BY <1>6, <2>1, <2>2 DEF InOnePlace, Unanswered
<1>11. TasksAgree
  BY <1>6 DEF TasksAgree
<1>12. AnswersAgree
  BY <1>1 DEF AnswersAgree
<1> QED BY <1>3, <1>4, <1>5, <1>7, <1>8, <1>9, <1>10, <1>11, <1>12 DEF IInv, Agreement

(* Every step of the service keeps the invariant.                          *)
LEMMA NextOK == IInv /\ [QueryNext]_serviceVars => IInv'
<1> SUFFICES ASSUME IInv, [QueryNext]_serviceVars
             PROVE  IInv'
  OBVIOUS
<1>1. CASE \E w \in Wires, id \in PacketIds : Query(w, id)
  BY <1>1, QueryOK
<1>2. CASE \E r \in Requests : Cancel(r)
  BY <1>2, CancelOK
<1>3. CASE ClearCache
  BY <1>3, ClearCacheOK
<1>4. CASE StopFlag \/ StopGate \/ StopDispatch \/ Destroy
  BY <1>4, StopFlagOK, StopGateOK, StopDispatchOK, DestroyOK
<1>5. CASE \E kind \in {"query", "cancel", "clear", "finish", "stop"} : StrandStep(kind)
  BY <1>5, RunQueryOK, RunOtherOK
<1>6. CASE \E o \in Requests : UpstreamEnds(o)
  BY <1>6, UpstreamEndsOK
<1>7. ASSUME UNCHANGED <<strand, callVars, stopVars, operationVars, cacheVars, answers, touched>>,
             running' \in BOOLEAN, clock' \in 0..MaxClock, runtimeStops' \in 0..MaxRuntimeStops
      PROVE  IInv'
  <2>1. Agreement' /\ CacheTyped' /\ CacheAgrees'
    BY <1>7, CalmOK DEF callVars, stopVars
  <2>2. CallsTyped'
    BY <1>7 DEF IInv, CallsTyped, callVars, stopVars
  <2> QED BY <1>7, <2>1, <2>2, Together DEF stopVars
<1>8. /\ running \in BOOLEAN /\ clock \in 0..MaxClock /\ runtimeStops \in 0..MaxRuntimeStops
      /\ MaxClock \in Nat /\ MaxRuntimeStops \in Nat
  BY DnsQueryAssumption DEF IInv, CallsTyped
<1>9. CASE ClockTicks
  <2>1. clock' \in 0..MaxClock /\ running' = running /\ runtimeStops' = runtimeStops
    BY <1>8, <1>9 DEF ClockTicks
  <2> QED BY <1>7, <1>8, <1>9, <2>1 DEF ClockTicks
<1>10. CASE RuntimeStart
  BY <1>7, <1>8, <1>10 DEF RuntimeStart
<1>11. CASE RuntimeStop
  <2>1. runtimeStops' \in 0..MaxRuntimeStops /\ running' = FALSE /\ clock' = clock
    BY <1>8, <1>11 DEF RuntimeStop
  <2> QED BY <1>7, <1>8, <1>11, <2>1 DEF RuntimeStop
<1>12. CASE UNCHANGED serviceVars
  BY <1>7, <1>8, <1>12 DEF serviceVars, envVars
<1> QED BY <1>1, <1>2, <1>3, <1>4, <1>5, <1>6, <1>9, <1>10, <1>11, <1>12 DEF QueryNext

(* The agreement of in_flight_, requests_, the waiters, the strand and the  *)
(* cache holds in every state of the service.                               *)
THEOREM IndexesStayInStep == QuerySpec => []IInv
<1>1. QueryInit => IInv
  BY InitOK
<1>2. IInv /\ [QueryNext]_serviceVars => IInv'
  BY NextOK
<1> QED BY <1>1, <1>2, PTL DEF QuerySpec
-----------------------------------------------------------------------------
(* What the service promises.                                               *)

(* A request made is exactly one of answered, waiting and queued: what     *)
(* NoRequestLost counts.                                                   *)
LEMMA OnePlaceOnly ==
    ASSUME IInv, NEW r \in 1..Len(query)
    PROVE  Cardinality({x \in {"answered", "waiting", "queued"} :
               \/ x = "answered" /\ answers[r] # <<>>
               \/ x = "waiting" /\ Waiting(r)
               \/ x = "queued" /\ Queued(r)}) = 1
<1> DEFINE P == {x \in {"answered", "waiting", "queued"} :
                   \/ x = "answered" /\ answers[r] # <<>>
                   \/ x = "waiting" /\ Waiting(r)
                   \/ x = "queued" /\ Queued(r)}
<1>1. r \in Requests /\ r <= Len(query)
  <2>1. Len(query) \in Nat /\ Len(query) <= MaxRequest /\ MaxRequest \in Nat
    BY DnsQueryAssumption DEF IInv, CallsTyped
  <2> QED BY <2>1 DEF Requests
<1>2. OperationsTyped /\ OperationsLive /\ WaitersAgree /\ InOnePlace
  BY DEF IInv, Agreement
<1>3. Waiting(r) <=> r \in DOMAIN requests
  <2>1. ASSUME NEW k \in DOMAIN inFlight, r \in WaiterIds(inFlight[k]) PROVE r \in DOMAIN requests
    <3>1. inFlight[k] \in Requests
      BY <1>2 DEF OperationsTyped, Range
    <3> QED BY <1>1, <1>2, <2>1, <3>1 DEF WaitersAgree
  <2>2. ASSUME r \in DOMAIN requests PROVE \E k \in DOMAIN inFlight : r \in WaiterIds(inFlight[k])
    <3>1. PICK o : o = requests[r]
      OBVIOUS
    <3>2. o \in Requests /\ r \in WaiterIds(o)
      BY <1>1, <1>2, <2>2, <3>1 DEF OperationsTyped, WaitersAgree, Range
    <3>3. o \in Live
      BY <1>2, <3>2 DEF OperationsLive, WaiterIds
    <3> QED BY <3>2, <3>3 DEF Live, Range
  <2> QED BY <2>1, <2>2 DEF Waiting
<1>4. Queued(r) <=> QueryTask(r) \in Posted
  BY DEF Queued, QueryTask, Posted, Range
<1>5. PICK p \in {"answered", "waiting", "queued"} : P = {p}
  <2>1. CASE answers[r] # <<>>
    <3>1. ~Waiting(r) /\ ~Queued(r)
      BY <1>1, <1>2, <1>3, <1>4, <2>1 DEF InOnePlace, Unanswered
    <3>2. P = {"answered"}
      BY <2>1, <3>1
    <3> QED BY <3>2
  <2>2. CASE answers[r] = <<>> /\ Waiting(r)
    <3>1. ~Queued(r)
      BY <1>1, <1>2, <1>3, <1>4, <2>2 DEF InOnePlace
    <3>2. P = {"waiting"}
      BY <2>2, <3>1
    <3> QED BY <3>2
  <2>3. CASE answers[r] = <<>> /\ ~Waiting(r)
    <3>1. Queued(r)
      BY <1>1, <1>2, <1>3, <1>4, <2>3 DEF InOnePlace, Unanswered
    <3>2. P = {"queued"}
      BY <2>3, <3>1
    <3> QED BY <3>2
  <2> QED BY <2>1, <2>2, <2>3
<1> HIDE DEF P
<1>6. Cardinality(P) = 1
  BY <1>5, FS_Singleton
<1> QED BY <1>6 DEF P

(* query() loses no request: until it is answered, once, under its own id   *)
(* and to its own packet, a request is posted or waits for an operation     *)
(* that in_flight_ finds, and a stopped service has nothing left.           *)
THEOREM EveryQueryIsAnswered == QuerySpec => []RequestsAnswered
<1>1. IInv => RequestsAnswered
  <2> SUFFICES ASSUME IInv
               PROVE  RequestsAnswered
    OBVIOUS
  <2>1. QueryTypeOK /\ StoppedIsQuiet
    BY DEF IInv, Agreement, QueryTypeOK
  <2>2. NoRequestLost
    BY OnePlaceOnly DEF NoRequestLost
  <2>3. AnsweredOnceAsAsked
    BY DEF IInv, Agreement, AnswersAgree, Own, AnsweredOnceAsAsked
  <2> QED BY <2>1, <2>2, <2>3 DEF RequestsAnswered
<1> QED BY <1>1, IndexesStayInStep, PTL

(* Equal questions share one exchange: in_flight_, requests_ and the        *)
(* waiters agree about it, a live operation has an end to come, and only a  *)
(* request that was cancelled itself, or one of a stopped service, ends as  *)
(* cancelled.                                                               *)
THEOREM SharedExchanges == QuerySpec => []SharingIsSound
<1>1. IInv => SharingIsSound
  <2> SUFFICES ASSUME IInv
               PROVE  SharingIsSound
    OBVIOUS
  <2>1. OperationsTyped /\ OperationsLive /\ LiveEnds /\ WaitersAgree /\ AnswersAgree
    BY DEF IInv, Agreement
  <2>2. IndexesAgree
    <3>1. ASSUME NEW k \in DOMAIN inFlight
          PROVE  LET o == inFlight[k] IN
                 /\ opKey[o] = k /\ ~completed[o] /\ waiters[o] # {}
                 /\ exchange[o] = "running"
                       \/ \E i \in DOMAIN strand : strand[i].kind = "finish" /\ strand[i].op = o
      <4>1. PICK o : o = inFlight[k]
        OBVIOUS
      <4>2. o \in Live /\ o \in Requests /\ opKey[o] = k
        BY <2>1, <4>1 DEF OperationsTyped, OperationsLive, Live, Range
      <4>3. ~completed[o] /\ waiters[o] # {}
        BY <2>1, <4>2 DEF OperationsLive
      <4>4. exchange[o] = "running"
               \/ \E i \in DOMAIN strand : strand[i].kind = "finish" /\ strand[i].op = o
        BY <2>1, <4>2 DEF LiveEnds, Posted, Range
      <4> QED BY <4>1, <4>2, <4>3, <4>4
    <3>2. \A o \in Requests : waiters[o] # {} => o \in Range(inFlight)
      BY <2>1 DEF OperationsLive, Live
    <3> QED BY <2>1, <3>1, <3>2 DEF IndexesAgree, WaitersAgree
  <2>3. CancelIsIsolated
    BY <2>1 DEF AnswersAgree, Own, CancelIsIsolated
  <2>4. OneExchangePerKey
    <3>1. ASSUME NEW o \in Requests, exchange[o] = "running"
          PROVE  inFlight[opKey[o]] = o
      BY <2>1, <3>1 DEF OperationsLive, Live, Range
    <3> QED BY <3>1 DEF OneExchangePerKey
  <2> QED BY <2>2, <2>3, <2>4 DEF SharingIsSound
<1> QED BY <1>1, IndexesStayInStep, PTL

(* cache_ and cache_lru_ hold the same keys, each once and no more than     *)
(* cache_capacity of them, and nothing is served past its lifetime.         *)
THEOREM CacheStaysSound == QuerySpec => []CacheIsSound
<1>1. IInv => CacheIsSound
  <2> SUFFICES ASSUME IInv
               PROVE  CacheIsSound
    OBVIOUS
  <2>1. lru \in Seq(Keys) /\ Distinct(lru) /\ Range(lru) = DOMAIN cache /\ Len(lru) <= Capacity
    BY DEF IInv, CacheTyped, CacheAgrees
  <2>2. Len(lru) = Cardinality(DOMAIN cache)
    <3>1. Len(lru) \in Nat /\ DOMAIN lru = 1 .. Len(lru)
      BY <2>1
    <3>2. lru \in [1 .. Len(lru) -> DOMAIN cache]
      BY <2>1, <3>1 DEF Range
    <3>3. lru \in Bijection(1 .. Len(lru), DOMAIN cache)
      BY <2>1, <3>1, <3>2 DEF Distinct, Range, Bijection, Injection, Surjection, IsInjective
    <3> QED BY <3>1, <3>3, FS_CountingElements DEF ExistsBijection
  <2>3. AnswersAreFresh
    BY DEF IInv, Agreement, AnswersAgree, Own, Fresh, AnswersAreFresh
  <2> QED BY <2>1, <2>2, <2>3 DEF CacheIsSound, CacheConsistent
<1> QED BY <1>1, IndexesStayInStep, PTL

=============================================================================

--------------------------- MODULE DnsGroupProofs ---------------------------
(***************************************************************************)
(* Proofs about DnsUpstreamGroup, for every set of exchanges, number of    *)
(* members, timeout and backoff.                                           *)
(***************************************************************************)
EXTENDS DnsUpstreamGroup, FiniteSetTheorems, WellFoundedInduction, TLAPS

-----------------------------------------------------------------------------
(* Arithmetic of the member list and of the shares of time. *)

(* Every set of naturals that is not empty has a least element. *)
LEMMA LeastExists ==
    ASSUME NEW S \in SUBSET Nat, S # {}
    PROVE  \E x \in S : \A y \in S : x <= y
<1> DEFINE R == {ss \in Nat \X Nat : ss[1] < ss[2]}
<1>1. R = OpToRel(<, Nat)
  BY Zenon DEF OpToRel
<1>2. IsWellFoundedOn(R, Nat)
  BY <1>1, NatLessThanWellFounded, Zenon
<1> HIDE DEF R
<1>3. PICK x \in S : \A y \in S : ~(<<y, x>> \in R)
  BY <1>2, WFMin, Zenon
<1>4. ASSUME NEW y \in S PROVE x <= y
  <2>1. x \in Nat /\ y \in Nat
    OBVIOUS
  <2>2. y < x => <<y, x>> \in R
    BY <2>1 DEF R
  <2> QED BY <1>3, <2>1, <2>2
<1> QED BY <1>4

(* The remainder of an index less than two turns around the list. *)
LEMMA OneTurn ==
    ASSUME NEW n \in Nat \ {0}, NEW x \in 0..(2 * n - 1)
    PROVE  x % n = IF x < n THEN x ELSE x - n
  OBVIOUS

(* The remainder of a division, with which the turn around the list is     *)
(* taken.                                                                  *)
LEMMA Remainder ==
    ASSUME NEW n \in Nat \ {0}, NEW x \in Nat
    PROVE  x % n \in 0..(n - 1)
  OBVIOUS

(* An even share among two or more is less than the whole. *)
LEMMA ShareIsLess ==
    ASSUME NEW r \in Nat \ {0}, NEW a \in Nat, a > 1
    PROVE  r \div a \in Nat /\ r \div a < r
  OBVIOUS

(* The backoff after any number of failures is a time within its maximum.  *)
LEMMA BackoffType ==
    ASSUME NEW f \in 1..FailureCap
    PROVE  Backoff(f) \in 0..BackoffMax
  BY GroupAssumption DEF Backoff, Multiplier, Lesser

-----------------------------------------------------------------------------
(* Selection. *)

(* A turn around the list from "start" reaches every member, so FirstFrom  *)
(* finds one of C.                                                         *)
LEMMA FirstFromFinds ==
    ASSUME NEW C \in SUBSET Members, C # {}, NEW start \in Members
    PROVE  FirstFrom(start, C) \in C
<1> USE GroupAssumption DEF Members
<1> DEFINE hit(d) == (start + d) % MemberCount \in C
           D == {d \in Members : hit(d)}
<1>1. MemberCount \in Nat \ {0}
  OBVIOUS
<1>2. \A d \in Members : (start + d) % MemberCount =
         IF start + d < MemberCount THEN start + d ELSE start + d - MemberCount
  <2> SUFFICES ASSUME NEW d \in Members
               PROVE  (start + d) % MemberCount =
                         IF start + d < MemberCount THEN start + d ELSE start + d - MemberCount
    OBVIOUS
  <2> DEFINE x == start + d
  <2>1. x \in 0..(2 * MemberCount - 1)
    BY <1>1
  <2> HIDE DEF x
  <2>2. x % MemberCount = IF x < MemberCount THEN x ELSE x - MemberCount
    BY <1>1, <2>1, OneTurn
  <2> QED BY <2>2 DEF x
<1>3. D # {}
  <2>1. PICK c \in C : TRUE
    OBVIOUS
  <2>2. CASE c >= start
    <3>1. c - start \in Members /\ (start + (c - start)) % MemberCount = c
      BY <1>1, <1>2, <2>2
    <3> QED BY <2>1, <3>1
  <2>3. CASE c < start
    <3>1. /\ c - start + MemberCount \in Members
          /\ (start + (c - start + MemberCount)) % MemberCount = c
      BY <1>1, <1>2, <2>3
    <3> QED BY <2>1, <3>1
  <2> QED BY <2>2, <2>3
<1>4. \E d \in D : \A e \in D : d <= e
  <2>1. D \in SUBSET Nat
    OBVIOUS
  <2> HIDE DEF D
  <2> QED BY <1>3, <2>1, LeastExists
<1>5. \E d \in Members : hit(d) /\ \A e \in Members : hit(e) => d <= e
  BY <1>4
<1>6. \A d : d \in Members /\ hit(d) => (start + d) % MemberCount \in C
  OBVIOUS
<1> QED BY <1>5, <1>6 DEF FirstFrom

(* select_member() names a member that was not asked, healthy if there is  *)
(* one, and nobody only when all were asked.                               *)
LEMMA Selects ==
    ASSUME NEW o \in Ops, attempted[o] \in SUBSET Members,
           Members # {} => index[o] \in Members
    PROVE  /\ SelectMember(o) = None <=> attempted[o] = Members
           /\ SelectMember(o) # None => SelectMember(o) \in Members \ attempted[o]
           /\ Healthy(o) # {} => SelectMember(o) \in Healthy(o)
<1>1. Healthy(o) \subseteq Members \ attempted[o]
  BY DEF Healthy
<1>2. None \notin Members
  BY GroupAssumption DEF Members
<1>3. CASE Healthy(o) # {}
  <2>1. SelectMember(o) = FirstFrom(index[o], Healthy(o))
    BY <1>3 DEF SelectMember
  <2> QED BY <1>1, <1>2, <1>3, <2>1, FirstFromFinds
<1>4. CASE Healthy(o) = {} /\ attempted[o] # Members
  <2>1. SelectMember(o) = FirstFrom(index[o], Members \ attempted[o])
    BY <1>4 DEF SelectMember
  <2> QED BY <1>2, <1>4, <2>1, FirstFromFinds
<1>5. CASE Healthy(o) = {} /\ attempted[o] = Members
  <2>1. SelectMember(o) = None
    BY <1>5 DEF SelectMember
  <2> QED BY <1>5, <2>1
<1> QED BY <1>3, <1>4, <1>5

-----------------------------------------------------------------------------
(* The inductive invariant. *)

(* An exchange is done exactly when its one outcome was delivered. *)
Settled ==
    \A o \in Ops : /\ task[o] = "done" <=> delivered[o] # <<>>
                   /\ Len(delivered[o]) <= 1

(* The loop runs over members that exist. *)
InMembers ==
    \A o \in Ops : /\ task[o] \in {"loop", "waiting", "ended"} => Members # {}
                   /\ Members # {} => index[o] \in Members /\ current[o] \in Members

IInv == TypeOK /\ Settled /\ InMembers /\ OperationsTracked /\ EveryMemberHasTime

(* The members are a finite set of numbers, which a turn around the list   *)
(* does not leave.                                                         *)
LEMMA MembersFacts ==
    /\ Members \subseteq Nat /\ IsFiniteSet(Members)
    /\ MemberCount > 0 <=> Members # {}
    /\ \A x \in Nat : MemberCount > 0 => x % MemberCount \in Members
    /\ Members # {} => 0 \in Members
<1> USE GroupAssumption DEF Members
<1>1. IsFiniteSet(Members)
  BY FS_Interval
<1>2. \A x \in Nat : MemberCount > 0 => x % MemberCount \in Members
  BY Remainder
<1>3. MemberCount > 0 <=> 0 \in Members
  OBVIOUS
<1>4. MemberCount = 0 => Members = {}
  OBVIOUS
<1> QED BY <1>1, <1>2, <1>3, <1>4

(* Health never leaves its bounds: the count saturates, the backoff is     *)
(* capped.                                                                 *)
HealthType == /\ failures \in [Members -> 0..FailureCap]
              /\ unhealthyUntil \in [Members -> 0..(MaxTime + BackoffMax)]

(* The invariant holds of a new group.                                     *)
LEMMA InitIInv == Init => IInv
<1> SUFFICES ASSUME Init PROVE IInv
  OBVIOUS
<1> USE GroupAssumption, MembersFacts DEF Init
<1>1. TypeOK
  <2>1. delivered \in [Ops -> Seq(Outcomes)]
    OBVIOUS
  <2>2. lastError \in [Ops -> Outcomes \cup {None}] /\ task \in [Ops -> {"idle", "loop", "waiting", "ended", "done"}]
    OBVIOUS
  <2>3. HealthType
    BY DEF HealthType
  <2>4. /\ index \in [Ops -> Nat] /\ current \in [Ops -> Nat] /\ attempted \in [Ops -> SUBSET Members]
        /\ deadline \in [Ops -> 0..(MaxTime + Timeout)]
        /\ memberDeadline \in [Ops -> 0..(MaxTime + Timeout)]
    OBVIOUS
  <2>5. now \in 0..MaxTime /\ nextMember \in Nat /\ operations \subseteq Ops
    OBVIOUS
  <2> QED BY <2>1, <2>2, <2>3, <2>4, <2>5 DEF TypeOK, HealthType
<1>2. Settled /\ OperationsTracked /\ EveryMemberHasTime
  BY DEF Settled, OperationsTracked, EveryMemberHasTime
<1>3. InMembers
  BY DEF InMembers
<1> QED BY <1>1, <1>2, <1>3 DEF IInv

(* record_failure() and record_success() keep the health of the members    *)
(* well typed.                                                             *)
LEMMA HealthFacts ==
    ASSUME TypeOK, NEW m \in Members
    PROVE  /\ RecordFailure(m) => HealthType'
           /\ RecordSuccess(m) => HealthType'
<1> USE GroupAssumption DEF TypeOK, HealthType
<1>1. ASSUME RecordFailure(m) PROVE HealthType'
  <2> DEFINE f == Lesser(failures[m] + 1, FailureCap)
  <2>1. failures' = [failures EXCEPT ![m] = f]
        /\ unhealthyUntil' = [unhealthyUntil EXCEPT ![m] = now + Backoff(f)]
    BY <1>1 DEF RecordFailure
  <2>2. failures[m] \in 0..FailureCap
    OBVIOUS
  <2>3. f \in 1..FailureCap
    BY <2>2 DEF Lesser
  <2> HIDE DEF f
  <2>4. Backoff(f) \in 0..BackoffMax
    BY <2>3, BackoffType
  <2>5. now + Backoff(f) \in 0..(MaxTime + BackoffMax)
    BY <2>4, SMTT(30)
  <2> QED BY <2>1, <2>3, <2>5, SMTT(30)
<1>2. ASSUME RecordSuccess(m) PROVE HealthType'
  BY <1>2 DEF RecordSuccess
<1> QED BY <1>1, <1>2

(* finish() of a set of exchanges that were not answered. *)
Tracked == Settled /\ OperationsTracked

(* finish() of some exchanges gives each its one outcome and takes them    *)
(* out of operations_.                                                     *)
LEMMA FinishFacts ==
    ASSUME TypeOK, Tracked, NEW S \in SUBSET Ops, NEW r \in Outcomes, Finish(S, r),
           \A o \in S : task[o] # "done"
    PROVE  /\ task' \in [Ops -> {"idle", "loop", "waiting", "ended", "done"}]
           /\ delivered' \in [Ops -> Seq(Outcomes)]
           /\ operations' \subseteq Ops
           /\ Tracked'
           /\ \A o \in Ops : task'[o] \in {"loop", "waiting", "ended"} => task'[o] = task[o]
<1> USE DEF TypeOK
<1>1. /\ \A o \in S : task'[o] = "done" /\ delivered'[o] = Append(delivered[o], r)
      /\ \A o \in Ops \ S : task'[o] = task[o] /\ delivered'[o] = delivered[o]
      /\ operations' = operations \ S
  BY DEF Finish
<1>2. \A o \in S : delivered[o] = <<>>
  BY DEF Tracked, Settled
<1>3. \A o \in S : /\ delivered'[o] \in Seq(Outcomes) /\ delivered'[o] # <<>>
                   /\ Len(delivered'[o]) = 1
  <2>1. Append(<<>>, r) \in Seq(Outcomes) /\ Append(<<>>, r) # <<>> /\ Len(Append(<<>>, r)) = 1
    OBVIOUS
  <2> QED BY <1>1, <1>2, <2>1
<1>4. task' \in [Ops -> {"idle", "loop", "waiting", "ended", "done"}]
  BY DEF Finish
<1>5. delivered' \in [Ops -> Seq(Outcomes)]
  <2>1. \A o \in Ops : delivered'[o] \in Seq(Outcomes)
    BY <1>1, <1>3
  <2>2. delivered' = [o \in Ops |-> delivered'[o]]
    BY DEF Finish
  <2> QED BY <2>1, <2>2
<1>6. Settled'
  <2> SUFFICES ASSUME NEW o \in Ops
               PROVE  /\ task'[o] = "done" <=> delivered'[o] # <<>>
                      /\ Len(delivered'[o]) <= 1
    BY DEF Settled
  <2>1. CASE o \in S
    <3>1. task'[o] = "done" /\ delivered'[o] # <<>> /\ Len(delivered'[o]) = 1
      BY <1>1, <1>3, <2>1
    <3> QED BY <3>1
  <2>2. CASE o \notin S
    BY <1>1, <2>2 DEF Tracked, Settled
  <2> QED BY <2>1, <2>2
<1>7. OperationsTracked'
  <2>1. \A o \in S : delivered'[o] # <<>>
    BY <1>3
  <2> QED BY <1>1, <2>1 DEF Tracked, OperationsTracked
<1> QED BY <1>1, <1>4, <1>5, <1>6, <1>7 DEF Tracked

-----------------------------------------------------------------------------
(* One lemma per action. *)

(* A step that ends the exchanges of S and moves none of them on. *)
LEMMA EndingStep ==
    ASSUME IInv, NEW S \in SUBSET Ops, NEW r \in Outcomes, Finish(S, r),
           \A o \in S : task[o] # "done",
           UNCHANGED <<index, attempted, current, deadline, memberDeadline, nextMember, now>>,
           lastError' \in [Ops -> Outcomes \cup {None}],
           stopped' \in BOOLEAN, busy' \in Ops \cup {None}, HealthType'
    PROVE  IInv'
<1>1. /\ task' \in [Ops -> {"idle", "loop", "waiting", "ended", "done"}]
      /\ delivered' \in [Ops -> Seq(Outcomes)] /\ operations' \subseteq Ops /\ Tracked'
      /\ \A o \in Ops : task'[o] \in {"loop", "waiting", "ended"} => task'[o] = task[o]
  BY FinishFacts DEF IInv, Tracked
<1>2. TypeOK'
  BY <1>1 DEF IInv, TypeOK, HealthType
<1>3. InMembers'
  BY <1>1 DEF IInv, InMembers
<1>4. EveryMemberHasTime'
  BY <1>1 DEF IInv, EveryMemberHasTime
<1> QED BY <1>1, <1>2, <1>3, <1>4 DEF IInv, Tracked

(* A step that moves no exchange to another stage but o, from the loop or  *)
(* the member it waits for to a stage that is not terminal.                *)
LEMMA MovingStep ==
    ASSUME IInv, NEW o \in Ops, task[o] \in {"loop", "waiting"},
           NEW stage \in {"loop", "waiting", "ended"}, task' = [task EXCEPT ![o] = stage],
           UNCHANGED <<delivered, operations, nextMember, stopped, now, deadline>>,
           HealthType', busy' \in Ops \cup {None},
           attempted' \in [Ops -> SUBSET Members], current' \in [Ops -> Nat],
           index' \in [Ops -> Nat], lastError' \in [Ops -> Outcomes \cup {None}],
           memberDeadline' \in [Ops -> 0..(MaxTime + Timeout)],
           index'[o] \in Members /\ current'[o] \in Members,
           \A p \in Ops \ {o} : /\ index'[p] = index[p] /\ current'[p] = current[p]
                                /\ attempted'[p] = attempted[p]
                                /\ memberDeadline'[p] = memberDeadline[p],
           stage = "waiting" => /\ memberDeadline'[o] <= deadline[o]
                                /\ attempted'[o] # Members => memberDeadline'[o] < deadline[o]
    PROVE  IInv'
<1>1. TypeOK'
  BY DEF IInv, TypeOK, HealthType
<1>2. /\ task'[o] = stage /\ \A p \in Ops \ {o} : task'[p] = task[p]
  BY DEF IInv, TypeOK
<1>3. Settled'
  <2>1. delivered[o] = <<>>
    BY DEF IInv, Settled
  <2> QED BY <1>2, <2>1 DEF IInv, Settled
<1>4. OperationsTracked'
  BY <1>2 DEF IInv, OperationsTracked
<1>5. InMembers'
  BY <1>2 DEF IInv, InMembers
<1>6. EveryMemberHasTime'
  BY <1>2 DEF IInv, EveryMemberHasTime
<1> QED BY <1>1, <1>3, <1>4, <1>5, <1>6 DEF IInv

(* exchange() keeps the invariant, refused at once or begun.               *)
LEMMA ExchangeStep ==
    ASSUME IInv, NEW o \in Ops, Exchange(o)
    PROVE  IInv'
<1> USE GroupAssumption DEF IInv
<1>0. /\ deadline' = [deadline EXCEPT ![o] = now + Timeout] /\ task[o] = "idle"
      /\ UNCHANGED <<attempted, current, lastError, memberDeadline, healthVars, stopped, now>>
  BY DEF Exchange
<1>1. /\ deadline' \in [Ops -> 0..(MaxTime + Timeout)]
      /\ \A p \in Ops : p # o => deadline'[p] = deadline[p]
  BY <1>0 DEF TypeOK
<1>2. CASE stopped \/ MemberCount = 0
  <2>1. PICK r \in Outcomes : Finish({o}, r)
    <3>1. Finish({o}, IF stopped THEN "cancelled" ELSE "configuration")
      BY <1>2 DEF Exchange
    <3>2. CASE stopped
      BY <3>1, <3>2 DEF Outcomes
    <3>3. CASE ~stopped
      BY <3>1, <3>3 DEF Outcomes
    <3> QED BY <3>2, <3>3
  <2>2. UNCHANGED <<index, nextMember, busy>>
    BY <1>2 DEF Exchange
  <2>3. /\ task' \in [Ops -> {"idle", "loop", "waiting", "ended", "done"}]
        /\ delivered' \in [Ops -> Seq(Outcomes)] /\ operations' \subseteq Ops /\ Tracked'
        /\ \A p \in Ops : task'[p] \in {"loop", "waiting", "ended"} => task'[p] = task[p]
    <3>1. {o} \in SUBSET Ops /\ Tracked /\ \A p \in {o} : task[p] # "done"
      BY <1>0 DEF Tracked
    <3> HIDE DEF IInv
    <3> QED BY <2>1, <3>1, FinishFacts DEF IInv
  <2>4. TypeOK'
    BY <1>0, <1>1, <2>2, <2>3 DEF TypeOK, healthVars
  <2>5. InMembers'
    BY <1>0, <2>2, <2>3 DEF InMembers
  <2>6. EveryMemberHasTime'
    BY <1>0, <1>1, <2>3 DEF EveryMemberHasTime
  <2> QED BY <2>3, <2>4, <2>5, <2>6 DEF Tracked
<1>3. CASE ~stopped /\ MemberCount > 0
  <2>1. /\ operations' = operations \cup {o} /\ task' = [task EXCEPT ![o] = "loop"]
        /\ busy' = o /\ delivered' = delivered
        /\ index' = [index EXCEPT ![o] = IF RoundRobin THEN nextMember % MemberCount ELSE 0]
        /\ nextMember' = IF RoundRobin THEN (nextMember + 1) % MemberCount ELSE nextMember
    BY <1>3 DEF Exchange
  <2>2. /\ nextMember % MemberCount \in Members /\ (nextMember + 1) % MemberCount \in Members
        /\ 0 \in Members /\ Members \subseteq Nat
    <3>1. nextMember \in Nat /\ nextMember + 1 \in Nat
      BY SMTT(30) DEF TypeOK
    <3> QED BY <1>3, <3>1, MembersFacts
  <2>3. index' \in [Ops -> Nat] /\ nextMember' \in Nat /\ index'[o] \in Members
        /\ \A p \in Ops \ {o} : index'[p] = index[p]
    BY <2>1, <2>2 DEF TypeOK
  <2>4. task'[o] = "loop" /\ \A p \in Ops \ {o} : task'[p] = task[p]
    BY <2>1 DEF TypeOK
  <2>5. TypeOK'
    BY <1>0, <1>1, <2>1, <2>3 DEF TypeOK, healthVars
  <2>6. delivered[o] = <<>>
    BY <1>0 DEF Settled
  <2>7. Settled' /\ OperationsTracked'
    BY <2>1, <2>4, <2>6 DEF Settled, OperationsTracked
  <2>8. InMembers'
    BY <1>0, <2>2, <2>3, <2>4 DEF InMembers
  <2>9. EveryMemberHasTime'
    BY <1>0, <1>1, <2>4 DEF EveryMemberHasTime
  <2> QED BY <2>5, <2>7, <2>8, <2>9
<1>4. (stopped \/ MemberCount = 0) \/ (~stopped /\ MemberCount > 0)
  OBVIOUS
<1> HIDE DEF IInv
<1> QED BY <1>2, <1>3, <1>4

(* The head of the loop. *)
LEMMA LoopTimeoutStep ==
    ASSUME IInv, NEW o \in Ops, LoopTimeout(o)
    PROVE  IInv'
<1>1. Finish({o}, "timeout") /\ "timeout" \in Outcomes /\ task[o] # "done" /\ busy' = None
  BY DEF LoopTimeout, Outcomes
<1>2. current[o] \in Members
  BY DEF LoopTimeout, IInv, InMembers
<1>3. HealthType'
  BY <1>2, HealthFacts DEF LoopTimeout, IInv
<1>4. lastError' \in [Ops -> Outcomes \cup {None}] /\ stopped' \in BOOLEAN
  BY <1>1 DEF LoopTimeout, IInv, TypeOK
<1>5. UNCHANGED <<index, attempted, current, deadline, memberDeadline, nextMember, now>>
  BY DEF LoopTimeout
<1> QED BY <1>1, <1>3, <1>4, <1>5, EndingStep

(* The loop that finds no member left keeps the invariant.                 *)
LEMMA LoopExhaustedStep ==
    ASSUME IInv, NEW o \in Ops, LoopExhausted(o)
    PROVE  IInv'
<1> DEFINE r == IF lastError[o] = None THEN "configuration" ELSE lastError[o]
<1>1. Finish({o}, r) /\ task[o] # "done" /\ busy' = None
  BY DEF LoopExhausted
<1>2. r \in Outcomes
  BY DEF IInv, TypeOK, Outcomes
<1>3. HealthType' /\ lastError' \in [Ops -> Outcomes \cup {None}] /\ stopped' \in BOOLEAN
  BY DEF LoopExhausted, IInv, TypeOK, HealthType, healthVars
<1>4. UNCHANGED <<index, attempted, current, deadline, memberDeadline, nextMember, now>>
  BY DEF LoopExhausted
<1> HIDE DEF r
<1> QED BY <1>1, <1>2, <1>3, <1>4, EndingStep

(* Share() stays within the deadline, and below it while another member    *)
(* remains.                                                                *)
LEMMA ShareFacts ==
    ASSUME IInv, NEW o \in Ops, now < deadline[o], NEW m \in Members \ attempted[o]
    PROVE  /\ Share(o) \in 0..deadline[o]
           /\ attempted[o] \cup {m} # Members => Share(o) < deadline[o]
<1> DEFINE left == Members \ attempted[o]
           attempts == Cardinality(left)
           remaining == deadline[o] - now
<1>1. now \in Nat /\ deadline[o] \in Nat /\ attempted[o] \in SUBSET Members
  BY GroupAssumption DEF IInv, TypeOK
<1>2. IsFiniteSet(left) /\ attempts \in Nat
  BY MembersFacts, FS_Subset, FS_CardinalityType
<1>3. remaining \in Nat \ {0} /\ now + remaining = deadline[o]
  BY <1>1
<1>4. Share(o) = IF attempts > 1 THEN now + remaining \div attempts ELSE deadline[o]
  BY DEF Share
<1>5. attempted[o] \cup {m} # Members => attempts > 1
  <2> SUFFICES ASSUME attempted[o] \cup {m} # Members PROVE attempts > 1
    OBVIOUS
  <2>1. PICK k \in left : k # m
    BY <1>1
  <2>2. {m} \in SUBSET left /\ {m} # left
    BY <2>1
  <2>3. Cardinality({m}) = 1
    BY FS_Singleton
  <2>4. 1 <= attempts /\ attempts # 1
    BY <1>2, <2>2, <2>3, FS_Subset
  <2> QED BY <1>2, <2>4
<1> HIDE DEF remaining, attempts
<1>6. attempts > 1 => remaining \div attempts \in Nat /\ remaining \div attempts < remaining
  BY <1>2, <1>3, ShareIsLess
<1> QED BY <1>1, <1>3, <1>4, <1>5, <1>6

(* The loop that asks a member keeps the invariant: the member is given    *)
(* less than all the time.                                                 *)
LEMMA LoopAttemptStep ==
    ASSUME IInv, NEW o \in Ops, LoopAttempt(o)
    PROVE  IInv'
<1> DEFINE m == SelectMember(o)
<1> USE DEF LoopAttempt
<1>1. index[o] \in Members /\ attempted[o] \in SUBSET Members
  BY DEF IInv, InMembers, TypeOK
<1>2. m \in Members \ attempted[o] /\ m \in Nat
  BY <1>1, Selects, MembersFacts
<1>3. Share(o) \in 0..deadline[o] /\ (attempted[o] \cup {m} # Members => Share(o) < deadline[o])
  BY <1>2, ShareFacts
<1>4. /\ task[o] = "loop" /\ task' = [task EXCEPT ![o] = "waiting"]
      /\ UNCHANGED <<delivered, operations, nextMember, stopped, now, deadline>>
      /\ busy' \in Ops \cup {None}
      /\ attempted' = [attempted EXCEPT ![o] = attempted[o] \cup {m}]
      /\ current' = [current EXCEPT ![o] = m]
      /\ memberDeadline' = [memberDeadline EXCEPT ![o] = Share(o)]
      /\ UNCHANGED <<index, lastError, failures, unhealthyUntil>>
  BY DEF healthVars
<1> HIDE DEF m, LoopAttempt
<1>5. /\ HealthType' /\ index' \in [Ops -> Nat] /\ lastError' \in [Ops -> Outcomes \cup {None}]
      /\ index'[o] \in Members
  BY <1>1, <1>4 DEF IInv, TypeOK, HealthType
<1>6. /\ attempted' \in [Ops -> SUBSET Members] /\ current' \in [Ops -> Nat]
      /\ attempted'[o] = attempted[o] \cup {m} /\ current'[o] \in Members
  BY <1>1, <1>2, <1>4 DEF IInv, TypeOK
<1>7. /\ memberDeadline'[o] = Share(o)
      /\ memberDeadline' \in [Ops -> 0..(MaxTime + Timeout)]
  <2>1. Share(o) \in 0..(MaxTime + Timeout) /\ memberDeadline \in [Ops -> 0..(MaxTime + Timeout)]
    BY <1>3, GroupAssumption DEF IInv, TypeOK
  <2> QED BY <1>4, <2>1
<1>8. \A p \in Ops \ {o} : /\ index'[p] = index[p] /\ current'[p] = current[p]
                            /\ attempted'[p] = attempted[p]
                            /\ memberDeadline'[p] = memberDeadline[p]
  BY <1>4 DEF IInv, TypeOK
<1>9. /\ memberDeadline'[o] <= deadline[o]
      /\ attempted'[o] # Members => memberDeadline'[o] < deadline[o]
  BY <1>3, <1>6, <1>7
<1>10. task[o] \in {"loop", "waiting"} /\ "waiting" \in {"loop", "waiting", "ended"}
  BY <1>4
<1> QED BY <1>4, <1>5, <1>6, <1>7, <1>8, <1>9, <1>10, MovingStep

(* The member's exchange ends.  The operation goes on from the one behind. *)
LEMMA ContinueStep ==
    ASSUME IInv, NEW o \in Ops, task[o] = "waiting", Continue(o), HealthType',
           lastError' \in [Ops -> Outcomes \cup {None}],
           UNCHANGED <<attempted, current, deadline, memberDeadline, nextMember, stopped, now>>
    PROVE  IInv'
<1>1. current[o] \in Members /\ Members # {}
  BY DEF IInv, InMembers
<1>2. (current[o] + 1) % MemberCount \in Members
  <2>1. current[o] + 1 \in Nat
    <3>1. current[o] \in Nat
      BY <1>1, MembersFacts
    <3> QED BY <3>1
  <2>2. MemberCount > 0
    BY <1>1, MembersFacts
  <2> QED BY <2>1, <2>2, MembersFacts
<1>3. /\ index' = [index EXCEPT ![o] = (current[o] + 1) % MemberCount]
      /\ task' = [task EXCEPT ![o] = "loop"] /\ busy' \in Ops \cup {None}
      /\ UNCHANGED <<delivered, operations>>
  BY DEF Continue
<1>4. /\ index' \in [Ops -> Nat] /\ index'[o] \in Members
      /\ \A p \in Ops \ {o} : index'[p] = index[p]
  BY <1>2, <1>3, MembersFacts DEF IInv, TypeOK
<1>5. /\ attempted' \in [Ops -> SUBSET Members] /\ current' \in [Ops -> Nat]
      /\ memberDeadline' \in [Ops -> 0..(MaxTime + Timeout)] /\ current'[o] \in Members
  BY <1>1 DEF IInv, TypeOK
<1> QED BY <1>3, <1>4, <1>5, MovingStep

(* A member's usable answer keeps the invariant.                           *)
LEMMA MemberAnswersStep ==
    ASSUME IInv, NEW o \in Ops, MemberAnswers(o)
    PROVE  IInv'
<1>1. Finish({o}, "answer") /\ "answer" \in Outcomes /\ task[o] # "done"
  BY DEF MemberAnswers, Outcomes
<1>2. HealthType'
  BY HealthFacts DEF MemberAnswers, IInv, InMembers
<1>3. /\ lastError' \in [Ops -> Outcomes \cup {None}]
      /\ stopped' \in BOOLEAN /\ busy' \in Ops \cup {None}
  BY DEF MemberAnswers, IInv, TypeOK
<1>4. UNCHANGED <<index, attempted, current, deadline, memberDeadline, nextMember, now>>
  BY DEF MemberAnswers
<1> QED BY <1>1, <1>2, <1>3, <1>4, EndingStep

(* A member that failed, whatever the group makes of it. *)
LEMMA FailingStep ==
    ASSUME IInv, NEW o \in Ops, NEW error \in Outcomes, NEW r \in Outcomes,
           busy = None, task[o] = "waiting",
           lastError' = [lastError EXCEPT ![o] = error], RecordFailure(current[o]),
           Continue(o) \/ (Finish({o}, r) /\ UNCHANGED <<index, busy>>),
           UNCHANGED <<attempted, current, deadline, memberDeadline, nextMember, stopped, now>>
    PROVE  IInv'
<1>1. HealthType'
  BY HealthFacts DEF IInv, InMembers
<1>2. lastError' \in [Ops -> Outcomes \cup {None}] /\ stopped' \in BOOLEAN
  BY DEF IInv, TypeOK
<1>3. CASE Continue(o)
  BY <1>1, <1>2, <1>3, ContinueStep
<1>4. CASE Finish({o}, r) /\ UNCHANGED <<index, busy>>
  <2>1. busy' \in Ops \cup {None}
    BY <1>4
  <2> QED BY <1>1, <1>2, <1>4, <2>1, EndingStep
<1> QED BY <1>3, <1>4

(* A member's SERVFAIL or REFUSED keeps the invariant.                     *)
LEMMA MemberRetryableStep ==
    ASSUME IInv, NEW o \in Ops, MemberRetryable(o)
    PROVE  IInv'
<1>1. "error" \in Outcomes /\ "retryable" \in Outcomes
  BY DEF Outcomes
<1> QED BY <1>1, FailingStep DEF MemberRetryable

(* A member's error keeps the invariant.                                   *)
LEMMA MemberFailsStep ==
    ASSUME IInv, NEW o \in Ops, NEW error \in Outcomes, MemberFails(o, error)
    PROVE  IInv'
BY FailingStep DEF MemberFails

(* A member that reports its cancellation keeps the invariant.             *)
LEMMA MemberCancelledStep ==
    ASSUME IInv, NEW o \in Ops, MemberCancelled(o)
    PROVE  IInv'
<1>1. /\ task[o] = "waiting" /\ task' = [task EXCEPT ![o] = "ended"]
      /\ UNCHANGED <<index, attempted, current, lastError, deadline, memberDeadline, delivered,
                     operations, failures, unhealthyUntil, nextMember, stopped, busy, now>>
  BY DEF MemberCancelled, healthVars
<1>2. /\ HealthType' /\ busy' \in Ops \cup {None} /\ attempted' \in [Ops -> SUBSET Members]
      /\ current' \in [Ops -> Nat] /\ index' \in [Ops -> Nat]
      /\ lastError' \in [Ops -> Outcomes \cup {None}]
      /\ memberDeadline' \in [Ops -> 0..(MaxTime + Timeout)]
  BY <1>1 DEF IInv, TypeOK, HealthType
<1>3. index'[o] \in Members /\ current'[o] \in Members
  BY <1>1 DEF IInv, InMembers
<1> QED BY <1>1, <1>2, <1>3, MovingStep

(* Ends of exchanges that nobody waits for any more. *)
LEMMA CancelStep ==
    ASSUME IInv, NEW S \in SUBSET operations, Finish(S, "cancelled"), stopped' \in BOOLEAN,
           UNCHANGED <<index, attempted, current, lastError, deadline, memberDeadline, healthVars,
                       nextMember, busy, now>>
    PROVE  IInv'
<1>1. S \in SUBSET Ops /\ "cancelled" \in Outcomes
  BY DEF IInv, TypeOK, Outcomes
<1>2. \A o \in S : task[o] # "done"
  BY DEF IInv, OperationsTracked, Settled
<1>3. HealthType' /\ lastError' \in [Ops -> Outcomes \cup {None}] /\ busy' \in Ops \cup {None}
  BY DEF IInv, TypeOK, HealthType, healthVars
<1> QED BY <1>1, <1>2, <1>3, EndingStep

(* abort() keeps the invariant.                                            *)
LEMMA AbortStep ==
    ASSUME IInv, NEW o \in Ops, Abort(o)
    PROVE  IInv'
<1>1. stopped' \in BOOLEAN
  BY DEF Abort, IInv, TypeOK
<1> QED BY <1>1, CancelStep DEF Abort

(* stop() keeps the invariant: every exchange is ended.                    *)
LEMMA StopStep ==
    ASSUME IInv, Stop
    PROVE  IInv'
BY CancelStep DEF Stop

(* The clock keeps the invariant.                                          *)
LEMMA TickStep ==
    ASSUME IInv, Tick
    PROVE  IInv'
<1>1. /\ now' \in 0..MaxTime
      /\ UNCHANGED <<task, index, attempted, current, lastError, deadline, memberDeadline,
                     delivered, operations, failures, unhealthyUntil, nextMember, stopped, busy>>
  BY GroupAssumption DEF Tick, IInv, TypeOK, opVars, healthVars
<1>2. TypeOK'
  BY <1>1 DEF IInv, TypeOK
<1> QED BY <1>1, <1>2 DEF IInv, Settled, InMembers, OperationsTracked, EveryMemberHasTime

(* The invariant says nothing of anything else.                            *)
LEMMA StutteringStep ==
    ASSUME IInv, UNCHANGED vars
    PROVE  IInv'
<1>1. UNCHANGED <<task, index, attempted, current, lastError, deadline, memberDeadline, delivered,
                  operations, failures, unhealthyUntil, nextMember, stopped, busy, now>>
  BY DEF vars, opVars, healthVars
<1> QED BY <1>1 DEF IInv, TypeOK, Settled, InMembers, OperationsTracked, EveryMemberHasTime

(* Every step of the group keeps the invariant.                            *)
LEMMA InductiveStep == IInv /\ [Next]_vars => IInv'
<1> SUFFICES ASSUME IInv, [Next]_vars PROVE IInv'
  OBVIOUS
<1>1. "error" \in Outcomes /\ "timeout" \in Outcomes
  BY DEF Outcomes
<1>2. ASSUME NEW o \in Ops, Exchange(o) PROVE IInv'
  BY <1>2, ExchangeStep
<1>3. ASSUME NEW o \in Ops, LoopTimeout(o) \/ LoopExhausted(o) \/ LoopAttempt(o) PROVE IInv'
  BY <1>3, LoopTimeoutStep, LoopExhaustedStep, LoopAttemptStep
<1>4. ASSUME NEW o \in Ops, MemberEnds(o) PROVE IInv'
  BY <1>1, <1>4, MemberAnswersStep, MemberRetryableStep, MemberFailsStep DEF MemberEnds
<1>5. ASSUME NEW o \in Ops, MemberFails(o, "timeout") \/ MemberCancelled(o) \/ Abort(o) PROVE IInv'
  BY <1>1, <1>5, MemberFailsStep, MemberCancelledStep, AbortStep
<1> QED BY <1>2, <1>3, <1>4, <1>5, StopStep, TickStep, StutteringStep DEF Next

(* The invariant always holds.                                             *)
LEMMA Invariance == Spec => []IInv
BY InitIInv, InductiveStep, PTL DEF Spec

-----------------------------------------------------------------------------
(* The theorems. *)

(* operations_ holds exactly the exchanges that are not answered yet, and  *)
(* the member being asked has time of its own within the deadline          *)
(* (Operation::run_loop, finish and stop of dns_upstream.cpp).             *)
THEOREM SoundGroup == Spec => []GroupIsSound
<1>1. IInv => GroupIsSound
  BY DEF IInv, GroupIsSound
<1> QED BY <1>1, Invariance, PTL
(* Operation::run_loop and finish: an exchange that was not cancelled gives *)
(* up only when every member was asked or its time is over.                *)
LEMMA LateStep ==
    ASSUME IInv, [Next]_vars, NEW o \in Ops, delivered[o] = <<>>, delivered'[o] # <<>>,
           delivered'[o][1] \in {"retryable", "error", "timeout", "configuration"}
    PROVE  attempted[o] = Members \/ now >= deadline[o]
<1>1. \A S, r : Finish(S, r) => delivered'[o] = IF o \in S THEN Append(delivered[o], r) ELSE delivered[o]
  BY DEF Finish
<1>2. \A r : Append(<<>>, r)[1] = r
  OBVIOUS
<1>3. ASSUME NEW S, NEW r, Finish(S, r) PROVE o \in S /\ delivered'[o][1] = r
  BY <1>1, <1>2, <1>3
<1>4. ASSUME NEW p \in Ops, Exchange(p) PROVE attempted[o] = Members \/ now >= deadline[o]
  <2>1. Finish({p}, IF stopped THEN "cancelled" ELSE "configuration") /\ (stopped \/ MemberCount = 0)
    BY <1>4 DEF Exchange
  <2>2. o = p /\ ~stopped /\ MemberCount = 0
    BY <1>3, <2>1
  <2>3. Members = {} /\ attempted[o] \in SUBSET Members
    BY <2>2, MembersFacts DEF IInv, TypeOK
  <2> QED BY <2>3
<1>5. ASSUME NEW p \in Ops, LoopTimeout(p) PROVE now >= deadline[o]
  BY <1>3, <1>5 DEF LoopTimeout
<1>6. ASSUME NEW p \in Ops, LoopExhausted(p) PROVE attempted[o] = Members
  <2>1. o = p
    BY <1>3, <1>6 DEF LoopExhausted
  <2>2. /\ attempted[o] \in SUBSET Members
        /\ Members # {} => index[o] \in Members
        /\ SelectMember(o) = None
    BY <1>6, <2>1 DEF LoopExhausted, IInv, TypeOK, InMembers
  <2> QED BY <2>2, Selects
<1>7. ASSUME NEW p \in Ops, LoopAttempt(p) PROVE FALSE
  BY <1>7 DEF LoopAttempt
<1>8. ASSUME NEW p \in Ops, MemberAnswers(p) PROVE FALSE
  BY <1>3, <1>8 DEF MemberAnswers
<1>9. ASSUME NEW p \in Ops, MemberRetryable(p) PROVE attempted[o] = Members \/ now >= deadline[o]
  <2>1. /\ ~(now < deadline[p] /\ attempted[p] # Members) /\ Finish({p}, "retryable")
    BY <1>9 DEF MemberRetryable, Continue
  <2>2. o = p /\ now \in Nat /\ deadline[o] \in Nat
    BY <1>3, <2>1, GroupAssumption DEF IInv, TypeOK
  <2> QED BY <2>1, <2>2
<1>10. ASSUME NEW p \in Ops, NEW error, MemberFails(p, error) PROVE now >= deadline[o]
  <2>1. now >= deadline[p] /\ Finish({p}, error)
    BY <1>10 DEF MemberFails, Continue
  <2> QED BY <1>3, <2>1
<1>11. ASSUME NEW p \in Ops, MemberCancelled(p) \/ Abort(p) PROVE FALSE
  BY <1>3, <1>11 DEF MemberCancelled, Abort
<1>12. ~Stop
  BY <1>3 DEF Stop
<1>13. ~Tick /\ ~UNCHANGED vars
  BY DEF Tick, vars
<1> DEFINE late == attempted[o] = Members \/ now >= deadline[o]
<1>14. ASSUME NEW p \in Ops,
              Exchange(p) \/ LoopTimeout(p) \/ LoopExhausted(p) \/ LoopAttempt(p)
       PROVE  late
  BY <1>4, <1>5, <1>6, <1>7, <1>14
<1>15. ASSUME NEW p \in Ops, \/ MemberEnds(p) \/ MemberFails(p, "timeout")
                             \/ MemberCancelled(p) \/ Abort(p)
       PROVE  late
  BY <1>8, <1>9, <1>10, <1>11, <1>15 DEF MemberEnds
<1> HIDE DEF late
<1>16. late
  BY <1>12, <1>13, <1>14, <1>15 DEF Next
<1> QED BY <1>16 DEF late

(* select_member: a member in backoff is asked only when no member that is *)
(* left is healthy.                                                        *)
LEMMA HonouringStep ==
    ASSUME IInv, [Next]_vars, NEW o \in Ops, task[o] = "loop", task'[o] = "waiting"
    PROVE  \/ unhealthyUntil[current'[o]] <= now
           \/ \A m \in Members \ attempted[o] : unhealthyUntil[m] > now
<1>1. \A S, r : Finish(S, r) => task'[o] # "waiting"
  BY DEF Finish
<1>2. ASSUME NEW p \in Ops, LoopAttempt(p) PROVE p = o
  BY <1>2 DEF LoopAttempt, IInv, TypeOK
<1>3. ASSUME NEW p \in Ops, Exchange(p) PROVE FALSE
  BY <1>1, <1>3 DEF Exchange, IInv, TypeOK
<1>4. ASSUME NEW p \in Ops, LoopTimeout(p) \/ LoopExhausted(p) \/ Abort(p) \/ MemberAnswers(p)
      PROVE  FALSE
  BY <1>1, <1>4 DEF LoopTimeout, LoopExhausted, Abort, MemberAnswers
<1>5. ASSUME NEW p \in Ops, Continue(p) PROVE FALSE
  BY <1>5 DEF Continue, IInv, TypeOK
<1>6. ASSUME NEW p \in Ops, MemberRetryable(p) PROVE FALSE
  BY <1>1, <1>5, <1>6 DEF MemberRetryable
<1>7. ASSUME NEW p \in Ops, NEW error, MemberFails(p, error) PROVE FALSE
  BY <1>1, <1>5, <1>7 DEF MemberFails
<1>8. ASSUME NEW p \in Ops, MemberCancelled(p) PROVE FALSE
  BY <1>8 DEF MemberCancelled, IInv, TypeOK
<1>9. ~Stop
  BY <1>1 DEF Stop
<1>10. ~Tick /\ ~UNCHANGED vars
  BY DEF Tick, vars, opVars
<1>11. LoopAttempt(o)
  BY <1>2, <1>3, <1>4, <1>6, <1>7, <1>8, <1>9, <1>10 DEF Next, MemberEnds
<1>12. /\ attempted[o] \in SUBSET Members
       /\ Members # {} => index[o] \in Members
       /\ SelectMember(o) # None /\ current'[o] = SelectMember(o)
  BY <1>11 DEF LoopAttempt, IInv, TypeOK, InMembers
<1>13. CASE Healthy(o) # {}
  <2>1. current'[o] \in Healthy(o)
    BY <1>12, <1>13, Selects
  <2> QED BY <2>1 DEF Healthy
<1>14. CASE Healthy(o) = {}
  <2>1. now \in Nat /\ \A m \in Members : unhealthyUntil[m] \in Nat
    BY GroupAssumption DEF IInv, TypeOK
  <2> QED BY <1>14, <2>1 DEF Healthy
<1> QED BY <1>13, <1>14

(* The group gives up only after every member or at the deadline, and asks *)
(* a member in backoff only when all that are left are (run_loop and       *)
(* select_member of dns_upstream.cpp).                                     *)
THEOREM FairRetries == Spec => RetriesAreFair
<1>1. IInv /\ [Next]_vars =>
         [\A o \in Ops :
             /\ delivered[o] = <<>> /\ delivered'[o] # <<>>
             /\ delivered'[o][1] \in {"retryable", "error", "timeout", "configuration"}
             => attempted[o] = Members \/ now >= deadline[o]]_vars
  BY LateStep
<1>2. IInv /\ [Next]_vars =>
         [\A o \in Ops : task[o] = "loop" /\ task'[o] = "waiting" =>
             \/ unhealthyUntil[current'[o]] <= now
             \/ \A m \in Members \ attempted[o] : unhealthyUntil[m] > now]_vars
  BY HonouringStep
<1> QED BY <1>1, <1>2, Invariance, PTL DEF Spec, RetriesAreFair, GivesUpLate, BackoffHonoured

-----------------------------------------------------------------------------
(* The group implements DnsExchange, step by step. *)

(* A new group is an exchange nobody began, under the mapping.             *)
LEMMA PromiseInit == Init => Promise!Init
<1> SUFFICES ASSUME Init PROVE Promise!Init
  OBVIOUS
<1>1. Phase = [o \in Ops |-> "idle"] /\ Outcome = [o \in Ops |-> None]
  BY DEF Init, Phase, Outcome
<1> QED BY <1>1 DEF Promise!Init

(* A step that does not begin or end an exchange changes nothing of it. *)
LEMMA PhaseKept ==
    ASSUME \A o \in Ops : /\ task'[o] = "idle" <=> task[o] = "idle"
                          /\ task'[o] = "done" <=> task[o] = "done",
           UNCHANGED delivered
    PROVE  UNCHANGED <<Phase, Outcome>>
BY DEF Phase, Outcome

(* finish() is the End of one exchange, or of several that are running. *)
LEMMA FinishEnds ==
    ASSUME IInv, NEW S \in SUBSET Ops, NEW r \in Outcomes, Finish(S, r),
           \A o \in S : task[o] # "done"
    PROVE  /\ Phase' = [o \in Ops |-> IF o \in S THEN "done" ELSE Phase[o]]
           /\ Outcome' = [o \in Ops |-> IF o \in S THEN r ELSE Outcome[o]]
           /\ \A o \in S : Phase[o] \in {"idle", "running"}
<1>1. \A o \in S : delivered[o] = <<>>
  BY DEF IInv, Settled
<1>2. Append(<<>>, r) # <<>> /\ Append(<<>>, r)[1] = r
  OBVIOUS
<1>3. /\ \A o \in S : task'[o] = "done" /\ delivered'[o] = Append(<<>>, r)
      /\ \A o \in Ops \ S : task'[o] = task[o] /\ delivered'[o] = delivered[o]
  BY <1>1 DEF Finish
<1>4. Phase' = [o \in Ops |-> IF o \in S THEN "done" ELSE Phase[o]]
  BY <1>3 DEF Phase
<1>5. Outcome' = [o \in Ops |-> IF o \in S THEN r ELSE Outcome[o]]
  BY <1>2, <1>3 DEF Outcome
<1> QED BY <1>4, <1>5 DEF Phase

(* The one terminal of an exchange is its End.                             *)
LEMMA FinishesOne ==
    ASSUME IInv, NEW o \in Ops, NEW r \in Outcomes, Finish({o}, r), task[o] # "done"
    PROVE  Promise!End(o)
<1>1. /\ Phase' = [p \in Ops |-> IF p \in {o} THEN "done" ELSE Phase[p]]
      /\ Outcome' = [p \in Ops |-> IF p \in {o} THEN r ELSE Outcome[p]]
      /\ Phase[o] \in {"idle", "running"}
  BY FinishEnds, ZenonT(30)
<1>2. Phase \in [Ops -> {"idle", "running", "done"}] /\ Outcome = [p \in Ops |-> Outcome[p]]
  BY DEF Phase, Outcome
<1>3. Phase' = [Phase EXCEPT ![o] = "done"] /\ Outcome' = [Outcome EXCEPT ![o] = r]
  BY <1>1, <1>2
<1> QED BY <1>1, <1>3 DEF Promise!End

(* The task of an exchange that moves on shows nothing of it outside.      *)
LEMMA MovesOn ==
    ASSUME IInv, NEW o \in Ops, NEW stage \in {"loop", "waiting", "ended"},
           task[o] \in {"loop", "waiting"}, task' = [task EXCEPT ![o] = stage],
           UNCHANGED delivered
    PROVE  UNCHANGED <<Phase, Outcome>>
<1>1. /\ task'[o] = stage
      /\ \A p \in Ops \ {o} : task'[p] = task[p]
  BY DEF IInv, TypeOK
<1>2. \A p \in Ops : /\ task'[p] = "idle" <=> task[p] = "idle"
                     /\ task'[p] = "done" <=> task[p] = "done"
  BY <1>1
<1> QED BY <1>2, PhaseKept

(* exchange() begins an exchange, or ends it at once.                      *)
LEMMA ExchangeBeginsOrEnds ==
    ASSUME IInv, NEW o \in Ops, Exchange(o)
    PROVE  Promise!Begin(o) \/ Promise!End(o)
<1>1. task[o] = "idle"
  BY DEF Exchange
<1>2. CASE stopped \/ MemberCount = 0
  <2>1. Finish({o}, IF stopped THEN "cancelled" ELSE "configuration")
    BY <1>2 DEF Exchange
  <2>2. (IF stopped THEN "cancelled" ELSE "configuration") \in Outcomes
    BY DEF Outcomes
  <2> QED BY <1>1, <2>1, <2>2, FinishesOne
<1>3. CASE ~(stopped \/ MemberCount = 0)
  <2>1. task' = [task EXCEPT ![o] = "loop"] /\ delivered' = delivered
    BY <1>3 DEF Exchange
  <2>2. task'[o] = "loop" /\ \A p \in Ops \ {o} : task'[p] = task[p]
    BY <2>1 DEF IInv, TypeOK
  <2>3. Phase[o] = "idle" /\ UNCHANGED Outcome
    BY <1>1, <2>1 DEF Phase, Outcome
  <2>4. Phase'[o] = "running" /\ \A p \in Ops \ {o} : Phase'[p] = Phase[p]
    BY <2>2 DEF Phase
  <2>5. Phase = [p \in Ops |-> Phase[p]] /\ Phase' = [p \in Ops |-> Phase'[p]]
    BY DEF Phase
  <2>6. Phase' = [Phase EXCEPT ![o] = "running"]
    BY <2>4, <2>5
  <2> QED BY <2>3, <2>6 DEF Promise!Begin
<1> QED BY <1>2, <1>3

(* The loop ends its exchange, or nothing is seen of it.                   *)
LEMMA LoopKeeps ==
    ASSUME IInv, NEW o \in Ops, LoopTimeout(o) \/ LoopExhausted(o) \/ LoopAttempt(o)
    PROVE  Promise!End(o) \/ UNCHANGED <<Phase, Outcome>>
<1>1. ASSUME LoopTimeout(o) PROVE Promise!End(o)
  BY <1>1, FinishesOne DEF LoopTimeout, Outcomes
<1>2. ASSUME LoopExhausted(o) PROVE Promise!End(o)
  <2> DEFINE r == IF lastError[o] = None THEN "configuration" ELSE lastError[o]
  <2>1. Finish({o}, r) /\ task[o] # "done"
    BY <1>2 DEF LoopExhausted
  <2>2. r \in Outcomes
    BY DEF IInv, TypeOK, Outcomes
  <2> HIDE DEF r
  <2> QED BY <2>1, <2>2, FinishesOne
<1>3. ASSUME LoopAttempt(o) PROVE UNCHANGED <<Phase, Outcome>>
  <2>1. task[o] = "loop" /\ task' = [task EXCEPT ![o] = "waiting"] /\ UNCHANGED delivered
    BY <1>3 DEF LoopAttempt
  <2> QED BY <2>1, MovesOn
<1> QED BY <1>1, <1>2, <1>3

(* The end of a member's attempt ends the exchange, or nothing is seen of  *)
(* it.                                                                     *)
LEMMA MemberKeeps ==
    ASSUME IInv, NEW o \in Ops, \/ MemberEnds(o) \/ MemberFails(o, "timeout")
                                \/ MemberCancelled(o)
    PROVE  Promise!End(o) \/ UNCHANGED <<Phase, Outcome>>
<1>1. task[o] = "waiting"
  BY DEF MemberEnds, MemberAnswers, MemberRetryable, MemberFails, MemberCancelled
<1>2. ASSUME Continue(o) PROVE UNCHANGED <<Phase, Outcome>>
  BY <1>1, <1>2, MovesOn DEF Continue
<1>3. ASSUME NEW r \in Outcomes, Finish({o}, r) PROVE Promise!End(o)
  BY <1>1, <1>3, FinishesOne
<1>4. "answer" \in Outcomes /\ "error" \in Outcomes /\ "timeout" \in Outcomes /\ "retryable" \in Outcomes
  BY DEF Outcomes
<1>5. ASSUME MemberAnswers(o) PROVE Promise!End(o)
  BY <1>3, <1>4, <1>5 DEF MemberAnswers
<1>6. ASSUME MemberRetryable(o) PROVE Promise!End(o) \/ UNCHANGED <<Phase, Outcome>>
  BY <1>2, <1>3, <1>4, <1>6 DEF MemberRetryable
<1>7. ASSUME NEW error \in Outcomes, MemberFails(o, error)
      PROVE  Promise!End(o) \/ UNCHANGED <<Phase, Outcome>>
  BY <1>2, <1>3, <1>7 DEF MemberFails
<1>8. ASSUME MemberCancelled(o) PROVE UNCHANGED <<Phase, Outcome>>
  BY <1>1, <1>8, MovesOn DEF MemberCancelled
<1> QED BY <1>4, <1>5, <1>6, <1>7, <1>8 DEF MemberEnds

(* stop() ends in one step all that were running. *)
LEMMA StopEndsTogether ==
    ASSUME IInv, Stop
    PROVE  Promise!EndTogether
<1>1. Finish(operations, "cancelled") /\ operations \in SUBSET Ops /\ "cancelled" \in Outcomes
  BY DEF Stop, IInv, TypeOK, Outcomes
<1>2. \A o \in operations : task[o] # "done" /\ task[o] # "idle"
  BY DEF IInv, OperationsTracked, Settled
<1>3. /\ Phase' = [o \in Ops |-> IF o \in operations THEN "done" ELSE Phase[o]]
      /\ Outcome' = [o \in Ops |-> IF o \in operations THEN "cancelled" ELSE Outcome[o]]
  BY <1>1, <1>2, FinishEnds
<1>4. operations \in SUBSET {o \in Ops : Phase[o] = "running"}
  BY <1>1, <1>2 DEF Phase
<1> QED BY <1>1, <1>3, <1>4 DEF Promise!EndTogether

(* Every step of the group is one of DnsExchange, or nothing to it.        *)
LEMMA PromiseStep == IInv /\ [Next]_vars => [Promise!Next]_<<Phase, Outcome>>
<1> SUFFICES ASSUME IInv, [Next]_vars
             PROVE  Promise!Next \/ UNCHANGED <<Phase, Outcome>>
  OBVIOUS
<1> DEFINE kept == Promise!Next \/ UNCHANGED <<Phase, Outcome>>
<1>1. \A o \in Ops : Promise!Begin(o) \/ Promise!End(o) => kept
  BY DEF Promise!Next
<1>2. Promise!EndTogether => kept
  BY DEF Promise!Next
<1>3. UNCHANGED <<Phase, Outcome>> => kept
  OBVIOUS
<1> HIDE DEF kept
<1>4. ASSUME NEW o \in Ops, Exchange(o) PROVE kept
  BY <1>1, <1>4, ExchangeBeginsOrEnds
<1>5. ASSUME NEW o \in Ops, LoopTimeout(o) \/ LoopExhausted(o) \/ LoopAttempt(o) PROVE kept
  BY <1>1, <1>3, <1>5, LoopKeeps
<1>6. ASSUME NEW o \in Ops, \/ MemberEnds(o) \/ MemberFails(o, "timeout")
                            \/ MemberCancelled(o)
      PROVE  kept
  BY <1>1, <1>3, <1>6, MemberKeeps
<1>7. ASSUME NEW o \in Ops, Abort(o) PROVE kept
  <2>1. Finish({o}, "cancelled") /\ task[o] # "done" /\ "cancelled" \in Outcomes
    BY <1>7 DEF Abort, IInv, OperationsTracked, Settled, Outcomes
  <2>2. Promise!End(o)
    BY <2>1, FinishesOne
  <2> QED BY <1>1, <2>2
<1>8. Stop => kept
  BY <1>2, StopEndsTogether
<1>9. Tick \/ UNCHANGED vars => kept
  <2> SUFFICES ASSUME Tick \/ UNCHANGED vars PROVE kept
    OBVIOUS
  <2>1. UNCHANGED <<task, delivered>>
    BY DEF Tick, vars, opVars
  <2> QED BY <1>3, <2>1, PhaseKept
<1>10. kept
  BY <1>4, <1>5, <1>6, <1>7, <1>8, <1>9 DEF Next
<1> QED BY <1>10 DEF kept

(* Whatever the members do, an exchange of the group is an exchange as     *)
(* docs/architecture.md (14.6) promises it: it ends at most once, with one *)
(* outcome that never changes.                                             *)
THEOREM KeepsExchangePromise == Spec => Promise!Spec
BY PromiseInit, PromiseStep, Invariance, PTL DEF Spec, Promise!Spec, Promise!exchangeVars
=============================================================================

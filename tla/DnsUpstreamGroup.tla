-------------------------- MODULE DnsUpstreamGroup --------------------------
(***************************************************************************)
(* DnsUpstreamGroup of src/dns/dns_upstream.cpp: one exchange tries the    *)
(* group's members one after the other until one gives a usable answer,    *)
(* each with a share of the time that is left, skipping members in         *)
(* backoff.  Everything runs on one strand; "busy" names the operation     *)
(* whose task holds it between two reads of the clock.                     *)
(*                                                                         *)
(* A member is what DnsUpstream::exchange makes of its transport: an       *)
(* exchange that ends once, by its deadline.                               *)
(***************************************************************************)
EXTENDS Naturals, Sequences, FiniteSets

CONSTANTS
    Ops,           \* calls of exchange()
    MemberCount,   \* members_.size(), fallbacks expanded
    Timeout,       \* the time an exchange is given
    RoundRobin,    \* selection_ == round_robin
    BackoffBase,   \* kHealthBackoffBase
    BackoffMax,    \* kHealthBackoffMaximum
    FailureCap,    \* consecutive_failures saturates here
    MaxTime,       \* bound on the clock
    MemberMayCancel, \* a member may fail with ErrorCode::cancelled by itself
    None

ASSUME GroupAssumption ==
    /\ MemberCount \in Nat /\ Timeout \in Nat
    /\ RoundRobin \in BOOLEAN /\ MemberMayCancel \in BOOLEAN
    /\ BackoffBase \in Nat /\ BackoffMax \in Nat /\ FailureCap \in 1..8
    /\ MaxTime \in Nat
    /\ None \notin Ops \cup (0..(MemberCount - 1))

Members == 0..(MemberCount - 1)

(* A usable answer, SERVFAIL or REFUSED, and the errors. *)
Outcomes == {"answer", "retryable", "error", "timeout", "cancelled", "configuration"}

VARIABLES
    task,         \* where the operation's task is
    index,        \* where the next selection starts
    attempted,    \* attempted_
    current,      \* current_index_
    lastError,    \* last_error_
    deadline,     \* deadline_
    memberDeadline,
    delivered,    \* terminals given to the caller
    operations,   \* operations_
    failures,     \* consecutive_failures of each member
    unhealthyUntil,
    nextMember,   \* next_member_
    stopped,      \* stopped_
    busy,
    now

opVars == <<task, index, attempted, current, lastError, deadline, memberDeadline>>
healthVars == <<failures, unhealthyUntil>>
vars == <<opVars, delivered, operations, healthVars, nextMember, stopped, busy, now>>

Init ==
    /\ task = [o \in Ops |-> "idle"]
    /\ index = [o \in Ops |-> 0]
    /\ attempted = [o \in Ops |-> {}]
    /\ current = [o \in Ops |-> 0]
    /\ lastError = [o \in Ops |-> None]
    /\ deadline = [o \in Ops |-> 0]
    /\ memberDeadline = [o \in Ops |-> 0]
    /\ delivered = [o \in Ops |-> <<>>]
    /\ operations = {}
    /\ failures = [m \in Members |-> 0]
    /\ unhealthyUntil = [m \in Members |-> 0]
    /\ nextMember = 0
    /\ stopped = FALSE
    /\ busy = None
    /\ now = 0

-----------------------------------------------------------------------------
(* Health and selection. *)

Lesser(a, b) == IF a < b THEN a ELSE b

(* 1 << (consecutive_failures - 1), which ends at the eighth. *)
Multiplier == <<1, 2, 4, 8, 16, 32, 64, 128>>

Backoff(f) == Lesser(BackoffMax, BackoffBase * Multiplier[f])

RecordFailure(m) ==
    LET f == Lesser(failures[m] + 1, FailureCap) IN
    /\ failures' = [failures EXCEPT ![m] = f]
    /\ unhealthyUntil' = [unhealthyUntil EXCEPT ![m] = now + Backoff(f)]

RecordSuccess(m) ==
    /\ failures' = [failures EXCEPT ![m] = 0]
    /\ unhealthyUntil' = [unhealthyUntil EXCEPT ![m] = 0]

(* The first of C in the circular order from "start". *)
FirstFrom(start, C) ==
    (start + CHOOSE d \in Members :
        /\ (start + d) % MemberCount \in C
        /\ \A e \in Members : (start + e) % MemberCount \in C => d <= e) % MemberCount

Healthy(o) == {m \in Members \ attempted[o] : unhealthyUntil[m] <= now}

\* Mutant: a member in backoff is chosen like any other.
SelectAnyMember(o) ==
    IF attempted[o] # Members THEN FirstFrom(index[o], Members \ attempted[o]) ELSE None

(* select_member: a healthy member, else any, else none *)
SelectMember(o) ==
    CASE Healthy(o) # {} -> FirstFrom(index[o], Healthy(o))
      [] Healthy(o) = {} /\ attempted[o] # Members ->
            FirstFrom(index[o], Members \ attempted[o])
      [] OTHER -> None

-----------------------------------------------------------------------------

(* Operation::finish: the first terminal wins and leaves operations_. *)

Finish(S, result) ==
    /\ delivered' = [o \in Ops |-> IF o \in S THEN Append(delivered[o], result) ELSE delivered[o]]
    /\ operations' = operations \ S
    /\ task' = [o \in Ops |-> IF o \in S THEN "done" ELSE task[o]]

(* exchange(), when its sender is started *)
Exchange(o) ==
    /\ busy = None /\ task[o] = "idle"
    /\ deadline' = [deadline EXCEPT ![o] = now + Timeout]
    /\ UNCHANGED <<attempted, current, lastError, memberDeadline, healthVars, stopped, now>>
    /\ \/ /\ stopped \/ MemberCount = 0
          /\ Finish({o}, IF stopped THEN "cancelled" ELSE "configuration")
          /\ UNCHANGED <<index, nextMember, busy>>
       \/ /\ ~stopped /\ MemberCount > 0
          /\ operations' = operations \cup {o}
          /\ task' = [task EXCEPT ![o] = "loop"]
          /\ busy' = o
          /\ index' = [index EXCEPT ![o] = IF RoundRobin THEN nextMember % MemberCount ELSE 0]
          /\ nextMember' = IF RoundRobin THEN (nextMember + 1) % MemberCount ELSE nextMember
          /\ UNCHANGED delivered

(* The head of the loop: the deadline has passed. *)
LoopTimeout(o) ==
    /\ busy = o /\ task[o] = "loop"
    /\ now >= deadline[o]
    /\ busy' = None
    /\ lastError' = [lastError EXCEPT ![o] = "timeout"]
    /\ RecordFailure(current[o])
    /\ Finish({o}, "timeout")
    /\ UNCHANGED <<index, attempted, current, deadline, memberDeadline, nextMember, stopped, now>>

(* The head of the loop: nobody is left to ask. *)
LoopExhausted(o) ==
    /\ busy = o /\ task[o] = "loop"
    /\ now < deadline[o] /\ SelectMember(o) = None
    /\ busy' = None
    /\ Finish({o}, IF lastError[o] = None THEN "configuration" ELSE lastError[o])
    /\ UNCHANGED <<index, attempted, current, lastError, deadline, memberDeadline, healthVars,
                   nextMember, stopped, now>>

\* Mutant: one member is given all the time that is left.
ShareAll(o) == deadline[o]

(* The time left is split evenly among the members not yet attempted. *)
Share(o) ==
    LET remaining == deadline[o] - now
        attempts == Cardinality(Members \ attempted[o]) IN
    IF attempts > 1 THEN now + remaining \div attempts ELSE deadline[o]

LoopAttempt(o) ==
    LET m == SelectMember(o) IN
    /\ busy = o /\ task[o] = "loop"
    /\ now < deadline[o] /\ m # None
    /\ busy' = None
    /\ task' = [task EXCEPT ![o] = "waiting"]
    /\ current' = [current EXCEPT ![o] = m]
    /\ attempted' = [attempted EXCEPT ![o] = @ \cup {m}]
    /\ memberDeadline' = [memberDeadline EXCEPT ![o] = Share(o)]
    /\ UNCHANGED <<index, lastError, deadline, delivered, operations, healthVars, nextMember,
                   stopped, now>>

-----------------------------------------------------------------------------
(* The member's exchange ends while the operation awaits it. *)

Continue(o) ==
    /\ task' = [task EXCEPT ![o] = "loop"]
    /\ index' = [index EXCEPT ![o] = (current[o] + 1) % MemberCount]
    /\ busy' = o
    /\ UNCHANGED <<delivered, operations>>

MemberAnswers(o) ==
    /\ busy = None /\ task[o] = "waiting"
    /\ RecordSuccess(current[o])
    /\ Finish({o}, "answer")
    /\ UNCHANGED <<index, attempted, current, lastError, deadline, memberDeadline, nextMember,
                   stopped, busy, now>>

MemberRetryable(o) ==
    /\ busy = None /\ task[o] = "waiting"
    /\ lastError' = [lastError EXCEPT ![o] = "error"]
    /\ RecordFailure(current[o])
    /\ \/ /\ now < deadline[o] /\ attempted[o] # Members
          /\ Continue(o)
       \/ /\ ~(now < deadline[o] /\ attempted[o] # Members)
          /\ Finish({o}, "retryable")
          /\ UNCHANGED <<index, busy>>
    /\ UNCHANGED <<attempted, current, deadline, memberDeadline, nextMember, stopped, now>>

(* A transport times out no earlier than its deadline. *)
MemberFails(o, error) ==
    /\ busy = None /\ task[o] = "waiting"
    /\ error = "timeout" => now >= memberDeadline[o]
    /\ lastError' = [lastError EXCEPT ![o] = error]
    /\ RecordFailure(current[o])
    /\ \/ now < deadline[o] /\ Continue(o)
       \/ now >= deadline[o] /\ Finish({o}, error) /\ UNCHANGED <<index, busy>>
    /\ UNCHANGED <<attempted, current, deadline, memberDeadline, nextMember, stopped, now>>

(* A cancelled member ends the task: the loop takes it for the echo of its *)
(* own cancel() and returns without finish().                              *)
MemberCancelled(o) ==
    /\ MemberMayCancel
    /\ busy = None /\ task[o] = "waiting"
    /\ task' = [task EXCEPT ![o] = "ended"]
    /\ UNCHANGED <<index, attempted, current, lastError, deadline, memberDeadline, delivered,
                   operations, healthVars, nextMember, stopped, busy, now>>

-----------------------------------------------------------------------------
(* The abort of the sender, and stop(). *)

Abort(o) ==
    /\ busy = None /\ o \in operations
    /\ Finish({o}, "cancelled")
    /\ UNCHANGED <<index, attempted, current, lastError, deadline, memberDeadline, healthVars,
                   nextMember, stopped, busy, now>>

Stop ==
    /\ busy = None /\ ~stopped
    /\ stopped' = TRUE
    /\ Finish(operations, "cancelled")
    /\ UNCHANGED <<index, attempted, current, lastError, deadline, memberDeadline, healthVars,
                   nextMember, busy, now>>

Tick ==
    /\ now < MaxTime
    /\ now' = now + 1
    /\ UNCHANGED <<opVars, delivered, operations, healthVars, nextMember, stopped, busy>>

MemberEnds(o) == MemberAnswers(o) \/ MemberRetryable(o) \/ MemberFails(o, "error")

Next ==
    \/ \E o \in Ops :
          \/ Exchange(o) \/ LoopTimeout(o) \/ LoopExhausted(o) \/ LoopAttempt(o)
          \/ MemberEnds(o) \/ MemberFails(o, "timeout") \/ MemberCancelled(o) \/ Abort(o)
    \/ Stop
    \/ Tick

Spec == Init /\ [][Next]_vars

(* A task that holds the strand goes on, and a member's exchange ends. *)
FairSpec ==
    /\ Spec
    /\ \A o \in Ops : /\ WF_vars(LoopTimeout(o) \/ LoopExhausted(o) \/ LoopAttempt(o))
                      /\ WF_vars(MemberEnds(o) \/ MemberCancelled(o))

-----------------------------------------------------------------------------
(* Properties. *)

(* Types, with the saturated failure count and the capped backoff. *)
TypeOK ==
    /\ task \in [Ops -> {"idle", "loop", "waiting", "ended", "done"}]
    /\ index \in [Ops -> Nat] /\ current \in [Ops -> Nat]
    /\ attempted \in [Ops -> SUBSET Members]
    /\ lastError \in [Ops -> Outcomes \cup {None}]
    /\ deadline \in [Ops -> 0..(MaxTime + Timeout)]
    /\ memberDeadline \in [Ops -> 0..(MaxTime + Timeout)]
    /\ delivered \in [Ops -> Seq(Outcomes)]
    /\ operations \subseteq Ops
    /\ failures \in [Members -> 0..FailureCap]
    /\ unhealthyUntil \in [Members -> 0..(MaxTime + BackoffMax)]
    /\ nextMember \in Nat /\ stopped \in BOOLEAN /\ busy \in Ops \cup {None}
    /\ now \in 0..MaxTime

(* operations_ holds exactly the exchanges that stop() still has to end:   *)
(* finish() forgets, and an operation is forgotten only when it answered.  *)
OperationsTracked ==
    operations = {o \in Ops : task[o] # "idle" /\ delivered[o] = <<>>}

(* While other members remain to be asked the one being asked is given     *)
(* less than all the time that is left.                                    *)
EveryMemberHasTime ==
    \A o \in Ops : task[o] = "waiting" =>
        /\ memberDeadline[o] <= deadline[o]
        /\ attempted[o] # Members => memberDeadline[o] < deadline[o]

(* An exchange gives up, other than by cancellation, only when every       *)
(* member was asked or its time was over.                                  *)
GivesUpLate ==
    [][\A o \in Ops :
          /\ delivered[o] = <<>> /\ delivered'[o] # <<>>
          /\ delivered'[o][1] \in {"retryable", "error", "timeout", "configuration"}
          => attempted[o] = Members \/ now >= deadline[o]]_vars

(* A member in backoff is asked only when no member that is left is        *)
(* healthy.                                                                *)
BackoffHonoured ==
    [][\A o \in Ops : task[o] = "loop" /\ task'[o] = "waiting" =>
          \/ unhealthyUntil[current'[o]] <= now
          \/ \A m \in Members \ attempted[o] : unhealthyUntil[m] > now]_vars

Phase == [o \in Ops |->
    CASE task[o] = "idle" -> "idle" [] task[o] = "done" -> "done" [] OTHER -> "running"]
Outcome == [o \in Ops |-> IF delivered[o] = <<>> THEN None ELSE delivered[o][1]]

(* The group keeps the promise of an exchange: one outcome, and some       *)
(* outcome.                                                                *)
Promise == INSTANCE DnsExchange WITH phase <- Phase, outcome <- Outcome, NoOutcome <- None

\* operations_ holds exactly the exchanges that are not answered yet, and the
\* member being asked has time of its own within the deadline of the exchange.
GroupIsSound == TypeOK /\ OperationsTracked /\ EveryMemberHasTime

\* The group gives up only after every member or at the deadline, and asks a
\* member in backoff only when all that are left are.
RetriesAreFair == GivesUpLate /\ BackoffHonoured
=============================================================================

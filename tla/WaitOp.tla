------------------------------- MODULE WaitOp -------------------------------
(***************************************************************************)
(* The life of one pull on a watch or broadcast receiver: the operation    *)
(* state RecvOpState / WaitOpState of include/clash_native/async, seen     *)
(* apart from the channel it waits on.  start() registers the stop         *)
(* callback before it takes the channel's mutex; on_stop() runs on the     *)
(* thread that requests the stop; a completion fires outside the mutex     *)
(* after stop_callback_.reset(), which waits for a running callback.       *)
(***************************************************************************)
EXTENDS Integers, Sequences, FiniteSets

CONSTANTS
    Receivers,   \* receiver handles
    MaxPulls     \* bound on the pulls each receiver starts

Ops == Receivers \X (1..MaxPulls)
Owner(o) == o[1]

VARIABLES
    parked,     \* operations linked in the wait list, oldest first
    stage,      \* WaitNode::stage
    phase,      \* where the owner of the operation is
    callback,   \* the registered stop callback
    stopFlag,   \* stop_requested_
    owed,       \* completion signals somebody must still deliver
    fired,      \* number of completion signals delivered
    result      \* the last one

opVars == <<parked, stage, phase, callback, stopFlag, owed, fired, result>>

Ended(o) == fired[o] > 0 \/ stage[o] = "kGone"
Stopping(o) == callback[o] = "running" \/ stopFlag[o] \/ stage[o] = "kStopped"

OpTypeOK ==
    /\ parked \in Seq(Ops)
    /\ stage \in [Ops -> {"kInit", "kQueued", "kDone", "kStopped", "kGone"}]
    /\ phase \in [Ops -> {"fresh", "starting", "started"}]
    /\ callback \in [Ops -> {"off", "armed", "running"}]
    /\ stopFlag \in [Ops -> BOOLEAN]
    /\ fired \in [Ops -> Nat]

OpInit ==
    /\ parked = <<>>
    /\ stage = [o \in Ops |-> "kInit"]
    /\ phase = [o \in Ops |-> "fresh"]
    /\ callback = [o \in Ops |-> "off"]
    /\ stopFlag = [o \in Ops |-> FALSE]
    /\ owed = [o \in Ops |-> {}]
    /\ fired = [o \in Ops |-> 0]
    /\ result = [o \in Ops |-> <<"none">>]

SeqRange(s) == {s[i] : i \in 1..Len(s)}
Without(s, x) == SelectSeq(s, LAMBDA y : y # x)

Owe(o, sig) == owed' = [owed EXCEPT ![o] = @ \cup {sig}]

(* start() up to the lock.  A receiver's pulls are started one by one. *)
StartPull(o) ==
    /\ phase[o] = "fresh"
    /\ \A n \in 1..(o[2] - 1) : phase[<<o[1], n>>] # "fresh"
    /\ phase' = [phase EXCEPT ![o] = "starting"]
    /\ callback' = [callback EXCEPT ![o] = "armed"]
    /\ UNCHANGED <<parked, stage, stopFlag, owed, fired, result>>

(* The arbitration of start() ended without parking: sig is delivered next. *)
Answer(o, sig) ==
    /\ Owe(o, sig)
    /\ UNCHANGED <<parked, stage>>

(* At most one outstanding pull per receiver may wait. *)
AlreadyWaiting(o) == \E p \in SeqRange(parked) : p # o /\ Owner(p) = Owner(o)

Park(o) ==
    /\ stage' = [stage EXCEPT ![o] = "kQueued"]
    /\ parked' = Append(parked, o)
    /\ UNCHANGED owed

ParkOrRefuse(o) == IF AlreadyWaiting(o) THEN Answer(o, <<"violation">>) ELSE Park(o)

(* Every waiter leaves the list; SigFor(o) is what each is completed with.  *)
WakeAll(SigFor(_)) ==
    /\ parked' = <<>>
    /\ stage' = [o \in Ops |-> IF o \in SeqRange(parked) THEN "kDone" ELSE stage[o]]
    /\ owed' = [o \in Ops |-> IF o \in SeqRange(parked) THEN owed[o] \cup {SigFor(o)} ELSE owed[o]]
    /\ UNCHANGED <<phase, callback, stopFlag, fired, result>>

(* The stop source of the pull's receiver fires the callback. *)
RequestStop(o) ==
    /\ callback[o] = "armed"
    /\ callback' = [callback EXCEPT ![o] = "running"]
    /\ UNCHANGED <<parked, stage, phase, stopFlag, owed, fired, result>>

(* on_stop(): withdraw a parked pull, or leave a flag for start(). *)
OnStop(o) ==
    /\ callback[o] = "running"
    /\ callback' = [callback EXCEPT ![o] = "off"]
    /\ \/ /\ stage[o] = "kQueued"
          /\ parked' = Without(parked, o)
          /\ stage' = [stage EXCEPT ![o] = "kStopped"]
          /\ Owe(o, <<"stopped">>)
          /\ UNCHANGED stopFlag
       \/ /\ stage[o] = "kInit"
          /\ stopFlag' = [stopFlag EXCEPT ![o] = TRUE]
          /\ UNCHANGED <<parked, stage, owed>>
       \/ /\ stage[o] \notin {"kQueued", "kInit"}
          /\ UNCHANGED <<parked, stage, stopFlag, owed>>
    /\ UNCHANGED <<phase, fired, result>>

(* The destructor of an operation that is still queued. *)
DestroyPull(o) ==
    /\ stage[o] = "kQueued"
    /\ parked' = Without(parked, o)
    /\ stage' = [stage EXCEPT ![o] = "kGone"]
    /\ callback' = [callback EXCEPT ![o] = IF @ = "running" THEN @ ELSE "off"]
    /\ UNCHANGED <<phase, stopFlag, owed, fired, result>>

(* The signal reaches the stdexec receiver; sig is the one owed, delivered  *)
(* is what it turns into.                                                   *)
Signal(o, sig, delivered) ==
    /\ callback[o] # "running"
    /\ owed' = [owed EXCEPT ![o] = @ \ {sig}]
    /\ result' = [result EXCEPT ![o] = delivered]
    /\ fired' = [fired EXCEPT ![o] = @ + 1]
    /\ callback' = [callback EXCEPT ![o] = "off"]
    /\ UNCHANGED <<parked, stage, phase, stopFlag>>

OneSignal ==
    \A o \in Ops :
        /\ fired[o] <= 1
        /\ owed[o] # {} => fired[o] = 0 /\ Cardinality(owed[o]) = 1
        /\ stage[o] \in {"kQueued", "kGone"} => owed[o] = {} /\ fired[o] = 0
=============================================================================

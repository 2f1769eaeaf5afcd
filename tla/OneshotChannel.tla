--------------------------- MODULE OneshotChannel ---------------------------
(***************************************************************************)
(* oneshot::channel (include/clash_native/async/oneshot.hpp): one value,   *)
(* error or end from a sender to a receiver, which waits with a stop       *)
(* callback armed.  The sender, the receiver's thread and the thread that  *)
(* requests the stop run concurrently; a step is what one of them does     *)
(* under the mutex, or between two uses of it.                             *)
(***************************************************************************)
EXTENDS Naturals, Sequences

CONSTANT MaxSends    \* bound: calls of the sender

OneshotAssumption == MaxSends \in Nat
SendKinds == {"value", "error", "end"}      \* send(), send_error(), close()

VARIABLES
    status,    \* "empty" or what was settled
    waiter,    \* the receiver is parked in the state
    detached,  \* a parked receiver went away
    rx,        \* "fresh", "armed", "deciding", "waiting", "finished", "dropped"
    outcome,   \* what start() decided
    callback,  \* the stop callback: "unset", "set", "running", "off"
    stopFlag,  \* stop_requested_
    stopped,   \* a stop was requested of the receiver's token
    fires,     \* on_stop() withdrew the waiter and is about to signal
    claimed,   \* settle() took the waiter and is about to deliver
    verdicts,  \* what the calls of the sender returned
    signals    \* what the receiver was completed with

vars == <<status, waiter, detached, rx, outcome, callback, stopFlag, stopped, fires, claimed,
          verdicts, signals>>

TypeOK == /\ status \in SendKinds \cup {"empty"} /\ callback \in {"unset", "set", "running", "off"}
          /\ rx \in {"fresh", "armed", "deciding", "waiting", "finished", "dropped"}
          /\ {waiter, detached, stopFlag, stopped, fires, claimed} \subseteq BOOLEAN
          /\ Len(verdicts) <= MaxSends

Init == /\ status = "empty" /\ waiter = FALSE /\ detached = FALSE /\ rx = "fresh"
        /\ outcome = "none" /\ callback = "unset" /\ stopFlag = FALSE /\ stopped = FALSE
        /\ fires = FALSE /\ claimed = FALSE /\ verdicts = <<>> /\ signals = <<>>

-----------------------------------------------------------------------------
\* settle(): refused once settled or detached; takes a parked receiver with it.
Settle(k) ==
    /\ Len(verdicts) < MaxSends /\ ~claimed
    /\ LET ok == status = "empty" /\ ~detached IN
       /\ verdicts' = Append(verdicts, ok)
       /\ status' = (IF ok THEN k ELSE status)
       /\ claimed' = (ok /\ waiter) /\ waiter' = (waiter /\ ~ok)
    /\ UNCHANGED <<detached, rx, outcome, callback, stopFlag, stopped, fires, signals>>

\* deliver(): outside the mutex; unregistering waits for a callback that runs.
Deliver == /\ claimed /\ callback # "running" /\ claimed' = FALSE /\ callback' = "off"
           /\ signals' = Append(signals, status) /\ rx' = "finished"
           /\ UNCHANGED <<status, waiter, detached, outcome, stopFlag, stopped, fires, verdicts>>

\* start(): arms the callback, which runs inline when a stop was requested already...
Arm == /\ rx = "fresh" /\ rx' = "armed" /\ callback' = (IF stopped THEN "off" ELSE "set")
       /\ stopFlag' = (stopped /\ status = "empty")
       /\ UNCHANGED <<status, waiter, detached, outcome, stopped, fires, claimed, verdicts, signals>>
\* ... arbitrates under the mutex...
Arbitrate ==
    /\ rx = "armed"
    /\ \/ stopFlag /\ outcome' = "stopped" /\ rx' = "deciding" /\ UNCHANGED waiter
       \/ ~stopFlag /\ status # "empty" /\ outcome' = status /\ rx' = "deciding" /\ UNCHANGED waiter
       \/ ~stopFlag /\ status = "empty" /\ waiter' = TRUE /\ rx' = "waiting" /\ UNCHANGED outcome
    /\ UNCHANGED <<status, detached, callback, stopFlag, stopped, fires, claimed, verdicts, signals>>
\* ... and completes outside it, when the callback is off.
Complete == /\ rx = "deciding" /\ callback # "running" /\ callback' = "off" /\ rx' = "finished"
            /\ signals' = Append(signals, outcome)
            /\ UNCHANGED <<status, waiter, detached, outcome, stopFlag, stopped, fires, claimed,
                           verdicts>>

RequestStop == /\ ~stopped /\ stopped' = TRUE
               /\ callback' = (IF callback = "set" THEN "running" ELSE callback)
               /\ UNCHANGED <<status, waiter, detached, rx, outcome, stopFlag, fires, claimed,
                              verdicts, signals>>
\* Mutant: the stop signals whoever took the waiter.
OnStopAlways == /\ callback = "running" /\ ~fires /\ fires' = TRUE /\ waiter' = FALSE
                /\ detached' = TRUE
                /\ UNCHANGED <<status, rx, outcome, callback, stopFlag, stopped, claimed,
                               verdicts, signals>>
OnStop == /\ callback = "running" /\ ~fires
          /\ \/ waiter /\ waiter' = FALSE /\ detached' = TRUE /\ fires' = TRUE
                /\ UNCHANGED <<stopFlag, callback>>
             \/ ~waiter /\ stopFlag' = (stopFlag \/ status = "empty") /\ callback' = "off"
                /\ UNCHANGED <<waiter, detached, fires>>
          /\ UNCHANGED <<status, rx, outcome, stopped, claimed, verdicts, signals>>
Fire == /\ fires /\ fires' = FALSE /\ callback' = "off" /\ rx' = "finished"
        /\ signals' = Append(signals, "stopped")
        /\ UNCHANGED <<status, waiter, detached, outcome, stopFlag, stopped, claimed, verdicts>>

\* The receiver is dropped before its start, or its operation while it is parked.
Drop == /\ rx = "fresh" \/ (rx = "waiting" /\ waiter /\ callback # "running")
        /\ waiter' = FALSE /\ detached' = (detached \/ waiter) /\ callback' = "off"
        /\ rx' = "dropped"
        /\ UNCHANGED <<status, outcome, stopFlag, stopped, fires, claimed, verdicts, signals>>

ReceiverStep == Arbitrate \/ Complete
StopStep == OnStop \/ Fire
Next == (\E k \in SendKinds : Settle(k)) \/ Deliver \/ Arm \/ ReceiverStep \/ RequestStop \/ StopStep
        \/ Drop
Spec == Init /\ [][Next]_vars

-----------------------------------------------------------------------------
Accepted == \E i \in 1 .. Len(verdicts) : verdicts[i]
\* The receiver is completed once, by what was settled or by a stop of its own.
CompletesOnce == /\ Len(signals) <= 1 /\ (rx = "finished" <=> Len(signals) = 1)
                 /\ \A i \in 1 .. Len(signals) : signals[i] \in {status, "stopped"}
\* One call settles; what it settled reaches the receiver, unless that was stopped or dropped.
AcceptedOnce == /\ Accepted <=> status # "empty"
                /\ \A i, j \in 1 .. Len(verdicts) : verdicts[i] /\ verdicts[j] => i = j
                /\ (Accepted /\ rx = "finished") => signals[1] = status \/ stopped
\* A receiver that waits is parked, or somebody is about to complete it.
WaitsRightly == rx = "waiting" => \/ waiter /\ status = "empty" /\ ~fires /\ ~claimed
                                  \/ ~waiter /\ (fires # claimed)
\* Nobody is about to complete a receiver that is gone.
NothingDangles == (claimed \/ fires) => rx = "waiting"
\* A refusal means that an earlier call settled or that the receiver went away.
RefusedRightly == (Len(verdicts) > 0 /\ ~Accepted) => detached
OneshotIsSound == /\ TypeOK /\ CompletesOnce /\ AcceptedOnce /\ WaitsRightly /\ NothingDangles
                  /\ RefusedRightly
\* A receiver that started, and was sent something or stopped, and is not completed:
\* not for ever.
Overdue == rx \in {"armed", "deciding", "waiting"} /\ (Accepted \/ stopped)
=============================================================================

---------------------------- MODULE MpscChannel ----------------------------
(***************************************************************************)
(* The multi-producer single-consumer channel of                           *)
(* include/clash_native/async/mpsc_channel.hpp, in its bounded form        *)
(* (BoundedSender, parked sends, capacity 0 = rendezvous) and its          *)
(* unbounded form (Sender, synchronous try_send).                          *)
(*                                                                         *)
(* One action is one critical section of State::mutex, or one completion   *)
(* fired after the mutex was released.  Stop callbacks run on the thread   *)
(* that requests the stop, so they interleave with everything else.        *)
(*                                                                         *)
(* An operation state is identified by an element of Sends or Recvs.  A    *)
(* send carries one value, so the send's identity also names its value.    *)
(***************************************************************************)
EXTENDS Integers, Sequences, FiniteSets

CONSTANTS
    Sends,       \* send operations, each with its own value
    Recvs,       \* receive operations
    Capacity,    \* capacity of a bounded channel, 0 is rendezvous
    Bounded,     \* bounded_mode
    MaxSenders,  \* bound on the number of live sender handles
    None         \* the null pointer

ASSUME MpscAssumption ==
    /\ Capacity \in Nat
    /\ Bounded \in BOOLEAN
    /\ MaxSenders \in Nat \ {0}
    /\ Sends \cap Recvs = {}
    /\ None \notin Sends \cup Recvs

Ops == Sends \cup Recvs

VARIABLES
    buffer,     \* values in the deque
    waitList,   \* parked sends, oldest first
    recvSlot,   \* the parked receive, or None
    closed,
    senders,    \* live sender handles
    receiver,   \* the Receiver handle still owns the state
    stage,      \* arbitration stage of each operation state
    phase,      \* where the owner of the operation state is
    callback,   \* the stop callback of each operation state
    stopFlag,   \* stop_requested_
    owed,       \* completion signals somebody must still deliver
    after,      \* the operation completed first by the same thread
    fired,      \* number of completion signals delivered
    result,     \* the last completion signal delivered
    held,       \* value handed to each receive
    polled,     \* values returned by try_recv
    accepted,   \* history: values in the order the channel accepted them
    taken       \* history: values in the order they left the channel

chanVars == <<buffer, waitList, recvSlot, closed>>
handleVars == <<senders, receiver>>
opVars == <<stage, phase, callback, stopFlag>>
signalVars == <<owed, after, fired, result>>
valueVars == <<held, polled, accepted, taken>>
vars == <<chanVars, handleVars, opVars, signalVars, valueVars>>

Stages == {"kInit", "kQueued", "kClaimed", "kClosed", "kStopped", "kGone"}
SendSignals == {"true", "false", "stopped"}
RecvSignals == {"value", "closed", "violation", "stopped"}
Signals == SendSignals \cup RecvSignals

SeqRange(s) == {s[i] : i \in 1..Len(s)}

(* unlink_send(): a node in the middle of the list leaves, the others keep *)
(* their order.                                                            *)
Unlink(list, x) ==
    LET k == CHOOSE k \in 1..Len(list) : list[k] = x
    IN  [i \in 1..(Len(list) - 1) |-> IF i < k THEN list[i] ELSE list[i + 1]]

ChanTypeOK ==
    /\ buffer \in Seq(Sends)
    /\ waitList \in Seq(Sends)
    /\ recvSlot \in Recvs \cup {None}
    /\ closed \in BOOLEAN
    /\ senders \in 0..MaxSenders
    /\ receiver \in BOOLEAN

OpTypeOK ==
    /\ stage \in [Ops -> Stages]
    /\ phase \in [Ops -> {"fresh", "starting", "started"}]
    /\ callback \in [Ops -> {"off", "armed", "running"}]
    /\ stopFlag \in [Ops -> BOOLEAN]

SignalTypeOK ==
    /\ owed \in [Ops -> SUBSET Signals]
    /\ after \in [Ops -> Ops \cup {None}]
    /\ fired \in [Ops -> Nat]
    /\ result \in [Ops -> Signals \cup {"none"}]

ValueTypeOK ==
    /\ held \in [Recvs -> Sends \cup {None}]
    /\ polled \in SUBSET Sends
    /\ accepted \in Seq(Sends)
    /\ taken \in Seq(Sends)

(* The type invariant. *)
TypeOK == ChanTypeOK /\ OpTypeOK /\ SignalTypeOK /\ ValueTypeOK

Init ==
    /\ buffer = <<>>
    /\ waitList = <<>>
    /\ recvSlot = None
    /\ closed = FALSE
    /\ senders = 1
    /\ receiver = TRUE
    /\ stage = [o \in Ops |-> "kInit"]
    /\ phase = [o \in Ops |-> "fresh"]
    /\ callback = [o \in Ops |-> "off"]
    /\ stopFlag = [o \in Ops |-> FALSE]
    /\ owed = [o \in Ops |-> {}]
    /\ after = [o \in Ops |-> None]
    /\ fired = [o \in Ops |-> 0]
    /\ result = [o \in Ops |-> "none"]
    /\ held = [r \in Recvs |-> None]
    /\ polled = {}
    /\ accepted = <<>>
    /\ taken = <<>>

-----------------------------------------------------------------------------
(* Completions.  Owe(o, sig) records that the thread leaving the critical  *)
(* section must complete o; OweTwo also fixes the order of two completions *)
(* made by the same thread.                                                *)

Owe(o, sig) ==
    /\ owed' = [owed EXCEPT ![o] = @ \cup {sig}]
    /\ UNCHANGED <<after, fired, result>>

OweTwo(first, sig1, second, sig2) ==
    /\ owed' = [owed EXCEPT ![first] = @ \cup {sig1}, ![second] = @ \cup {sig2}]
    /\ after' = [after EXCEPT ![second] = first]
    /\ UNCHANGED <<fired, result>>

(* complete(), complete_value(), complete_closed() and the tail of start():  *)
(* stop_callback_.reset() waits for a callback that is running, then the     *)
(* signal is delivered.                                                      *)
Complete(o) ==
    /\ callback[o] # "running"
    /\ after[o] # None => fired[after[o]] > 0
    /\ \E sig \in owed[o] :
         /\ owed' = [owed EXCEPT ![o] = @ \ {sig}]
         /\ result' = [result EXCEPT ![o] = sig]
    /\ fired' = [fired EXCEPT ![o] = @ + 1]
    /\ callback' = [callback EXCEPT ![o] = "off"]
    /\ UNCHANGED <<chanVars, handleVars, stage, phase, stopFlag, after, valueVars>>

-----------------------------------------------------------------------------
(* Operation states: start() up to the lock, the stop callback, and the    *)
(* destructor of an operation that is still queued.                        *)

(* start() registers the stop callback before it takes the mutex. *)
Start(o) ==
    /\ phase[o] = "fresh"
    /\ IF o \in Sends THEN Bounded /\ senders > 0 ELSE receiver
    /\ phase' = [phase EXCEPT ![o] = "starting"]
    /\ callback' = [callback EXCEPT ![o] = "armed"]
    /\ UNCHANGED <<chanVars, handleVars, stage, stopFlag, signalVars, valueVars>>

(* The stop source of the operation's receiver fires the callback. *)
RequestStop(o) ==
    /\ callback[o] = "armed"
    /\ callback' = [callback EXCEPT ![o] = "running"]
    /\ UNCHANGED <<chanVars, handleVars, stage, phase, stopFlag, signalVars, valueVars>>

(* on_stop() of a send: withdraw a parked value, or leave a flag for start(). *)
OnStopSend(s) ==
    /\ callback[s] = "running"
    /\ callback' = [callback EXCEPT ![s] = "off"]
    /\ \/ /\ stage[s] = "kQueued"
          /\ waitList' = Unlink(waitList, s)
          /\ stage' = [stage EXCEPT ![s] = "kStopped"]
          /\ Owe(s, "stopped")
          /\ UNCHANGED stopFlag
       \/ /\ stage[s] = "kInit"
          /\ stopFlag' = [stopFlag EXCEPT ![s] = TRUE]
          /\ UNCHANGED <<waitList, stage, signalVars>>
       \/ /\ stage[s] \notin {"kQueued", "kInit"}
          /\ UNCHANGED <<waitList, stage, stopFlag, signalVars>>
    /\ UNCHANGED <<buffer, recvSlot, closed, handleVars, phase, valueVars>>

(* Mutant: the stop does not look at the stage and also wins after a claim. *)
OnStopRecvAlways(r) ==
    /\ callback[r] = "running"
    /\ callback' = [callback EXCEPT ![r] = "off"]
    /\ recvSlot' = IF recvSlot = r THEN None ELSE recvSlot
    /\ stage' = [stage EXCEPT ![r] = "kStopped"]
    /\ Owe(r, "stopped")
    /\ UNCHANGED <<buffer, waitList, closed, handleVars, phase, stopFlag, valueVars>>

(* on_stop() of a receive: release the slot, or leave a flag for start(). *)
OnStopRecv(r) ==
    /\ callback[r] = "running"
    /\ callback' = [callback EXCEPT ![r] = "off"]
    /\ \/ /\ stage[r] = "kQueued"
          /\ recvSlot' = None
          /\ stage' = [stage EXCEPT ![r] = "kStopped"]
          /\ Owe(r, "stopped")
          /\ UNCHANGED stopFlag
       \/ /\ stage[r] = "kInit"
          /\ stopFlag' = [stopFlag EXCEPT ![r] = TRUE]
          /\ UNCHANGED <<recvSlot, stage, signalVars>>
       \/ /\ stage[r] \notin {"kQueued", "kInit"}
          /\ UNCHANGED <<recvSlot, stage, stopFlag, signalVars>>
    /\ UNCHANGED <<buffer, waitList, closed, handleVars, phase, valueVars>>

(* ~SendOpState while queued: unlink, the value dies with the operation. *)
DestroySend(s) ==
    /\ stage[s] = "kQueued"
    /\ waitList' = Unlink(waitList, s)
    /\ stage' = [stage EXCEPT ![s] = "kGone"]
    /\ callback' = [callback EXCEPT ![s] = IF @ = "running" THEN @ ELSE "off"]
    /\ UNCHANGED <<buffer, recvSlot, closed, handleVars, phase, stopFlag, signalVars, valueVars>>

(* ~RecvOpState while queued: release the slot for a later receive. *)
DestroyRecv(r) ==
    /\ stage[r] = "kQueued"
    /\ recvSlot' = None
    /\ stage' = [stage EXCEPT ![r] = "kGone"]
    /\ callback' = [callback EXCEPT ![r] = IF @ = "running" THEN @ ELSE "off"]
    /\ UNCHANGED <<buffer, waitList, closed, handleVars, phase, stopFlag, signalVars, valueVars>>

-----------------------------------------------------------------------------
(* Sending. *)

HasRoom == ~Bounded \/ Len(buffer) < Capacity

(* A value goes straight to the parked receive, bypassing the buffer. *)
HandToSlot(s) ==
    /\ recvSlot' = None
    /\ stage' = [stage EXCEPT ![recvSlot] = "kClaimed"]
    /\ held' = [held EXCEPT ![recvSlot] = s]
    /\ accepted' = Append(accepted, s)
    /\ taken' = Append(taken, s)
    /\ UNCHANGED <<buffer, waitList, polled>>

(* Mutant: the newest value is served first. *)
PushFront(s) ==
    /\ buffer' = <<s>> \o buffer
    /\ accepted' = Append(accepted, s)
    /\ UNCHANGED <<waitList, recvSlot, stage, held, polled, taken>>

PushBack(s) ==
    /\ buffer' = Append(buffer, s)
    /\ accepted' = Append(accepted, s)
    /\ UNCHANGED <<waitList, recvSlot, stage, held, polled, taken>>

(* The critical section of SendOpState::start(). *)
SendArbitrate(s) ==
    /\ phase[s] = "starting"
    /\ phase' = [phase EXCEPT ![s] = "started"]
    /\ \/ /\ stopFlag[s]
          /\ Owe(s, "stopped")
          /\ UNCHANGED <<buffer, waitList, recvSlot, stage, valueVars>>
       \/ /\ ~stopFlag[s] /\ closed
          /\ Owe(s, "false")
          /\ UNCHANGED <<buffer, waitList, recvSlot, stage, valueVars>>
       \/ /\ ~stopFlag[s] /\ ~closed /\ recvSlot # None
          /\ HandToSlot(s)
          /\ OweTwo(recvSlot, "value", s, "true")
       \/ /\ ~stopFlag[s] /\ ~closed /\ recvSlot = None /\ HasRoom
          /\ PushBack(s)
          /\ Owe(s, "true")
       \/ /\ ~stopFlag[s] /\ ~closed /\ recvSlot = None /\ ~HasRoom
          /\ stage' = [stage EXCEPT ![s] = "kQueued"]
          /\ waitList' = Append(waitList, s)
          /\ UNCHANGED <<buffer, recvSlot, signalVars, valueVars>>
    /\ UNCHANGED <<closed, handleVars, callback, stopFlag>>

(* Sender::send / State::try_send on an unbounded channel.  The caller gets *)
(* its answer when the call returns, after a parked receive was completed.  *)
TrySend(s) ==
    /\ ~Bounded
    /\ phase[s] = "fresh"
    /\ senders > 0
    /\ phase' = [phase EXCEPT ![s] = "started"]
    /\ \/ /\ closed
          /\ Owe(s, "false")
          /\ UNCHANGED <<buffer, waitList, recvSlot, stage, valueVars>>
       \/ /\ ~closed /\ recvSlot # None
          /\ HandToSlot(s)
          /\ OweTwo(recvSlot, "value", s, "true")
       \/ /\ ~closed /\ recvSlot = None
          /\ PushBack(s)
          /\ Owe(s, "true")
    /\ UNCHANGED <<closed, handleVars, callback, stopFlag>>

-----------------------------------------------------------------------------
(* Receiving. *)

(* Popping a value refills the freed slot from the oldest parked send; with *)
(* an empty buffer the oldest parked value is delivered directly.           *)
NoRefill == FALSE  \* Mutant: a freed slot does not wake the oldest parked send
BufferOnly == buffer # <<>>  \* Mutant: a receive does not look at the parked sends
Available == buffer # <<>> \/ waitList # <<>>
Popped == IF buffer # <<>> THEN Head(buffer) ELSE Head(waitList)
Refill == waitList # <<>>

PopValue ==
    /\ taken' = Append(taken, Popped)
    /\ IF buffer # <<>>
       THEN buffer' = IF Refill THEN Append(Tail(buffer), Head(waitList)) ELSE Tail(buffer)
       ELSE UNCHANGED buffer
    /\ IF Refill
       THEN /\ waitList' = Tail(waitList)
            /\ stage' = [stage EXCEPT ![Head(waitList)] = "kClaimed"]
            /\ accepted' = Append(accepted, Head(waitList))
       ELSE UNCHANGED <<waitList, stage, accepted>>
    /\ UNCHANGED recvSlot

(* The critical section of RecvOpState::start(). *)
RecvArbitrate(r) ==
    /\ phase[r] = "starting"
    /\ phase' = [phase EXCEPT ![r] = "started"]
    /\ \/ /\ stopFlag[r]
          /\ Owe(r, "stopped")
          /\ UNCHANGED <<buffer, waitList, recvSlot, stage, valueVars>>
       \/ /\ ~stopFlag[r] /\ Available
          /\ PopValue
          /\ held' = [held EXCEPT ![r] = Popped]
          /\ IF Refill THEN OweTwo(Head(waitList), "true", r, "value") ELSE Owe(r, "value")
          /\ UNCHANGED polled
       \/ /\ ~stopFlag[r] /\ ~Available /\ closed
          /\ Owe(r, "closed")
          /\ UNCHANGED <<buffer, waitList, recvSlot, stage, valueVars>>
       \/ /\ ~stopFlag[r] /\ ~Available /\ ~closed /\ recvSlot # None
          /\ Owe(r, "violation")
          /\ UNCHANGED <<buffer, waitList, recvSlot, stage, valueVars>>
       \/ /\ ~stopFlag[r] /\ ~Available /\ ~closed /\ recvSlot = None
          /\ stage' = [stage EXCEPT ![r] = "kQueued"]
          /\ recvSlot' = r
          /\ UNCHANGED <<buffer, waitList, signalVars, valueVars>>
    /\ UNCHANGED <<closed, handleVars, callback, stopFlag>>

(* Receiver::try_recv with something to take; otherwise it changes nothing. *)
TryRecv ==
    /\ receiver
    /\ Available
    /\ PopValue
    /\ polled' = polled \cup {Popped}
    /\ IF Refill THEN Owe(Head(waitList), "true") ELSE UNCHANGED signalVars
    /\ UNCHANGED <<closed, handleVars, phase, callback, stopFlag, held>>

-----------------------------------------------------------------------------
(* Closing and handle lifetime. *)

(* State::close(): the parked receive is completed first, then the parked  *)
(* sends in list order; buffered values stay for the receiver to drain.    *)
SlotOnly(o) == o = recvSlot  \* Mutant: parked sends forgotten
Detached(o) == o = recvSlot \/ o \in SeqRange(waitList)
CompletedBefore(i) == IF i = 1 THEN recvSlot ELSE waitList[i - 1]

OweClosed ==
    owed' = [o \in Ops |->
               IF Detached(o) THEN owed[o] \cup {IF o \in Sends THEN "false" ELSE "closed"}
                              ELSE owed[o]]

CloseState ==
    /\ closed' = TRUE
    /\ recvSlot' = None
    /\ waitList' = <<>>
    /\ stage' = [o \in Ops |-> IF Detached(o) THEN "kClosed" ELSE stage[o]]
    /\ OweClosed
    /\ after' = [o \in Ops |->
                  IF o \in SeqRange(waitList)
                  THEN CompletedBefore(CHOOSE i \in 1..Len(waitList) : waitList[i] = o)
                  ELSE after[o]]
    /\ UNCHANGED <<buffer, fired, result>>

CloseOnce ==
    \/ ~closed /\ CloseState
    \/ closed /\ UNCHANGED <<chanVars, stage, signalVars>>

(* close() of a sender handle. *)
Close ==
    /\ ~closed
    /\ senders > 0
    /\ CloseState
    /\ UNCHANGED <<handleVars, phase, callback, stopFlag, valueVars>>

CloneSender ==
    /\ senders \in 1..(MaxSenders - 1)
    /\ senders' = senders + 1
    /\ UNCHANGED <<chanVars, receiver, opVars, signalVars, valueVars>>

(* release(): the last sender handle closes the channel. *)
ReleaseSender ==
    /\ senders > 0
    /\ senders' = senders - 1
    /\ IF senders = 1 THEN CloseOnce ELSE UNCHANGED <<chanVars, stage, signalVars>>
    /\ UNCHANGED <<receiver, phase, callback, stopFlag, valueVars>>

(* Receiver::close() and ~Receiver. *)
CloseReceiver ==
    /\ receiver
    /\ receiver' = FALSE
    /\ CloseOnce
    /\ UNCHANGED <<senders, phase, callback, stopFlag, valueVars>>

-----------------------------------------------------------------------------

Next ==
    \/ \E o \in Ops : Start(o) \/ RequestStop(o) \/ Complete(o)
    \/ \E s \in Sends : SendArbitrate(s) \/ TrySend(s) \/ OnStopSend(s) \/ DestroySend(s)
    \/ \E r \in Recvs : RecvArbitrate(r) \/ OnStopRecv(r) \/ DestroyRecv(r)
    \/ TryRecv \/ Close \/ CloneSender \/ ReleaseSender \/ CloseReceiver

Spec == Init /\ [][Next]_vars

(* A thread inside start(), inside a stop callback, or about to deliver a  *)
(* completion keeps running.  Nobody is obliged to send, receive or close. *)
ThreadStep(o) ==
    \/ Complete(o)
    \/ o \in Sends /\ (SendArbitrate(o) \/ OnStopSend(o))
    \/ o \in Recvs /\ (RecvArbitrate(o) \/ OnStopRecv(o))

Fairness == \A o \in Ops : WF_vars(ThreadStep(o))

FairSpec == Spec /\ Fairness

-----------------------------------------------------------------------------
(* Properties. *)

(* A parked receive sees an open channel with nothing buffered and nobody  *)
(* waiting, and it is still queued: a value or a close always finds a      *)
(* deliverable node behind recv_slot.                                      *)
SlotIsDeliverable ==
    recvSlot # None =>
        /\ stage[recvSlot] = "kQueued"
        /\ buffer = <<>> /\ waitList = <<>> /\ ~closed

(* A send waits only on an open bounded channel that is full: no wake-up   *)
(* is ever missed, and no withdrawn or destroyed node stays linked.        *)
WaitersMeanFull ==
    waitList # <<>> =>
        /\ Bounded /\ ~closed /\ Len(buffer) = Capacity
        /\ \A i \in 1..Len(waitList) : stage[waitList[i]] = "kQueued"

(* The receiver contract of stdexec: whoever wins the arbitration between   *)
(* claim, close, stop and destruction, an operation gets at most one signal. *)
ExactlyOnce ==
    \A o \in Ops :
        /\ fired[o] <= 1
        /\ owed[o] # {} => fired[o] = 0
        /\ \A x, y \in owed[o] : x = y
        /\ stage[o] \in {"kQueued", "kGone"} => owed[o] = {} /\ fired[o] = 0

(* The channel is a FIFO queue: what left it, followed by what is buffered, *)
(* is exactly what it accepted, in the order of acceptance.                 *)
Fifo == accepted = taken \o buffer

(* A send is told "true" exactly when its value entered the channel; a send *)
(* that was stopped, refused or destroyed has withdrawn its value.          *)
VerdictIsTrue ==
    \A s \in Sends :
        (s \in SeqRange(accepted)) <=> ("true" \in owed[s] \/ result[s] = "true")

(* Every value that left the channel is in the hands of one receive or was  *)
(* returned by one try_recv, never both and never dropped.                  *)
NoValueLost ==
    /\ \A v \in SeqRange(taken) :
         Cardinality({r \in Recvs : held[r] = v}) + (IF v \in polled THEN 1 ELSE 0) = 1
    /\ \A r \in Recvs :
         (held[r] # None) <=> ("value" \in owed[r] \/ result[r] = "value")

(* No overtaking: while a send is parked, the only value the channel may   *)
(* accept is that of the oldest parked send.                               *)
NoOvertaking ==
    [][waitList # <<>> /\ accepted' # accepted
         => accepted' = Append(accepted, Head(waitList))]_vars

Ended(o) == fired[o] = 1 \/ stage[o] = "kGone"

Stopping(o) == callback[o] = "running" \/ stopFlag[o] \/ stage[o] = "kStopped"

(* Nobody waits for a close or a stop that happened, or for a signal that   *)
(* somebody still owes, whatever these race with: whoever is meant by one   *)
(* of them was completed, or destroyed by its owner.                        *)
Released == \A o \in Ops : (closed /\ phase[o] # "fresh") \/ Stopping(o) \/ owed[o] # {}
                           => Ended(o)

(* Nobody waits in vain: a receive parked in the slot of State has nothing *)
(* it could take and can be given the next value, and sends are parked     *)
(* only while the channel is open and full.                                *)
NobodyWaitsInVain == SlotIsDeliverable /\ WaitersMeanFull

(* Every value State accepted is taken once, in order, by the receive or   *)
(* the poll that reports it, and a send reports true exactly when its      *)
(* value was accepted.                                                     *)
ValuesAccounted == Fifo /\ NoValueLost /\ VerdictIsTrue
=============================================================================

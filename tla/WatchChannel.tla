---------------------------- MODULE WatchChannel ----------------------------
(***************************************************************************)
(* The latest-value channel of include/clash_native/async/watch.hpp.       *)
(* One sender overwrites a slot and bumps its version; every receiver      *)
(* remembers the version it has seen and pulls what is newer.  A woken     *)
(* pull re-reads the slot under the mutex when it completes, so stores and *)
(* a close may still fall between the wake and the completion.             *)
(***************************************************************************)
EXTENDS WaitOp

CONSTANTS
    MaxVersion,  \* bound on the number of versions stored
    Concurrent   \* receivers may break the one-outstanding-pull contract

WatchAssumption == MaxVersion \in Nat \ {0} /\ MaxPulls \in Nat /\ Concurrent \in BOOLEAN

VARIABLES
    version,    \* the version of the current value; it also names the value
    closed,
    live,       \* receiver handles attached to the state
    seen        \* Receiver::seen_

chanVars == <<version, closed, live, seen>>
vars == <<opVars, chanVars>>

TypeOK ==
    /\ OpTypeOK
    /\ version \in 1..MaxVersion
    /\ closed \in BOOLEAN
    /\ live \in SUBSET Receivers
    /\ seen \in [Receivers -> 0..MaxVersion]

(* channel(): the first receiver has seen the initial value, version 1. *)
ChanInit ==
    /\ version = 1
    /\ closed = FALSE
    /\ \E r \in Receivers : live = {r}
    /\ seen = [r \in Receivers |-> IF r \in live THEN 1 ELSE 0]

Init == OpInit /\ ChanInit

(* Sender::subscribe(): a new receiver has seen the current version. *)
Subscribe(r) ==
    /\ r \notin live /\ ~closed
    /\ \A n \in 1..MaxPulls : phase[<<r, n>>] = "fresh"
    /\ live' = live \cup {r}
    /\ seen' = [seen EXCEPT ![r] = version]
    /\ UNCHANGED <<opVars, version, closed>>

(* The copy constructor of Receiver keeps the original's seen version. *)
CopyReceiver(r, c) ==
    /\ r \in live /\ c \notin live
    /\ \A n \in 1..MaxPulls : phase[<<c, n>>] = "fresh"
    /\ live' = live \cup {c}
    /\ seen' = [seen EXCEPT ![c] = seen[r]]
    /\ UNCHANGED <<opVars, version, closed>>

(* Receiver::mark_changed(). *)
MarkChanged(r) ==
    /\ r \in live
    /\ seen[r] = version
    /\ seen' = [seen EXCEPT ![r] = @ - 1]
    /\ UNCHANGED <<opVars, version, closed, live>>

MayPull(r) == ~Concurrent => \A n \in 1..MaxPulls : phase[<<r, n>>] = "fresh" \/ Ended(<<r, n>>)

(* next() connected and started. *)
Start(o) ==
    /\ Owner(o) \in live
    /\ MayPull(Owner(o))
    /\ StartPull(o)
    /\ UNCHANGED chanVars

Unseen(r) == seen[r] < version

Take(r) == seen' = [seen EXCEPT ![r] = version]

(* The critical section of WaitOpState::start(). *)
Arbitrate(o) ==
    /\ phase[o] = "starting"
    /\ phase' = [phase EXCEPT ![o] = "started"]
    /\ \/ /\ stopFlag[o]
          /\ Answer(o, <<"stopped">>)
          /\ UNCHANGED seen
       \/ /\ ~stopFlag[o] /\ Unseen(Owner(o))
          /\ Answer(o, <<"value", version>>)
          /\ Take(Owner(o))
       \/ /\ ~stopFlag[o] /\ ~Unseen(Owner(o)) /\ closed
          /\ Answer(o, <<"closed">>)
          /\ UNCHANGED seen
       \/ /\ ~stopFlag[o] /\ ~Unseen(Owner(o)) /\ ~closed
          /\ ParkOrRefuse(o)
          /\ UNCHANGED seen
    /\ UNCHANGED <<callback, stopFlag, fired, result, version, closed, live>>

Woken(o) == <<"wake">>

(* State::store(). *)
Store ==
    /\ ~closed
    /\ version < MaxVersion
    /\ version' = version + 1
    /\ WakeAll(Woken)
    /\ UNCHANGED <<closed, live, seen>>

(* Mutant: close() leaves the parked pulls where they are. *)
CloseSilently ==
    /\ ~closed
    /\ closed' = TRUE
    /\ UNCHANGED <<opVars, version, live, seen>>

(* State::close(), by the sender or its destructor. *)
Close ==
    /\ ~closed
    /\ closed' = TRUE
    /\ WakeAll(Woken)
    /\ UNCHANGED <<version, live, seen>>

(* complete() of a woken pull: unregister, then resolve under the mutex. *)
Resolve(o) ==
    /\ <<"wake">> \in owed[o]
    /\ IF Unseen(Owner(o))
       THEN Signal(o, <<"wake">>, <<"value", version>>) /\ Take(Owner(o))
       ELSE Signal(o, <<"wake">>, <<"closed">>) /\ UNCHANGED seen
    /\ UNCHANGED <<version, closed, live>>

(* The tail of start() and of on_stop(). *)
Deliver(o) ==
    /\ \E sig \in owed[o] \ {<<"wake">>} : Signal(o, sig, sig)
    /\ UNCHANGED chanVars

Stop(o) == RequestStop(o) /\ UNCHANGED chanVars
StopCallback(o) == OnStop(o) /\ UNCHANGED chanVars
Destroy(o) == DestroyPull(o) /\ UNCHANGED chanVars

Next ==
    \/ \E o \in Ops : Start(o) \/ Arbitrate(o) \/ Resolve(o) \/ Deliver(o)
                      \/ Stop(o) \/ StopCallback(o) \/ Destroy(o)
    \/ \E r \in Receivers : Subscribe(r) \/ MarkChanged(r)
    \/ \E r, c \in Receivers : CopyReceiver(r, c)
    \/ Store \/ Close

Spec == Init /\ [][Next]_vars

(* Threads inside start(), a stop callback or a pending completion run on. *)
ThreadStep(o) == Arbitrate(o) \/ Resolve(o) \/ Deliver(o) \/ StopCallback(o)

Fairness == \A o \in Ops : WF_vars(ThreadStep(o))

FairSpec == Spec /\ Fairness

-----------------------------------------------------------------------------
(* The receiver contract of stdexec holds even for receivers that overlap  *)
(* their pulls: one signal per operation, none for a queued or destroyed   *)
(* one, and a receiver never occupies two places in the wait list.         *)
PullsCompleteOnce ==
    /\ OneSignal
    /\ \A i, j \in 1..Len(parked) : Owner(parked[i]) = Owner(parked[j]) => i = j

(* Whoever waits has nothing to see: a parked pull means an open channel   *)
(* and, unless mark_changed() was called meanwhile, no unseen version; an  *)
(* update between start()'s check and the park is impossible.              *)
WaitersHaveSeen ==
    \A o \in SeqRange(parked) :
        /\ ~closed
        /\ stage[o] = "kQueued"
        /\ Unseen(Owner(o)) => seen[Owner(o)] = version - 1

(* A receiver is told the stream ended only when the sender is gone and    *)
(* the latest version was seen: a store racing the wake of an earlier one  *)
(* is never taken for a close.                                             *)
EndMeansClosed ==
    \A o \in Ops : result[o] = <<"closed">> \/ <<"closed">> \in owed[o] => closed

(* Nobody waits for a close or a stop that happened, or for a signal that   *)
(* somebody still owes: whoever is meant by one of them has ended.          *)
Released == \A o \in Ops : (closed /\ phase[o] # "fresh") \/ Stopping(o) \/ owed[o] # {}
                           => Ended(o)

(* A pull gets one signal, waits only while there is no version to see,    *)
(* and is told of the end only once the sender is gone (the last for       *)
(* receivers that keep to one pull at a time).                             *)
PullsAreSound == /\ TypeOK /\ PullsCompleteOnce /\ WaitersHaveSeen
                 /\ ~Concurrent => EndMeansClosed
=============================================================================

-------------------------- MODULE BroadcastChannel --------------------------
(***************************************************************************)
(* The multi-producer multi-consumer channel of                            *)
(* include/clash_native/async/broadcast.hpp.  send() never waits: a full   *)
(* buffer evicts its oldest value, and a receiver whose cursor falls       *)
(* behind the buffer is told how many values it missed.                    *)
(* The n-th value accepted is named by its sequence number n - 1, and      *)
(* history keeps the values, so a wrong buffer index would be visible.     *)
(***************************************************************************)
EXTENDS WaitOp

CONSTANTS
    Values,      \* payloads
    Capacity,    \* at least 1, channel() throws otherwise
    MaxSends,    \* bound on the number of values accepted
    MaxSenders,  \* bound on the number of live sender handles
    Concurrent   \* receivers may break the one-outstanding-pull contract

BroadcastAssumption ==
    /\ Capacity \in Nat \ {0} /\ MaxSends \in Nat /\ MaxPulls \in Nat
    /\ MaxSenders \in Nat \ {0} /\ Concurrent \in BOOLEAN

VARIABLES
    buffer,     \* the buffered values
    baseSeq,    \* sequence number of the oldest buffered value
    closed,
    senders,    \* live sender handles
    live,       \* receiver handles attached to the state
    cursor,     \* Receiver::pos_
    sent,       \* history: every value accepted
    joined,     \* history: where each receiver subscribed
    got,        \* history: sequence numbers delivered to each receiver
    missed      \* history: values reported as skipped to each receiver

chanVars == <<buffer, baseSeq, closed, senders, live>>
cursorVars == <<cursor, sent, joined, got, missed>>
vars == <<opVars, chanVars, cursorVars>>

TypeOK ==
    /\ OpTypeOK
    /\ buffer \in Seq(Values) /\ Len(buffer) <= Capacity
    /\ baseSeq \in 0..MaxSends
    /\ closed \in BOOLEAN
    /\ senders \in 0..MaxSenders
    /\ live \in SUBSET Receivers
    /\ cursor \in [Receivers -> 0..MaxSends]
    /\ missed \in [Receivers -> 0..MaxSends]

NextSeq == baseSeq + Len(buffer)

(* channel(): one sender, one receiver at position 0. *)
ChanInit ==
    /\ buffer = <<>>
    /\ baseSeq = 0
    /\ closed = FALSE
    /\ senders = 1
    /\ \E r \in Receivers : live = {r}
    /\ cursor = [r \in Receivers |-> 0]
    /\ sent = <<>>
    /\ joined = [r \in Receivers |-> 0]
    /\ got = [r \in Receivers |-> <<>>]
    /\ missed = [r \in Receivers |-> 0]

Init == OpInit /\ ChanInit

(* Sender::subscribe(): only values sent from now on. *)
Subscribe(r) ==
    /\ r \notin live /\ senders > 0
    /\ \A n \in 1..MaxPulls : phase[<<r, n>>] = "fresh"
    /\ live' = live \cup {r}
    /\ cursor' = [cursor EXCEPT ![r] = NextSeq]
    /\ joined' = [joined EXCEPT ![r] = NextSeq]
    /\ got' = [got EXCEPT ![r] = <<>>]
    /\ missed' = [missed EXCEPT ![r] = 0]
    /\ UNCHANGED <<opVars, buffer, baseSeq, closed, senders, sent>>

(* Receiver::release(), once its pulls are over. *)
ReleaseReceiver(r) ==
    /\ r \in live
    /\ \A n \in 1..MaxPulls : phase[<<r, n>>] = "fresh" \/ Ended(<<r, n>>)
    /\ live' = live \ {r}
    /\ UNCHANGED <<opVars, buffer, baseSeq, closed, senders, cursorVars>>

Pulling(r) == \E n \in 1..MaxPulls : phase[<<r, n>>] # "fresh" /\ ~Ended(<<r, n>>)

Start(o) ==
    /\ Owner(o) \in live
    /\ Pulling(Owner(o)) => Concurrent
    /\ StartPull(o)
    /\ UNCHANGED <<chanVars, cursorVars>>

Behind(r) == cursor[r] < baseSeq
Ready(r) == ~Behind(r) /\ cursor[r] < NextSeq
At(b, seq, base) == b[seq - base + 1]

SkippedShort(r) == baseSeq - cursor[r] - 1  \* Mutant: off by one
Skipped(r) == baseSeq - cursor[r]

(* A lag is reported and the cursor jumps to the oldest buffered value. *)
SkipLag(r) ==
    /\ missed' = [missed EXCEPT ![r] = @ + Skipped(r)]
    /\ cursor' = [cursor EXCEPT ![r] = baseSeq]
    /\ UNCHANGED <<sent, joined, got>>

TakeNext(r) ==
    /\ cursor' = [cursor EXCEPT ![r] = @ + 1]
    /\ got' = [got EXCEPT ![r] = Append(@, cursor[r])]
    /\ UNCHANGED <<sent, joined, missed>>

(* The critical section of RecvOpState::start(). *)
Arbitrate(o) ==
    LET r == Owner(o) IN
    /\ phase[o] = "starting"
    /\ phase' = [phase EXCEPT ![o] = "started"]
    /\ \/ /\ stopFlag[o]
          /\ Answer(o, <<"stopped">>)
          /\ UNCHANGED cursorVars
       \/ /\ ~stopFlag[o] /\ Behind(r)
          /\ Answer(o, <<"lagged", Skipped(r)>>)
          /\ SkipLag(r)
       \/ /\ ~stopFlag[o] /\ Ready(r)
          /\ Answer(o, <<"value", cursor[r], At(buffer, cursor[r], baseSeq)>>)
          /\ TakeNext(r)
       \/ /\ ~stopFlag[o] /\ ~Behind(r) /\ ~Ready(r) /\ closed
          /\ Answer(o, <<"closed">>)
          /\ UNCHANGED cursorVars
       \/ /\ ~stopFlag[o] /\ ~Behind(r) /\ ~Ready(r) /\ ~closed
          /\ ParkOrRefuse(o)
          /\ UNCHANGED cursorVars
    /\ UNCHANGED <<callback, stopFlag, fired, result, chanVars>>

(* Receiver::try_recv(): a lag is thrown, a ready value is returned. *)
TryRecv(r) ==
    /\ r \in live
    /\ Pulling(r) => Concurrent
    /\ \/ Behind(r) /\ SkipLag(r)
       \/ Ready(r) /\ TakeNext(r)
    /\ UNCHANGED <<opVars, chanVars>>

(* The eviction loop of try_send(); one push needs at most one round. *)
Evict(b) == IF Len(b) > Capacity THEN Tail(b) ELSE b

PushedBuffer(v) == Append(buffer, v)

(* resolve() of a parked pull against the buffer after a push. *)
Lags(r, base) == cursor[r] < base
Outcome(r, b, base) ==
    IF Lags(r, base) THEN <<"lagged", base - cursor[r]>>
                     ELSE <<"value", cursor[r], At(b, cursor[r], base)>>

(* State::try_send(): push, evict, then resolve every parked pull against   *)
(* the new buffer and write its receiver's cursor back.                     *)
TrySend(v) ==
    LET after == Evict(PushedBuffer(v))
        base == baseSeq + Len(buffer) + 1 - Len(after)
        waiting == {Owner(o) : o \in SeqRange(parked)}
        OutcomeOf(o) == Outcome(Owner(o), after, base)
    IN  /\ senders > 0 /\ ~closed /\ live # {}
        /\ Len(sent) < MaxSends
        /\ buffer' = after
        /\ baseSeq' = base
        /\ sent' = Append(sent, v)
        /\ WakeAll(OutcomeOf)
        /\ cursor' = [r \in Receivers |->
             CASE r \notin waiting -> cursor[r]
               [] r \in waiting /\ Lags(r, base) -> base
               [] OTHER -> cursor[r] + 1]
        /\ got' = [r \in Receivers |-> IF r \in waiting /\ ~Lags(r, base)
                                       THEN Append(got[r], cursor[r]) ELSE got[r]]
        /\ missed' = [r \in Receivers |-> IF r \in waiting /\ Lags(r, base)
                                          THEN missed[r] + base - cursor[r] ELSE missed[r]]
        /\ UNCHANGED <<closed, senders, live, joined>>

ToldClosed(o) == <<"closed">>

CloseState ==
    /\ closed' = TRUE
    /\ WakeAll(ToldClosed)

(* close() of a sender handle. *)
Close ==
    /\ senders > 0 /\ ~closed
    /\ CloseState
    /\ UNCHANGED <<buffer, baseSeq, senders, live, cursorVars>>

CloneSender ==
    /\ senders \in 1..(MaxSenders - 1)
    /\ senders' = senders + 1
    /\ UNCHANGED <<opVars, buffer, baseSeq, closed, live, cursorVars>>

(* Sender::release(): the last one closes. *)
ReleaseSender ==
    /\ senders > 0
    /\ senders' = senders - 1
    /\ IF senders = 1 /\ ~closed THEN CloseState ELSE UNCHANGED <<opVars, closed>>
    /\ UNCHANGED <<buffer, baseSeq, live, cursorVars>>

(* complete() and the tails of start() and on_stop(). *)
Deliver(o) ==
    /\ \E sig \in owed[o] : Signal(o, sig, sig)
    /\ UNCHANGED <<chanVars, cursorVars>>

Stop(o) == RequestStop(o) /\ UNCHANGED <<chanVars, cursorVars>>
StopCallback(o) == OnStop(o) /\ UNCHANGED <<chanVars, cursorVars>>
Destroy(o) == DestroyPull(o) /\ UNCHANGED <<chanVars, cursorVars>>

Next ==
    \/ \E o \in Ops : Start(o) \/ Arbitrate(o) \/ Deliver(o) \/ Stop(o)
                      \/ StopCallback(o) \/ Destroy(o)
    \/ \E r \in Receivers : Subscribe(r) \/ ReleaseReceiver(r) \/ TryRecv(r)
    \/ \E v \in Values : TrySend(v)
    \/ Close \/ CloneSender \/ ReleaseSender

Spec == Init /\ [][Next]_vars

ThreadStep(o) == Arbitrate(o) \/ Deliver(o) \/ StopCallback(o)

Fairness == \A o \in Ops : WF_vars(ThreadStep(o))

FairSpec == Spec /\ Fairness

-----------------------------------------------------------------------------
(* One signal per pull, even when a receiver overlaps its pulls. *)
PullsCompleteOnce == OneSignal

(* Every waiter of an open channel stands exactly at the tail, so the next *)
(* value is its own and the push that wakes it can never evict past it.    *)
WaitersAtTail ==
    \A o \in SeqRange(parked) : ~closed /\ stage[o] = "kQueued" /\ cursor[Owner(o)] = NextSeq

(* The buffer is the suffix of everything accepted that starts at baseSeq. *)
BufferIsSuffix ==
    /\ NextSeq = Len(sent)
    /\ \A i \in 1..Len(buffer) : buffer[i] = sent[baseSeq + i]

(* Nothing disappears silently: for every receiver, what it got and what   *)
(* it was told it missed add up to the distance its cursor travelled, it   *)
(* never gets a value twice and gets them in order.                        *)
EveryValueAccounted ==
    \A r \in Receivers :
        /\ cursor[r] = joined[r] + Len(got[r]) + missed[r]
        /\ \A i \in 1..Len(got[r]) : got[r][i] >= joined[r]
        /\ \A i, j \in 1..Len(got[r]) : i < j => got[r][i] < got[r][j]

(* The copy a pull delivers is the value accepted under its number. *)
DeliversTheRightCopy ==
    \A o \in Ops : \A sig \in owed[o] \cup {result[o]} :
        sig[1] = "value" => sig[3] = sent[sig[2] + 1]

(* Nobody waits once the last sender has gone, or for a stop that happened, *)
(* or for a signal that somebody still owes.                                *)
Released == \A o \in Ops : (senders = 0 /\ phase[o] # "fresh") \/ Stopping(o) \/ owed[o] # {}
                           => Ended(o)

(* A pull gets one signal and waits only at the tail of an open channel. *)
PullsAreSound == TypeOK /\ PullsCompleteOnce /\ WaitersAtTail

(* No value is skipped in silence: the buffer is the end of what was       *)
(* accepted, what a receiver got and was told it missed add up to its      *)
(* cursor, and each value it got is the one of that number.                *)
NothingSkipped == BufferIsSuffix /\ EveryValueAccounted /\ DeliversTheRightCopy
=============================================================================

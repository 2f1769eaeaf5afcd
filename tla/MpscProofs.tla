----------------------------- MODULE MpscProofs -----------------------------
(***************************************************************************)
(* Proofs about MpscChannel, for every set of sends and receives, every    *)
(* capacity and both modes.                                                *)
(***************************************************************************)
EXTENDS MpscChannel, SequenceTheorems, FiniteSetTheorems, TLAPS

(* A node that start() has not arbitrated is untouched. *)
NotStarted ==
    \A o \in Ops : phase[o] # "started" => stage[o] = "kInit" /\ owed[o] = {} /\ fired[o] = 0

(* The wait list links exactly the queued sends, each once. *)
Linked ==
    /\ \A i \in 1..Len(waitList) : stage[waitList[i]] = "kQueued"
    /\ \A s \in Sends : stage[s] = "kQueued" => \E i \in 1..Len(waitList) : waitList[i] = s
    /\ \A i, j \in 1..Len(waitList) : waitList[i] = waitList[j] => i = j

(* The slot names exactly the queued receive. *)
Slotted == \A r \in Recvs : stage[r] = "kQueued" <=> recvSlot = r

(* The deque never outgrows the capacity. *)
WithinCapacity == Bounded => Len(buffer) <= Capacity

IInv == TypeOK /\ NotStarted /\ Linked /\ Slotted /\ SlotIsDeliverable /\ WaitersMeanFull
               /\ ExactlyOnce /\ WithinCapacity

-----------------------------------------------------------------------------

(* Removing a linked node from a list without repetitions leaves a list of *)
(* the others, in which every other node is still linked once.             *)
LEMMA UnlinkLemma ==
    ASSUME NEW list \in Seq(Sends), NEW x \in Sends,
           \E i \in 1..Len(list) : list[i] = x,
           \A i, j \in 1..Len(list) : list[i] = list[j] => i = j
    PROVE  /\ Unlink(list, x) \in Seq(Sends)
           /\ Len(Unlink(list, x)) = Len(list) - 1
           /\ \A i \in 1..Len(Unlink(list, x)) :
                /\ Unlink(list, x)[i] # x
                /\ \E j \in 1..Len(list) : Unlink(list, x)[i] = list[j]
           /\ \A j \in 1..Len(list) : list[j] # x =>
                \E i \in 1..Len(Unlink(list, x)) : Unlink(list, x)[i] = list[j]
           /\ \A i, j \in 1..Len(Unlink(list, x)) :
                Unlink(list, x)[i] = Unlink(list, x)[j] => i = j
<1> DEFINE k == CHOOSE k \in 1..Len(list) : list[k] = x
           u == [i \in 1..(Len(list) - 1) |-> IF i < k THEN list[i] ELSE list[i + 1]]
<1>1. k \in 1..Len(list) /\ list[k] = x
  OBVIOUS
<1>2. Unlink(list, x) = u
  BY DEF Unlink
<1> HIDE DEF k
<1>3. Len(list) \in Nat /\ \A i \in 1..Len(list) : list[i] \in Sends
  OBVIOUS
<1>4. Len(list) - 1 \in Nat
  BY <1>1, <1>3
<1>5. \A i \in 1..(Len(list) - 1) : u[i] \in Sends
  BY <1>1, <1>3
<1>6. u \in Seq(Sends) /\ Len(u) = Len(list) - 1
  BY <1>4, <1>5
<1>7. \A i \in 1..Len(u) : u[i] = IF i < k THEN list[i] ELSE list[i + 1]
  BY <1>6
<1> HIDE DEF u
<1>8. \A i \in 1..Len(u) : u[i] # x /\ \E j \in 1..Len(list) : u[i] = list[j]
  BY <1>1, <1>3, <1>6, <1>7
<1>9. ASSUME NEW j \in 1..Len(list), list[j] # x
      PROVE  \E i \in 1..Len(u) : u[i] = list[j]
  <2>1. CASE j < k
    <3>1. j \in 1..Len(u) /\ u[j] = list[j]
      BY <2>1, <1>1, <1>3, <1>6, <1>7
    <3> QED BY <3>1
  <2>2. CASE j > k
    <3>1. j - 1 \in 1..Len(u) /\ u[j - 1] = list[j]
      BY <2>2, <1>1, <1>3, <1>6, <1>7
    <3> QED BY <3>1
  <2> QED BY <2>1, <2>2, <1>1, <1>9
<1>10. \A i, j \in 1..Len(u) : u[i] = u[j] => i = j
  <2> SUFFICES ASSUME NEW i \in 1..Len(u), NEW j \in 1..Len(u), u[i] = u[j]
               PROVE  i = j
    OBVIOUS
  <2> DEFINE m(n) == IF n < k THEN n ELSE n + 1
  <2>1. \A n \in 1..Len(u) : m(n) \in 1..Len(list) /\ u[n] = list[m(n)]
    BY <1>1, <1>3, <1>6, <1>7, SMTT(30)
  <2>2. m(i) = m(j)
    BY <2>1
  <2> QED BY <2>2, <1>1, <1>3, <1>6
<1> QED BY <1>2, <1>6, <1>8, <1>9, <1>10

(* The invariant holds of a new channel.                                   *)
LEMMA InitIInv == Init => IInv
<1> SUFFICES ASSUME Init PROVE IInv
  OBVIOUS
<1> USE DEF Init
<1>1. TypeOK
  <2> USE MpscAssumption DEF Ops, Signals, SendSignals, RecvSignals, Stages
  <2>1. ChanTypeOK
    <3>1. senders \in 0..MaxSenders
      OBVIOUS
    <3>2. buffer \in Seq(Sends) /\ waitList \in Seq(Sends)
      OBVIOUS
    <3>3. recvSlot \in Recvs \cup {None} /\ closed \in BOOLEAN /\ receiver \in BOOLEAN
      OBVIOUS
    <3> QED BY <3>1, <3>2, <3>3 DEF ChanTypeOK
  <2>2. OpTypeOK
    BY DEF OpTypeOK
  <2>3. SignalTypeOK
    BY DEF SignalTypeOK
  <2>4. ValueTypeOK
    BY DEF ValueTypeOK
  <2> QED BY <2>1, <2>2, <2>3, <2>4 DEF TypeOK
<1>2. NotStarted /\ ExactlyOnce
  BY DEF NotStarted, ExactlyOnce
<1>3. Linked
  BY DEF Linked, Ops
<1>4. Slotted /\ SlotIsDeliverable /\ WaitersMeanFull
  BY MpscAssumption DEF Slotted, SlotIsDeliverable, WaitersMeanFull, Ops
<1>5. WithinCapacity
  BY MpscAssumption DEF WithinCapacity
<1> QED BY <1>1, <1>2, <1>3, <1>4, <1>5 DEF IInv

-----------------------------------------------------------------------------
(* Facts about the helpers shared by several actions. *)

(* A value behind a buffer or a parked send behind the others leaves a     *)
(* sequence of sends.                                                      *)
LEMMA AppendType ==
    ASSUME NEW q \in Seq(Sends), NEW x \in Sends
    PROVE  Append(q, x) \in Seq(Sends)
  OBVIOUS

(* The first of a buffer is a send, and the rest a sequence of them.       *)
LEMMA TailType ==
    ASSUME NEW q \in Seq(Sends), q # <<>>
    PROVE  Tail(q) \in Seq(Sends) /\ Head(q) \in Sends
  OBVIOUS

(* What a send does to the buffer, the wait list and the receiver's slot   *)
(* keeps their types.                                                      *)
LEMMA SendFacts ==
    ASSUME TypeOK, NEW s \in Sends
    PROVE  /\ Append(waitList, s) \in Seq(Sends)
           /\ PushBack(s) => buffer' \in Seq(Sends)
           /\ PushBack(s) \/ HandToSlot(s) =>
                accepted' \in Seq(Sends) /\ taken' \in Seq(Sends)
           /\ recvSlot # None => recvSlot \in Recvs
           /\ HandToSlot(s) => held' \in [Recvs -> Sends \cup {None}]
  BY AppendType DEF TypeOK, ChanTypeOK, ValueTypeOK, PushBack, HandToSlot

(* Completions owed are added to those owed, as the signals they are.      *)
LEMMA OweFacts ==
    ASSUME SignalTypeOK, NEW o \in Ops, NEW p \in Ops, NEW x \in Signals, NEW y \in Signals
    PROVE  /\ Owe(o, x) => SignalTypeOK'
           /\ OweTwo(o, x, p, y) => SignalTypeOK'
  BY DEF SignalTypeOK, Owe, OweTwo

(* pop_value() and the refill from the wait list keep the types of buffer  *)
(* and list.                                                               *)
LEMMA PopFacts ==
    ASSUME TypeOK
    PROVE  /\ Available => Popped \in Sends
           /\ Refill => Head(waitList) \in Sends
           /\ PopValue => /\ buffer' \in Seq(Sends) /\ waitList' \in Seq(Sends)
                          /\ recvSlot' = recvSlot /\ stage' \in [Ops -> Stages]
           /\ Available /\ PopValue => taken' \in Seq(Sends) /\ accepted' \in Seq(Sends)
<1> USE DEF TypeOK, ChanTypeOK, OpTypeOK, ValueTypeOK
<1>1. Available => Popped \in Sends
  BY DEF Available, Popped
<1>2. Refill => Head(waitList) \in Sends
  BY DEF Refill
<1>3. ASSUME PopValue
      PROVE  /\ buffer' \in Seq(Sends) /\ waitList' \in Seq(Sends)
             /\ recvSlot' = recvSlot
  <2>1. waitList' \in Seq(Sends) /\ recvSlot' = recvSlot
    BY <1>3, TailType DEF PopValue, Refill
  <2>2. CASE buffer # <<>>
    <3>1. Tail(buffer) \in Seq(Sends)
      BY <2>2, TailType
    <3> QED BY <1>2, <1>3, <2>1, <2>2, <3>1, AppendType DEF PopValue
  <2>3. CASE buffer = <<>>
    BY <1>3, <2>1, <2>3 DEF PopValue
  <2> QED BY <2>2, <2>3
<1>4. ASSUME PopValue PROVE stage' \in [Ops -> Stages]
  BY <1>2, <1>4 DEF PopValue, Ops, Stages
<1>5. ASSUME PopValue, Available PROVE taken' \in Seq(Sends) /\ accepted' \in Seq(Sends)
  BY <1>1, <1>2, <1>5, AppendType DEF PopValue
<1> QED BY <1>1, <1>2, <1>3, <1>4, <1>5

(* close() keeps the types of what it empties.                             *)
LEMMA CloseFacts ==
    ASSUME TypeOK, CloseState
    PROVE  /\ buffer' \in Seq(Sends) /\ waitList' \in Seq(Sends)
           /\ recvSlot' \in Recvs \cup {None} /\ closed' \in BOOLEAN
           /\ stage' \in [Ops -> Stages]
           /\ owed' \in [Ops -> SUBSET Signals]
           /\ after' \in [Ops -> Ops \cup {None}]
           /\ fired' = fired /\ result' = result
<1> USE DEF TypeOK
<1>1. /\ buffer' \in Seq(Sends) /\ waitList' \in Seq(Sends)
      /\ recvSlot' \in Recvs \cup {None} /\ closed' \in BOOLEAN
      /\ fired' = fired /\ result' = result
  BY DEF CloseState, ChanTypeOK
<1>2. stage' \in [Ops -> Stages]
  BY DEF CloseState, OpTypeOK, Stages
<1>3. owed' \in [Ops -> SUBSET Signals]
  BY DEF CloseState, OweClosed, SignalTypeOK, Signals, SendSignals, RecvSignals
<1>4. \A i \in 1..Len(waitList) : CompletedBefore(i) \in Ops \cup {None}
  BY DEF ChanTypeOK, CompletedBefore, Ops
<1>5. after' \in [Ops -> Ops \cup {None}]
  BY <1>4 DEF CloseState, SeqRange, SignalTypeOK
<1> QED BY <1>1, <1>2, <1>3, <1>5

(* Removal of a queued send from the wait list. *)
LEMMA QueuedUnlink ==
    ASSUME IInv, NEW s \in Sends, stage[s] = "kQueued"
    PROVE  Unlink(waitList, s) \in Seq(Sends)
  BY UnlinkLemma DEF IInv, TypeOK, ChanTypeOK, Linked

-----------------------------------------------------------------------------
(* Type correctness of one step, one lemma per part of TypeOK. *)

(* Every step keeps the types of the channel's members.                    *)
LEMMA ChanTypeStep == IInv /\ [Next]_vars => ChanTypeOK'
<1> SUFFICES ASSUME IInv, [Next]_vars PROVE ChanTypeOK'
  OBVIOUS
<1> USE MpscAssumption DEF Ops, Signals, SendSignals, RecvSignals, Stages, chanVars, handleVars,
      opVars, signalVars, valueVars, Owe, OweTwo
<1>0. TypeOK /\ ChanTypeOK
  BY DEF IInv, TypeOK
<1>1. ASSUME NEW o \in Ops, Start(o) PROVE ChanTypeOK'
  BY <1>0, <1>1 DEF ChanTypeOK, Start
<1>2. ASSUME NEW o \in Ops, RequestStop(o) PROVE ChanTypeOK'
  BY <1>0, <1>2 DEF ChanTypeOK, RequestStop
<1>3. ASSUME NEW o \in Ops, Complete(o) PROVE ChanTypeOK'
  BY <1>0, <1>3 DEF ChanTypeOK, Complete
<1>4. ASSUME NEW s \in Sends, SendArbitrate(s) PROVE ChanTypeOK'
  <2>1. CASE recvSlot # None /\ ~closed /\ ~stopFlag[s]
    BY <1>0, <1>4, <2>1, SendFacts DEF ChanTypeOK, SendArbitrate, HandToSlot
  <2>2. CASE recvSlot = None /\ ~closed /\ ~stopFlag[s]
    BY <1>0, <1>4, <2>2, SendFacts DEF ChanTypeOK, SendArbitrate, PushBack
  <2>3. CASE closed \/ stopFlag[s]
    BY <1>0, <1>4, <2>3, SendFacts DEF ChanTypeOK, SendArbitrate
  <2> QED BY <2>1, <2>2, <2>3
<1>5. ASSUME NEW s \in Sends, TrySend(s) PROVE ChanTypeOK'
  <2>1. CASE recvSlot # None /\ ~closed
    BY <1>0, <1>5, <2>1, SendFacts DEF ChanTypeOK, TrySend, HandToSlot
  <2>2. CASE recvSlot = None /\ ~closed
    BY <1>0, <1>5, <2>2, SendFacts DEF ChanTypeOK, TrySend, PushBack
  <2>3. CASE closed
    BY <1>0, <1>5, <2>3, SendFacts DEF ChanTypeOK, TrySend
  <2> QED BY <2>1, <2>2, <2>3
<1>6. ASSUME NEW s \in Sends, OnStopSend(s) PROVE ChanTypeOK'
  BY <1>0, <1>6, QueuedUnlink DEF ChanTypeOK, OnStopSend
<1>7. ASSUME NEW s \in Sends, DestroySend(s) PROVE ChanTypeOK'
  BY <1>0, <1>7, QueuedUnlink DEF ChanTypeOK, DestroySend
<1>8. ASSUME NEW r \in Recvs, OnStopRecv(r) PROVE ChanTypeOK'
  BY <1>0, <1>8 DEF ChanTypeOK, OnStopRecv
<1>9. ASSUME NEW r \in Recvs, DestroyRecv(r) PROVE ChanTypeOK'
  BY <1>0, <1>9 DEF ChanTypeOK, DestroyRecv
<1>10. ASSUME NEW r \in Recvs, RecvArbitrate(r) PROVE ChanTypeOK'
  <2>1. CASE ~stopFlag[r] /\ Available
    BY <1>0, <1>10, <2>1, PopFacts DEF ChanTypeOK, RecvArbitrate
  <2>2. CASE stopFlag[r] \/ ~Available
    BY <1>0, <1>10, <2>2 DEF ChanTypeOK, RecvArbitrate
  <2> QED BY <2>1, <2>2
<1>11. CASE TryRecv
  BY <1>0, <1>11, PopFacts DEF ChanTypeOK, TryRecv
<1>12. CASE Close
  BY <1>0, <1>12, CloseFacts DEF ChanTypeOK, Close
<1>13. CASE CloneSender
  BY <1>0, <1>13 DEF ChanTypeOK, CloneSender
<1>14. CASE ReleaseSender
  BY <1>0, <1>14, CloseFacts DEF ChanTypeOK, ReleaseSender, CloseOnce
<1>15. CASE CloseReceiver
  BY <1>0, <1>15, CloseFacts DEF ChanTypeOK, CloseReceiver, CloseOnce
<1>16. CASE UNCHANGED vars
  BY <1>0, <1>16 DEF ChanTypeOK, vars
<1> QED
  BY <1>1, <1>2, <1>3, <1>4, <1>5, <1>6, <1>7, <1>8, <1>9, <1>10, <1>11, <1>12, <1>13, <1>14, <1>15, <1>16 DEF Next

(* Every step keeps the types of the operations' stages and phases.        *)
LEMMA OpTypeStep == IInv /\ [Next]_vars => OpTypeOK'
<1> SUFFICES ASSUME IInv, [Next]_vars PROVE OpTypeOK'
  OBVIOUS
<1> USE MpscAssumption DEF Ops, Signals, SendSignals, RecvSignals, Stages, chanVars, handleVars,
      opVars, signalVars, valueVars, Owe, OweTwo
<1>0. TypeOK /\ OpTypeOK
  BY DEF IInv, TypeOK
<1>1. ASSUME NEW o \in Ops, Start(o) PROVE OpTypeOK'
  BY <1>0, <1>1 DEF OpTypeOK, Start
<1>2. ASSUME NEW o \in Ops, RequestStop(o) PROVE OpTypeOK'
  BY <1>0, <1>2 DEF OpTypeOK, RequestStop
<1>3. ASSUME NEW o \in Ops, Complete(o) PROVE OpTypeOK'
  BY <1>0, <1>3 DEF OpTypeOK, Complete
<1>4. ASSUME NEW s \in Sends, SendArbitrate(s) PROVE OpTypeOK'
  <2>1. CASE recvSlot # None /\ ~closed /\ ~stopFlag[s]
    BY <1>0, <1>4, <2>1, SendFacts DEF OpTypeOK, SendArbitrate, HandToSlot
  <2>2. CASE recvSlot = None /\ ~closed /\ ~stopFlag[s]
    BY <1>0, <1>4, <2>2, SendFacts DEF OpTypeOK, SendArbitrate, PushBack
  <2>3. CASE closed \/ stopFlag[s]
    BY <1>0, <1>4, <2>3, SendFacts DEF OpTypeOK, SendArbitrate
  <2> QED BY <2>1, <2>2, <2>3
<1>5. ASSUME NEW s \in Sends, TrySend(s) PROVE OpTypeOK'
  <2>1. CASE recvSlot # None /\ ~closed
    BY <1>0, <1>5, <2>1, SendFacts DEF OpTypeOK, TrySend, HandToSlot
  <2>2. CASE recvSlot = None /\ ~closed
    BY <1>0, <1>5, <2>2, SendFacts DEF OpTypeOK, TrySend, PushBack
  <2>3. CASE closed
    BY <1>0, <1>5, <2>3, SendFacts DEF OpTypeOK, TrySend
  <2> QED BY <2>1, <2>2, <2>3
<1>6. ASSUME NEW s \in Sends, OnStopSend(s) PROVE OpTypeOK'
  BY <1>0, <1>6, QueuedUnlink DEF OpTypeOK, OnStopSend
<1>7. ASSUME NEW s \in Sends, DestroySend(s) PROVE OpTypeOK'
  BY <1>0, <1>7, QueuedUnlink DEF OpTypeOK, DestroySend
<1>8. ASSUME NEW r \in Recvs, OnStopRecv(r) PROVE OpTypeOK'
  BY <1>0, <1>8 DEF OpTypeOK, OnStopRecv
<1>9. ASSUME NEW r \in Recvs, DestroyRecv(r) PROVE OpTypeOK'
  BY <1>0, <1>9 DEF OpTypeOK, DestroyRecv
<1>10. ASSUME NEW r \in Recvs, RecvArbitrate(r) PROVE OpTypeOK'
  <2>1. CASE ~stopFlag[r] /\ Available
    BY <1>0, <1>10, <2>1, PopFacts DEF OpTypeOK, RecvArbitrate
  <2>2. CASE stopFlag[r] \/ ~Available
    BY <1>0, <1>10, <2>2 DEF OpTypeOK, RecvArbitrate
  <2> QED BY <2>1, <2>2
<1>11. CASE TryRecv
  BY <1>0, <1>11, PopFacts DEF OpTypeOK, TryRecv
<1>12. CASE Close
  BY <1>0, <1>12, CloseFacts DEF OpTypeOK, Close
<1>13. CASE CloneSender
  BY <1>0, <1>13 DEF OpTypeOK, CloneSender
<1>14. CASE ReleaseSender
  BY <1>0, <1>14, CloseFacts DEF OpTypeOK, ReleaseSender, CloseOnce
<1>15. CASE CloseReceiver
  BY <1>0, <1>15, CloseFacts DEF OpTypeOK, CloseReceiver, CloseOnce
<1>16. CASE UNCHANGED vars
  BY <1>0, <1>16 DEF OpTypeOK, vars
<1> QED
  BY <1>1, <1>2, <1>3, <1>4, <1>5, <1>6, <1>7, <1>8, <1>9, <1>10, <1>11, <1>12, <1>13, <1>14, <1>15, <1>16 DEF Next

(* Every step keeps the types of what is owed and told.                    *)
LEMMA SignalTypeStep == IInv /\ [Next]_vars => SignalTypeOK'
<1> SUFFICES ASSUME IInv, [Next]_vars PROVE SignalTypeOK'
  OBVIOUS
<1> USE MpscAssumption DEF Ops, Signals, SendSignals, RecvSignals, Stages, chanVars, handleVars,
      opVars, signalVars, valueVars
<1>0. TypeOK /\ SignalTypeOK
  BY DEF IInv, TypeOK
<1>1. ASSUME NEW o \in Ops, Start(o) PROVE SignalTypeOK'
  BY <1>0, <1>1 DEF SignalTypeOK, Start
<1>2. ASSUME NEW o \in Ops, RequestStop(o) PROVE SignalTypeOK'
  BY <1>0, <1>2 DEF SignalTypeOK, RequestStop
<1>3. ASSUME NEW o \in Ops, Complete(o) PROVE SignalTypeOK'
  BY <1>0, <1>3 DEF SignalTypeOK, Complete
<1>4. ASSUME NEW s \in Sends, SendArbitrate(s) PROVE SignalTypeOK'
  <2>1. CASE recvSlot # None /\ ~closed /\ ~stopFlag[s]
    BY <1>0, <1>4, <2>1, SendFacts, OweFacts DEF SignalTypeOK, SendArbitrate
  <2>2. CASE recvSlot = None /\ ~closed /\ ~stopFlag[s]
    BY <1>0, <1>4, <2>2, SendFacts, OweFacts DEF SignalTypeOK, SendArbitrate
  <2>3. CASE closed \/ stopFlag[s]
    BY <1>0, <1>4, <2>3, OweFacts DEF SignalTypeOK, SendArbitrate
  <2> QED BY <2>1, <2>2, <2>3
<1>5. ASSUME NEW s \in Sends, TrySend(s) PROVE SignalTypeOK'
  <2>1. CASE recvSlot # None /\ ~closed
    BY <1>0, <1>5, <2>1, SendFacts, OweFacts DEF SignalTypeOK, TrySend
  <2>2. CASE recvSlot = None /\ ~closed
    BY <1>0, <1>5, <2>2, SendFacts, OweFacts DEF SignalTypeOK, TrySend
  <2>3. CASE closed
    BY <1>0, <1>5, <2>3, OweFacts DEF SignalTypeOK, TrySend
  <2> QED BY <2>1, <2>2, <2>3
<1>6. ASSUME NEW s \in Sends, OnStopSend(s) PROVE SignalTypeOK'
  BY <1>0, <1>6, OweFacts DEF SignalTypeOK, OnStopSend
<1>7. ASSUME NEW s \in Sends, DestroySend(s) PROVE SignalTypeOK'
  BY <1>0, <1>7, OweFacts DEF SignalTypeOK, DestroySend
<1>8. ASSUME NEW r \in Recvs, OnStopRecv(r) PROVE SignalTypeOK'
  BY <1>0, <1>8, OweFacts DEF SignalTypeOK, OnStopRecv
<1>9. ASSUME NEW r \in Recvs, DestroyRecv(r) PROVE SignalTypeOK'
  BY <1>0, <1>9 DEF SignalTypeOK, DestroyRecv
<1>10. ASSUME NEW r \in Recvs, RecvArbitrate(r) PROVE SignalTypeOK'
  <2>1. CASE ~stopFlag[r] /\ Available
    BY <1>0, <1>10, <2>1, PopFacts, OweFacts DEF SignalTypeOK, RecvArbitrate
  <2>2. CASE stopFlag[r] \/ ~Available
    BY <1>0, <1>10, <2>2, OweFacts DEF SignalTypeOK, RecvArbitrate
  <2> QED BY <2>1, <2>2
<1>11. CASE TryRecv
  BY <1>0, <1>11, PopFacts, OweFacts DEF SignalTypeOK, TryRecv
<1>12. CASE Close
  BY <1>0, <1>12, CloseFacts DEF SignalTypeOK, Close
<1>13. CASE CloneSender
  BY <1>0, <1>13 DEF SignalTypeOK, CloneSender
<1>14. CASE ReleaseSender
  BY <1>0, <1>14, CloseFacts DEF SignalTypeOK, ReleaseSender, CloseOnce
<1>15. CASE CloseReceiver
  BY <1>0, <1>15, CloseFacts DEF SignalTypeOK, CloseReceiver, CloseOnce
<1>16. CASE UNCHANGED vars
  BY <1>0, <1>16 DEF SignalTypeOK, vars
<1> QED
  BY <1>1, <1>2, <1>3, <1>4, <1>5, <1>6, <1>7, <1>8, <1>9, <1>10, <1>11, <1>12, <1>13, <1>14, <1>15, <1>16 DEF Next

(* Every step keeps the types of the values' whereabouts.                  *)
LEMMA ValueTypeStep == IInv /\ [Next]_vars => ValueTypeOK'
<1> SUFFICES ASSUME IInv, [Next]_vars PROVE ValueTypeOK'
  OBVIOUS
<1> USE MpscAssumption DEF Ops, Signals, SendSignals, RecvSignals, Stages, chanVars, handleVars,
      opVars, signalVars, valueVars, Owe, OweTwo
<1>0. TypeOK /\ ValueTypeOK
  BY DEF IInv, TypeOK
<1>1. ASSUME NEW o \in Ops, Start(o) PROVE ValueTypeOK'
  BY <1>0, <1>1 DEF ValueTypeOK, Start
<1>2. ASSUME NEW o \in Ops, RequestStop(o) PROVE ValueTypeOK'
  BY <1>0, <1>2 DEF ValueTypeOK, RequestStop
<1>3. ASSUME NEW o \in Ops, Complete(o) PROVE ValueTypeOK'
  BY <1>0, <1>3 DEF ValueTypeOK, Complete
<1>4. ASSUME NEW s \in Sends, SendArbitrate(s) PROVE ValueTypeOK'
  <2>1. CASE recvSlot # None /\ ~closed /\ ~stopFlag[s]
    BY <1>0, <1>4, <2>1, SendFacts DEF ValueTypeOK, SendArbitrate, HandToSlot
  <2>2. CASE recvSlot = None /\ ~closed /\ ~stopFlag[s]
    BY <1>0, <1>4, <2>2, SendFacts DEF ValueTypeOK, SendArbitrate, PushBack
  <2>3. CASE closed \/ stopFlag[s]
    BY <1>0, <1>4, <2>3, SendFacts DEF ValueTypeOK, SendArbitrate
  <2> QED BY <2>1, <2>2, <2>3
<1>5. ASSUME NEW s \in Sends, TrySend(s) PROVE ValueTypeOK'
  <2>1. CASE recvSlot # None /\ ~closed
    BY <1>0, <1>5, <2>1, SendFacts DEF ValueTypeOK, TrySend, HandToSlot
  <2>2. CASE recvSlot = None /\ ~closed
    BY <1>0, <1>5, <2>2, SendFacts DEF ValueTypeOK, TrySend, PushBack
  <2>3. CASE closed
    BY <1>0, <1>5, <2>3, SendFacts DEF ValueTypeOK, TrySend
  <2> QED BY <2>1, <2>2, <2>3
<1>6. ASSUME NEW s \in Sends, OnStopSend(s) PROVE ValueTypeOK'
  BY <1>0, <1>6, QueuedUnlink DEF ValueTypeOK, OnStopSend
<1>7. ASSUME NEW s \in Sends, DestroySend(s) PROVE ValueTypeOK'
  BY <1>0, <1>7, QueuedUnlink DEF ValueTypeOK, DestroySend
<1>8. ASSUME NEW r \in Recvs, OnStopRecv(r) PROVE ValueTypeOK'
  BY <1>0, <1>8 DEF ValueTypeOK, OnStopRecv
<1>9. ASSUME NEW r \in Recvs, DestroyRecv(r) PROVE ValueTypeOK'
  BY <1>0, <1>9 DEF ValueTypeOK, DestroyRecv
<1>10. ASSUME NEW r \in Recvs, RecvArbitrate(r) PROVE ValueTypeOK'
  <2>1. CASE ~stopFlag[r] /\ Available
    BY <1>0, <1>10, <2>1, PopFacts DEF ValueTypeOK, RecvArbitrate
  <2>2. CASE stopFlag[r] \/ ~Available
    BY <1>0, <1>10, <2>2 DEF ValueTypeOK, RecvArbitrate
  <2> QED BY <2>1, <2>2
<1>11. CASE TryRecv
  BY <1>0, <1>11, PopFacts DEF ValueTypeOK, TryRecv
<1>12. CASE Close
  BY <1>0, <1>12, CloseFacts DEF ValueTypeOK, Close
<1>13. CASE CloneSender
  BY <1>0, <1>13 DEF ValueTypeOK, CloneSender
<1>14. CASE ReleaseSender
  BY <1>0, <1>14, CloseFacts DEF ValueTypeOK, ReleaseSender, CloseOnce
<1>15. CASE CloseReceiver
  BY <1>0, <1>15, CloseFacts DEF ValueTypeOK, CloseReceiver, CloseOnce
<1>16. CASE UNCHANGED vars
  BY <1>0, <1>16 DEF ValueTypeOK, vars
<1> QED
  BY <1>1, <1>2, <1>3, <1>4, <1>5, <1>6, <1>7, <1>8, <1>9, <1>10, <1>11, <1>12, <1>13, <1>14, <1>15, <1>16 DEF Next

(* The structural part of the invariant, one lemma per conjunct. *)

(* close() only touches queued operations. *)
LEMMA CloseIsQueued ==
    ASSUME IInv, NEW o \in Ops, Detached(o)
    PROVE  stage[o] = "kQueued"
  BY MpscAssumption DEF IInv, TypeOK, ChanTypeOK, Linked, SlotIsDeliverable, Detached, SeqRange, Ops

(* The head of a non-empty wait list is a queued send. *)
LEMMA HeadIsQueued ==
    ASSUME IInv, Refill
    PROVE  Head(waitList) \in Sends /\ stage[Head(waitList)] = "kQueued"
  BY DEF IInv, TypeOK, ChanTypeOK, Linked, Refill

(* Only start() changes a fresh operation. *)
LEMMA NotStartedStep == IInv /\ [Next]_vars => NotStarted'
<1> SUFFICES ASSUME IInv, [Next]_vars PROVE NotStarted'
  OBVIOUS
<1> USE MpscAssumption DEF Ops, chanVars, handleVars, opVars, signalVars, valueVars
<1>0. TypeOK /\ NotStarted /\ Linked /\ Slotted /\ SlotIsDeliverable /\ WaitersMeanFull /\ ExactlyOnce
  BY DEF IInv
<1>1. ASSUME NEW o \in Ops, Start(o) PROVE NotStarted'
  BY <1>0, <1>1 DEF NotStarted, TypeOK, ChanTypeOK, OpTypeOK, SignalTypeOK, Start, Owe, OweTwo
<1>2. ASSUME NEW o \in Ops, RequestStop(o) PROVE NotStarted'
  BY <1>0, <1>2 DEF NotStarted, TypeOK, ChanTypeOK, OpTypeOK, SignalTypeOK, RequestStop, Owe, OweTwo
<1>3. ASSUME NEW o \in Ops, Complete(o) PROVE NotStarted'
  BY <1>0, <1>3 DEF NotStarted, TypeOK, ChanTypeOK, OpTypeOK, SignalTypeOK, Complete, Owe, OweTwo
<1>4. ASSUME NEW s \in Sends, SendArbitrate(s) PROVE NotStarted'
  BY <1>0, <1>4, SendFacts DEF NotStarted, TypeOK, ChanTypeOK, OpTypeOK, SignalTypeOK, SendArbitrate, Owe, OweTwo, HandToSlot, PushBack, SlotIsDeliverable
<1>5. ASSUME NEW s \in Sends, TrySend(s) PROVE NotStarted'
  BY <1>0, <1>5, SendFacts DEF NotStarted, TypeOK, ChanTypeOK, OpTypeOK, SignalTypeOK, TrySend, Owe, OweTwo, HandToSlot, PushBack, SlotIsDeliverable
<1>6. ASSUME NEW s \in Sends, OnStopSend(s) PROVE NotStarted'
  BY <1>0, <1>6 DEF NotStarted, TypeOK, ChanTypeOK, OpTypeOK, SignalTypeOK, OnStopSend, Owe, OweTwo
<1>7. ASSUME NEW s \in Sends, DestroySend(s) PROVE NotStarted'
  BY <1>0, <1>7 DEF NotStarted, TypeOK, ChanTypeOK, OpTypeOK, SignalTypeOK, DestroySend, Owe, OweTwo
<1>8. ASSUME NEW r \in Recvs, OnStopRecv(r) PROVE NotStarted'
  BY <1>0, <1>8 DEF NotStarted, TypeOK, ChanTypeOK, OpTypeOK, SignalTypeOK, OnStopRecv, Owe, OweTwo
<1>9. ASSUME NEW r \in Recvs, DestroyRecv(r) PROVE NotStarted'
  BY <1>0, <1>9 DEF NotStarted, TypeOK, ChanTypeOK, OpTypeOK, SignalTypeOK, DestroyRecv, Owe, OweTwo
<1>10. ASSUME NEW r \in Recvs, RecvArbitrate(r) PROVE NotStarted'
  BY <1>0, <1>10, HeadIsQueued DEF NotStarted, TypeOK, ChanTypeOK, OpTypeOK, SignalTypeOK, RecvArbitrate, Owe, OweTwo, PopValue
<1>11. CASE TryRecv
  BY <1>0, <1>11, HeadIsQueued DEF NotStarted, TypeOK, ChanTypeOK, OpTypeOK, SignalTypeOK, TryRecv, Owe, OweTwo, PopValue
<1>12. CASE Close
  BY <1>0, <1>12, CloseIsQueued DEF NotStarted, TypeOK, ChanTypeOK, OpTypeOK, SignalTypeOK, Close, CloseOnce, CloseState, OweClosed
<1>13. CASE CloneSender
  BY <1>0, <1>13 DEF NotStarted, TypeOK, ChanTypeOK, OpTypeOK, SignalTypeOK, CloneSender, Owe, OweTwo
<1>14. CASE ReleaseSender
  BY <1>0, <1>14, CloseIsQueued DEF NotStarted, TypeOK, ChanTypeOK, OpTypeOK, SignalTypeOK, ReleaseSender, CloseOnce, CloseState, OweClosed
<1>15. CASE CloseReceiver
  BY <1>0, <1>15, CloseIsQueued DEF NotStarted, TypeOK, ChanTypeOK, OpTypeOK, SignalTypeOK, CloseReceiver, CloseOnce, CloseState, OweClosed
<1>16. CASE UNCHANGED vars
  BY <1>0, <1>16 DEF NotStarted, vars
<1> QED
  BY <1>1, <1>2, <1>3, <1>4, <1>5, <1>6, <1>7, <1>8, <1>9, <1>10, <1>11, <1>12, <1>13, <1>14, <1>15, <1>16 DEF Next

(* Owing a signal to operations that have none keeps the signals unique. *)
Silent(o) == owed[o] = {} /\ fired[o] = 0

(* Owing a completion to an operation that was told nothing leaves each    *)
(* told once at most.                                                      *)
LEMMA OweOnce ==
    ASSUME SignalTypeOK, ExactlyOnce, NEW o \in Ops, NEW x, Silent(o), Owe(o, x),
           \A q \in Ops : stage'[q] \in {"kQueued", "kGone"} => q # o /\ Silent(q)
    PROVE  ExactlyOnce'
  BY DEF SignalTypeOK, ExactlyOnce, Silent, Owe

(* The same of two operations, as when a send meets a receive.             *)
LEMMA OweTwoOnce ==
    ASSUME SignalTypeOK, ExactlyOnce, NEW o \in Ops, NEW p \in Ops, NEW x, NEW y, o # p,
           Silent(o), Silent(p), OweTwo(o, x, p, y),
           \A q \in Ops : stage'[q] \in {"kQueued", "kGone"} => q # o /\ q # p /\ Silent(q)
    PROVE  ExactlyOnce'
  BY DEF SignalTypeOK, ExactlyOnce, Silent, OweTwo

(* close() owes one completion to each parked operation.                   *)
LEMMA CloseOnceIsOnce ==
    ASSUME IInv, CloseState
    PROVE  ExactlyOnce'
  BY CloseIsQueued DEF IInv, TypeOK, ExactlyOnce, OpTypeOK, SignalTypeOK, CloseState, OweClosed

(* An operation is completed at most once. *)
LEMMA ExactlyOnceStep == IInv /\ [Next]_vars => ExactlyOnce'
<1> SUFFICES ASSUME IInv, [Next]_vars PROVE ExactlyOnce'
  OBVIOUS
<1> USE MpscAssumption DEF Ops, chanVars, handleVars, opVars, signalVars, valueVars
<1>0. TypeOK /\ NotStarted /\ Linked /\ Slotted /\ SlotIsDeliverable /\ WaitersMeanFull /\ ExactlyOnce
  BY DEF IInv
<1>1. ASSUME NEW o \in Ops, Start(o) PROVE ExactlyOnce'
  BY <1>0, <1>1 DEF ExactlyOnce, NotStarted, TypeOK, ChanTypeOK, OpTypeOK, SignalTypeOK, Start, Owe, OweTwo
<1>2. ASSUME NEW o \in Ops, RequestStop(o) PROVE ExactlyOnce'
  BY <1>0, <1>2 DEF ExactlyOnce, NotStarted, TypeOK, ChanTypeOK, OpTypeOK, SignalTypeOK, RequestStop, Owe, OweTwo
<1>3. ASSUME NEW o \in Ops, Complete(o) PROVE ExactlyOnce'
  BY <1>0, <1>3 DEF ExactlyOnce, NotStarted, TypeOK, ChanTypeOK, OpTypeOK, SignalTypeOK, Complete, Owe, OweTwo
<1>4. ASSUME NEW s \in Sends, SendArbitrate(s) PROVE ExactlyOnce'
  <2>1. Silent(s) /\ stage[s] = "kInit"
    BY <1>0, <1>4 DEF NotStarted, SendArbitrate, Silent
  <2>2. \A q \in Ops : stage[q] \in {"kQueued", "kGone"} => Silent(q)
    BY <1>0 DEF ExactlyOnce, Silent
  <2>3. CASE recvSlot # None /\ ~closed /\ ~stopFlag[s]
    <3>1. recvSlot \in Ops /\ recvSlot # s /\ Silent(recvSlot)
      BY <1>0, <2>2, <2>3 DEF TypeOK, ChanTypeOK, OpTypeOK, SignalTypeOK, SlotIsDeliverable
    <3>2. HandToSlot(s) /\ OweTwo(recvSlot, "value", s, "true")
      BY <1>4, <2>3 DEF SendArbitrate
    <3>3. \A q \in Ops : stage'[q] \in {"kQueued", "kGone"} => q # recvSlot /\ q # s /\ Silent(q)
      BY <1>0, <2>1, <2>2, <3>1, <3>2 DEF HandToSlot, TypeOK, ChanTypeOK, OpTypeOK, SignalTypeOK
    <3> QED BY <1>0, <2>1, <3>1, <3>2, <3>3, OweTwoOnce DEF TypeOK
  <2>4. CASE recvSlot = None /\ ~closed /\ ~stopFlag[s] /\ HasRoom
    <3>1. Owe(s, "true") /\ stage' = stage
      BY <1>4, <2>4 DEF SendArbitrate, PushBack
    <3> QED BY <1>0, <2>1, <2>2, <3>1, OweOnce DEF TypeOK
  <2>5. CASE closed \/ stopFlag[s]
    <3>1. stage' = stage /\ \E x \in Signals : Owe(s, x)
      BY <1>4, <2>5 DEF SendArbitrate, Signals, SendSignals
    <3> QED BY <1>0, <2>1, <2>2, <3>1, OweOnce DEF TypeOK
  <2>6. CASE recvSlot = None /\ ~closed /\ ~stopFlag[s] /\ ~HasRoom
    BY <1>0, <1>4, <2>1, <2>6 DEF ExactlyOnce, Silent, TypeOK, ChanTypeOK, OpTypeOK, SignalTypeOK, SendArbitrate, HasRoom
  <2> QED BY <2>3, <2>4, <2>5, <2>6
<1>5. ASSUME NEW s \in Sends, TrySend(s) PROVE ExactlyOnce'
  <2>1. Silent(s) /\ stage[s] = "kInit"
    BY <1>0, <1>5 DEF NotStarted, TrySend, Silent
  <2>2. \A q \in Ops : stage[q] \in {"kQueued", "kGone"} => Silent(q)
    BY <1>0 DEF ExactlyOnce, Silent
  <2>3. CASE recvSlot # None /\ ~closed
    <3>1. recvSlot \in Ops /\ recvSlot # s /\ Silent(recvSlot)
      BY <1>0, <2>2, <2>3 DEF TypeOK, ChanTypeOK, OpTypeOK, SignalTypeOK, SlotIsDeliverable
    <3>2. HandToSlot(s) /\ OweTwo(recvSlot, "value", s, "true")
      BY <1>5, <2>3 DEF TrySend
    <3>3. \A q \in Ops : stage'[q] \in {"kQueued", "kGone"} => q # recvSlot /\ q # s /\ Silent(q)
      BY <1>0, <2>1, <2>2, <3>1, <3>2 DEF HandToSlot, TypeOK, ChanTypeOK, OpTypeOK, SignalTypeOK
    <3> QED BY <1>0, <2>1, <3>1, <3>2, <3>3, OweTwoOnce DEF TypeOK
  <2>4. CASE recvSlot = None /\ ~closed
    <3>1. Owe(s, "true") /\ stage' = stage
      BY <1>5, <2>4 DEF TrySend, PushBack
    <3> QED BY <1>0, <2>1, <2>2, <3>1, OweOnce DEF TypeOK
  <2>5. CASE closed
    <3>1. stage' = stage /\ \E x \in Signals : Owe(s, x)
      BY <1>5, <2>5 DEF TrySend, Signals, SendSignals
    <3> QED BY <1>0, <2>1, <2>2, <3>1, OweOnce DEF TypeOK
  <2> QED BY <2>3, <2>4, <2>5
<1>6. ASSUME NEW s \in Sends, OnStopSend(s) PROVE ExactlyOnce'
  <2>1. CASE stage[s] = "kQueued"
    <3>1. Silent(s) /\ \A q \in Ops : stage[q] \in {"kQueued", "kGone"} => Silent(q)
      BY <1>0, <2>1 DEF ExactlyOnce, Silent
    <3>2. Owe(s, "stopped") /\ stage' = [stage EXCEPT ![s] = "kStopped"]
      BY <1>6, <2>1 DEF OnStopSend
    <3> QED BY <1>0, <3>1, <3>2, OweOnce DEF TypeOK, ChanTypeOK, OpTypeOK, SignalTypeOK
  <2>2. CASE stage[s] # "kQueued"
    BY <1>0, <1>6, <2>2 DEF ExactlyOnce, OnStopSend
  <2> QED BY <2>1, <2>2
<1>7. ASSUME NEW s \in Sends, DestroySend(s) PROVE ExactlyOnce'
  BY <1>0, <1>7 DEF ExactlyOnce, NotStarted, TypeOK, ChanTypeOK, OpTypeOK, SignalTypeOK, DestroySend, Owe, OweTwo
<1>8. ASSUME NEW r \in Recvs, OnStopRecv(r) PROVE ExactlyOnce'
  <2>1. CASE stage[r] = "kQueued"
    <3>1. Silent(r) /\ \A q \in Ops : stage[q] \in {"kQueued", "kGone"} => Silent(q)
      BY <1>0, <2>1 DEF ExactlyOnce, Silent
    <3>2. Owe(r, "stopped") /\ stage' = [stage EXCEPT ![r] = "kStopped"]
      BY <1>8, <2>1 DEF OnStopRecv
    <3> QED BY <1>0, <3>1, <3>2, OweOnce DEF TypeOK, ChanTypeOK, OpTypeOK, SignalTypeOK
  <2>2. CASE stage[r] # "kQueued"
    BY <1>0, <1>8, <2>2 DEF ExactlyOnce, OnStopRecv
  <2> QED BY <2>1, <2>2
<1>9. ASSUME NEW r \in Recvs, DestroyRecv(r) PROVE ExactlyOnce'
  BY <1>0, <1>9 DEF ExactlyOnce, NotStarted, TypeOK, ChanTypeOK, OpTypeOK, SignalTypeOK, DestroyRecv, Owe, OweTwo
<1>10. ASSUME NEW r \in Recvs, RecvArbitrate(r) PROVE ExactlyOnce'
  <2>1. \A q \in Ops : stage[q] \in {"kQueued", "kGone"} => Silent(q)
    BY <1>0 DEF ExactlyOnce, Silent
  <2>2. Silent(r) /\ stage[r] = "kInit"
    BY <1>0, <1>10 DEF NotStarted, RecvArbitrate, Silent
  <2>3. CASE ~stopFlag[r] /\ Available /\ Refill
    <3> DEFINE h == Head(waitList)
    <3>1. h \in Ops /\ h # r /\ Silent(h)
      BY <2>1, <2>3, HeadIsQueued
    <3>2. PopValue /\ OweTwo(h, "true", r, "value")
      BY <1>10, <2>3 DEF RecvArbitrate
    <3>3. \A q \in Ops : stage'[q] \in {"kQueued", "kGone"} => q # h /\ q # r /\ Silent(q)
      BY <1>0, <2>1, <2>2, <2>3, <3>1, <3>2, SMTT(30) DEF PopValue, TypeOK, ChanTypeOK, OpTypeOK, SignalTypeOK
    <3> HIDE DEF h
    <3> QED BY <1>0, <2>2, <3>1, <3>2, <3>3, OweTwoOnce DEF TypeOK
  <2>4. CASE ~stopFlag[r] /\ Available /\ ~Refill
    <3>1. Owe(r, "value") /\ stage' = stage
      BY <1>10, <2>4 DEF RecvArbitrate, PopValue
    <3> QED BY <1>0, <2>1, <2>2, <3>1, OweOnce DEF TypeOK
  <2>5. CASE stopFlag[r] \/ (~Available /\ (closed \/ recvSlot # None))
    <3>1. stage' = stage /\ \E x \in Signals : Owe(r, x)
      BY <1>10, <2>5 DEF RecvArbitrate, Signals, RecvSignals
    <3> QED BY <1>0, <2>1, <2>2, <3>1, OweOnce DEF TypeOK
  <2>6. CASE ~stopFlag[r] /\ ~Available /\ ~closed /\ recvSlot = None
    BY <1>0, <1>10, <2>2, <2>6 DEF ExactlyOnce, Silent, TypeOK, ChanTypeOK, OpTypeOK, SignalTypeOK, RecvArbitrate
  <2> QED BY <2>3, <2>4, <2>5, <2>6
<1>11. CASE TryRecv
  <2>1. \A q \in Ops : stage[q] \in {"kQueued", "kGone"} => Silent(q)
    BY <1>0 DEF ExactlyOnce, Silent
  <2>2. CASE Refill
    <3> DEFINE h == Head(waitList)
    <3>1. h \in Ops /\ Silent(h)
      BY <2>1, <2>2, HeadIsQueued
    <3>2. PopValue /\ Owe(h, "true")
      BY <1>11, <2>2 DEF TryRecv
    <3>3. \A q \in Ops : stage'[q] \in {"kQueued", "kGone"} => q # h /\ Silent(q)
      BY <1>0, <2>1, <2>2, <3>1, <3>2 DEF PopValue, TypeOK, ChanTypeOK, OpTypeOK, SignalTypeOK
    <3> HIDE DEF h
    <3> QED BY <1>0, <3>1, <3>2, <3>3, OweOnce DEF TypeOK
  <2>3. CASE ~Refill
    BY <1>0, <1>11, <2>3 DEF ExactlyOnce, TryRecv, PopValue
  <2> QED BY <2>2, <2>3
<1>12. CASE Close
  BY <1>0, <1>12, CloseOnceIsOnce DEF ExactlyOnce, Close, CloseOnce
<1>13. CASE CloneSender
  BY <1>0, <1>13 DEF ExactlyOnce, NotStarted, TypeOK, ChanTypeOK, OpTypeOK, SignalTypeOK, CloneSender, Owe, OweTwo
<1>14. CASE ReleaseSender
  BY <1>0, <1>14, CloseOnceIsOnce DEF ExactlyOnce, ReleaseSender, CloseOnce
<1>15. CASE CloseReceiver
  BY <1>0, <1>15, CloseOnceIsOnce DEF ExactlyOnce, CloseReceiver, CloseOnce
<1>16. CASE UNCHANGED vars
  BY <1>0, <1>16 DEF ExactlyOnce, vars
<1> QED
  BY <1>1, <1>2, <1>3, <1>4, <1>5, <1>6, <1>7, <1>8, <1>9, <1>10, <1>11, <1>12, <1>13, <1>14, <1>15, <1>16 DEF Next

(* The slot names exactly the queued receive. *)
LEMMA SlottedStep == IInv /\ [Next]_vars => Slotted'
<1> SUFFICES ASSUME IInv, [Next]_vars PROVE Slotted'
  OBVIOUS
<1> USE MpscAssumption DEF Ops, chanVars, handleVars, opVars, signalVars, valueVars
<1>0. TypeOK /\ NotStarted /\ Linked /\ Slotted /\ SlotIsDeliverable /\ WaitersMeanFull /\ ExactlyOnce
  BY DEF IInv
<1>1. ASSUME NEW o \in Ops, Start(o) PROVE Slotted'
  BY <1>0, <1>1 DEF Slotted, NotStarted, TypeOK, ChanTypeOK, OpTypeOK, SignalTypeOK, Start
<1>2. ASSUME NEW o \in Ops, RequestStop(o) PROVE Slotted'
  BY <1>0, <1>2 DEF Slotted, NotStarted, TypeOK, ChanTypeOK, OpTypeOK, SignalTypeOK, RequestStop
<1>3. ASSUME NEW o \in Ops, Complete(o) PROVE Slotted'
  BY <1>0, <1>3 DEF Slotted, NotStarted, TypeOK, ChanTypeOK, OpTypeOK, SignalTypeOK, Complete
<1>4. ASSUME NEW s \in Sends, SendArbitrate(s) PROVE Slotted'
  BY <1>0, <1>4 DEF Slotted, NotStarted, TypeOK, ChanTypeOK, OpTypeOK, SignalTypeOK, SendArbitrate, HandToSlot, PushBack
<1>5. ASSUME NEW s \in Sends, TrySend(s) PROVE Slotted'
  BY <1>0, <1>5 DEF Slotted, NotStarted, TypeOK, ChanTypeOK, OpTypeOK, SignalTypeOK, TrySend, HandToSlot, PushBack
<1>6. ASSUME NEW s \in Sends, OnStopSend(s) PROVE Slotted'
  BY <1>0, <1>6 DEF Slotted, NotStarted, TypeOK, ChanTypeOK, OpTypeOK, SignalTypeOK, OnStopSend
<1>7. ASSUME NEW s \in Sends, DestroySend(s) PROVE Slotted'
  BY <1>0, <1>7 DEF Slotted, NotStarted, TypeOK, ChanTypeOK, OpTypeOK, SignalTypeOK, DestroySend
<1>8. ASSUME NEW r \in Recvs, OnStopRecv(r) PROVE Slotted'
  BY <1>0, <1>8 DEF Slotted, NotStarted, TypeOK, ChanTypeOK, OpTypeOK, SignalTypeOK, OnStopRecv
<1>9. ASSUME NEW r \in Recvs, DestroyRecv(r) PROVE Slotted'
  BY <1>0, <1>9 DEF Slotted, NotStarted, TypeOK, ChanTypeOK, OpTypeOK, SignalTypeOK, DestroyRecv
<1>10. ASSUME NEW r \in Recvs, RecvArbitrate(r) PROVE Slotted'
  BY <1>0, <1>10, HeadIsQueued DEF Slotted, NotStarted, TypeOK, ChanTypeOK, OpTypeOK, SignalTypeOK, RecvArbitrate, PopValue
<1>11. CASE TryRecv
  BY <1>0, <1>11, HeadIsQueued DEF Slotted, NotStarted, TypeOK, ChanTypeOK, OpTypeOK, SignalTypeOK, TryRecv, PopValue
<1>12. CASE Close
  <2>1. CloseState => Slotted'
    BY <1>0 DEF Slotted, CloseState, Detached, TypeOK, OpTypeOK
  <2> QED BY <1>0, <1>12, <2>1 DEF Slotted, Close, CloseOnce
<1>13. CASE CloneSender
  BY <1>0, <1>13 DEF Slotted, NotStarted, TypeOK, ChanTypeOK, OpTypeOK, SignalTypeOK, CloneSender
<1>14. CASE ReleaseSender
  <2>1. CloseState => Slotted'
    BY <1>0 DEF Slotted, CloseState, Detached, TypeOK, OpTypeOK
  <2> QED BY <1>0, <1>14, <2>1 DEF Slotted, ReleaseSender, CloseOnce
<1>15. CASE CloseReceiver
  <2>1. CloseState => Slotted'
    BY <1>0 DEF Slotted, CloseState, Detached, TypeOK, OpTypeOK
  <2> QED BY <1>0, <1>15, <2>1 DEF Slotted, CloseReceiver, CloseOnce
<1>16. CASE UNCHANGED vars
  BY <1>0, <1>16 DEF Slotted, vars
<1> QED
  BY <1>1, <1>2, <1>3, <1>4, <1>5, <1>6, <1>7, <1>8, <1>9, <1>10, <1>11, <1>12, <1>13, <1>14, <1>15, <1>16 DEF Next

(* Linked only depends on the wait list and on the stages of sends. *)
LEMMA LinkedFrame ==
    ASSUME TypeOK, Linked, waitList' = waitList, \A s \in Sends : stage'[s] = stage[s]
    PROVE  Linked'
  BY DEF Linked, TypeOK, ChanTypeOK

(* A send that leaves the wait list, and its stage with it, leaves the     *)
(* others linked.                                                          *)
LEMMA LinkedUnlink ==
    ASSUME IInv, NEW s \in Sends, stage[s] = "kQueued", NEW x \in Stages, x # "kQueued",
           waitList' = Unlink(waitList, s), stage' = [stage EXCEPT ![s] = x]
    PROVE  Linked' /\ (waitList' # <<>> => waitList # <<>>)
<1> DEFINE u == Unlink(waitList, s)
<1>1. /\ u \in Seq(Sends)
      /\ \A i \in 1..Len(u) : u[i] # s /\ \E j \in 1..Len(waitList) : u[i] = waitList[j]
      /\ \A j \in 1..Len(waitList) : waitList[j] # s => \E i \in 1..Len(u) : u[i] = waitList[j]
      /\ \A i, j \in 1..Len(u) : u[i] = u[j] => i = j
  BY UnlinkLemma DEF IInv, TypeOK, ChanTypeOK, Linked
<1> HIDE DEF u
<1>2. waitList' = u
  BY DEF u
<1>3. \A i \in 1..Len(u) : u[i] \in Sends
  BY <1>1
<1>4. ASSUME NEW i \in 1..Len(u) PROVE stage'[u[i]] = "kQueued"
  <2>1. PICK j \in 1..Len(waitList) : u[i] = waitList[j]
    BY <1>1
  <2>2. stage[u[i]] = "kQueued" /\ u[i] # s
    BY <1>1, <2>1 DEF IInv, Linked
  <2> QED BY <1>3, <2>2 DEF IInv, TypeOK, OpTypeOK, Ops
<1>5. ASSUME NEW q \in Sends, stage'[q] = "kQueued"
      PROVE  \E i \in 1..Len(u) : u[i] = q
  <2>1. stage[q] = "kQueued" /\ q # s
    BY <1>5 DEF IInv, TypeOK, OpTypeOK, Ops
  <2>2. PICK j \in 1..Len(waitList) : waitList[j] = q
    BY <2>1 DEF IInv, Linked
  <2> QED BY <1>1, <2>1, <2>2
<1>6. waitList # <<>>
  BY DEF IInv, Linked
<1> QED BY <1>1, <1>2, <1>4, <1>5, <1>6 DEF Linked

(* The refill takes the first parked send out of list and stage at once.   *)
LEMMA LinkedPop ==
    ASSUME IInv, PopValue
    PROVE  Linked' /\ (waitList' # <<>> => waitList # <<>>)
<1>1. CASE ~Refill
  BY <1>1, LinkedFrame DEF IInv, PopValue
<1>2. CASE Refill
  <2> DEFINE w == Tail(waitList)
             h == Head(waitList)
  <2>1. waitList' = w /\ stage' = [stage EXCEPT ![h] = "kClaimed"]
    BY <1>2 DEF PopValue
  <2>2. /\ waitList \in Seq(Sends) /\ waitList # <<>> /\ w \in Seq(Sends)
        /\ Len(w) = Len(waitList) - 1 /\ h = waitList[1]
        /\ \A i \in 1..Len(w) : w[i] = waitList[i + 1] /\ w[i] \in Sends
    BY <1>2 DEF IInv, TypeOK, ChanTypeOK, Refill
  <2> HIDE DEF w, h
  <2>3. \A i \in 1..Len(w) : w[i] # h
    BY <2>2 DEF IInv, Linked
  <2>4. \A i \in 1..Len(w) : stage'[w[i]] = "kQueued"
    BY <2>1, <2>2, <2>3, SMTT(30) DEF IInv, TypeOK, OpTypeOK, Linked, Ops
  <2>5. ASSUME NEW q \in Sends, stage'[q] = "kQueued"
        PROVE  \E i \in 1..Len(w) : w[i] = q
    <3>1. stage[q] = "kQueued" /\ q # h
      BY <2>1, <2>5 DEF IInv, TypeOK, OpTypeOK, Ops
    <3>2. PICK j \in 1..Len(waitList) : waitList[j] = q
      BY <3>1 DEF IInv, Linked
    <3>3. j - 1 \in 1..Len(w) /\ w[j - 1] = q
      BY <2>2, <3>1, <3>2
    <3> QED BY <3>3
  <2>6. \A i, j \in 1..Len(w) : w[i] = w[j] => i = j
    BY <2>2, SMTT(30) DEF IInv, Linked
  <2> QED BY <2>1, <2>2, <2>4, <2>5, <2>6 DEF Linked
<1> QED BY <1>1, <1>2

(* A send that parks is in the list once, and queued.                      *)
LEMMA LinkedPark ==
    ASSUME IInv, NEW s \in Sends, stage[s] = "kInit",
           waitList' = Append(waitList, s), stage' = [stage EXCEPT ![s] = "kQueued"]
    PROVE  Linked'
<1> DEFINE w == Append(waitList, s)
<1>1. /\ waitList \in Seq(Sends) /\ w \in Seq(Sends) /\ Len(w) = Len(waitList) + 1
      /\ \A i \in 1..Len(waitList) : w[i] = waitList[i] /\ waitList[i] \in Sends
      /\ w[Len(w)] = s
  BY DEF IInv, TypeOK, ChanTypeOK
<1> HIDE DEF w
<1>2. waitList' = w
  BY DEF w
<1>3. \A i \in 1..Len(waitList) : waitList[i] # s
  BY DEF IInv, Linked
<1>4. \A i \in 1..Len(w) : stage'[w[i]] = "kQueued"
  BY <1>1 DEF IInv, TypeOK, OpTypeOK, Linked, Ops
<1>5. ASSUME NEW q \in Sends, stage'[q] = "kQueued"
      PROVE  \E i \in 1..Len(w) : w[i] = q
  <2>1. CASE q = s
    <3>1. Len(w) \in 1..Len(w)
      BY <1>1
    <3> QED BY <1>1, <2>1, <3>1
  <2>2. CASE q # s
    <3>1. PICK j \in 1..Len(waitList) : waitList[j] = q
      BY <1>5, <2>2 DEF IInv, TypeOK, OpTypeOK, Linked, Ops
    <3>2. j \in 1..Len(w) /\ w[j] = q
      BY <1>1, <3>1
    <3> QED BY <3>2
  <2> QED BY <2>1, <2>2
<1>6. \A i, j \in 1..Len(w) : w[i] = w[j] => i = j
  BY <1>1, <1>3 DEF IInv, Linked
<1> QED BY <1>2, <1>4, <1>5, <1>6 DEF Linked

(* The wait list links exactly the queued sends. *)
LEMMA LinkedStep == IInv /\ [Next]_vars => Linked'
<1> SUFFICES ASSUME IInv, [Next]_vars PROVE Linked'
  OBVIOUS
<1> USE MpscAssumption DEF Ops, chanVars, handleVars, opVars, signalVars, valueVars
<1>0. TypeOK /\ NotStarted /\ Linked /\ Slotted /\ SlotIsDeliverable /\ WaitersMeanFull /\ ExactlyOnce
  BY DEF IInv
<1>1. ASSUME NEW o \in Ops, Start(o) PROVE Linked'
  BY <1>0, <1>1, LinkedFrame DEF Start
<1>2. ASSUME NEW o \in Ops, RequestStop(o) PROVE Linked'
  BY <1>0, <1>2, LinkedFrame DEF RequestStop
<1>3. ASSUME NEW o \in Ops, Complete(o) PROVE Linked'
  BY <1>0, <1>3, LinkedFrame DEF Complete
<1>4. ASSUME NEW s \in Sends, SendArbitrate(s) PROVE Linked'
  <2>1. CASE recvSlot = None /\ ~closed /\ ~stopFlag[s] /\ ~HasRoom
    <3>1. stage[s] = "kInit"
      BY <1>0, <1>4 DEF NotStarted, SendArbitrate
    <3> QED BY <1>4, <2>1, <3>1, LinkedPark DEF SendArbitrate
  <2>2. CASE ~(recvSlot = None /\ ~closed /\ ~stopFlag[s] /\ ~HasRoom)
    <3>1. waitList' = waitList /\ \A q \in Sends : stage'[q] = stage[q]
      BY <1>0, <1>4, <2>2 DEF SendArbitrate, HandToSlot, PushBack, TypeOK, ChanTypeOK, OpTypeOK, SignalTypeOK
    <3> QED BY <1>0, <3>1, LinkedFrame
  <2> QED BY <2>1, <2>2
<1>5. ASSUME NEW s \in Sends, TrySend(s) PROVE Linked'
  <2>1. waitList' = waitList /\ \A q \in Sends : stage'[q] = stage[q]
    BY <1>0, <1>5 DEF TrySend, HandToSlot, PushBack, TypeOK, ChanTypeOK, OpTypeOK, SignalTypeOK
  <2> QED BY <1>0, <2>1, LinkedFrame
<1>6. ASSUME NEW s \in Sends, OnStopSend(s) PROVE Linked'
  <2>1. CASE stage[s] = "kQueued"
    BY <1>6, <2>1, LinkedUnlink DEF OnStopSend, Stages
  <2>2. CASE stage[s] # "kQueued"
    BY <1>0, <1>6, <2>2, LinkedFrame DEF OnStopSend
  <2> QED BY <2>1, <2>2
<1>7. ASSUME NEW s \in Sends, DestroySend(s) PROVE Linked'
  BY <1>7, LinkedUnlink DEF DestroySend, Stages
<1>8. ASSUME NEW r \in Recvs, OnStopRecv(r) PROVE Linked'
  <2>1. waitList' = waitList /\ \A q \in Sends : stage'[q] = stage[q]
    BY <1>0, <1>8 DEF OnStopRecv, TypeOK, OpTypeOK
  <2> QED BY <1>0, <2>1, LinkedFrame
<1>9. ASSUME NEW r \in Recvs, DestroyRecv(r) PROVE Linked'
  <2>1. waitList' = waitList /\ \A q \in Sends : stage'[q] = stage[q]
    BY <1>0, <1>9 DEF DestroyRecv, TypeOK, OpTypeOK
  <2> QED BY <1>0, <2>1, LinkedFrame
<1>10. ASSUME NEW r \in Recvs, RecvArbitrate(r) PROVE Linked'
  <2>1. CASE ~stopFlag[r] /\ Available
    BY <1>10, <2>1, LinkedPop DEF RecvArbitrate
  <2>2. CASE stopFlag[r] \/ ~Available
    <3>1. waitList' = waitList /\ \A q \in Sends : stage'[q] = stage[q]
      BY <1>0, <1>10, <2>2 DEF RecvArbitrate, TypeOK, OpTypeOK
    <3> QED BY <1>0, <3>1, LinkedFrame
  <2> QED BY <2>1, <2>2
<1>11. CASE TryRecv
  BY <1>11, LinkedPop DEF TryRecv
<1>12. CASE Close
  <2>1. CASE closed \/ ~CloseState
    BY <1>0, <1>12, <2>1, LinkedFrame DEF Close, CloseOnce
  <2>2. ASSUME CloseState PROVE Linked'
    <3>1. waitList' = <<>> /\ \A q \in Sends : stage'[q] # "kQueued"
      BY <1>0, <2>2 DEF CloseState, Detached, SeqRange, Linked, TypeOK, OpTypeOK
    <3> QED BY <3>1 DEF Linked
  <2> QED BY <2>1, <2>2
<1>13. CASE CloneSender
  BY <1>0, <1>13, LinkedFrame DEF CloneSender
<1>14. CASE ReleaseSender
  <2>1. CASE closed \/ ~CloseState
    BY <1>0, <1>14, <2>1, LinkedFrame DEF ReleaseSender, CloseOnce
  <2>2. ASSUME CloseState PROVE Linked'
    <3>1. waitList' = <<>> /\ \A q \in Sends : stage'[q] # "kQueued"
      BY <1>0, <2>2 DEF CloseState, Detached, SeqRange, Linked, TypeOK, OpTypeOK
    <3> QED BY <3>1 DEF Linked
  <2> QED BY <2>1, <2>2
<1>15. CASE CloseReceiver
  <2>1. CASE closed \/ ~CloseState
    BY <1>0, <1>15, <2>1, LinkedFrame DEF CloseReceiver, CloseOnce
  <2>2. ASSUME CloseState PROVE Linked'
    <3>1. waitList' = <<>> /\ \A q \in Sends : stage'[q] # "kQueued"
      BY <1>0, <2>2 DEF CloseState, Detached, SeqRange, Linked, TypeOK, OpTypeOK
    <3> QED BY <3>1 DEF Linked
  <2> QED BY <2>1, <2>2
<1>16. CASE UNCHANGED vars
  BY <1>0, <1>16 DEF Linked, vars
<1> QED
  BY <1>1, <1>2, <1>3, <1>4, <1>5, <1>6, <1>7, <1>8, <1>9, <1>10, <1>11, <1>12, <1>13, <1>14, <1>15, <1>16 DEF Next

(* The node behind recv_slot can always be completed. *)
LEMMA SlotStep == IInv /\ [Next]_vars => SlotIsDeliverable'
<1> SUFFICES ASSUME IInv, [Next]_vars PROVE SlotIsDeliverable'
  OBVIOUS
<1> USE MpscAssumption DEF Ops, chanVars, handleVars, opVars, signalVars, valueVars
<1>0. TypeOK /\ NotStarted /\ Linked /\ Slotted /\ SlotIsDeliverable /\ WaitersMeanFull /\ ExactlyOnce
  BY DEF IInv
<1>1. ASSUME NEW o \in Ops, Start(o) PROVE SlotIsDeliverable'
  BY <1>0, <1>1 DEF SlotIsDeliverable, Start, TypeOK, ChanTypeOK, OpTypeOK, NotStarted
<1>2. ASSUME NEW o \in Ops, RequestStop(o) PROVE SlotIsDeliverable'
  BY <1>0, <1>2 DEF SlotIsDeliverable, RequestStop, TypeOK, ChanTypeOK, OpTypeOK, NotStarted
<1>3. ASSUME NEW o \in Ops, Complete(o) PROVE SlotIsDeliverable'
  BY <1>0, <1>3 DEF SlotIsDeliverable, Complete, TypeOK, ChanTypeOK, OpTypeOK, NotStarted
<1>4. ASSUME NEW s \in Sends, SendArbitrate(s) PROVE SlotIsDeliverable'
  BY <1>0, <1>4 DEF SlotIsDeliverable, SendArbitrate, HandToSlot, PushBack, TypeOK, ChanTypeOK, OpTypeOK, NotStarted
<1>5. ASSUME NEW s \in Sends, TrySend(s) PROVE SlotIsDeliverable'
  BY <1>0, <1>5 DEF SlotIsDeliverable, TrySend, HandToSlot, PushBack, TypeOK, ChanTypeOK, OpTypeOK, NotStarted
<1>6. ASSUME NEW s \in Sends, OnStopSend(s) PROVE SlotIsDeliverable'
  <2>1. recvSlot = None \/ waitList = <<>>
    BY <1>0 DEF SlotIsDeliverable
  <2>2. stage[s] = "kQueued" => waitList # <<>>
    BY <1>0 DEF Linked
  <2> QED BY <1>0, <1>6, <2>1, <2>2 DEF SlotIsDeliverable, OnStopSend, TypeOK, ChanTypeOK, OpTypeOK
<1>7. ASSUME NEW s \in Sends, DestroySend(s) PROVE SlotIsDeliverable'
  <2>1. recvSlot = None \/ waitList = <<>>
    BY <1>0 DEF SlotIsDeliverable
  <2>2. stage[s] = "kQueued" => waitList # <<>>
    BY <1>0 DEF Linked
  <2> QED BY <1>0, <1>7, <2>1, <2>2 DEF SlotIsDeliverable, DestroySend, TypeOK, ChanTypeOK, OpTypeOK
<1>8. ASSUME NEW r \in Recvs, OnStopRecv(r) PROVE SlotIsDeliverable'
  BY <1>0, <1>8 DEF SlotIsDeliverable, OnStopRecv, TypeOK, ChanTypeOK, OpTypeOK, NotStarted
<1>9. ASSUME NEW r \in Recvs, DestroyRecv(r) PROVE SlotIsDeliverable'
  BY <1>0, <1>9 DEF SlotIsDeliverable, DestroyRecv, TypeOK, ChanTypeOK, OpTypeOK, NotStarted
<1>10. ASSUME NEW r \in Recvs, RecvArbitrate(r) PROVE SlotIsDeliverable'
  <2>1. CASE ~stopFlag[r] /\ Available
    BY <1>0, <1>10, <2>1 DEF SlotIsDeliverable, Available, RecvArbitrate, PopValue
  <2>2. CASE stopFlag[r] \/ ~Available
    BY <1>0, <1>10, <2>2 DEF SlotIsDeliverable, Available, RecvArbitrate, NotStarted, TypeOK, OpTypeOK
  <2> QED BY <2>1, <2>2
<1>11. CASE TryRecv
  BY <1>0, <1>11 DEF SlotIsDeliverable, Available, TryRecv, PopValue
<1>12. CASE Close
  BY <1>0, <1>12 DEF SlotIsDeliverable, Close, CloseOnce, CloseState
<1>13. CASE CloneSender
  BY <1>0, <1>13 DEF SlotIsDeliverable, CloneSender, TypeOK, ChanTypeOK, OpTypeOK, NotStarted
<1>14. CASE ReleaseSender
  BY <1>0, <1>14 DEF SlotIsDeliverable, ReleaseSender, CloseOnce, CloseState
<1>15. CASE CloseReceiver
  BY <1>0, <1>15 DEF SlotIsDeliverable, CloseReceiver, CloseOnce, CloseState
<1>16. CASE UNCHANGED vars
  BY <1>0, <1>16 DEF SlotIsDeliverable, vars
<1> QED
  BY <1>1, <1>2, <1>3, <1>4, <1>5, <1>6, <1>7, <1>8, <1>9, <1>10, <1>11, <1>12, <1>13, <1>14, <1>15, <1>16 DEF Next

(* The part of WaitersMeanFull that Linked does not already give. *)
FullWhileWaiting == waitList # <<>> => Bounded /\ ~closed /\ Len(buffer) = Capacity

(* A pop with senders parked is refilled: the buffer stays full.           *)
LEMMA PopKeepsFull ==
    ASSUME TypeOK, WaitersMeanFull, PopValue, closed' = closed
    PROVE  FullWhileWaiting'
<1>1. CASE waitList = <<>>
  BY <1>1 DEF PopValue, Refill, FullWhileWaiting
<1>2. CASE waitList # <<>> /\ buffer = <<>>
  BY <1>2 DEF PopValue, Refill, FullWhileWaiting, WaitersMeanFull
<1>3. CASE waitList # <<>> /\ buffer # <<>>
  <2>1. buffer \in Seq(Sends) /\ Head(waitList) \in Sends
    BY <1>3 DEF TypeOK, ChanTypeOK
  <2>2. Len(Append(Tail(buffer), Head(waitList))) = Len(buffer)
    BY <1>3, <2>1
  <2> QED BY <1>3, <2>2 DEF PopValue, Refill, FullWhileWaiting, WaitersMeanFull
<1> QED BY <1>1, <1>2, <1>3

(* Sends wait only while the channel is full. *)
LEMMA FullStep == IInv /\ [Next]_vars => FullWhileWaiting'
<1> SUFFICES ASSUME IInv, [Next]_vars PROVE FullWhileWaiting'
  OBVIOUS
<1> USE MpscAssumption DEF Ops, chanVars, handleVars, opVars, signalVars, valueVars
<1>0. TypeOK /\ NotStarted /\ Linked /\ Slotted /\ SlotIsDeliverable /\ WaitersMeanFull /\ ExactlyOnce
  BY DEF IInv
<1>1. ASSUME NEW o \in Ops, Start(o) PROVE FullWhileWaiting'
  BY <1>0, <1>1 DEF FullWhileWaiting, WaitersMeanFull, Start
<1>2. ASSUME NEW o \in Ops, RequestStop(o) PROVE FullWhileWaiting'
  BY <1>0, <1>2 DEF FullWhileWaiting, WaitersMeanFull, RequestStop
<1>3. ASSUME NEW o \in Ops, Complete(o) PROVE FullWhileWaiting'
  BY <1>0, <1>3 DEF FullWhileWaiting, WaitersMeanFull, Complete
<1>4. ASSUME NEW s \in Sends, SendArbitrate(s) PROVE FullWhileWaiting'
  <2>1. CASE waitList = <<>> /\ waitList' # <<>>
    BY <1>0, <1>4, <2>1 DEF IInv, WithinCapacity, FullWhileWaiting, WaitersMeanFull, SendArbitrate, HandToSlot, PushBack, HasRoom, TypeOK, ChanTypeOK
  <2>2. CASE waitList # <<>>
    BY <1>0, <1>4, <2>2 DEF FullWhileWaiting, WaitersMeanFull, SendArbitrate, HandToSlot, PushBack, HasRoom, SlotIsDeliverable, TypeOK, ChanTypeOK
  <2>3. CASE waitList' = <<>>
    BY <2>3 DEF FullWhileWaiting
  <2> QED BY <2>1, <2>2, <2>3
<1>5. ASSUME NEW s \in Sends, TrySend(s) PROVE FullWhileWaiting'
  <2>1. CASE waitList = <<>> /\ waitList' # <<>>
    BY <1>0, <1>5, <2>1 DEF FullWhileWaiting, WaitersMeanFull, TrySend, HandToSlot, PushBack, HasRoom, TypeOK, ChanTypeOK
  <2>2. CASE waitList # <<>>
    BY <1>0, <1>5, <2>2 DEF FullWhileWaiting, WaitersMeanFull, TrySend, HandToSlot, PushBack, HasRoom, SlotIsDeliverable, TypeOK, ChanTypeOK
  <2>3. CASE waitList' = <<>>
    BY <2>3 DEF FullWhileWaiting
  <2> QED BY <2>1, <2>2, <2>3
<1>6. ASSUME NEW s \in Sends, OnStopSend(s) PROVE FullWhileWaiting'
  <2>1. CASE stage[s] = "kQueued"
    <3>1. waitList # <<>>
      BY <1>0, <2>1 DEF Linked
    <3> QED BY <1>0, <1>6, <3>1 DEF FullWhileWaiting, WaitersMeanFull, OnStopSend
  <2>2. CASE stage[s] # "kQueued"
    BY <1>0, <1>6, <2>2 DEF FullWhileWaiting, WaitersMeanFull, OnStopSend
  <2> QED BY <2>1, <2>2
<1>7. ASSUME NEW s \in Sends, DestroySend(s) PROVE FullWhileWaiting'
  <2>1. CASE stage[s] = "kQueued"
    <3>1. waitList # <<>>
      BY <1>0, <2>1 DEF Linked
    <3> QED BY <1>0, <1>7, <3>1 DEF FullWhileWaiting, WaitersMeanFull, DestroySend
  <2>2. CASE stage[s] # "kQueued"
    BY <1>0, <1>7, <2>2 DEF FullWhileWaiting, WaitersMeanFull, DestroySend
  <2> QED BY <2>1, <2>2
<1>8. ASSUME NEW r \in Recvs, OnStopRecv(r) PROVE FullWhileWaiting'
  BY <1>0, <1>8 DEF FullWhileWaiting, WaitersMeanFull, OnStopRecv
<1>9. ASSUME NEW r \in Recvs, DestroyRecv(r) PROVE FullWhileWaiting'
  BY <1>0, <1>9 DEF FullWhileWaiting, WaitersMeanFull, DestroyRecv
<1>10. ASSUME NEW r \in Recvs, RecvArbitrate(r) PROVE FullWhileWaiting'
  <2>1. CASE PopValue
    BY <1>0, <1>10, <2>1, PopKeepsFull DEF RecvArbitrate
  <2>2. CASE waitList' = waitList /\ buffer' = buffer
    BY <1>0, <1>10, <2>2 DEF FullWhileWaiting, WaitersMeanFull, RecvArbitrate
  <2> QED BY <1>10, <2>1, <2>2 DEF RecvArbitrate
<1>11. CASE TryRecv
  <2>1. CASE PopValue
    BY <1>0, <1>11, <2>1, PopKeepsFull DEF TryRecv
  <2>2. CASE waitList' = waitList /\ buffer' = buffer
    BY <1>0, <1>11, <2>2 DEF FullWhileWaiting, WaitersMeanFull, TryRecv
  <2> QED BY <1>11, <2>1, <2>2 DEF TryRecv
<1>12. CASE Close
  BY <1>0, <1>12 DEF FullWhileWaiting, WaitersMeanFull, Close, CloseOnce, CloseState
<1>13. CASE CloneSender
  BY <1>0, <1>13 DEF FullWhileWaiting, WaitersMeanFull, CloneSender
<1>14. CASE ReleaseSender
  BY <1>0, <1>14 DEF FullWhileWaiting, WaitersMeanFull, ReleaseSender, CloseOnce, CloseState
<1>15. CASE CloseReceiver
  BY <1>0, <1>15 DEF FullWhileWaiting, WaitersMeanFull, CloseReceiver, CloseOnce, CloseState
<1>16. CASE UNCHANGED vars
  BY <1>0, <1>16 DEF FullWhileWaiting, WaitersMeanFull, vars
<1> QED
  BY <1>1, <1>2, <1>3, <1>4, <1>5, <1>6, <1>7, <1>8, <1>9, <1>10, <1>11, <1>12, <1>13, <1>14, <1>15, <1>16 DEF Next

(* The deque grows only when there is room. *)
LEMMA CapacityStep == IInv /\ [Next]_vars => WithinCapacity'
<1> SUFFICES ASSUME IInv, [Next]_vars, Bounded PROVE Len(buffer') <= Capacity
  BY DEF WithinCapacity
<1> USE MpscAssumption DEF Ops, chanVars, handleVars, opVars, signalVars, valueVars
<1>0. /\ Len(buffer) \in Nat /\ Len(buffer) <= Capacity /\ Capacity \in Nat
      /\ buffer \in Seq(Sends) /\ waitList \in Seq(Sends)
  BY DEF IInv, TypeOK, ChanTypeOK, WithinCapacity
<1>1. CASE buffer' = buffer
  BY <1>0, <1>1
<1>2. ASSUME NEW s \in Sends, SendArbitrate(s) PROVE Len(buffer') <= Capacity
  BY <1>0, <1>2 DEF SendArbitrate, HandToSlot, PushBack, HasRoom
<1>3. ASSUME PopValue PROVE Len(buffer') <= Capacity
  <2>1. CASE buffer = <<>>
    BY <1>0, <1>3, <2>1 DEF PopValue
  <2>2. CASE buffer # <<>> /\ ~Refill
    <3>1. Len(Tail(buffer)) = Len(buffer) - 1
      BY <1>0, <2>2
    <3> QED BY <1>0, <1>3, <2>2, <3>1 DEF PopValue
  <2>3. CASE buffer # <<>> /\ Refill
    <3>1. Head(waitList) \in Sends
      BY <1>0, <2>3 DEF Refill
    <3>2. Len(Append(Tail(buffer), Head(waitList))) = Len(buffer)
      BY <1>0, <2>3, <3>1
    <3> QED BY <1>0, <1>3, <2>3, <3>2 DEF PopValue
  <2> QED BY <2>1, <2>2, <2>3
<1>4. ASSUME NEW r \in Recvs, RecvArbitrate(r) PROVE PopValue \/ buffer' = buffer
  BY <1>4 DEF RecvArbitrate
<1>5. TryRecv => PopValue \/ buffer' = buffer
  BY DEF TryRecv
<1>6. Close \/ ReleaseSender \/ CloseReceiver => buffer' = buffer
  BY DEF Close, ReleaseSender, CloseReceiver, CloseOnce, CloseState
<1>7. ASSUME NEW s \in Sends PROVE OnStopSend(s) \/ DestroySend(s) => buffer' = buffer
  BY DEF OnStopSend, DestroySend
<1>8. ASSUME NEW r \in Recvs PROVE OnStopRecv(r) \/ DestroyRecv(r) => buffer' = buffer
  BY DEF OnStopRecv, DestroyRecv
<1>9. ASSUME NEW o \in Ops PROVE Start(o) \/ RequestStop(o) \/ Complete(o) => buffer' = buffer
  BY DEF Start, RequestStop, Complete
<1>10. ASSUME NEW s \in Sends PROVE ~TrySend(s)
  BY DEF TrySend
<1>11. CloneSender \/ UNCHANGED vars => buffer' = buffer
  BY DEF CloneSender, vars
<1> QED
  BY <1>1, <1>2, <1>3, <1>4, <1>5, <1>6, <1>7, <1>8, <1>9, <1>10, <1>11 DEF Next

-----------------------------------------------------------------------------

(* Every step of the channel keeps the invariant.                          *)
LEMMA InductiveStep == IInv /\ [Next]_vars => IInv'
<1> SUFFICES ASSUME IInv, [Next]_vars PROVE IInv'
  OBVIOUS
<1>1. TypeOK'
  BY ChanTypeStep, OpTypeStep, SignalTypeStep, ValueTypeStep DEF TypeOK
<1>2. WaitersMeanFull'
  BY LinkedStep, FullStep DEF Linked, FullWhileWaiting, WaitersMeanFull
<1> QED
  BY <1>1, <1>2, NotStartedStep, LinkedStep, SlottedStep, SlotStep, ExactlyOnceStep, CapacityStep DEF IInv

(* IInv is an invariant of the channel, for every instance. *)
LEMMA Invariance == Spec => []IInv
<1>1. Init => IInv
  BY InitIInv
<1>2. IInv /\ [Next]_vars => IInv'
  BY InductiveStep
<1> QED BY <1>1, <1>2, PTL DEF Spec

(* Type correctness of State, SendNode and RecvNode under all interleavings. *)
THEOREM TypeCorrect == Spec => []TypeOK
<1>1. IInv => TypeOK
  BY DEF IInv
<1> QED BY <1>1, Invariance, PTL

(* The stdexec receiver contract: claim, close, stop and destruction never *)
(* complete one operation state twice.                                     *)
THEOREM CompletesAtMostOnce == Spec => []ExactlyOnce
<1>1. IInv => ExactlyOnce
  BY DEF IInv
<1> QED BY <1>1, Invariance, PTL

(* The invariant stated in the comment on State::recv_slot. *)
THEOREM SlotAlwaysDeliverable == Spec => []SlotIsDeliverable
<1>1. IInv => SlotIsDeliverable
  BY DEF IInv
<1> QED BY <1>1, Invariance, PTL

(* Parked sends imply a full open channel: no wake-up is missed. *)
THEOREM NoMissedWakeup == Spec => []WaitersMeanFull
<1>1. IInv => WaitersMeanFull
  BY DEF IInv
<1> QED BY <1>1, Invariance, PTL

(* Nobody waits in vain on the channel: the receive parked in the slot can *)
(* be given the next value, and sends are parked only while the channel is *)
(* open and full.                                                          *)
THEOREM WaitsHaveReasons == Spec => []NobodyWaitsInVain
<1>1. SlotIsDeliverable /\ WaitersMeanFull => NobodyWaitsInVain
  BY DEF NobodyWaitsInVain
<1> QED BY <1>1, SlotAlwaysDeliverable, NoMissedWakeup, PTL

(* A send that arrives while others are parked is never accepted first. *)
THEOREM ParkedSendsGoFirst == Spec => NoOvertaking
<1> DEFINE A == waitList # <<>> /\ accepted' # accepted
                  => accepted' = Append(accepted, Head(waitList))
<1>1. IInv /\ [Next]_vars => [A]_vars
  <2> SUFFICES ASSUME IInv, Next, waitList # <<>>, accepted' # accepted
               PROVE  accepted' = Append(accepted, Head(waitList))
    OBVIOUS
  <2>1. recvSlot = None /\ ~HasRoom /\ Bounded /\ ~closed
    BY MpscAssumption DEF IInv, SlotIsDeliverable, WaitersMeanFull, HasRoom
  <2>2. PopValue => accepted' = Append(accepted, Head(waitList))
    BY DEF PopValue, Refill
  <2>3. ASSUME NEW s \in Sends, SendArbitrate(s) \/ TrySend(s) PROVE FALSE
    BY <2>1, <2>3 DEF SendArbitrate, TrySend, valueVars
  <2>4. ASSUME NEW r \in Recvs, RecvArbitrate(r) PROVE PopValue
    BY <2>4 DEF RecvArbitrate, valueVars
  <2>5. TryRecv => PopValue
    BY DEF TryRecv
  <2>6. PopValue
    BY <2>3, <2>4, <2>5 DEF Next, Start, RequestStop, Complete, OnStopSend, DestroySend,
       OnStopRecv, DestroyRecv, Close, CloneSender, ReleaseSender, CloseReceiver, valueVars
  <2> QED BY <2>2, <2>6
<1> HIDE DEF A
<1>2. [][A]_vars => NoOvertaking
  BY PTL DEF NoOvertaking, A
<1> QED BY <1>1, <1>2, Invariance, PTL DEF Spec

-----------------------------------------------------------------------------
(* Where the values are.  IInv says nothing of accepted, taken, held and   *)
(* polled; ValueInv does.                                                  *)

(* No completion signal is recorded before one was delivered. *)
Unfired == \A o \in Ops : fired[o] = 0 => result[o] = "none"

(* The channel accepts a value once. *)
Distinct == \A i, j \in 1..Len(accepted) : accepted[i] = accepted[j] => i = j

(* What a receive or a try_recv got has left the channel. *)
HandedOver ==
    /\ \A r \in Recvs : held[r] # None => held[r] \in SeqRange(taken)
    /\ \A v \in polled : v \in SeqRange(taken)

(* A receive holds a value exactly when that is what it is told. *)
Reports == \A r \in Recvs : (held[r] # None) <=> ("value" \in owed[r] \/ result[r] = "value")

(* What left the channel is with try_recv or with one receive. *)
Holders(v) == {r \in Recvs : held[r] = v}
OneHolder ==
    \A v \in SeqRange(taken) :
        \/ v \in polled /\ Holders(v) = {}
        \/ v \notin polled /\ \E r \in Recvs : Holders(v) = {r}

ValueInv == Unfired /\ Fifo /\ Distinct /\ VerdictIsTrue /\ HandedOver /\ Reports /\ OneHolder

(* What an operation was told, or is about to be told. *)
Told(o, x) == x \in owed[o] \/ result[o] = x

(* The steps by what they do to the values: nothing, a direct hand-over, a *)
(* push, a pop by a receive, a pop by try_recv.                            *)
Quiet ==
    /\ UNCHANGED <<buffer, valueVars>>
    /\ \A o \in Ops, x \in {"true", "value"} : Told(o, x)' <=> Told(o, x)
HandsOver(s) ==
    /\ HandToSlot(s) /\ OweTwo(recvSlot, "value", s, "true")
    /\ Silent(s) /\ recvSlot \in Recvs /\ Silent(recvSlot) /\ buffer = <<>>
Pushes(s) == PushBack(s) /\ Owe(s, "true") /\ Silent(s)
PopsFor(r) ==
    /\ Available /\ PopValue /\ Silent(r)
    /\ held' = [held EXCEPT ![r] = Popped] /\ UNCHANGED polled
    /\ IF Refill THEN OweTwo(Head(waitList), "true", r, "value") ELSE Owe(r, "value")

-----------------------------------------------------------------------------
(* Sequences and the sets of their elements. *)

(* The values of a sequence with one more.                                 *)
LEMMA RangeAppend ==
    ASSUME NEW q \in Seq(Sends), NEW x \in Sends
    PROVE  SeqRange(Append(q, x)) = SeqRange(q) \cup {x}
<1>1. Append(q, x) \in Seq(Sends) /\ Len(Append(q, x)) = Len(q) + 1 /\ Len(q) \in Nat
  OBVIOUS
<1>2. Append(q, x)[Len(q) + 1] = x /\ \A i \in 1..Len(q) : Append(q, x)[i] = q[i]
  OBVIOUS
<1>3. 1..(Len(q) + 1) = (1..Len(q)) \cup {Len(q) + 1}
  BY <1>1
<1> QED BY <1>1, <1>2, <1>3 DEF SeqRange

(* The values of two sequences, one behind the other.                      *)
LEMMA RangeConcat ==
    ASSUME NEW p \in Seq(Sends), NEW q \in Seq(Sends)
    PROVE  SeqRange(p \o q) = SeqRange(p) \cup SeqRange(q)
<1>1. /\ p \o q \in Seq(Sends) /\ Len(p \o q) = Len(p) + Len(q)
      /\ Len(p) \in Nat /\ Len(q) \in Nat
      /\ \A i \in 1..(Len(p) + Len(q)) :
            (p \o q)[i] = IF i <= Len(p) THEN p[i] ELSE q[i - Len(p)]
  OBVIOUS
<1>2. ASSUME NEW i \in 1..(Len(p) + Len(q)) PROVE (p \o q)[i] \in SeqRange(p) \cup SeqRange(q)
  BY <1>1 DEF SeqRange
<1>3. ASSUME NEW i \in 1..Len(p) PROVE p[i] \in SeqRange(p \o q)
  BY <1>1 DEF SeqRange
<1>4. ASSUME NEW i \in 1..Len(q) PROVE q[i] \in SeqRange(p \o q)
  <2>1. i + Len(p) \in 1..(Len(p) + Len(q)) /\ (p \o q)[i + Len(p)] = q[i]
    BY <1>1
  <2> QED BY <1>1, <2>1 DEF SeqRange
<1> QED BY <1>1, <1>2, <1>3, <1>4 DEF SeqRange

(* A value that is new keeps the accepted ones distinct. *)
LEMMA DistinctAppend ==
    ASSUME NEW q \in Seq(Sends), NEW x \in Sends, x \notin SeqRange(q),
           \A i, j \in 1..Len(q) : q[i] = q[j] => i = j
    PROVE  \A i, j \in 1..Len(Append(q, x)) : Append(q, x)[i] = Append(q, x)[j] => i = j
<1>1. Append(q, x) \in Seq(Sends) /\ Len(Append(q, x)) = Len(q) + 1 /\ Len(q) \in Nat
  OBVIOUS
<1>2. Append(q, x)[Len(q) + 1] = x /\ \A i \in 1..Len(q) : Append(q, x)[i] = q[i]
  OBVIOUS
<1>3. \A i \in 1..Len(q) : q[i] # x
  BY DEF SeqRange
<1> QED BY <1>1, <1>2, <1>3

(* The head of the buffer is not among the values that left before it. *)
LEMMA HeadIsNew ==
    ASSUME TypeOK, Fifo, Distinct, buffer # <<>>
    PROVE  Head(buffer) \notin SeqRange(taken)
<1>1. /\ taken \in Seq(Sends) /\ buffer \in Seq(Sends)
      /\ Len(taken) \in Nat /\ Len(buffer) \in Nat \ {0}
      /\ accepted = taken \o buffer /\ Len(accepted) = Len(taken) + Len(buffer)
  BY DEF TypeOK, ChanTypeOK, ValueTypeOK, Fifo
<1>2. accepted[Len(taken) + 1] = Head(buffer) /\ Len(taken) + 1 \in 1..Len(accepted)
  BY <1>1
<1>3. \A i \in 1..Len(taken) : accepted[i] = taken[i] /\ i \in 1..Len(accepted)
  BY <1>1
<1>4. \A i \in 1..Len(taken) : taken[i] # Head(buffer)
  <2> SUFFICES ASSUME NEW i \in 1..Len(taken), taken[i] = Head(buffer) PROVE FALSE
    OBVIOUS
  <2>1. accepted[i] = accepted[Len(taken) + 1] /\ i \in 1..Len(accepted)
    BY <1>2, <1>3
  <2>2. i = Len(taken) + 1
    BY <1>2, <2>1 DEF Distinct
  <2> QED BY <1>1, <2>2
<1> QED BY <1>4 DEF SeqRange

(* Moving the first of the buffer behind what was taken changes nothing    *)
(* of the two together.                                                    *)
LEMMA MoveHead ==
    ASSUME NEW t \in Seq(Sends), NEW b \in Seq(Sends), b # <<>>
    PROVE  Append(t, Head(b)) \o Tail(b) = t \o b
<1>1. /\ Head(b) \in Sends /\ Tail(b) \in Seq(Sends)
      /\ Append(t, Head(b)) \in Seq(Sends) /\ t \o b \in Seq(Sends)
      /\ Append(t, Head(b)) \o Tail(b) \in Seq(Sends)
      /\ Len(t) \in Nat /\ Len(b) \in Nat \ {0} /\ Len(Tail(b)) = Len(b) - 1
      /\ \A i \in 1..Len(Tail(b)) : Tail(b)[i] = b[i + 1]
  OBVIOUS
<1>2. Len(Append(t, Head(b)) \o Tail(b)) = Len(t \o b) /\ Len(t \o b) = Len(t) + Len(b)
  BY <1>1
<1>3. ASSUME NEW i \in 1..(Len(t) + Len(b))
      PROVE  (Append(t, Head(b)) \o Tail(b))[i] = (t \o b)[i]
  <2>1. CASE i <= Len(t) + 1
    BY <1>1, <2>1
  <2>2. CASE i > Len(t) + 1
    BY <1>1, <2>2
  <2> QED BY <2>1, <2>2, <1>1
<1> QED BY <1>1, <1>2, <1>3, SeqEqual

(* A value accepted behind the buffer is behind the two together.          *)
LEMMA AppendConcat ==
    ASSUME NEW t \in Seq(Sends), NEW b \in Seq(Sends), NEW x \in Sends
    PROVE  Append(t \o b, x) = t \o Append(b, x) /\ t \o <<>> = t
  OBVIOUS

-----------------------------------------------------------------------------
(* Facts of a state. *)

(* An operation that was told nothing was not told "none" either. *)
LEMMA SilentIsUntold ==
    ASSUME ValueInv, NEW o \in Ops, Silent(o)
    PROVE  result[o] = "none" /\ ~Told(o, "true") /\ ~Told(o, "value")
  BY DEF ValueInv, Unfired, Silent, Told

(* A send that was told nothing has its value, a receive holds none. *)
LEMMA SilentSend ==
    ASSUME ValueInv, NEW s \in Sends, Silent(s)
    PROVE  s \notin SeqRange(accepted)
  BY SilentIsUntold DEF ValueInv, VerdictIsTrue, Told, Ops

(* A receive that was told nothing holds nothing.                          *)
LEMMA SilentRecv ==
    ASSUME ValueInv, NEW r \in Recvs, Silent(r)
    PROVE  held[r] = None
  BY SilentIsUntold DEF ValueInv, Reports, Told, Ops

(* What was taken had been accepted.                                       *)
LEMMA TakenIsAccepted ==
    ASSUME TypeOK, Fifo
    PROVE  SeqRange(taken) \subseteq SeqRange(accepted)
  BY RangeConcat DEF TypeOK, ChanTypeOK, ValueTypeOK, Fifo

(* An operation that is parked, or is not started, was told nothing.       *)
LEMMA QueuedIsSilent ==
    ASSUME IInv, NEW o \in Ops, stage[o] = "kQueued" \/ phase[o] # "started"
    PROVE  Silent(o)
  BY DEF IInv, ExactlyOnce, NotStarted, Silent

-----------------------------------------------------------------------------
(* A value changes hands. *)

(* A value that is given to one receive, and was nobody's, is that         *)
(* receive's alone.                                                        *)
LEMMA GivenToRecv ==
    ASSUME TypeOK, HandedOver, OneHolder, NEW r \in Recvs, held[r] = None,
           NEW v \in Sends, v \notin SeqRange(taken),
           SeqRange(taken)' = SeqRange(taken) \cup {v},
           held' = [held EXCEPT ![r] = v], polled' = polled
    PROVE  HandedOver' /\ OneHolder'
<1> USE MpscAssumption DEF TypeOK, ValueTypeOK
<1>1. /\ \A q \in Recvs : held'[q] = IF q = r THEN v ELSE held[q]
      /\ \A q \in Recvs : held[q] # v
      /\ v \notin polled /\ v # None
  BY DEF HandedOver
<1>2. HandedOver'
  BY <1>1 DEF HandedOver
<1>3. Holders(v)' = {r}
  BY <1>1 DEF Holders
<1>4. ASSUME NEW w \in SeqRange(taken) PROVE Holders(w)' = Holders(w)
  <2>1. w # v
    OBVIOUS
  <2>2. w \in Sends
    BY DEF SeqRange
  <2> QED BY <1>1, <2>1, <2>2 DEF Holders
<1>5. OneHolder'
  BY <1>1, <1>3, <1>4 DEF OneHolder
<1> QED BY <1>2, <1>5

(* A value that is given to try_recv(), and was nobody's, is no            *)
(* receive's.                                                              *)
LEMMA GivenToPoll ==
    ASSUME TypeOK, HandedOver, OneHolder, NEW v \in Sends, v \notin SeqRange(taken),
           SeqRange(taken)' = SeqRange(taken) \cup {v},
           held' = held, polled' = polled \cup {v}
    PROVE  HandedOver' /\ OneHolder'
<1> USE MpscAssumption DEF TypeOK, ValueTypeOK
<1>1. HandedOver'
  BY DEF HandedOver
<1>2. Holders(v)' = {}
  BY DEF HandedOver, Holders
<1>3. \A w : Holders(w)' = Holders(w)
  BY DEF Holders
<1>4. OneHolder'
  BY <1>2, <1>3 DEF OneHolder
<1> QED BY <1>1, <1>4

(* Taking a value, with the refill of the freed slot. *)
LEMMA PopKeeps ==
    ASSUME IInv, ValueInv, Available, PopValue
    PROVE  /\ Fifo' /\ Distinct'
           /\ Popped \in Sends /\ Popped \notin SeqRange(taken)
           /\ SeqRange(taken)' = SeqRange(taken) \cup {Popped}
           /\ SeqRange(accepted)' =
                 SeqRange(accepted) \cup (IF Refill THEN {Head(waitList)} ELSE {})
<1>1. /\ TypeOK /\ Fifo /\ Distinct /\ taken \in Seq(Sends) /\ accepted \in Seq(Sends)
      /\ buffer \in Seq(Sends)
  BY DEF IInv, ValueInv, TypeOK, ChanTypeOK, ValueTypeOK
<1>2. Popped \in Sends /\ (Refill => Head(waitList) \in Sends)
  BY <1>1, PopFacts
<1>3. SeqRange(taken)' = SeqRange(taken) \cup {Popped}
  BY <1>1, <1>2, RangeAppend, SMTT(30) DEF PopValue, SeqRange
<1>4. ASSUME Refill PROVE Head(waitList) \notin SeqRange(accepted)
  <2>1. Head(waitList) \in Sends /\ Silent(Head(waitList))
    BY <1>4, HeadIsQueued, QueuedIsSilent DEF Ops
  <2> QED BY <2>1, SilentSend
<1>5. SeqRange(accepted)' = SeqRange(accepted) \cup (IF Refill THEN {Head(waitList)} ELSE {})
  <2>1. CASE Refill
    <3>1. accepted' = Append(accepted, Head(waitList))
      BY <2>1 DEF PopValue
    <3>2. SeqRange(accepted') = SeqRange(accepted) \cup {Head(waitList)}
      BY <1>1, <1>2, <2>1, <3>1, RangeAppend
    <3> QED BY <2>1, <3>2 DEF SeqRange
  <2>2. CASE ~Refill
    BY <2>2 DEF PopValue, SeqRange
  <2> QED BY <2>1, <2>2
<1>6. Popped \notin SeqRange(taken)
  <2>1. CASE buffer # <<>>
    BY <1>1, <2>1, HeadIsNew DEF Popped
  <2>2. CASE buffer = <<>>
    BY <1>1, <1>4, <2>2, TakenIsAccepted DEF Popped, Available, Refill
  <2> QED BY <2>1, <2>2
<1>7. Distinct'
  <2>1. CASE Refill
    BY <1>1, <1>2, <1>4, <2>1, DistinctAppend DEF PopValue, Distinct
  <2>2. CASE ~Refill
    BY <1>1, <2>2 DEF PopValue, Distinct
  <2> QED BY <2>1, <2>2
<1>8. Fifo'
  <2>1. CASE buffer = <<>>
    <3>1. Refill /\ Popped = Head(waitList) /\ buffer' = <<>>
      BY <2>1 DEF Available, Refill, Popped, PopValue
    <3>2. accepted = taken
      BY <1>1, <2>1, AppendConcat DEF Fifo
    <3>3. accepted' = Append(taken, Popped) /\ taken' = Append(taken, Popped)
      BY <3>1, <3>2 DEF PopValue
    <3>4. taken' \in Seq(Sends)
      BY <1>1, <1>2, <3>3, AppendType
    <3> QED BY <3>1, <3>3, <3>4, ConcatEmptySeq DEF Fifo
  <2>2. CASE buffer # <<>> /\ ~Refill
    <3>1. /\ buffer' = Tail(buffer) /\ accepted' = accepted
          /\ taken' = Append(taken, Head(buffer))
      BY <2>2 DEF PopValue, Popped
    <3> QED BY <1>1, <2>2, <3>1, MoveHead DEF Fifo
  <2>3. CASE buffer # <<>> /\ Refill
    <3> DEFINE h == Head(waitList)
               t == Append(taken, Head(buffer))
    <3>1. buffer' = Append(Tail(buffer), h) /\ accepted' = Append(accepted, h) /\ taken' = t
      BY <2>3 DEF PopValue, Popped
    <3>2. t \in Seq(Sends) /\ Tail(buffer) \in Seq(Sends) /\ h \in Sends
      BY <1>1, <1>2, <2>3, AppendType, TailType
    <3>3. t \o Tail(buffer) = taken \o buffer
      BY <1>1, <2>3, MoveHead
    <3> HIDE DEF h, t
    <3>4. t \o Append(Tail(buffer), h) = Append(t \o Tail(buffer), h)
      BY <3>2, AppendConcat
    <3> QED BY <1>1, <3>1, <3>3, <3>4 DEF Fifo
  <2> QED BY <2>1, <2>2, <2>3
<1> QED BY <1>2, <1>3, <1>5, <1>6, <1>7, <1>8

-----------------------------------------------------------------------------
(* Each kind of step keeps ValueInv but for Unfired, which is a matter of  *)
(* the completions alone.                                                  *)
Accounted == Fifo /\ Distinct /\ VerdictIsTrue /\ HandedOver /\ Reports /\ OneHolder

(* A step that leaves the values where they are keeps the accounts.        *)
LEMMA QuietKeeps ==
    ASSUME IInv, ValueInv, Quiet
    PROVE  Accounted'
<1> USE DEF ValueInv, Quiet, valueVars
<1>1. Fifo' /\ Distinct'
  BY DEF Fifo, Distinct
<1>2. VerdictIsTrue'
  BY DEF VerdictIsTrue, Told, SeqRange, Ops
<1>3. Reports'
  BY DEF Reports, Told, Ops
<1>4. HandedOver' /\ OneHolder'
  BY DEF HandedOver, OneHolder, Holders, SeqRange
<1> QED BY <1>1, <1>2, <1>3, <1>4 DEF Accounted

(* A send that meets a parked receive keeps the accounts.                  *)
LEMMA HandsOverKeeps ==
    ASSUME IInv, ValueInv, NEW s \in Sends, HandsOver(s)
    PROVE  Accounted'
<1>1. /\ TypeOK /\ Fifo /\ Distinct /\ taken \in Seq(Sends) /\ accepted \in Seq(Sends)
      /\ s \notin SeqRange(accepted) /\ held[recvSlot] = None /\ recvSlot \in Recvs
      /\ HandedOver /\ OneHolder
  BY SilentSend, SilentRecv DEF IInv, ValueInv, TypeOK, ValueTypeOK, HandsOver, Ops
<1>2. /\ accepted' = Append(accepted, s) /\ taken' = Append(taken, s) /\ polled' = polled
      /\ held' = [held EXCEPT ![recvSlot] = s] /\ buffer = <<>> /\ buffer' = <<>>
  BY DEF HandsOver, HandToSlot
<1>3. accepted = taken
  BY <1>1, <1>2, AppendConcat DEF Fifo
<1>4. Fifo'
  <2>1. taken' \in Seq(Sends)
    BY <1>1, <1>2, AppendType
  <2> QED BY <1>2, <1>3, <2>1, ConcatEmptySeq DEF Fifo
<1>5. Distinct'
  BY <1>1, <1>2, DistinctAppend DEF Distinct
<1>6. /\ SeqRange(accepted)' = SeqRange(accepted) \cup {s}
      /\ SeqRange(taken)' = SeqRange(taken) \cup {s}
  <2>1. /\ SeqRange(Append(accepted, s)) = SeqRange(accepted) \cup {s}
        /\ SeqRange(Append(taken, s)) = SeqRange(taken) \cup {s}
    BY <1>1, RangeAppend
  <2> QED BY <1>2, <2>1 DEF SeqRange
<1>7. HandedOver' /\ OneHolder'
  BY <1>1, <1>2, <1>3, <1>6, GivenToRecv
<1>8. /\ owed' = [owed EXCEPT ![recvSlot] = @ \cup {"value"}, ![s] = @ \cup {"true"}]
      /\ result' = result
  BY DEF HandsOver, OweTwo
<1> USE MpscAssumption DEF IInv, TypeOK, SignalTypeOK, Ops
<1>9. VerdictIsTrue'
  BY <1>1, <1>6, <1>8 DEF VerdictIsTrue, ValueInv
<1>10. Reports'
  BY <1>1, <1>2, <1>8 DEF Reports, ValueInv, ValueTypeOK
<1> QED BY <1>4, <1>5, <1>7, <1>9, <1>10 DEF Accounted

(* A value that is accepted into the buffer keeps the accounts.            *)
LEMMA PushesKeeps ==
    ASSUME IInv, ValueInv, NEW s \in Sends, Pushes(s)
    PROVE  Accounted'
<1>1. /\ TypeOK /\ Fifo /\ Distinct /\ taken \in Seq(Sends) /\ accepted \in Seq(Sends)
      /\ buffer \in Seq(Sends) /\ s \notin SeqRange(accepted)
  BY SilentSend DEF IInv, ValueInv, TypeOK, ChanTypeOK, ValueTypeOK, Pushes, Ops
<1>2. /\ accepted' = Append(accepted, s) /\ taken' = taken /\ polled' = polled /\ held' = held
      /\ buffer' = Append(buffer, s)
      /\ owed' = [owed EXCEPT ![s] = @ \cup {"true"}] /\ result' = result
  BY DEF Pushes, PushBack, Owe
<1>3. Fifo'
  BY <1>1, <1>2, AppendConcat, ZenonT(30) DEF Fifo
<1>4. Distinct'
  BY <1>1, <1>2, DistinctAppend DEF Distinct
<1>5. SeqRange(accepted)' = SeqRange(accepted) \cup {s}
  BY <1>1, <1>2, RangeAppend DEF SeqRange
<1>6. HandedOver' /\ OneHolder'
  BY <1>2, SMTT(30) DEF ValueInv, HandedOver, OneHolder, Holders, SeqRange
<1> USE MpscAssumption DEF IInv, TypeOK, SignalTypeOK, Ops
<1>7. VerdictIsTrue'
  BY <1>1, <1>2, <1>5 DEF VerdictIsTrue, ValueInv
<1>8. Reports'
  BY <1>1, <1>2 DEF Reports, ValueInv
<1> QED BY <1>3, <1>4, <1>6, <1>7, <1>8 DEF Accounted

(* A value that leaves the buffer for a receive keeps the accounts.        *)
LEMMA PopsForKeeps ==
    ASSUME IInv, ValueInv, NEW r \in Recvs, PopsFor(r)
    PROVE  Accounted'
<1>1. /\ TypeOK /\ HandedOver /\ OneHolder /\ held[r] = None
      /\ Refill => Head(waitList) \in Sends
  BY SilentRecv, PopFacts DEF IInv, ValueInv, PopsFor, Ops
<1>2. /\ Fifo' /\ Distinct'
      /\ Popped \in Sends /\ Popped \notin SeqRange(taken)
      /\ SeqRange(taken)' = SeqRange(taken) \cup {Popped}
      /\ SeqRange(accepted)' = SeqRange(accepted) \cup (IF Refill THEN {Head(waitList)} ELSE {})
  BY PopKeeps DEF PopsFor
<1>3. held' = [held EXCEPT ![r] = Popped] /\ polled' = polled
  BY DEF PopsFor
<1>4. HandedOver' /\ OneHolder'
  BY <1>1, <1>2, <1>3, GivenToRecv
<1>5. /\ result' = result
      /\ Refill => owed' = [owed EXCEPT ![Head(waitList)] = @ \cup {"true"}, ![r] = @ \cup {"value"}]
      /\ ~Refill => owed' = [owed EXCEPT ![r] = @ \cup {"value"}]
  BY DEF PopsFor, Owe, OweTwo
<1> USE MpscAssumption DEF IInv, TypeOK, SignalTypeOK, Ops
<1>6. VerdictIsTrue'
  <2>1. CASE Refill
    BY <1>1, <1>2, <1>5, <2>1 DEF VerdictIsTrue, ValueInv
  <2>2. CASE ~Refill
    BY <1>2, <1>5, <2>2 DEF VerdictIsTrue, ValueInv
  <2> QED BY <2>1, <2>2
<1>7. Reports'
  <2>1. CASE Refill
    <3> SUFFICES ASSUME NEW q \in Recvs
                 PROVE  (held'[q] # None) <=> ("value" \in owed'[q] \/ result'[q] = "value")
      BY DEF Reports
    <3>1. Head(waitList) # q
      BY <1>1, <2>1
    <3>2. CASE q = r
      BY <1>2, <1>3, <1>5, <2>1, <3>1, <3>2 DEF ValueTypeOK
    <3>3. CASE q # r
      <4>1. held'[q] = held[q] /\ owed'[q] = owed[q] /\ result'[q] = result[q]
        BY <1>3, <1>5, <2>1, <3>1, <3>3 DEF ValueTypeOK
      <4> QED BY <4>1 DEF ValueInv, Reports
    <3> QED BY <3>2, <3>3
  <2>2. CASE ~Refill
    BY <1>2, <1>3, <1>5, <2>2 DEF Reports, ValueInv, ValueTypeOK
  <2> QED BY <2>1, <2>2
<1> QED BY <1>2, <1>4, <1>6, <1>7 DEF Accounted

(* try_recv() keeps the accounts, with a value and without.                *)
LEMMA TryRecvKeeps ==
    ASSUME IInv, ValueInv, TryRecv
    PROVE  Accounted'
<1>1. /\ TypeOK /\ HandedOver /\ OneHolder
      /\ Refill => Head(waitList) \in Sends
  BY PopFacts DEF IInv, ValueInv
<1>2. /\ Fifo' /\ Distinct'
      /\ Popped \in Sends /\ Popped \notin SeqRange(taken)
      /\ SeqRange(taken)' = SeqRange(taken) \cup {Popped}
      /\ SeqRange(accepted)' = SeqRange(accepted) \cup (IF Refill THEN {Head(waitList)} ELSE {})
  BY PopKeeps DEF TryRecv
<1>3. held' = held /\ polled' = polled \cup {Popped}
  BY DEF TryRecv
<1>4. HandedOver' /\ OneHolder'
  BY <1>1, <1>2, <1>3, GivenToPoll
<1>5. /\ result' = result
      /\ Refill => owed' = [owed EXCEPT ![Head(waitList)] = @ \cup {"true"}]
      /\ ~Refill => owed' = owed
  BY DEF TryRecv, Owe, signalVars
<1> USE MpscAssumption DEF IInv, TypeOK, SignalTypeOK, Ops
<1>6. VerdictIsTrue'
  <2>1. CASE Refill
    BY <1>1, <1>2, <1>5, <2>1 DEF VerdictIsTrue, ValueInv
  <2>2. CASE ~Refill
    BY <1>2, <1>5, <2>2 DEF VerdictIsTrue, ValueInv
  <2> QED BY <2>1, <2>2
<1>7. Reports'
  BY <1>1, <1>3, <1>5 DEF Reports, ValueInv
<1> QED BY <1>2, <1>4, <1>6, <1>7 DEF Accounted

-----------------------------------------------------------------------------
(* Which step is of which kind. *)

(* A signal other than "true" and "value" says nothing of a value. *)
LEMMA OweQuietly ==
    ASSUME SignalTypeOK, NEW o \in Ops, NEW x, x \notin {"true", "value"}, Owe(o, x),
           UNCHANGED <<buffer, valueVars>>
    PROVE  Quiet
  BY DEF SignalTypeOK, Owe, Quiet, Told

(* A step that moves no value and tells nobody anything is quiet.          *)
LEMMA SilentlyQuiet ==
    ASSUME UNCHANGED <<buffer, valueVars>>, UNCHANGED <<owed, result>>
    PROVE  Quiet
  BY DEF Quiet, Told

(* close() moves no value.                                                 *)
LEMMA CloseQuietly ==
    ASSUME SignalTypeOK, CloseState, UNCHANGED valueVars
    PROVE  Quiet
  BY DEF SignalTypeOK, CloseState, OweClosed, Quiet, Told

(* A completion delivers the one signal that is owed. *)
LEMMA CompleteQuietly ==
    ASSUME IInv, ValueInv, NEW o \in Ops, Complete(o)
    PROVE  Quiet
<1> USE DEF IInv, TypeOK, SignalTypeOK
<1>1. PICK sig \in owed[o] : /\ owed' = [owed EXCEPT ![o] = @ \ {sig}]
                             /\ result' = [result EXCEPT ![o] = sig]
  BY DEF Complete
<1>2. owed[o] = {sig} /\ result[o] = "none"
  <2>1. fired[o] = 0 /\ \A x \in owed[o] : x = sig
    BY <1>1 DEF ExactlyOnce
  <2> QED BY <1>1, <2>1 DEF ValueInv, Unfired
<1>3. owed'[o] = {} /\ result'[o] = sig
  BY <1>1, <1>2
<1>4. \A q \in Ops : q # o => owed'[q] = owed[q] /\ result'[q] = result[q]
  BY <1>1
<1>5. UNCHANGED <<buffer, valueVars>>
  BY DEF Complete, chanVars
<1> QED BY <1>2, <1>3, <1>4, <1>5 DEF Quiet, Told

(* Every step of the channel is one of five things to the values.          *)
LEMMA StepKinds ==
    ASSUME IInv, ValueInv, [Next]_vars
    PROVE  \/ Quiet \/ TryRecv
           \/ \E s \in Sends : HandsOver(s) \/ Pushes(s)
           \/ \E r \in Recvs : PopsFor(r)
<1> DEFINE Goal == \/ Quiet \/ TryRecv
                   \/ \E s \in Sends : HandsOver(s) \/ Pushes(s)
                   \/ \E r \in Recvs : PopsFor(r)
<1> USE MpscAssumption DEF Ops, chanVars, signalVars
<1>0. TypeOK /\ SignalTypeOK
  BY DEF IInv, TypeOK
<1>1. ASSUME NEW o \in Ops, Start(o) \/ RequestStop(o) PROVE Quiet
  BY <1>1, SilentlyQuiet DEF Start, RequestStop
<1>2. ASSUME NEW o \in Ops, Complete(o) PROVE Quiet
  BY <1>2, CompleteQuietly
<1>3. recvSlot # None => /\ recvSlot \in Recvs /\ Silent(recvSlot) /\ buffer = <<>>
  BY <1>0, QueuedIsSilent DEF IInv, SlotIsDeliverable, TypeOK, ChanTypeOK
<1>4. ASSUME NEW s \in Sends, SendArbitrate(s) PROVE Goal
  <2>1. Silent(s)
    BY <1>4, QueuedIsSilent DEF SendArbitrate
  <2>2. CASE stopFlag[s] \/ closed
    BY <1>0, <1>4, <2>2, OweQuietly DEF SendArbitrate
  <2>3. CASE ~stopFlag[s] /\ ~closed /\ recvSlot # None
    BY <1>3, <1>4, <2>1, <2>3 DEF SendArbitrate, HandsOver
  <2>4. CASE ~stopFlag[s] /\ ~closed /\ recvSlot = None /\ HasRoom
    BY <1>4, <2>1, <2>4 DEF SendArbitrate, Pushes
  <2>5. CASE ~stopFlag[s] /\ ~closed /\ recvSlot = None /\ ~HasRoom
    BY <1>4, <2>5, SilentlyQuiet DEF SendArbitrate
  <2> QED BY <2>2, <2>3, <2>4, <2>5
<1>5. ASSUME NEW s \in Sends, TrySend(s) PROVE Goal
  <2>1. Silent(s)
    BY <1>5, QueuedIsSilent DEF TrySend
  <2>2. CASE closed
    BY <1>0, <1>5, <2>2, OweQuietly DEF TrySend
  <2>3. CASE ~closed /\ recvSlot # None
    BY <1>3, <1>5, <2>1, <2>3 DEF TrySend, HandsOver
  <2>4. CASE ~closed /\ recvSlot = None
    BY <1>5, <2>1, <2>4 DEF TrySend, Pushes
  <2> QED BY <2>2, <2>3, <2>4
<1>6. ASSUME NEW s \in Sends, OnStopSend(s) PROVE Quiet
  BY <1>0, <1>6, OweQuietly, SilentlyQuiet DEF OnStopSend
<1>7. ASSUME NEW r \in Recvs, OnStopRecv(r) PROVE Quiet
  BY <1>0, <1>7, OweQuietly, SilentlyQuiet DEF OnStopRecv
<1>8. ASSUME NEW s \in Sends, DestroySend(s) PROVE Quiet
  BY <1>8, SilentlyQuiet DEF DestroySend
<1>9. ASSUME NEW r \in Recvs, DestroyRecv(r) PROVE Quiet
  BY <1>9, SilentlyQuiet DEF DestroyRecv
<1>10. ASSUME NEW r \in Recvs, RecvArbitrate(r) PROVE Goal
  <2>1. Silent(r)
    BY <1>10, QueuedIsSilent DEF RecvArbitrate
  <2>2. CASE stopFlag[r] \/ (~Available /\ (closed \/ recvSlot # None))
    BY <1>0, <1>10, <2>2, OweQuietly DEF RecvArbitrate
  <2>3. CASE ~stopFlag[r] /\ Available
    BY <1>10, <2>1, <2>3 DEF RecvArbitrate, PopsFor
  <2>4. CASE ~stopFlag[r] /\ ~Available /\ ~closed /\ recvSlot = None
    BY <1>10, <2>4, SilentlyQuiet DEF RecvArbitrate
  <2> QED BY <2>2, <2>3, <2>4
<1>11. CASE Close
  BY <1>0, <1>11, CloseQuietly DEF Close
<1>12. CASE CloneSender
  BY <1>12, SilentlyQuiet DEF CloneSender
<1>13. CASE ReleaseSender
  BY <1>0, <1>13, CloseQuietly, SilentlyQuiet DEF ReleaseSender, CloseOnce
<1>14. CASE CloseReceiver
  BY <1>0, <1>14, CloseQuietly, SilentlyQuiet DEF CloseReceiver, CloseOnce
<1>15. CASE UNCHANGED vars
  BY <1>15, SilentlyQuiet DEF vars
<1> QED
  BY <1>1, <1>2, <1>4, <1>5, <1>6, <1>7, <1>8, <1>9, <1>10, <1>11, <1>12, <1>13, <1>14, <1>15
  DEF Next

(* Only Complete touches the results and the counts of signals. *)
LEMMA UnfiredStep == IInv /\ Unfired /\ [Next]_vars => Unfired'
<1> SUFFICES ASSUME IInv, Unfired, [Next]_vars PROVE Unfired'
  OBVIOUS
<1>1. ASSUME NEW o \in Ops, Complete(o) PROVE Unfired'
  BY <1>1 DEF Complete, Unfired, IInv, TypeOK, SignalTypeOK
<1>2. CASE UNCHANGED <<fired, result>>
  BY <1>2 DEF Unfired
<1>3. UNCHANGED <<fired, result>> \/ \E o \in Ops : Complete(o)
  BY DEF Next, vars, signalVars, Owe, OweTwo, Start, RequestStop, SendArbitrate, TrySend,
     OnStopSend, DestroySend, RecvArbitrate, OnStopRecv, DestroyRecv, TryRecv, Close,
     CloneSender, ReleaseSender, CloseReceiver, CloseOnce, CloseState
<1> QED BY <1>1, <1>2, <1>3

(* Every step of the channel keeps the accounts.                           *)
LEMMA ValueStep == IInv /\ ValueInv /\ [Next]_vars => ValueInv'
<1> SUFFICES ASSUME IInv, ValueInv, [Next]_vars PROVE ValueInv'
  OBVIOUS
<1>1. Unfired'
  BY UnfiredStep DEF ValueInv
<1>2. Accounted'
  BY StepKinds, QuietKeeps, HandsOverKeeps, PushesKeeps, PopsForKeeps, TryRecvKeeps
<1> QED BY <1>1, <1>2 DEF ValueInv, Accounted

(* The accounts of a new channel are empty.                                *)
LEMMA ValueInit == Init => ValueInv
<1> SUFFICES ASSUME Init PROVE ValueInv
  OBVIOUS
<1>1. accepted = <<>> /\ taken = <<>> /\ buffer = <<>> /\ polled = {} /\ Len(<<>>) = 0
  BY DEF Init
<1>2. SeqRange(accepted) = {} /\ SeqRange(taken) = {} /\ accepted = taken \o buffer
  BY <1>1 DEF SeqRange
<1>3. \A o \in Ops : owed[o] = {} /\ result[o] = "none" /\ ~("true" \in owed[o])
  BY DEF Init
<1>4. \A r \in Recvs : held[r] = None
  BY DEF Init
<1> QED BY <1>1, <1>2, <1>3, <1>4 DEF ValueInv, Unfired, Fifo, Distinct, VerdictIsTrue, HandedOver,
           Reports, OneHolder, Ops

(* Counting holders: one singleton or none. *)
LEMMA HoldersCounted ==
    ASSUME ValueInv
    PROVE  NoValueLost
<1>1. ASSUME NEW v \in SeqRange(taken)
      PROVE  Cardinality({r \in Recvs : held[r] = v}) + (IF v \in polled THEN 1 ELSE 0) = 1
  <2>1. CASE v \in polled /\ Holders(v) = {}
    <3>1. Cardinality(Holders(v)) = 0
      BY <2>1, FS_EmptySet
    <3> QED BY <2>1, <3>1 DEF Holders
  <2>2. CASE v \notin polled /\ \E r \in Recvs : Holders(v) = {r}
    <3>1. Cardinality(Holders(v)) = 1
      BY <2>2, FS_Singleton
    <3> QED BY <2>2, <3>1 DEF Holders
  <2> QED BY <2>1, <2>2 DEF ValueInv, OneHolder
<1> QED BY <1>1 DEF NoValueLost, ValueInv, Reports

(* What State accepted leaves in order, once, with the receive or the poll *)
(* that reports it, and a send is told true exactly when it was accepted:  *)
(* try_send, SendOpState::start, RecvOpState::start, try_recv and the      *)
(* refill of a freed slot lose, duplicate or reorder no value.             *)
THEOREM NoValueAstray == Spec => []ValuesAccounted
<1>1. Init => IInv /\ ValueInv
  BY InitIInv, ValueInit
<1>2. (IInv /\ ValueInv) /\ [Next]_vars => (IInv /\ ValueInv)'
  BY InductiveStep, ValueStep
<1>3. ValueInv => ValuesAccounted
  BY HoldersCounted DEF ValuesAccounted, ValueInv
<1> QED BY <1>1, <1>2, <1>3, PTL DEF Spec
=============================================================================

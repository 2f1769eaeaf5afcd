------------------------------ MODULE MCAsync -------------------------------
(***************************************************************************)
(* TLC instances of the asynchronous primitives: the channels, the adaptor *)
(* of handler-style work to a sender, and the stream combinators.  The     *)
(* components of this layer are checked together, in one run; `subject'    *)
(* names the one that a behaviour is about, the others do not move.  The   *)
(* one-shot channel and the combinators share the variables q1 .. q12.     *)
(***************************************************************************)
EXTENDS MpscChannel, TLC

CONSTANTS Subjects,     \* the components the run is about
          Handles,      \* receiver handles of the watch and broadcast channels
          Values,
          MaxItems      \* items of a merged stream

VARIABLES subject,
    parked, pStage, pPhase, pCallback, pStopFlag, pOwed, pFired, pResult,
    version, wClosed, wLive, seen,
    bBuffer, baseSeq, bClosed, bSenders, bLive, cursor, sent, joined, got, missed,
    pc, work, term, stopper, cCallback, dtor, settled, cParked, orphan, refs, aborted, signals,
    fault, raced,
    q1, q2, q3, q4, q5, q6, q7, q8, q9, q10, q11, q12

\* The unbounded channel, over the same variables as the bounded one.
Unbounded == INSTANCE MpscChannel WITH Bounded <- FALSE

\* The receiver handle that channel() returns.
First == CHOOSE h \in Handles : TRUE

\* Receivers that keep the contract of one outstanding pull, and one that
\* does not.
Watch == INSTANCE WatchChannel WITH stage <- pStage, phase <- pPhase, callback <- pCallback,
    stopFlag <- pStopFlag, owed <- pOwed, fired <- pFired, result <- pResult,
    closed <- wClosed, live <- wLive, Receivers <- Handles, MaxPulls <- 1, MaxVersion <- 3,
    Concurrent <- FALSE
WatchOverlap == INSTANCE WatchChannel WITH stage <- pStage, phase <- pPhase,
    callback <- pCallback, stopFlag <- pStopFlag, owed <- pOwed, fired <- pFired,
    result <- pResult, closed <- wClosed, live <- wLive, Receivers <- {First},
    MaxPulls <- 2, MaxVersion <- 3, Concurrent <- TRUE

Broadcast == INSTANCE BroadcastChannel WITH stage <- pStage, phase <- pPhase,
    callback <- pCallback, stopFlag <- pStopFlag, owed <- pOwed, fired <- pFired,
    result <- pResult, buffer <- bBuffer, closed <- bClosed, senders <- bSenders, live <- bLive,
    Receivers <- Handles, Values <- {CHOOSE v \in Values : TRUE}, MaxPulls <- 1, Capacity <- 1,
    MaxSends <- 2, MaxSenders <- 1, Concurrent <- FALSE
BroadcastOverlap == INSTANCE BroadcastChannel WITH stage <- pStage, phase <- pPhase,
    callback <- pCallback, stopFlag <- pStopFlag, owed <- pOwed, fired <- pFired,
    result <- pResult, buffer <- bBuffer, closed <- bClosed, senders <- bSenders, live <- bLive,
    Receivers <- {First}, MaxPulls <- 2, Capacity <- 2, MaxSends <- 2,
    MaxSenders <- 2, Concurrent <- TRUE

Adaptor == INSTANCE CallbackSender WITH callback <- cCallback, parked <- cParked

Oneshot == INSTANCE OneshotChannel WITH status <- q1, waiter <- q2, detached <- q3, rx <- q4,
    outcome <- q5, callback <- q6, stopFlag <- q7, stopped <- q8, fires <- q9, claimed <- q10,
    verdicts <- q11, signals <- q12, MaxSends <- 2
Stage == INSTANCE StreamOps WITH kind <- q1, src <- q2, left <- q3, flag <- q4, acc <- q5,
    current <- q6, pull <- q7, primary <- q8, used <- q9, got <- q10, ends <- q11, broken <- q12,
    MaxItems <- 3, MaxPulls <- 5, Count <- 1,
    Kinds <- {"map", "filter", "take", "take_while", "skip", "skip_while", "scan", "flat_map",
              "zip", "merge"}
Merge == INSTANCE StreamMerge WITH driver <- q1, source <- q2, channel <- q3, error <- q4,
    consumed <- q5, pull <- q6, slot <- q7, loop <- q8, unsubscribed <- q9, dropped <- q10,
    seen <- q11, since <- q12, Sources <- {1, 2}, MaxItems <- MaxItems,
    entries <- q1, mapSource <- q2, mapPull <- q3, at <- q4, pending <- q5, total <- q6,
    finished <- q7, stop <- q8, used <- q9, log <- q10, Keys <- {1, 2}, MaxPulls <- 3

ASSUME Bounds == /\ Watch!WatchAssumption /\ WatchOverlap!WatchAssumption
                 /\ Broadcast!BroadcastAssumption /\ BroadcastOverlap!BroadcastAssumption
                 /\ Oneshot!OneshotAssumption
                 /\ Stage!OpsAssumption /\ Merge!MergeAssumption
                 /\ Subjects \subseteq {"mpsc", "unbounded", "watch", "watchOverlap",
                                        "broadcast", "broadcastOverlap", "adaptor",
                                        "oneshot", "stages", "merge", "fan"}

Symmetry == Permutations(Sends) \cup Permutations(Recvs)

pullVars == <<parked, pStage, pPhase, pCallback, pStopFlag, pOwed, pFired, pResult>>
watchVars == <<version, wClosed, wLive, seen>>
broadcastVars == <<bBuffer, baseSeq, bClosed, bSenders, bLive, cursor, sent, joined, got, missed>>
adaptorVars == <<pc, work, term, stopper, cCallback, dtor, settled, cParked, orphan, refs,
                 aborted, signals, fault, raced>>
pool == <<q1, q2, q3, q4, q5, q6, q7, q8, q9, q10, q11, q12>>
notPool == <<subject, pullVars, watchVars, broadcastVars, adaptorVars, vars>>
all == <<notPool, pool>>

PoolInit == \/ subject = "oneshot" /\ Oneshot!Init
            \/ subject = "stages" /\ Stage!Init
            \/ subject = "merge" /\ Merge!Init
            \/ subject = "fan" /\ Merge!MapInit /\ q11 = 0 /\ q12 = 0
            \/ subject \notin {"oneshot", "stages", "merge", "fan"}
               /\ q1 = 0 /\ q2 = 0 /\ q3 = 0 /\ q4 = 0 /\ q5 = 0 /\ q6 = 0
               /\ q7 = 0 /\ q8 = 0 /\ q9 = 0 /\ q10 = 0 /\ q11 = 0 /\ q12 = 0
MCInit == /\ subject \in Subjects
          /\ Init /\ Adaptor!Init
          /\ IF subject \in {"watchOverlap", "broadcastOverlap"} THEN WatchOverlap!OpInit
             ELSE Watch!OpInit
          /\ IF subject = "watchOverlap" THEN WatchOverlap!ChanInit ELSE Watch!ChanInit
          /\ IF subject = "broadcastOverlap" THEN BroadcastOverlap!ChanInit
             ELSE Broadcast!ChanInit
          /\ wLive = {First} /\ bLive = {First} /\ PoolInit

\* What a step of each component leaves alone.
notMpsc == <<subject, pullVars, watchVars, broadcastVars, adaptorVars, pool>>
notWatch == <<subject, broadcastVars, adaptorVars, vars, pool>>
notBroadcast == <<subject, watchVars, adaptorVars, vars, pool>>
notAdaptor == <<subject, pullVars, watchVars, broadcastVars, vars, pool>>

MCNext ==
    \/ subject = "mpsc" /\ Next /\ UNCHANGED notMpsc
    \/ subject = "unbounded" /\ Unbounded!Next /\ UNCHANGED notMpsc
    \/ subject = "watch" /\ Watch!Next /\ UNCHANGED notWatch
    \/ subject = "watchOverlap" /\ WatchOverlap!Next /\ UNCHANGED notWatch
    \/ subject = "broadcast" /\ Broadcast!Next /\ UNCHANGED notBroadcast
    \/ subject = "broadcastOverlap" /\ BroadcastOverlap!Next /\ UNCHANGED notBroadcast
    \/ subject = "adaptor" /\ Adaptor!Next /\ UNCHANGED notAdaptor
    \/ subject = "oneshot" /\ Oneshot!Next /\ UNCHANGED notPool
    \/ subject = "stages" /\ Stage!Next /\ UNCHANGED notPool
    \/ subject = "merge" /\ Merge!Next /\ UNCHANGED notPool
    \/ subject = "fan" /\ Merge!MapNext /\ UNCHANGED <<notPool, q11, q12>>

MCSpec == MCInit /\ [][MCNext]_all

-----------------------------------------------------------------------------
(* The properties of the components, for the subjects they are about.  The  *)
(* mpsc channel's own are those of MpscChannel.                             *)

\* A pull of a watch or a broadcast channel gets one signal, overlapping pulls
\* included, and waits only while there is nothing for it.
PullsAreSound == /\ subject = "watch" => Watch!PullsAreSound
                 /\ subject = "watchOverlap" => WatchOverlap!PullsAreSound
                 /\ subject = "broadcast" => Broadcast!PullsAreSound
                 /\ subject = "broadcastOverlap" => BroadcastOverlap!PullsAreSound
\* No broadcast value is skipped in silence.
NothingSkipped == /\ subject = "broadcast" => Broadcast!NothingSkipped
                  /\ subject = "broadcastOverlap" => BroadcastOverlap!NothingSkipped
\* However its four parties race and wherever the initiation throws, the callback
\* adaptor settles once and nothing is used after its end, save for the races that
\* CallbackSender records.
SettlesCleanly == Adaptor!SettlesCleanly

\* Streams keep the order of their items through every stage, merge and map, lose
\* none and end when there is nothing left; the one-shot channel completes its
\* receiver once, by what was sent or by the stop.
StreamsKeepOrder ==
    /\ [](/\ subject = "oneshot" => Oneshot!OneshotIsSound
          /\ subject = "stages" => Stage!OpsAreSound
          /\ subject = "merge" => Merge!MergeIsSound
          /\ subject = "fan" => Merge!MapIsSound)
    /\ [][subject = "fan" => Merge!EndStep]_all

\* What comments of the code promise and the code does not keep.  A callback
\* operation whose initiation throws completes once and touches nothing that is gone.
ThrowsCleanly == Adaptor!ThrowsCleanly
\* After unsubscribe() returned, no callback of the subscription fires.
NoCallAfterUnsubscribe == subject = "merge" => Merge!NoCallAfterUnsubscribe
=============================================================================

------------------------------ MODULE TcpRelay ------------------------------
(***************************************************************************)
(* proxy::TcpRelay (src/proxy/tcp_relay.cpp): two pumps copy chunks        *)
(* between the client ("left") and the remote side ("right"), and a        *)
(* watchdog ends the relay when neither direction has moved a chunk for    *)
(* IdleTimeout.  finish() closes both handles and reports the byte         *)
(* counters, once.  The handles may belong to different executors, so the  *)
(* steps of the pumps, of the watchdog and of stop() interleave.           *)
(* A direction is named by the handle it reads from.                       *)
(***************************************************************************)
EXTENDS Integers, Sequences

CONSTANTS IdleTimeout,   \* kRelayIdleTimeout, in ticks
          PollInterval,  \* kIdlePollInterval, in ticks
          MaxChunks,     \* bound: chunks a peer sends in one direction
          HasInitial     \* whether start() is given initial_left_data

ASSUME TimesAssumption == /\ IdleTimeout \in Nat \ {0}
                          /\ PollInterval \in Nat \ {0}
ASSUME ChunksAssumption == MaxChunks \in Nat /\ HasInitial \in BOOLEAN

Dirs == {"left", "right"}

\* The actors that may run finish().
Actors == Dirs \cup {"watchdog", "stop", "run"}

VARIABLES
    sent,       \* chunks each peer has sent, the initial data included
    ended,      \* the peers that have sent end of stream
    taken,      \* chunks each pump has read
    delivered,  \* chunks each pump has written completely
    counted,    \* stats_: what the pump added to its counter
    halfClosed, \* directions whose target had shutdown_send() called
    pump,       \* where each pump is
    idle,       \* time since last_activity_
    nap,        \* what is left of the watchdog's sleep; -1 once it returned
    finished,   \* finished_
    finisher,   \* the actor between its finished_.exchange and the handler
    closed,     \* both handles are closed
    reported,   \* the statistics each call of completion_handler_ was given
    race        \* the supervisor: "racing", "over", "returned"

vars == <<sent, ended, taken, delivered, counted, halfClosed, pump, idle, nap,
          finished, finisher, closed, reported, race>>

NoOne == "none"

TypeOK ==
    /\ sent \in [Dirs -> Nat] /\ taken \in [Dirs -> Nat]
    /\ delivered \in [Dirs -> Nat] /\ counted \in [Dirs -> Nat]
    /\ ended \subseteq Dirs /\ halfClosed \subseteq Dirs
    /\ pump \in [Dirs -> {"reading", "writing", "written", "adding", "counted", "done"}]
    /\ idle \in Nat /\ nap \in -1 .. PollInterval
    /\ finished \in BOOLEAN /\ closed \in BOOLEAN
    /\ finisher \in Actors \cup {NoOne}
    /\ reported \in Seq([Dirs -> Nat])
    /\ race \in {"racing", "over", "returned"}

\* Mutant: the sleep is always a whole poll interval.
SliceLonger(i) == PollInterval

\* The slice the watchdog sleeps when the relay has been idle for i.
Slice(i) == IF IdleTimeout - i < PollInterval THEN IdleTimeout - i ELSE PollInterval

\* start() and launch(): the left pump begins by writing the initial data.
Init ==
    /\ sent = [d \in Dirs |-> IF d = "left" /\ HasInitial THEN 1 ELSE 0]
    /\ taken = sent
    /\ delivered = [d \in Dirs |-> 0] /\ counted = [d \in Dirs |-> 0]
    /\ ended = {} /\ halfClosed = {}
    /\ pump = [d \in Dirs |-> IF taken[d] = 1 THEN "writing" ELSE "reading"]
    /\ idle = 0 /\ nap = Slice(0)
    /\ finished = FALSE /\ finisher = NoOne /\ closed = FALSE /\ reported = <<>>
    /\ race = "racing"

pipes == <<sent, ended>>
flow == <<taken, delivered, counted, halfClosed>>
ending == <<finished, finisher, closed, reported>>

At(d, where) == pump' = [pump EXCEPT ![d] = where]

(***************************************************************************)
(* finish(): the actor that wins finished_.exchange closes the handles and *)
(* calls the handler with the counters as they are then.                   *)
(***************************************************************************)
\* Mutant: finished_ is set without looking at it.
EnterAlways(a) == finished' = TRUE /\ finisher' = a
Enter(a) == /\ finished' = TRUE
            /\ finisher' = IF finished THEN finisher ELSE a

CloseBoth ==
    /\ closed' = TRUE
    /\ reported' = Append(reported, counted) /\ finisher' = NoOne

Finish == /\ finisher # NoOne /\ CloseBoth
          /\ UNCHANGED <<pipes, flow, pump, idle, nap, finished, race>>

\* async_read_some delivers a chunk.
ReadChunk(d) ==
    /\ pump[d] = "reading" /\ ~closed /\ taken[d] < sent[d]
    /\ taken' = [taken EXCEPT ![d] = @ + 1] /\ At(d, "writing")
    /\ UNCHANGED <<pipes, delivered, counted, halfClosed, idle, nap, ending, race>>

\* async_read_some delivers the end of the stream: shutdown_send, and return.
ReadEnd(d) ==
    /\ pump[d] = "reading" /\ ~closed /\ d \in ended /\ taken[d] = sent[d]
    /\ halfClosed' = halfClosed \cup {d} /\ At(d, "done")
    /\ UNCHANGED <<pipes, taken, delivered, counted, idle, nap, ending, race>>

\* The write of the chunk completes.
Wrote(d) ==
    /\ pump[d] = "writing" /\ ~closed
    /\ delivered' = [delivered EXCEPT ![d] = @ + 1] /\ At(d, "written")
    /\ UNCHANGED <<pipes, taken, counted, halfClosed, idle, nap, ending, race>>

\* finished_ is checked after every write, before the counter is touched.
CheckFinished(d) ==
    /\ pump[d] = "written"
    /\ At(d, IF finished THEN "done" ELSE "adding")
    /\ UNCHANGED <<pipes, flow, idle, nap, ending, race>>

Count(d) ==
    /\ pump[d] = "adding" /\ At(d, "counted")
    /\ counted' = [counted EXCEPT ![d] = @ + 1]
    /\ UNCHANGED <<pipes, taken, delivered, halfClosed, idle, nap, ending, race>>

\* touch() moves last_activity_ unless the relay is finished.
Touch(d) ==
    /\ pump[d] = "counted" /\ At(d, "reading")
    /\ idle' = IF finished THEN idle ELSE 0
    /\ UNCHANGED <<pipes, flow, nap, ending, race>>

\* A read or a write throws: the handle is closed, or the connection broke.
Throws(d) ==
    /\ pump[d] \in {"reading", "writing"}
    /\ At(d, "done") /\ Enter(d)
    /\ UNCHANGED <<pipes, flow, idle, nap, closed, reported, race>>

\* The race was decided without this pump: its read or write is stopped.
Stopped(d) ==
    /\ pump[d] \in {"reading", "writing"} /\ race = "over"
    /\ At(d, "done")
    /\ UNCHANGED <<pipes, flow, idle, nap, ending, race>>

(***************************************************************************)
(* idle_watchdog()                                                         *)
(***************************************************************************)
\* The sleep is over: check finished_, then the deadline, and sleep again.
Wakes ==
    /\ nap = 0 /\ race = "racing"
    /\ \/ /\ finished /\ nap' = -1 /\ UNCHANGED <<finished, finisher>>
       \/ /\ ~finished /\ idle >= IdleTimeout /\ nap' = -1 /\ Enter("watchdog")
       \/ /\ ~finished /\ idle < IdleTimeout /\ nap' = Slice(idle)
          /\ UNCHANGED <<finished, finisher>>
    /\ UNCHANGED <<pipes, flow, pump, idle, closed, reported, race>>

\* The timer throws: the watchdog returns.
SleepFails ==
    /\ nap >= 0 /\ race = "racing" /\ nap' = -1
    /\ UNCHANGED <<pipes, flow, pump, idle, ending, race>>

(***************************************************************************)
(* run(): when_any ends when both pumps or the watchdog returned, stops    *)
(* the others and waits for them; then finish().                           *)
(***************************************************************************)
PumpsDone == \A d \in Dirs : pump[d] = "done"

\* Mutant: the first pump to return ends the race.
DecidedByOne == \E d \in Dirs : pump[d] = "done"
Decided == PumpsDone \/ nap = -1
Decide == /\ race = "racing" /\ Decided
          /\ race' = "over"
          /\ UNCHANGED <<pipes, flow, pump, idle, nap, ending>>

Returns ==
    /\ race = "over" /\ PumpsDone
    /\ race' = "returned" /\ Enter("run")
    /\ UNCHANGED <<pipes, flow, pump, idle, nap, closed, reported>>

\* TcpRelay::stop(), from ProxySession::close().
Stop == /\ ~finished /\ Enter("stop")
        /\ UNCHANGED <<pipes, flow, pump, idle, nap, closed, reported, race>>

(***************************************************************************)
(* The environment: the peers send and end, and time passes.  A timer that *)
(* is due runs before the clock moves on.                                  *)
(***************************************************************************)
PeerSends(d) ==
    /\ d \notin ended /\ ~closed /\ sent[d] < MaxChunks
    /\ sent' = [sent EXCEPT ![d] = @ + 1]
    /\ UNCHANGED <<ended, flow, pump, idle, nap, ending, race>>

PeerEnds(d) ==
    /\ d \notin ended /\ ~closed /\ ended' = ended \cup {d}
    /\ UNCHANGED <<sent, flow, pump, idle, nap, ending, race>>

Tick ==
    /\ nap > 0 /\ race = "racing"
    /\ nap' = nap - 1 /\ idle' = idle + 1
    /\ UNCHANGED <<pipes, flow, pump, ending, race>>

PumpStep(d) == \/ ReadChunk(d) \/ ReadEnd(d) \/ Wrote(d) \/ CheckFinished(d)
               \/ Count(d) \/ Touch(d) \/ Throws(d) \/ Stopped(d)
Watchdog == Wakes \/ SleepFails
Peers == \E d \in Dirs : PeerSends(d) \/ PeerEnds(d)

Next == \/ \E d \in Dirs : PumpStep(d)
        \/ Watchdog \/ Decide \/ Returns \/ Finish \/ Stop \/ Peers \/ Tick

\* The supervisor has returned and the handler has run.  Whatever the peers do, or do not do,
\* a relay comes to this: an unreachable peer cannot keep a session alive for ever.
Over == race = "returned" /\ finisher = NoOne

Spec == Init /\ [][Next]_vars

(***************************************************************************)
(* Fairness: the runtime's threads run what is ready (a write completes or *)
(* fails, an aborted operation completes), timers fire and time passes.    *)
(* The peers owe nothing.                                                  *)
(***************************************************************************)
Aborted(d) == pump[d] \in {"reading", "writing"} /\ closed /\ Throws(d)
FairSpec ==
    /\ Spec
    /\ WF_vars(Tick) /\ WF_vars(Wakes) /\ WF_vars(Finish)
    /\ WF_vars(Decide) /\ WF_vars(Returns)
    /\ \A d \in Dirs : /\ WF_vars(CheckFinished(d)) /\ WF_vars(Count(d)) /\ WF_vars(Touch(d))
                       /\ WF_vars(Aborted(d)) /\ WF_vars(Stopped(d))

(***************************************************************************)
(* Properties                                                              *)
(***************************************************************************)
\* A relay that has moved nothing for kRelayIdleTimeout is finished: however
\* touch() and the slices of the watchdog's sleep interleave, an open relay is
\* never idle for longer, as long as its watchdog is asleep or running.
IdleIsBounded == (~finished /\ race = "racing" /\ nap >= 0) => idle <= IdleTimeout

\* What pump() half closes has been delivered: the end of the stream never
\* overtakes a chunk read before it.
EndFollowsData == \A d \in halfClosed : d \in ended /\ delivered[d] = sent[d]

\* The counters the completion handler is given never exceed what was
\* delivered, and are exact when both directions ended by themselves.
StatsAreHonest ==
    \A i \in DOMAIN reported : \A d \in Dirs :
        /\ reported[i][d] <= delivered[d]
        /\ halfClosed = Dirs => reported[i][d] = delivered[d]

\* A relay whose supervisor returned left both handles closed and reported
\* its statistics exactly once.
ReportsOnce == Len(reported) <= 1 /\ (Over => closed /\ Len(reported) = 1)

\* One direction that ends leaves the other one alone: when the supervisor
\* itself is the one to finish the relay, with the watchdog still asleep, both
\* directions ended and everything either peer sent was delivered.
QuietEndIsComplete ==
    [][(~finished /\ finished' /\ race' = "returned" /\ nap >= 0)
          => halfClosed = Dirs /\ delivered = sent]_vars

\* The relay tells the truth: ends follow data, and the counters are honest
\* and reported once.
RelayIsHonest == EndFollowsData /\ StatsAreHonest /\ ReportsOnce
=============================================================================

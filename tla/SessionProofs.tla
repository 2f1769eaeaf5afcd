---------------------------- MODULE SessionProofs ----------------------------
(***************************************************************************)
(* Proofs about what a proxy session runs, the relay of a tunnel, the      *)
(* paths of a SOCKS5 UDP association, the requests of an HTTP client and   *)
(* the request of a SOCKS4 client, and about the server with its sessions. *)
(* The five components share no variable; each part has an inductive       *)
(* invariant of its own.                                                   *)
(***************************************************************************)
EXTENDS ProxyServer, TcpRelay, SocksUdp, HttpForward, Socks4Request, FiniteSetTheorems, TLAPS

(***************************************************************************)
(* TcpRelay, for every timeout, every slice and any number of chunks.      *)
(*                                                                         *)
(* The inductive invariant has four parts besides the types: where a pump  *)
(* is tells how its counters compare (FlowInv); finish() passes through    *)
(* its states once (FinishInv, ReportInv); the watchdog's nap never        *)
(* reaches beyond the idle deadline (WatchInv); and a race that is over    *)
(* with the watchdog asleep was decided by the pumps (RaceInv).            *)
(***************************************************************************)

\* Where pump() stands tells how its four counters compare, and a direction it
\* half closed is complete.
FlowInv ==
    \A d \in Dirs :
        /\ counted[d] <= delivered[d] /\ delivered[d] <= taken[d] /\ taken[d] <= sent[d]
        /\ pump[d] \in {"reading", "counted"} =>
              counted[d] = delivered[d] /\ delivered[d] = taken[d]
        /\ pump[d] = "writing" => counted[d] = delivered[d] /\ taken[d] = delivered[d] + 1
        /\ pump[d] \in {"written", "adding"} =>
              delivered[d] = counted[d] + 1 /\ delivered[d] = taken[d]
        /\ d \in halfClosed => /\ pump[d] = "done" /\ d \in ended
                               /\ counted[d] = delivered[d] /\ delivered[d] = sent[d]

\* finished_ is set before a finisher runs, and stays set until and after the
\* handles are closed.
FinishInv ==
    /\ finisher # NoOne => finished /\ ~closed
    /\ closed => finished
    /\ finished /\ finisher = NoOne => closed
    /\ race = "returned" => finished

\* The completion handler is called when the handles are closed, with counters
\* no later chunk of a half-closed direction can change.
ReportInv ==
    /\ ~closed => reported = <<>>
    /\ closed => /\ Len(reported) = 1
                 /\ \A d \in Dirs : /\ reported[1][d] <= delivered[d]
                                    /\ d \in halfClosed => reported[1][d] = counted[d]

\* The watchdog's nap never reaches beyond the idle deadline.
WatchInv == (~finished /\ race = "racing" /\ nap >= 0) => idle + nap <= IdleTimeout

\* A race that is over with the watchdog asleep was decided by the pumps, and a
\* pump that ended while nothing failed ended with its stream.
RaceInv ==
    /\ (race # "racing" /\ nap >= 0) => PumpsDone
    /\ \A d \in Dirs : (~finished /\ nap >= 0 /\ pump[d] = "done") => d \in halfClosed

\* The inductive invariant.
RelayInv == TypeOK /\ FlowInv /\ FinishInv /\ ReportInv /\ WatchInv /\ RaceInv

USE DEF Dirs, Actors, NoOne

\* start() and launch() establish the invariant.
LEMMA RelayInitInv == Init => RelayInv
<1> SUFFICES ASSUME Init PROVE RelayInv
    OBVIOUS
<1> USE TimesAssumption, ChunksAssumption
<1>1. /\ sent \in [Dirs -> {0, 1}] /\ taken = sent
      /\ \A d \in Dirs : sent[d] = 1 <=> pump[d] = "writing"
  BY DEF Init
<1>2. TypeOK
  <2>1. Slice(0) \in 0 .. PollInterval
    BY DEF Slice
  <2>2. reported \in Seq([Dirs -> Nat])
    BY DEF Init
  <2>3. pump \in [Dirs -> {"reading", "writing", "written", "adding", "counted", "done"}]
    BY <1>1 DEF Init
  <2>4. /\ sent \in [Dirs -> Nat] /\ taken \in [Dirs -> Nat]
        /\ delivered \in [Dirs -> Nat] /\ counted \in [Dirs -> Nat]
    BY <1>1 DEF Init
  <2>5. idle \in Nat /\ nap \in -1 .. PollInterval
    BY <2>1 DEF Init
  <2> QED BY <2>2, <2>3, <2>4, <2>5 DEF Init, TypeOK
<1>3. FlowInv
  BY <1>1 DEF Init, FlowInv
<1>4. FinishInv /\ ReportInv
  BY DEF Init, FinishInv, ReportInv
<1>5. WatchInv
  BY DEF Init, WatchInv, Slice
<1>6. RaceInv
  BY DEF Init, RaceInv, PumpsDone
<1> QED BY <1>2, <1>3, <1>4, <1>5, <1>6 DEF RelayInv

\* Every step of the pumps, the watchdog, the supervisor, stop() and the peers
\* preserves it.
LEMMA RelayNextInv == RelayInv /\ [Next]_vars => RelayInv'
<1> SUFFICES ASSUME RelayInv, [Next]_vars PROVE RelayInv'
    OBVIOUS
<1> USE TimesAssumption, ChunksAssumption

<1>1. ASSUME NEW d \in Dirs, ReadChunk(d) PROVE RelayInv'
  <2>1. TypeOK'
    BY <1>1, SMTT(30) DEF ReadChunk, At, pipes, flow, ending, RelayInv, TypeOK
  <2>2. FlowInv'
    BY <1>1 DEF ReadChunk, At, pipes, flow, ending, RelayInv, TypeOK, FlowInv
  <2>3. FinishInv'
    BY <1>1 DEF ReadChunk, At, pipes, flow, ending, RelayInv, TypeOK, FinishInv
  <2>4. ReportInv'
    BY <1>1 DEF ReadChunk, At, pipes, flow, ending, RelayInv, TypeOK, FlowInv, FinishInv, ReportInv
  <2>5. WatchInv'
    BY <1>1 DEF ReadChunk, At, pipes, flow, ending, RelayInv, TypeOK, WatchInv
  <2>6. RaceInv'
    BY <1>1 DEF ReadChunk, At, pipes, flow, ending, RelayInv, TypeOK, FlowInv, RaceInv, FinishInv, PumpsDone
  <2> QED BY <2>1, <2>2, <2>3, <2>4, <2>5, <2>6 DEF RelayInv
<1>2. ASSUME NEW d \in Dirs, ReadEnd(d) PROVE RelayInv'
  <2>1. TypeOK'
    BY <1>2 DEF ReadEnd, At, pipes, flow, ending, RelayInv, TypeOK
  <2>2. FlowInv'
    BY <1>2 DEF ReadEnd, At, pipes, flow, ending, RelayInv, TypeOK, FlowInv
  <2>3. FinishInv'
    BY <1>2 DEF ReadEnd, At, pipes, flow, ending, RelayInv, TypeOK, FinishInv
  <2>4. ReportInv'
    BY <1>2 DEF ReadEnd, At, pipes, flow, ending, RelayInv, TypeOK, FlowInv, FinishInv, ReportInv
  <2>5. WatchInv'
    BY <1>2 DEF ReadEnd, At, pipes, flow, ending, RelayInv, TypeOK, WatchInv
  <2>6. RaceInv'
    BY <1>2 DEF ReadEnd, At, pipes, flow, ending, RelayInv, TypeOK, FlowInv, RaceInv, FinishInv, PumpsDone
  <2> QED BY <2>1, <2>2, <2>3, <2>4, <2>5, <2>6 DEF RelayInv
<1>3. ASSUME NEW d \in Dirs, Wrote(d) PROVE RelayInv'
  <2>1. TypeOK'
    BY <1>3 DEF Wrote, At, pipes, flow, ending, RelayInv, TypeOK
  <2>2. FlowInv'
    BY <1>3 DEF Wrote, At, pipes, flow, ending, RelayInv, TypeOK, FlowInv
  <2>3. FinishInv'
    BY <1>3 DEF Wrote, At, pipes, flow, ending, RelayInv, TypeOK, FinishInv
  <2>4. ReportInv'
    BY <1>3 DEF Wrote, At, pipes, flow, ending, RelayInv, TypeOK, FlowInv, FinishInv, ReportInv
  <2>5. WatchInv'
    BY <1>3 DEF Wrote, At, pipes, flow, ending, RelayInv, TypeOK, WatchInv
  <2>6. RaceInv'
    BY <1>3 DEF Wrote, At, pipes, flow, ending, RelayInv, TypeOK, FlowInv, RaceInv, FinishInv, PumpsDone
  <2> QED BY <2>1, <2>2, <2>3, <2>4, <2>5, <2>6 DEF RelayInv
<1>4. ASSUME NEW d \in Dirs, CheckFinished(d) PROVE RelayInv'
  <2>1. TypeOK'
    BY <1>4 DEF CheckFinished, At, pipes, flow, ending, RelayInv, TypeOK
  <2>2. FlowInv'
    BY <1>4 DEF CheckFinished, At, pipes, flow, ending, RelayInv, TypeOK, FlowInv
  <2>3. FinishInv'
    BY <1>4 DEF CheckFinished, At, pipes, flow, ending, RelayInv, TypeOK, FinishInv
  <2>4. ReportInv'
    BY <1>4 DEF CheckFinished, At, pipes, flow, ending, RelayInv, TypeOK, FlowInv, FinishInv, ReportInv
  <2>5. WatchInv'
    BY <1>4 DEF CheckFinished, At, pipes, flow, ending, RelayInv, TypeOK, WatchInv
  <2>6. RaceInv'
    BY <1>4 DEF CheckFinished, At, pipes, flow, ending, RelayInv, TypeOK, FlowInv, RaceInv, FinishInv, PumpsDone
  <2> QED BY <2>1, <2>2, <2>3, <2>4, <2>5, <2>6 DEF RelayInv
<1>5. ASSUME NEW d \in Dirs, Count(d) PROVE RelayInv'
  <2>1. TypeOK'
    BY <1>5 DEF Count, At, pipes, flow, ending, RelayInv, TypeOK
  <2>2. FlowInv'
    BY <1>5 DEF Count, At, pipes, flow, ending, RelayInv, TypeOK, FlowInv
  <2>3. FinishInv'
    BY <1>5 DEF Count, At, pipes, flow, ending, RelayInv, TypeOK, FinishInv
  <2>4. ReportInv'
    BY <1>5 DEF Count, At, pipes, flow, ending, RelayInv, TypeOK, FlowInv, FinishInv, ReportInv
  <2>5. WatchInv'
    BY <1>5 DEF Count, At, pipes, flow, ending, RelayInv, TypeOK, WatchInv
  <2>6. RaceInv'
    BY <1>5 DEF Count, At, pipes, flow, ending, RelayInv, TypeOK, FlowInv, RaceInv, FinishInv, PumpsDone
  <2> QED BY <2>1, <2>2, <2>3, <2>4, <2>5, <2>6 DEF RelayInv
<1>6. ASSUME NEW d \in Dirs, Touch(d) PROVE RelayInv'
  <2>1. TypeOK'
    BY <1>6 DEF Touch, At, pipes, flow, ending, RelayInv, TypeOK
  <2>2. FlowInv'
    BY <1>6 DEF Touch, At, pipes, flow, ending, RelayInv, TypeOK, FlowInv
  <2>3. FinishInv'
    BY <1>6 DEF Touch, At, pipes, flow, ending, RelayInv, TypeOK, FinishInv
  <2>4. ReportInv'
    BY <1>6 DEF Touch, At, pipes, flow, ending, RelayInv, TypeOK, FlowInv, FinishInv, ReportInv
  <2>5. WatchInv'
    BY <1>6 DEF Touch, At, pipes, flow, ending, RelayInv, TypeOK, WatchInv
  <2>6. RaceInv'
    BY <1>6 DEF Touch, At, pipes, flow, ending, RelayInv, TypeOK, FlowInv, RaceInv, FinishInv, PumpsDone
  <2> QED BY <2>1, <2>2, <2>3, <2>4, <2>5, <2>6 DEF RelayInv
<1>7. ASSUME NEW d \in Dirs, Throws(d) PROVE RelayInv'
  <2>1. TypeOK'
    BY <1>7 DEF Throws, At, Enter, pipes, flow, ending, RelayInv, TypeOK
  <2>2. FlowInv'
    BY <1>7 DEF Throws, At, Enter, pipes, flow, ending, RelayInv, TypeOK, FlowInv
  <2>3. FinishInv'
    BY <1>7 DEF Throws, At, Enter, pipes, flow, ending, RelayInv, TypeOK, FinishInv
  <2>4. ReportInv'
    BY <1>7 DEF Throws, At, Enter, pipes, flow, ending, RelayInv, TypeOK, FlowInv, FinishInv, ReportInv
  <2>5. WatchInv'
    BY <1>7 DEF Throws, At, Enter, pipes, flow, ending, RelayInv, TypeOK, WatchInv
  <2>6. RaceInv'
    BY <1>7 DEF Throws, At, Enter, pipes, flow, ending, RelayInv, TypeOK, FlowInv, RaceInv, FinishInv, PumpsDone
  <2> QED BY <2>1, <2>2, <2>3, <2>4, <2>5, <2>6 DEF RelayInv
<1>8. ASSUME NEW d \in Dirs, Stopped(d) PROVE RelayInv'
  <2>1. TypeOK'
    BY <1>8 DEF Stopped, At, pipes, flow, ending, RelayInv, TypeOK
  <2>2. FlowInv'
    BY <1>8 DEF Stopped, At, pipes, flow, ending, RelayInv, TypeOK, FlowInv
  <2>3. FinishInv'
    BY <1>8 DEF Stopped, At, pipes, flow, ending, RelayInv, TypeOK, FinishInv
  <2>4. ReportInv'
    BY <1>8 DEF Stopped, At, pipes, flow, ending, RelayInv, TypeOK, FlowInv, FinishInv, ReportInv
  <2>5. WatchInv'
    BY <1>8 DEF Stopped, At, pipes, flow, ending, RelayInv, TypeOK, WatchInv
  <2>6. RaceInv'
    BY <1>8 DEF Stopped, At, pipes, flow, ending, RelayInv, TypeOK, FlowInv, RaceInv, FinishInv, PumpsDone
  <2> QED BY <2>1, <2>2, <2>3, <2>4, <2>5, <2>6 DEF RelayInv
<1>9. ASSUME NEW d \in Dirs, PeerSends(d) PROVE RelayInv'
  <2>1. TypeOK'
    BY <1>9 DEF PeerSends, pipes, flow, ending, RelayInv, TypeOK
  <2>2. FlowInv'
    BY <1>9 DEF PeerSends, pipes, flow, ending, RelayInv, TypeOK, FlowInv
  <2>3. FinishInv'
    BY <1>9 DEF PeerSends, pipes, flow, ending, RelayInv, TypeOK, FinishInv
  <2>4. ReportInv'
    BY <1>9 DEF PeerSends, pipes, flow, ending, RelayInv, TypeOK, FlowInv, FinishInv, ReportInv
  <2>5. WatchInv'
    BY <1>9 DEF PeerSends, pipes, flow, ending, RelayInv, TypeOK, WatchInv
  <2>6. RaceInv'
    BY <1>9 DEF PeerSends, pipes, flow, ending, RelayInv, TypeOK, FlowInv, RaceInv, FinishInv, PumpsDone
  <2> QED BY <2>1, <2>2, <2>3, <2>4, <2>5, <2>6 DEF RelayInv
<1>10. ASSUME NEW d \in Dirs, PeerEnds(d) PROVE RelayInv'
  <2>1. TypeOK'
    BY <1>10 DEF PeerEnds, pipes, flow, ending, RelayInv, TypeOK
  <2>2. FlowInv'
    BY <1>10 DEF PeerEnds, pipes, flow, ending, RelayInv, TypeOK, FlowInv
  <2>3. FinishInv'
    BY <1>10 DEF PeerEnds, pipes, flow, ending, RelayInv, TypeOK, FinishInv
  <2>4. ReportInv'
    BY <1>10 DEF PeerEnds, pipes, flow, ending, RelayInv, TypeOK, FlowInv, FinishInv, ReportInv
  <2>5. WatchInv'
    BY <1>10 DEF PeerEnds, pipes, flow, ending, RelayInv, TypeOK, WatchInv
  <2>6. RaceInv'
    BY <1>10 DEF PeerEnds, pipes, flow, ending, RelayInv, TypeOK, FlowInv, RaceInv, FinishInv, PumpsDone
  <2> QED BY <2>1, <2>2, <2>3, <2>4, <2>5, <2>6 DEF RelayInv
<1>11. CASE Wakes
  <2>1. TypeOK'
    <3>1. nap' \in -1 .. PollInterval
      BY <1>11 DEF Wakes, Slice, RelayInv, TypeOK
    <3>2. finisher' \in Actors \cup {NoOne} /\ finished' \in BOOLEAN
      BY <1>11 DEF Wakes, Enter, RelayInv, TypeOK
    <3> QED BY <1>11, <3>1, <3>2 DEF Wakes, pipes, flow, RelayInv, TypeOK
  <2>2. FlowInv'
    BY <1>11 DEF Wakes, Enter, Slice, pipes, flow, ending, RelayInv, TypeOK, FlowInv
  <2>3. FinishInv'
    BY <1>11 DEF Wakes, Enter, Slice, pipes, flow, ending, RelayInv, TypeOK, FinishInv
  <2>4. ReportInv'
    BY <1>11 DEF Wakes, Enter, Slice, pipes, flow, ending, RelayInv, TypeOK, FlowInv, FinishInv, ReportInv
  <2>5. WatchInv'
    BY <1>11 DEF Wakes, Enter, Slice, pipes, flow, ending, RelayInv, TypeOK, WatchInv
  <2>6. RaceInv'
    BY <1>11 DEF Wakes, Enter, Slice, pipes, flow, ending, RelayInv, TypeOK, FlowInv, RaceInv, FinishInv, PumpsDone
  <2> QED BY <2>1, <2>2, <2>3, <2>4, <2>5, <2>6 DEF RelayInv
<1>12. CASE SleepFails
  <2>1. TypeOK'
    BY <1>12 DEF SleepFails, pipes, flow, ending, RelayInv, TypeOK
  <2>2. FlowInv'
    BY <1>12 DEF SleepFails, pipes, flow, ending, RelayInv, TypeOK, FlowInv
  <2>3. FinishInv'
    BY <1>12 DEF SleepFails, pipes, flow, ending, RelayInv, TypeOK, FinishInv
  <2>4. ReportInv'
    BY <1>12 DEF SleepFails, pipes, flow, ending, RelayInv, TypeOK, FlowInv, FinishInv, ReportInv
  <2>5. WatchInv'
    BY <1>12 DEF SleepFails, pipes, flow, ending, RelayInv, TypeOK, WatchInv
  <2>6. RaceInv'
    BY <1>12 DEF SleepFails, pipes, flow, ending, RelayInv, TypeOK, FlowInv, RaceInv, FinishInv, PumpsDone
  <2> QED BY <2>1, <2>2, <2>3, <2>4, <2>5, <2>6 DEF RelayInv
<1>13. CASE Decide
  <2>1. TypeOK'
    BY <1>13 DEF Decide, Decided, PumpsDone, pipes, flow, ending, RelayInv, TypeOK
  <2>2. FlowInv'
    BY <1>13 DEF Decide, Decided, PumpsDone, pipes, flow, ending, RelayInv, TypeOK, FlowInv
  <2>3. FinishInv'
    BY <1>13 DEF Decide, Decided, PumpsDone, pipes, flow, ending, RelayInv, TypeOK, FinishInv
  <2>4. ReportInv'
    BY <1>13 DEF Decide, Decided, PumpsDone, pipes, flow, ending, RelayInv, TypeOK, FlowInv, FinishInv, ReportInv
  <2>5. WatchInv'
    BY <1>13 DEF Decide, Decided, PumpsDone, pipes, flow, ending, RelayInv, TypeOK, WatchInv
  <2>6. RaceInv'
    BY <1>13 DEF Decide, Decided, PumpsDone, pipes, flow, ending, RelayInv, TypeOK, FlowInv, RaceInv, FinishInv
  <2> QED BY <2>1, <2>2, <2>3, <2>4, <2>5, <2>6 DEF RelayInv
<1>14. CASE Returns
  <2>1. TypeOK'
    BY <1>14 DEF Returns, Enter, PumpsDone, pipes, flow, ending, RelayInv, TypeOK
  <2>2. FlowInv'
    BY <1>14 DEF Returns, Enter, PumpsDone, pipes, flow, ending, RelayInv, TypeOK, FlowInv
  <2>3. FinishInv'
    BY <1>14 DEF Returns, Enter, PumpsDone, pipes, flow, ending, RelayInv, TypeOK, FinishInv
  <2>4. ReportInv'
    BY <1>14 DEF Returns, Enter, PumpsDone, pipes, flow, ending, RelayInv, TypeOK, FlowInv, FinishInv, ReportInv
  <2>5. WatchInv'
    BY <1>14 DEF Returns, Enter, PumpsDone, pipes, flow, ending, RelayInv, TypeOK, WatchInv
  <2>6. RaceInv'
    BY <1>14 DEF Returns, Enter, PumpsDone, pipes, flow, ending, RelayInv, TypeOK, FlowInv, RaceInv, FinishInv
  <2> QED BY <2>1, <2>2, <2>3, <2>4, <2>5, <2>6 DEF RelayInv
<1>15. CASE Finish
  <2>1. TypeOK'
    BY <1>15 DEF Finish, CloseBoth, pipes, flow, ending, RelayInv, TypeOK
  <2>2. FlowInv'
    BY <1>15 DEF Finish, CloseBoth, pipes, flow, ending, RelayInv, TypeOK, FlowInv
  <2>3. FinishInv'
    BY <1>15 DEF Finish, CloseBoth, pipes, flow, ending, RelayInv, TypeOK, FinishInv
  <2>4. ReportInv'
    BY <1>15 DEF Finish, CloseBoth, pipes, flow, ending, RelayInv, TypeOK, FlowInv, FinishInv, ReportInv
  <2>5. WatchInv'
    BY <1>15 DEF Finish, CloseBoth, pipes, flow, ending, RelayInv, TypeOK, WatchInv
  <2>6. RaceInv'
    BY <1>15 DEF Finish, CloseBoth, pipes, flow, ending, RelayInv, TypeOK, FlowInv, RaceInv, FinishInv, PumpsDone
  <2> QED BY <2>1, <2>2, <2>3, <2>4, <2>5, <2>6 DEF RelayInv
<1>16. CASE Stop
  <2>1. TypeOK'
    BY <1>16 DEF Stop, Enter, pipes, flow, ending, RelayInv, TypeOK
  <2>2. FlowInv'
    BY <1>16 DEF Stop, Enter, pipes, flow, ending, RelayInv, TypeOK, FlowInv
  <2>3. FinishInv'
    BY <1>16 DEF Stop, Enter, pipes, flow, ending, RelayInv, TypeOK, FinishInv
  <2>4. ReportInv'
    BY <1>16 DEF Stop, Enter, pipes, flow, ending, RelayInv, TypeOK, FlowInv, FinishInv, ReportInv
  <2>5. WatchInv'
    BY <1>16 DEF Stop, Enter, pipes, flow, ending, RelayInv, TypeOK, WatchInv
  <2>6. RaceInv'
    BY <1>16 DEF Stop, Enter, pipes, flow, ending, RelayInv, TypeOK, FlowInv, RaceInv, FinishInv, PumpsDone
  <2> QED BY <2>1, <2>2, <2>3, <2>4, <2>5, <2>6 DEF RelayInv
<1>17. CASE Tick
  <2>1. TypeOK'
    BY <1>17 DEF Tick, pipes, flow, ending, RelayInv, TypeOK
  <2>2. FlowInv'
    BY <1>17 DEF Tick, pipes, flow, ending, RelayInv, TypeOK, FlowInv
  <2>3. FinishInv'
    BY <1>17 DEF Tick, pipes, flow, ending, RelayInv, TypeOK, FinishInv
  <2>4. ReportInv'
    BY <1>17 DEF Tick, pipes, flow, ending, RelayInv, TypeOK, FlowInv, FinishInv, ReportInv
  <2>5. WatchInv'
    BY <1>17 DEF Tick, pipes, flow, ending, RelayInv, TypeOK, WatchInv
  <2>6. RaceInv'
    BY <1>17 DEF Tick, pipes, flow, ending, RelayInv, TypeOK, FlowInv, RaceInv, FinishInv, PumpsDone
  <2> QED BY <2>1, <2>2, <2>3, <2>4, <2>5, <2>6 DEF RelayInv
<1>18. CASE UNCHANGED vars
  BY <1>18 DEF vars, RelayInv, TypeOK, FlowInv, FinishInv, ReportInv, WatchInv, RaceInv, PumpsDone
<1> QED
  BY <1>1, <1>2, <1>3, <1>4, <1>5, <1>6, <1>7, <1>8, <1>9, <1>10, <1>11, <1>12, <1>13, <1>14, <1>15, <1>16, <1>17, <1>18 DEF Next, PumpStep, Watchdog, Peers

\* Every reachable state satisfies the invariant.
LEMMA RelayInvariant == Spec => []RelayInv
<1> QED BY RelayInitInv, RelayNextInv, PTL DEF Spec

\* Every variable of the relay keeps its type, for every timeout and slice.
THEOREM RelayTypeCorrect == Spec => []TypeOK
<1>1. RelayInv => TypeOK
  BY DEF RelayInv
<1> QED BY <1>1, RelayInvariant, PTL

\* The slices of idle_watchdog()'s sleep never let an open relay be idle for
\* longer than kRelayIdleTimeout, whatever the timeout and the poll interval.
THEOREM IdleBounded == Spec => []IdleIsBounded
<1>1. RelayInv => IdleIsBounded
  BY TimesAssumption DEF RelayInv, TypeOK, WatchInv, IdleIsBounded
<1> QED BY <1>1, RelayInvariant, PTL

\* pump() half closes a target only after every chunk of that direction was
\* written.
THEOREM EndAfterData == Spec => []EndFollowsData
<1>1. RelayInv => EndFollowsData
  BY DEF RelayInv, TypeOK, FlowInv, EndFollowsData
<1> QED BY <1>1, RelayInvariant, PTL

\* The counters completion_handler_ is given never exceed what was delivered,
\* and are exact for a relay whose two directions ended by themselves.
THEOREM HonestStats == Spec => []StatsAreHonest
<1>1. RelayInv => StatsAreHonest
  <2> SUFFICES ASSUME RelayInv, NEW i \in DOMAIN reported, NEW d \in Dirs
               PROVE /\ reported[i][d] <= delivered[d]
                     /\ halfClosed = Dirs => reported[i][d] = delivered[d]
      BY DEF StatsAreHonest
  <2>1. closed /\ i = 1
    BY DEF RelayInv, TypeOK, ReportInv
  <2> QED BY <2>1 DEF RelayInv, TypeOK, ReportInv, FlowInv
<1> QED BY <1>1, RelayInvariant, PTL

\* Of the five callers that race for finished_, one closes the handles and
\* reports, and a supervisor that returned leaves no relay unreported.
THEOREM OneReport == Spec => []ReportsOnce
<1>1. RelayInv => ReportsOnce
  <2>1. RelayInv => Len(reported) <= 1 /\ (closed => Len(reported) = 1)
    <3>1. Len(<<>>) = 0
      OBVIOUS
    <3>2. ASSUME RelayInv, ~closed PROVE Len(reported) <= 1
      BY <3>1, <3>2 DEF RelayInv, ReportInv
    <3>3. ASSUME RelayInv, closed PROVE Len(reported) = 1 /\ Len(reported) <= 1
      <4>1. Len(reported) \in Nat
        BY <3>3 DEF RelayInv, TypeOK
      <4>2. Len(reported) = 1
        BY <3>3 DEF RelayInv, ReportInv
      <4> QED BY <4>1, <4>2
    <3> QED BY <3>2, <3>3
  <2>2. RelayInv => (Over => closed)
    BY DEF RelayInv, FinishInv, Over
  <2> QED BY <2>1, <2>2 DEF ReportsOnce
<1> QED BY <1>1, RelayInvariant, PTL

\* Together: ends follow data, and the counters are honest and reported once.
THEOREM HonestRelay == Spec => []RelayIsHonest
<1>1. EndFollowsData /\ StatsAreHonest /\ ReportsOnce => RelayIsHonest
  BY DEF RelayIsHonest
<1> QED BY <1>1, EndAfterData, HonestStats, OneReport, PTL

\* When run() itself finishes the relay with the watchdog still asleep, both
\* directions ended and everything either peer sent was delivered.
THEOREM QuietEnd == Spec => QuietEndIsComplete
<1>1. RelayInv /\ [Next]_vars
        => [(~finished /\ finished' /\ race' = "returned" /\ nap >= 0)
               => halfClosed = Dirs /\ delivered = sent]_vars
  <2> SUFFICES ASSUME RelayInv, [Next]_vars, ~finished, finished', race' = "returned", nap >= 0
               PROVE halfClosed = Dirs /\ delivered = sent
      BY DEF vars
  <2>1. race # "returned"
    BY DEF RelayInv, FinishInv
  <2>2. Returns
    BY <2>1 DEF Next, vars, PumpStep, ReadChunk, ReadEnd, Wrote, CheckFinished,
                Count, Touch, Throws, Stopped, Watchdog, Wakes, SleepFails, Decide, Finish,
                CloseBoth, Stop, Peers, PeerSends, PeerEnds, Tick
  <2>3. \A d \in Dirs : d \in halfClosed
    BY <2>2 DEF Returns, PumpsDone, RelayInv, RaceInv
  <2>4. \A d \in Dirs : delivered[d] = sent[d]
    BY <2>3 DEF RelayInv, FlowInv
  <2>5. delivered = sent
    BY <2>4 DEF RelayInv, TypeOK
  <2>6. halfClosed = Dirs
    BY <2>3 DEF RelayInv, TypeOK
  <2> QED BY <2>5, <2>6
<1> QED BY <1>1, RelayInvariant, PTL DEF Spec, QuietEndIsComplete

(***************************************************************************)
(* SocksUdp, for both of its forms, every set of clients and destinations  *)
(* and every limit of paths.  PathsInv is the inductive invariant.         *)
(***************************************************************************)

\* Handles are numbered in the order they were opened; the tables are finite.
Numbered == /\ \E n \in 0 .. MaxHandles : Ids = 1 .. n
            /\ IsFiniteSet(DOMAIN pending) /\ IsFiniteSet(DOMAIN paths)

\* A key has a path, or datagrams that wait for one, never both: a route
\* that opens never takes the place of a listed path.
OnePlacePerKey == DOMAIN pending \cap DOMAIN paths = {}

\* A path is listed under the key it was opened for.
ListedUnderItsKey == \A k \in DOMAIN paths : handles[paths[k]].key = k

\* After close() or stop() nothing waits and nothing is listed.
StoppedIsEmpty == stopped => DOMAIN pending = {} /\ DOMAIN paths = {}

\* What waits was received before.
WaitingWasReceived == \A k \in DOMAIN pending : pending[k].n <= packets

\* Whose datagrams a batch or a path of key k may carry when c is pinned.
Owners(k, c) == IF PerAssociation THEN {c} ELSE {k[1]}

\* A batch, a route and a path carry the datagrams of one client only: the
\* pinned one, or the one in the key.
OneOwner ==
    /\ \A k \in DOMAIN pending : pending[k].from \subseteq Owners(k, client)
    /\ \A h \in Ids : handles[h].from \subseteq Owners(handles[h].key, client)
    /\ ~PerAssociation => /\ \A r \in routes : r[2] = r[1][1]
                          /\ \A h \in Ids : handles[h].opener = handles[h].key[1]

PathsInv ==
    /\ UdpTypeOK /\ Numbered /\ OnePlacePerKey /\ ListedUnderItsKey /\ StoppedIsEmpty
    /\ WaitingWasReceived /\ OneOwner
    /\ PathsAndLoopsAgree /\ PathsBounded /\ RepliesGoHome
    /\ ~RoutesThrow => PendingHasRoute

-----------------------------------------------------------------------------
(* Facts about the model's operators. *)

(* As handles are numbered, their count is the last number.                *)
LEMMA NextHandle ==
    ASSUME NEW n \in 0 .. MaxHandles, Ids = 1 .. n
    PROVE  Cardinality(Ids) = n
BY FS_Interval

(* The paths and the batches that wait are finitely many, so that they     *)
(* can be counted.                                                         *)
LEMMA CountsAreNat ==
    ASSUME Numbered
    PROVE  Cardinality(DOMAIN pending) \in Nat /\ Cardinality(DOMAIN paths) \in Nat
BY FS_CardinalityType DEF Numbered

\* A table that loses keys is finite and has no more of them.
LEMMA FewerKeys ==
    ASSUME NEW D, NEW S \in SUBSET D, IsFiniteSet(D)
    PROVE  IsFiniteSet(S) /\ Cardinality(S) <= Cardinality(D) /\ Cardinality(S) \in Nat
BY FS_Subset, FS_CardinalityType

\* A batch of one more datagram, of a client who may have sent it.
LEMMA BatchGrows ==
    ASSUME BoundsAssumption, NEW b \in Batch, NEW c \in Clients, b.n + 1 <= MaxPackets
    PROVE  [b EXCEPT !.n = @ + 1, !.from = @ \cup {c}] \in Batch
<1>1. PICK m \in 1 .. MaxPackets, f \in SUBSET Clients : b = [n |-> m, from |-> f]
  BY DEF Batch
<1>2. [b EXCEPT !.n = @ + 1, !.from = @ \cup {c}]
        = [[[n |-> m, from |-> f] EXCEPT !.n = m + 1] EXCEPT !.from = f \cup {c}]
  BY <1>1
<1>4. [[[n |-> m, from |-> f] EXCEPT !.n = m + 1] EXCEPT !.from = f \cup {c}]
        = [n |-> m + 1, from |-> f \cup {c}]
  <2>1. [[n |-> m, from |-> f] EXCEPT !.n = m + 1] = [n |-> m + 1, from |-> f]
    OBVIOUS
  <2>2. [[n |-> m + 1, from |-> f] EXCEPT !.from = f \cup {c}] = [n |-> m + 1, from |-> f \cup {c}]
    OBVIOUS
  <2> QED BY <2>1, <2>2
<1>3. m + 1 \in 1 .. MaxPackets /\ f \cup {c} \in SUBSET Clients
  BY <1>1 DEF BoundsAssumption
<1> QED BY <1>2, <1>3, <1>4 DEF Batch

\* The domains of With and Without.
LEMMA Tables ==
    ASSUME NEW f, NEW k, NEW v
    PROVE  /\ DOMAIN With(f, k, v) = DOMAIN f \cup {k} /\ With(f, k, v)[k] = v
           /\ \A i \in DOMAIN f \ {k} : With(f, k, v)[i] = f[i]
           /\ DOMAIN Without(f, k) = DOMAIN f \ {k}
           /\ \A i \in DOMAIN f \ {k} : Without(f, k)[i] = f[i]
BY DEF With, Without

(* A key is made of the client that sent the datagram, except in an        *)
(* association.                                                            *)
LEMMA KeysOwned ==
    ASSUME NEW c \in Clients, NEW d \in Dests
    PROVE  KeyOf(c, d) \in Keys /\ (~PerAssociation => KeyOf(c, d)[1] = c)
BY DEF KeyOf, Keys

\* A table of handles in which one field of one handle changes.
Handles(f) == \A i \in DOMAIN f : f[i] \in Handle
OthersKept(f, g, h) == DOMAIN g = DOMAIN f /\ \A i \in DOMAIN f \ {h} : g[i] = f[i]

(* Counting a send changes that count of that path only.                   *)
LEMMA SetSends ==
    ASSUME NEW f, Handles(f), NEW h \in DOMAIN f, NEW x \in Nat, NEW g,
           g = [f EXCEPT ![h].sends = x]
    PROVE  /\ Handles(g) /\ OthersKept(f, g, h)
           /\ g[h].sends = x /\ g[h].key = f[h].key /\ g[h].opener = f[h].opener
           /\ g[h].from = f[h].from /\ g[h].closed = f[h].closed /\ g[h].loop = f[h].loop
<1>1. g = [f EXCEPT ![h] = [f[h] EXCEPT !.sends = x]] /\ f[h] \in Handle
  BY DEF Handles
<1>2. [f[h] EXCEPT !.sends = x] \in Handle
  BY <1>1 DEF Handle
<1> QED BY <1>1, <1>2 DEF Handle, Handles, OthersKept

(* Noting a sender changes that path's senders only.                       *)
LEMMA SetFrom ==
    ASSUME NEW f, Handles(f), NEW h \in DOMAIN f, NEW x \in SUBSET Clients, NEW g,
           g = [f EXCEPT ![h].from = x]
    PROVE  /\ Handles(g) /\ OthersKept(f, g, h)
           /\ g[h].sends = f[h].sends /\ g[h].key = f[h].key /\ g[h].opener = f[h].opener
           /\ g[h].from = x /\ g[h].closed = f[h].closed /\ g[h].loop = f[h].loop
<1>1. g = [f EXCEPT ![h] = [f[h] EXCEPT !.from = x]] /\ f[h] \in Handle
  BY DEF Handles
<1>2. [f[h] EXCEPT !.from = x] \in Handle
  BY <1>1 DEF Handle
<1> QED BY <1>1, <1>2 DEF Handle, Handles, OthersKept

(* Closing a path changes that path only.                                  *)
LEMMA SetClosed ==
    ASSUME NEW f, Handles(f), NEW h \in DOMAIN f, NEW x \in BOOLEAN, NEW g,
           g = [f EXCEPT ![h].closed = x]
    PROVE  /\ Handles(g) /\ OthersKept(f, g, h)
           /\ g[h].sends = f[h].sends /\ g[h].key = f[h].key /\ g[h].opener = f[h].opener
           /\ g[h].from = f[h].from /\ g[h].closed = x /\ g[h].loop = f[h].loop
<1>1. g = [f EXCEPT ![h] = [f[h] EXCEPT !.closed = x]] /\ f[h] \in Handle
  BY DEF Handles
<1>2. [f[h] EXCEPT !.closed = x] \in Handle
  BY <1>1 DEF Handle
<1> QED BY <1>1, <1>2 DEF Handle, Handles, OthersKept

(* The end of a response loop changes that path only.                      *)
LEMMA SetLoop ==
    ASSUME NEW f, Handles(f), NEW h \in DOMAIN f, NEW x \in {"runs", "cut", "over"}, NEW g,
           g = [f EXCEPT ![h].loop = x]
    PROVE  /\ Handles(g) /\ OthersKept(f, g, h)
           /\ g[h].sends = f[h].sends /\ g[h].key = f[h].key /\ g[h].opener = f[h].opener
           /\ g[h].from = f[h].from /\ g[h].closed = f[h].closed /\ g[h].loop = x
<1>1. g = [f EXCEPT ![h] = [f[h] EXCEPT !.loop = x]] /\ f[h] \in Handle
  BY DEF Handles
<1>2. [f[h] EXCEPT !.loop = x] \in Handle
  BY <1>1 DEF Handle
<1> QED BY <1>1, <1>2 DEF Handle, Handles, OthersKept

(* The invariant holds of a new association or listener.                   *)
LEMMA PathsInitOK == BoundsAssumption /\ UdpInit => PathsInv
<1> SUFFICES ASSUME BoundsAssumption, UdpInit PROVE PathsInv
  OBVIOUS
<1>1. DOMAIN handles = {} /\ DOMAIN paths = {} /\ DOMAIN pending = {}
  BY DEF UdpInit
<1>2. Cardinality({}) = 0 /\ IsFiniteSet({})
  BY FS_EmptySet
<1>3. Numbered
  <2>1. 0 \in 0 .. MaxHandles /\ 1 .. 0 = {}
    BY DEF BoundsAssumption
  <2> QED BY <1>1, <1>2, <2>1, Zenon DEF Numbered, Ids
<1>4. UdpTypeOK
  <2>1. Ids = 1 .. Cardinality(Ids)
    BY <1>1, <1>2 DEF Ids
  <2>2. packets \in 0 .. MaxPackets
    BY DEF UdpInit, BoundsAssumption
  <2>3. client \in Clients \cup {NoClient}
    BY DEF UdpInit
  <2> QED BY <1>1, <2>1, <2>2, <2>3 DEF UdpInit, UdpTypeOK, Ids
<1>5. OnePlacePerKey /\ ListedUnderItsKey /\ StoppedIsEmpty /\ WaitingWasReceived /\ OneOwner
  BY <1>1 DEF UdpInit, OnePlacePerKey, ListedUnderItsKey, StoppedIsEmpty, WaitingWasReceived, OneOwner, Ids
<1>6. PathsAndLoopsAgree /\ PathsBounded /\ RepliesGoHome /\ PendingHasRoute
  BY <1>1, <1>2 DEF UdpInit, PathsAndLoopsAgree, PathsBounded, RepliesGoHome, PendingHasRoute, Ids, BoundsAssumption
<1> QED BY <1>3, <1>4, <1>5, <1>6 DEF PathsInv

-----------------------------------------------------------------------------
(* What a change of the handles leaves of the invariant. *)

\* The parts of the invariant that read handles, for any table of handles.
LEMMA HandlesFacts ==
    ASSUME PathsInv
    PROVE  /\ Handles(handles)
           /\ \A h \in Ids : /\ handles[h].key \in Keys /\ handles[h].opener \in Clients
                             /\ handles[h].from \in SUBSET Clients /\ handles[h].sends \in Nat
                             /\ handles[h].loop \in {"runs", "cut", "over"} /\ handles[h].closed \in BOOLEAN
           /\ \A k \in DOMAIN paths : paths[k] \in Ids
BY DEF PathsInv, UdpTypeOK, Handles, Handle, Ids

-----------------------------------------------------------------------------
(* The steps. *)

\* A datagram of c never widens what may be carried: the client stays pinned.
LEMMA OwnersStay ==
    ASSUME BoundsAssumption, PathsInv, NEW c \in Clients, AcceptUdpSender(c)
    PROVE  /\ client' \in Clients \cup {NoClient}
           /\ PerAssociation => client' = c
           /\ \A k \in DOMAIN pending : pending[k].from \subseteq Owners(k, client')
           /\ \A h \in Ids : handles[h].from \subseteq Owners(handles[h].key, client')
<1>1. CASE ~PerAssociation
  <2>1. client' = client /\ \A k : Owners(k, client') = Owners(k, client)
    BY <1>1 DEF AcceptUdpSender, Owners
  <2> QED BY <1>1, <2>1 DEF PathsInv, UdpTypeOK, OneOwner
<1>2. CASE PerAssociation
  <2>1. client' = c /\ client \in {c, NoClient}
    BY <1>2 DEF AcceptUdpSender
  <2>2. /\ \A k \in DOMAIN pending : pending[k].from \subseteq {client}
        /\ \A h \in Ids : handles[h].from \subseteq {client}
    BY <1>2 DEF PathsInv, OneOwner, Owners
  <2>3. /\ \A k \in DOMAIN pending : pending[k].from \subseteq Clients
        /\ \A h \in Ids : handles[h].from \subseteq Clients
    BY HandlesFacts DEF PathsInv, UdpTypeOK, Batch
  <2>4. NoClient \notin Clients
    BY DEF BoundsAssumption
  <2>5. /\ \A k \in DOMAIN pending : pending[k].from \subseteq {c}
        /\ \A h \in Ids : handles[h].from \subseteq {c}
    BY <2>1, <2>2, <2>3, <2>4
  <2> QED BY <1>2, <2>1, <2>5 DEF Owners
<1> QED BY <1>1, <1>2, <1>2 DEF BoundsAssumption

(* A datagram for a path that is listed keeps the invariant.               *)
LEMMA ReceiveOnPath ==
    ASSUME BoundsAssumption, PathsInv, NEW c \in Clients, NEW d \in Dests, Receive(c, d),
           KeyOf(c, d) \in DOMAIN paths
    PROVE  PathsInv'
<1> DEFINE k == KeyOf(c, d)
           h == paths[k]
           g == [handles EXCEPT ![h].sends = @ + 1]
<1>1. /\ handles' = [g EXCEPT ![h].from = @ \cup {c}] /\ AcceptUdpSender(c)
      /\ packets' = packets + 1 /\ packets < MaxPackets /\ ~stopped
      /\ UNCHANGED <<pending, routes, paths, stopped, forwarded>>
  BY DEF Receive, ProcessPacket
<1>2. k \in DOMAIN paths /\ h \in Ids /\ Handles(handles) /\ handles[h].key = k
  BY HandlesFacts DEF PathsInv, ListedUnderItsKey
<1>3. k \in Keys /\ (~PerAssociation => k[1] = c)
  BY KeysOwned
<1> HIDE DEF k, h
<1>4. /\ Handles(g) /\ OthersKept(handles, g, h)
      /\ g[h].key = k /\ g[h].opener = handles[h].opener /\ g[h].from = handles[h].from
      /\ g[h].closed = handles[h].closed /\ g[h].loop = handles[h].loop
  <2>1. handles[h].sends + 1 \in Nat
    BY <1>2, HandlesFacts
  <2> QED BY <1>2, <2>1, SetSends DEF Ids
<1> HIDE DEF g
<1>5. /\ Handles(handles') /\ OthersKept(handles, handles', h)
      /\ handles'[h].key = k /\ handles'[h].opener = handles[h].opener
      /\ handles'[h].from = handles[h].from \cup {c}
      /\ handles'[h].closed = handles[h].closed /\ handles'[h].loop = handles[h].loop
  <2> DEFINE x == g[h].from \cup {c}
  <2>1. x \in SUBSET Clients /\ h \in DOMAIN g /\ handles' = [g EXCEPT ![h].from = x]
    BY <1>1, <1>2, <1>4, HandlesFacts DEF OthersKept, Ids
  <2> HIDE DEF x
  <2>2. /\ Handles(handles') /\ OthersKept(g, handles', h)
        /\ handles'[h].key = g[h].key /\ handles'[h].opener = g[h].opener
        /\ handles'[h].from = x
        /\ handles'[h].closed = g[h].closed /\ handles'[h].loop = g[h].loop
    BY <1>4, <2>1, SetFrom DEF Handles, OthersKept
  <2> QED BY <1>4, <2>2 DEF OthersKept, x
<1>6. Ids' = Ids
  BY <1>5 DEF OthersKept, Ids
<1>7. Numbered' /\ OnePlacePerKey' /\ StoppedIsEmpty' /\ PathsBounded' /\ (RoutesThrow \/ PendingHasRoute')
  BY <1>1, <1>6 DEF PathsInv, Numbered, OnePlacePerKey, StoppedIsEmpty, PathsBounded, PendingHasRoute
<1>8. WaitingWasReceived'
  BY <1>1 DEF PathsInv, UdpTypeOK, Batch, WaitingWasReceived
<1>9. UdpTypeOK'
  <2>1. /\ packets' \in 0 .. MaxPackets /\ client' \in Clients \cup {NoClient}
    BY <1>1, OwnersStay DEF PathsInv, UdpTypeOK, BoundsAssumption
  <2>2. Ids' = 1 .. Cardinality(Ids') /\ (\A i \in Ids' : handles'[i] \in Handle)
    BY <1>5, <1>6 DEF PathsInv, UdpTypeOK, Handles, Ids
  <2> QED BY <1>1, <1>6, <2>1, <2>2 DEF PathsInv, UdpTypeOK
<1>10. ListedUnderItsKey' /\ PathsAndLoopsAgree' /\ RepliesGoHome'
  <2>1. Ids' = Ids /\ \A i \in Ids : /\ handles'[i].key = handles[i].key
                                     /\ handles'[i].closed = handles[i].closed
                                     /\ handles'[i].loop = handles[i].loop
    BY <1>2, <1>5, <1>6 DEF OthersKept, Ids
  <2>2. ListedUnderItsKey'
    BY <1>1, <2>1, HandlesFacts DEF PathsInv, ListedUnderItsKey
  <2>3. PathsAndLoopsAgree'
    BY <1>1, <2>1 DEF PathsInv, PathsAndLoopsAgree, Listed
  <2> QED BY <1>1, <2>2, <2>3 DEF PathsInv, RepliesGoHome
<1>11. OneOwner'
  <2>1. \A i \in Ids : handles'[i].from \subseteq Owners(handles[i].key, client')
    <3>1. handles[h].from \cup {c} \subseteq Owners(k, client')
      BY <1>1, <1>2, <1>3, OwnersStay DEF Owners
    <3> QED BY <1>1, <1>2, <1>5, <3>1, OwnersStay DEF OthersKept, Ids
  <2>2. \A i \in Ids : handles'[i].key = handles[i].key /\ handles'[i].opener = handles[i].opener
    BY <1>2, <1>5 DEF OthersKept, Ids
  <2>3. \A i \in Ids' : handles'[i].from \subseteq Owners(handles'[i].key, client')
    BY <1>6, <2>1, <2>2 DEF Owners
  <2>4. \A j \in DOMAIN pending' : pending'[j].from \subseteq Owners(j, client')
    BY <1>1, OwnersStay
  <2> QED BY <1>1, <1>6, <2>2, <2>3, <2>4 DEF PathsInv, OneOwner, Owners
<1> QED BY <1>7, <1>8, <1>9, <1>10, <1>11 DEF PathsInv

\* A datagram that waits, starts a route or is dropped touches no path.
LEMMA PathsUntouched ==
    ASSUME PathsInv, UNCHANGED <<handles, paths, forwarded>>
    PROVE  /\ ListedUnderItsKey' /\ PathsAndLoopsAgree' /\ RepliesGoHome'
           /\ Ids' = 1 .. Cardinality(Ids') /\ (\A h \in Ids' : handles'[h] \in Handle)
           /\ DOMAIN paths' \subseteq Keys /\ (\A k \in DOMAIN paths' : paths'[k] \in Ids')
           /\ forwarded' \subseteq Clients \X Clients
           /\ Ids' = Ids
BY DEF PathsInv, UdpTypeOK, ListedUnderItsKey, PathsAndLoopsAgree, RepliesGoHome, Listed, Ids

(* A datagram that joins a batch which waits for its route keeps the       *)
(* invariant.                                                              *)
LEMMA ReceiveJoins ==
    ASSUME BoundsAssumption, PathsInv, NEW c \in Clients, NEW d \in Dests, Receive(c, d),
           KeyOf(c, d) \notin DOMAIN paths, KeyOf(c, d) \in DOMAIN pending
    PROVE  PathsInv'
<1> DEFINE k == KeyOf(c, d)
           b == [pending[k] EXCEPT !.n = @ + 1, !.from = @ \cup {c}]
<1>1. /\ pending' = [pending EXCEPT ![k] = b] /\ AcceptUdpSender(c)
      /\ packets' = packets + 1 /\ packets < MaxPackets /\ ~stopped
      /\ UNCHANGED <<handles, routes, paths, stopped, forwarded>>
  BY DEF Receive, ProcessPacket
<1>2. k \in Keys /\ (~PerAssociation => k[1] = c) /\ k \in DOMAIN pending
  BY KeysOwned
<1>3. pending[k] \in Batch /\ pending[k].n <= packets
  BY DEF PathsInv, UdpTypeOK, WaitingWasReceived
<1> HIDE DEF k
<1>4. b \in Batch /\ b.n = pending[k].n + 1 /\ b.from = pending[k].from \cup {c}
  <2>1. pending[k].n + 1 <= MaxPackets
    BY <1>1, <1>3 DEF Batch, PathsInv, UdpTypeOK, BoundsAssumption
  <2>2. b \in Batch
    BY <1>3, <2>1, BatchGrows
  <2>3. b.n = pending[k].n + 1 /\ b.from = pending[k].from \cup {c}
    BY <1>3 DEF Batch
  <2> QED BY <2>2, <2>3
<1> HIDE DEF b
<1>5. /\ DOMAIN pending' = DOMAIN pending /\ pending'[k] = b
      /\ \A j \in DOMAIN pending \ {k} : pending'[j] = pending[j]
  BY <1>1, <1>2
<1>6. Numbered' /\ OnePlacePerKey' /\ StoppedIsEmpty' /\ PathsBounded' /\ (RoutesThrow \/ PendingHasRoute')
  BY <1>1, <1>5, PathsUntouched DEF PathsInv, Numbered, OnePlacePerKey, StoppedIsEmpty, PathsBounded, PendingHasRoute
<1>7. WaitingWasReceived'
  BY <1>1, <1>3, <1>4, <1>5 DEF PathsInv, UdpTypeOK, Batch, WaitingWasReceived
<1>8. UdpTypeOK'
  <2>1. /\ packets' \in 0 .. MaxPackets /\ client' \in Clients \cup {NoClient}
    BY <1>1, OwnersStay DEF PathsInv, UdpTypeOK, BoundsAssumption
  <2>2. DOMAIN pending' \subseteq Keys /\ \A j \in DOMAIN pending' : pending'[j] \in Batch
    BY <1>4, <1>5 DEF PathsInv, UdpTypeOK
  <2> QED BY <1>1, <2>1, <2>2, PathsUntouched DEF PathsInv, UdpTypeOK
<1>9. OneOwner'
  <2>1. \A j \in DOMAIN pending' : pending'[j].from \subseteq Owners(j, client')
    BY <1>1, <1>2, <1>4, <1>5, OwnersStay DEF Owners
  <2>2. \A h \in Ids' : handles'[h].from \subseteq Owners(handles'[h].key, client')
    BY <1>1, PathsUntouched, OwnersStay
  <2> QED BY <1>1, <2>1, <2>2, PathsUntouched DEF PathsInv, OneOwner
<1> QED BY <1>1, <1>6, <1>7, <1>8, <1>9, PathsUntouched DEF PathsInv

(* A datagram that starts a route keeps the invariant: there is room for   *)
(* its path.                                                               *)
LEMMA ReceiveStarts ==
    ASSUME BoundsAssumption, PathsInv, NEW c \in Clients, NEW d \in Dests, Receive(c, d),
           KeyOf(c, d) \notin DOMAIN paths, KeyOf(c, d) \notin DOMAIN pending, ~Full
    PROVE  PathsInv'
<1> DEFINE k == KeyOf(c, d)
           b == [n |-> 1, from |-> {c}]
<1>1. /\ pending' = With(pending, k, b) /\ routes' = routes \cup {<<k, c>>}
      /\ AcceptUdpSender(c) /\ packets' = packets + 1 /\ packets < MaxPackets /\ ~stopped
      /\ UNCHANGED <<handles, paths, stopped, forwarded>>
  BY DEF Receive, ProcessPacket
<1>2. k \in Keys /\ (~PerAssociation => k[1] = c) /\ k \notin DOMAIN pending /\ k \notin DOMAIN paths
  BY KeysOwned
<1>3. packets \in Nat /\ MaxPackets \in Nat
  BY DEF PathsInv, UdpTypeOK, BoundsAssumption
<1>4. b \in Batch /\ b.n = 1 /\ b.from = {c}
  BY <1>1, <1>3 DEF Batch
<1> HIDE DEF k, b
<1>5. /\ DOMAIN pending' = DOMAIN pending \cup {k} /\ pending'[k] = b
      /\ \A j \in DOMAIN pending : pending'[j] = pending[j]
  BY <1>1, <1>2 DEF With
<1>6. Numbered' /\ OnePlacePerKey' /\ StoppedIsEmpty'
  BY <1>1, <1>2, <1>5, PathsUntouched, FS_AddElement DEF PathsInv, Numbered, OnePlacePerKey, StoppedIsEmpty
<1>7. PathsBounded'
  <2>1. Cardinality(DOMAIN pending') = Cardinality(DOMAIN pending) + 1
    BY <1>2, <1>5, FS_AddElement DEF PathsInv, Numbered
  <2>2. ASSUME PerAssociation
        PROVE  Cardinality(DOMAIN paths) + Cardinality(DOMAIN pending) < MaxPaths
    BY <2>2, CountsAreNat DEF PathsInv, Full, BoundsAssumption
  <2> QED BY <1>1, <2>1, <2>2, CountsAreNat DEF PathsInv, PathsBounded, BoundsAssumption
<1>8. WaitingWasReceived'
  BY <1>1, <1>3, <1>4, <1>5 DEF PathsInv, UdpTypeOK, Batch, WaitingWasReceived
<1>9. UdpTypeOK'
  <2>1. /\ packets' \in 0 .. MaxPackets /\ client' \in Clients \cup {NoClient}
    BY <1>1, <1>3, OwnersStay DEF PathsInv, UdpTypeOK
  <2>2. DOMAIN pending' \subseteq Keys /\ \A j \in DOMAIN pending' : pending'[j] \in Batch
    BY <1>2, <1>4, <1>5 DEF PathsInv, UdpTypeOK
  <2>3. routes' \subseteq Keys \X Clients
    BY <1>1, <1>2 DEF PathsInv, UdpTypeOK
  <2> QED BY <1>1, <2>1, <2>2, <2>3, PathsUntouched DEF PathsInv, UdpTypeOK
<1>10. OneOwner'
  <2>1. \A j \in DOMAIN pending' : pending'[j].from \subseteq Owners(j, client')
    BY <1>1, <1>2, <1>4, <1>5, OwnersStay DEF Owners
  <2>2. \A h \in Ids' : handles'[h].from \subseteq Owners(handles'[h].key, client')
    BY <1>1, PathsUntouched, OwnersStay
  <2>3. ~PerAssociation => \A r \in routes' : r[2] = r[1][1]
    BY <1>1, <1>2 DEF PathsInv, OneOwner
  <2> QED BY <1>1, <2>1, <2>2, <2>3, PathsUntouched DEF PathsInv, OneOwner
<1>11. RoutesThrow \/ PendingHasRoute'
  BY <1>1, <1>5 DEF PathsInv, PendingHasRoute
<1> QED BY <1>6, <1>7, <1>8, <1>9, <1>10, <1>11, <1>1, PathsUntouched DEF PathsInv

(* Every datagram from a client keeps the invariant.                       *)
LEMMA ReceiveOK ==
    ASSUME BoundsAssumption, PathsInv, NEW c \in Clients, NEW d \in Dests, Receive(c, d)
    PROVE  PathsInv'
<1>1. CASE KeyOf(c, d) \in DOMAIN paths
  BY <1>1, ReceiveOnPath
<1>2. CASE KeyOf(c, d) \notin DOMAIN paths /\ KeyOf(c, d) \in DOMAIN pending
  BY <1>2, ReceiveJoins
<1>3. CASE KeyOf(c, d) \notin DOMAIN paths /\ KeyOf(c, d) \notin DOMAIN pending /\ ~Full
  BY <1>3, ReceiveStarts
<1>4. CASE KeyOf(c, d) \notin DOMAIN paths /\ KeyOf(c, d) \notin DOMAIN pending /\ Full
  <2>1. /\ UNCHANGED <<pending, routes, handles, paths, stopped, forwarded>>
        /\ AcceptUdpSender(c) /\ packets' = packets + 1 /\ packets < MaxPackets
    BY <1>4 DEF Receive, ProcessPacket
  <2>2. /\ Numbered' /\ OnePlacePerKey' /\ StoppedIsEmpty' /\ PathsBounded'
        /\ RoutesThrow \/ PendingHasRoute'
    BY <2>1, PathsUntouched DEF PathsInv, Numbered, OnePlacePerKey, StoppedIsEmpty, PathsBounded, PendingHasRoute
  <2>3. WaitingWasReceived'
    BY <2>1 DEF PathsInv, UdpTypeOK, Batch, WaitingWasReceived
  <2>4. UdpTypeOK'
    <3>1. /\ packets' \in 0 .. MaxPackets /\ client' \in Clients \cup {NoClient}
      BY <2>1, OwnersStay DEF PathsInv, UdpTypeOK, BoundsAssumption
    <3> QED BY <2>1, <3>1, PathsUntouched DEF PathsInv, UdpTypeOK
  <2>5. OneOwner'
    BY <2>1, PathsUntouched, OwnersStay DEF PathsInv, OneOwner
  <2> QED BY <2>1, <2>2, <2>3, <2>4, <2>5, PathsUntouched DEF PathsInv
<1> QED BY <1>1, <1>2, <1>3, <1>4

\* A route that ends without a path: what waited is dropped, or nothing is.
LEMMA RouteEnds ==
    ASSUME BoundsAssumption, PathsInv, NEW r \in routes, routes' = routes \ {r},
           UNCHANGED <<stopped, client, packets, forwarded, paths, handles>>,
           \/ UNCHANGED pending /\ (stopped \/ RoutesThrow \/ r[1] \notin DOMAIN pending)
           \/ pending' = Without(pending, r[1])
    PROVE  PathsInv'
<1>1. /\ DOMAIN pending' \subseteq DOMAIN pending
      /\ \A k \in DOMAIN pending' : pending'[k] = pending[k]
      /\ stopped \/ RoutesThrow \/ r[1] \notin DOMAIN pending'
  BY DEF Without
<1>2. Numbered' /\ Cardinality(DOMAIN pending') <= Cardinality(DOMAIN pending) /\ Cardinality(DOMAIN pending') \in Nat
  BY <1>1, PathsUntouched, FewerKeys DEF PathsInv, Numbered
<1>3. OnePlacePerKey' /\ StoppedIsEmpty' /\ WaitingWasReceived'
  BY <1>1 DEF PathsInv, OnePlacePerKey, StoppedIsEmpty, WaitingWasReceived
<1>4. PathsBounded'
  BY <1>2, CountsAreNat DEF PathsInv, PathsBounded, BoundsAssumption
<1>5. UdpTypeOK'
  BY <1>1, PathsUntouched DEF PathsInv, UdpTypeOK
<1>6. OneOwner'
  BY <1>1, PathsUntouched DEF PathsInv, OneOwner
<1>7. RoutesThrow \/ PendingHasRoute'
  <2>1. ASSUME ~RoutesThrow, NEW k \in DOMAIN pending' PROVE \E c \in Clients : <<k, c>> \in routes'
    <3>1. PICK c \in Clients : <<k, c>> \in routes
      BY <1>1, <2>1 DEF PathsInv, PendingHasRoute
    <3>2. ~stopped
      BY <1>1, <2>1 DEF PathsInv, StoppedIsEmpty
    <3>3. k # r[1]
      BY <1>1, <2>1, <3>2
    <3> QED BY <3>1, <3>3
  <2> QED BY <2>1 DEF PendingHasRoute
<1> QED BY <1>2, <1>3, <1>4, <1>5, <1>6, <1>7, PathsUntouched DEF PathsInv

(* A route that opens lists the path its batch waited for; the invariant   *)
(* is kept.                                                                *)
LEMMA RouteOpensOK ==
    ASSUME BoundsAssumption, PathsInv, NEW r \in routes, routes' = routes \ {r}, RouteOpens(r),
           UNCHANGED <<stopped, client, packets, forwarded>>, ~stopped, r[1] \in DOMAIN pending
    PROVE  PathsInv'
<1> DEFINE k == r[1]
           h == Cardinality(Ids) + 1
           x == [key |-> k, opener |-> r[2], from |-> pending[k].from,
                 closed |-> FALSE, loop |-> "runs", sends |-> pending[k].n]
<1>1. /\ handles' = With(handles, h, x) /\ paths' = With(paths, k, h)
      /\ pending' = Without(pending, k) /\ Cardinality(Ids) < MaxHandles
  BY DEF RouteOpens
<1>2. k \in Keys /\ r[2] \in Clients /\ k \in DOMAIN pending /\ k \notin DOMAIN paths /\ r = <<k, r[2]>>
  BY DEF PathsInv, UdpTypeOK, OnePlacePerKey
<1>3. PICK n \in 0 .. MaxHandles : Ids = 1 .. n
  BY DEF PathsInv, Numbered
<1>4. Cardinality(Ids) = n /\ n \in Nat /\ h = n + 1 /\ h \in Nat
  BY <1>3, NextHandle DEF BoundsAssumption
<1>5. pending[k] \in Batch /\ pending[k].from \subseteq Owners(k, client)
  BY <1>2 DEF PathsInv, UdpTypeOK, OneOwner
<1>6. /\ x \in Handle /\ x.key = k /\ x.opener = r[2] /\ x.from = pending[k].from
      /\ x.closed = FALSE /\ x.loop = "runs"
  BY <1>2, <1>5 DEF Batch, Handle
<1> HIDE DEF h, x, k
<1>7. /\ Ids' = 1 .. h /\ Cardinality(Ids') = h /\ h \notin Ids /\ h \in 0 .. MaxHandles
      /\ Ids' = Ids \cup {h}
  <2>1. Ids' = Ids \cup {h}
    BY <1>1 DEF With, Ids
  <2>2. Ids' = 1 .. h /\ h \notin Ids
    BY <1>3, <1>4, <2>1
  <2>3. Cardinality(Ids') = h
    <3>1. h \in Int /\ 1 \in Int /\ ~(1 > h) /\ h - 1 + 1 = h
      BY <1>4
    <3>2. Cardinality(1 .. h) = h
      BY ONLY <3>1, FS_Interval
    <3> QED BY <2>2, <3>2
  <2> QED BY <1>1, <1>4, <2>1, <2>2, <2>3 DEF BoundsAssumption
<1>8. handles'[h] = x /\ \A i \in Ids : handles'[i] = handles[i]
  BY <1>1, <1>7 DEF With, Ids
<1>9. /\ DOMAIN paths' = DOMAIN paths \cup {k} /\ paths'[k] = h
      /\ \A j \in DOMAIN paths : paths'[j] = paths[j]
  BY <1>1, <1>2 DEF With
<1>10. DOMAIN pending' = DOMAIN pending \ {k} /\ \A j \in DOMAIN pending' : pending'[j] = pending[j]
  BY <1>1 DEF Without
<1>11. Numbered'
  BY <1>7, <1>9, <1>10, FS_AddElement, FS_RemoveElement DEF PathsInv, Numbered
<1>12. OnePlacePerKey' /\ StoppedIsEmpty' /\ WaitingWasReceived'
  BY <1>9, <1>10 DEF PathsInv, OnePlacePerKey, StoppedIsEmpty, WaitingWasReceived
<1>13. PathsBounded'
  <2>1. Cardinality(DOMAIN paths') = Cardinality(DOMAIN paths) + 1
    BY <1>2, <1>9, FS_AddElement DEF PathsInv, Numbered
  <2>2. Cardinality(DOMAIN pending') = Cardinality(DOMAIN pending) - 1
    BY <1>2, <1>10, FS_RemoveElement DEF PathsInv, Numbered
  <2> QED BY <2>1, <2>2, CountsAreNat DEF PathsInv, PathsBounded, BoundsAssumption
<1>14. UdpTypeOK'
  <2>1. \A i \in Ids' : handles'[i] \in Handle
    BY <1>6, <1>7, <1>8 DEF PathsInv, UdpTypeOK
  <2>2. DOMAIN paths' \subseteq Keys /\ (\A j \in DOMAIN paths' : paths'[j] \in Ids')
    BY <1>2, <1>7, <1>9 DEF PathsInv, UdpTypeOK
  <2>3. DOMAIN pending' \subseteq Keys /\ (\A j \in DOMAIN pending' : pending'[j] \in Batch)
    BY <1>10 DEF PathsInv, UdpTypeOK
  <2> QED BY <1>7, <2>1, <2>2, <2>3 DEF PathsInv, UdpTypeOK
<1>15. ListedUnderItsKey'
  BY <1>6, <1>8, <1>9, HandlesFacts DEF PathsInv, ListedUnderItsKey
<1>16. PathsAndLoopsAgree'
  <2>1. \A i \in Ids : Listed(i)' <=> Listed(i)
    BY <1>2, <1>7, <1>9 DEF Listed
  <2>2. \E j \in DOMAIN paths' : paths'[j] = h
    BY <1>9
  <2>3. \A i \in Ids' : Listed(i)' <=> (handles'[i].loop # "over" /\ ~handles'[i].closed)
    <3>1. \A i \in Ids : Listed(i)' <=> (handles'[i].loop # "over" /\ ~handles'[i].closed)
      BY <1>8, <2>1 DEF PathsInv, PathsAndLoopsAgree
    <3>2. \A i : i = h => (Listed(i)' <=> (handles'[i].loop # "over" /\ ~handles'[i].closed))
      BY <1>6, <1>8, <2>2 DEF Listed
    <3> QED BY <1>7, <3>1, <3>2
  <2> QED BY <2>3 DEF PathsAndLoopsAgree
<1>17. OneOwner'
  <2>1. ~PerAssociation => r[2] = k[1]
    BY DEF PathsInv, OneOwner, k
  <2>2. \A i \in Ids' : handles'[i].from \subseteq Owners(handles'[i].key, client')
    BY <1>5, <1>6, <1>7, <1>8 DEF PathsInv, OneOwner
  <2>3. ~PerAssociation => \A i \in Ids' : handles'[i].opener = handles'[i].key[1]
    BY <1>6, <1>7, <1>8, <2>1 DEF PathsInv, OneOwner
  <2>4. \A j \in DOMAIN pending' : pending'[j].from \subseteq Owners(j, client')
    BY <1>10 DEF PathsInv, OneOwner
  <2> QED BY <2>2, <2>3, <2>4 DEF PathsInv, OneOwner
<1>18. RepliesGoHome' /\ (RoutesThrow \/ PendingHasRoute')
  <2>1. ASSUME ~RoutesThrow, NEW j \in DOMAIN pending' PROVE \E c \in Clients : <<j, c>> \in routes'
    <3>1. PICK c \in Clients : <<j, c>> \in routes
      BY <1>10, <2>1 DEF PathsInv, PendingHasRoute
    <3> QED BY <1>2, <1>10, <3>1
  <2> QED BY <2>1 DEF PathsInv, RepliesGoHome, PendingHasRoute
<1> QED BY <1>11, <1>12, <1>13, <1>14, <1>15, <1>16, <1>17, <1>18 DEF PathsInv

(* The end of a route keeps the invariant: opened, failed, thrown or too   *)
(* late.                                                                   *)
LEMMA RouteOK ==
    ASSUME BoundsAssumption, PathsInv, NEW r \in routes, Route(r)
    PROVE  PathsInv'
<1>1. routes' = routes \ {r} /\ UNCHANGED <<stopped, client, packets, forwarded>>
  BY DEF Route
<1>2. CASE RouteOpens(r) /\ ~stopped /\ r[1] \in DOMAIN pending
  BY <1>1, <1>2, RouteOpensOK
<1>3. CASE RouteOpens(r) /\ (stopped \/ r[1] \notin DOMAIN pending)
  <2>1. UNCHANGED <<pending, paths, handles>>
    BY <1>3 DEF RouteOpens
  <2> QED BY <1>1, <1>3, <2>1, RouteEnds
<1>4. CASE RouteFails(r)
  <2>1. /\ UNCHANGED <<paths, handles>>
        /\ (UNCHANGED pending /\ stopped) \/ pending' = Without(pending, r[1])
    BY <1>4 DEF RouteFails
  <2> QED BY <1>1, <2>1, RouteEnds
<1>5. CASE RouteThrows(r)
  <2>1. UNCHANGED <<pending, paths, handles>> /\ RoutesThrow
    BY <1>5 DEF RouteThrows
  <2> QED BY <1>1, <2>1, RouteEnds
<1> QED BY <1>2, <1>3, <1>4, <1>5 DEF Route

\* A step of one handle: its path stays listed, or is taken out of the table
\* together with its loop or its handle.
LEMMA HandleStep ==
    ASSUME BoundsAssumption, PathsInv, NEW h \in Ids,
           Handles(handles'), OthersKept(handles, handles', h),
           handles'[h].key = handles[h].key, handles'[h].opener = handles[h].opener,
           handles'[h].from = handles[h].from,
           UNCHANGED <<stopped, client, packets, pending, routes, forwarded>>,
           \/ UNCHANGED paths /\ (Listed(h) <=> (handles'[h].loop # "over" /\ ~handles'[h].closed))
           \/ Unlist(h) /\ ~(handles'[h].loop # "over" /\ ~handles'[h].closed)
    PROVE  PathsInv'
<1>1. Ids' = Ids /\ \A i \in Ids : /\ handles'[i].key = handles[i].key
                                   /\ handles'[i].opener = handles[i].opener
                                   /\ handles'[i].from = handles[i].from
                                   /\ handles'[i] = handles[i] \/ i = h
  BY DEF OthersKept, Ids
<1>2. /\ DOMAIN paths' \subseteq DOMAIN paths
      /\ \A k \in DOMAIN paths' : paths'[k] = paths[k]
      /\ \A k \in DOMAIN paths \ DOMAIN paths' : paths[k] = h
  BY DEF Unlist
<1>3. Numbered' /\ Cardinality(DOMAIN paths') <= Cardinality(DOMAIN paths) /\ Cardinality(DOMAIN paths') \in Nat
  BY <1>1, <1>2, FewerKeys DEF PathsInv, Numbered
<1>4. PathsBounded'
  BY <1>3, CountsAreNat DEF PathsInv, PathsBounded, BoundsAssumption
<1>5. OnePlacePerKey' /\ ListedUnderItsKey' /\ StoppedIsEmpty' /\ WaitingWasReceived'
  <2>1. OnePlacePerKey' /\ StoppedIsEmpty' /\ WaitingWasReceived'
    BY <1>2 DEF PathsInv, OnePlacePerKey, StoppedIsEmpty, WaitingWasReceived
  <2>2. \A k \in DOMAIN paths' : paths'[k] \in Ids /\ handles[paths'[k]].key = k
    BY <1>2, HandlesFacts DEF PathsInv, ListedUnderItsKey
  <2>3. ListedUnderItsKey'
    BY <1>1, <2>2 DEF ListedUnderItsKey
  <2> QED BY <2>1, <2>3
<1>6. UdpTypeOK'
  <2>1. \A i \in Ids' : handles'[i] \in Handle
    BY <1>1 DEF Handles, Ids
  <2> QED BY <1>1, <1>2, <2>1 DEF PathsInv, UdpTypeOK
<1>7. OneOwner' /\ RepliesGoHome' /\ (RoutesThrow \/ PendingHasRoute')
  BY <1>1 DEF PathsInv, OneOwner, RepliesGoHome, PendingHasRoute
<1>8. PathsAndLoopsAgree'
  <2>1. \A i \in Ids : i # h => (Listed(i)' <=> Listed(i))
    BY <1>2 DEF Listed
  <2>2. (\E k \in DOMAIN paths' : paths'[k] = h) <=> (handles'[h].loop # "over" /\ ~handles'[h].closed)
    BY DEF Unlist, Listed
  <2>3. ASSUME NEW i \in Ids' PROVE Listed(i)' <=> (handles'[i].loop # "over" /\ ~handles'[i].closed)
    BY <1>1, <2>1, <2>2 DEF PathsInv, PathsAndLoopsAgree, Listed
  <2> QED BY <2>3 DEF PathsAndLoopsAgree
<1> QED BY <1>3, <1>4, <1>5, <1>6, <1>7, <1>8 DEF PathsInv

(* A datagram that was sent keeps the invariant.                           *)
LEMMA SentOK ==
    ASSUME BoundsAssumption, PathsInv, NEW h \in Ids, Sent(h)
    PROVE  PathsInv'
<1>1. /\ handles' = [handles EXCEPT ![h].sends = @ - 1] /\ handles[h].sends > 0
      /\ UNCHANGED <<stopped, client, packets, pending, routes, paths, forwarded>>
  BY DEF Sent
<1>2. handles[h].sends - 1 \in Nat /\ Handles(handles)
  BY <1>1, HandlesFacts
<1>3. /\ Handles(handles') /\ OthersKept(handles, handles', h)
      /\ handles'[h].key = handles[h].key /\ handles'[h].opener = handles[h].opener
      /\ handles'[h].from = handles[h].from
      /\ handles'[h].loop = handles[h].loop /\ handles'[h].closed = handles[h].closed
  BY <1>1, <1>2, SetSends DEF Handles, OthersKept, Ids
<1> QED BY <1>1, <1>3, HandleStep DEF PathsInv, PathsAndLoopsAgree

(* A send that fails, perhaps on a path that was replaced, keeps the       *)
(* invariant.                                                              *)
LEMMA SendFailsOK ==
    ASSUME BoundsAssumption, PathsInv, NEW h \in Ids, SendFails(h)
    PROVE  PathsInv'
<1> DEFINE g == [handles EXCEPT ![h].sends = @ - 1]
<1>1. /\ handles[h].sends > 0
      /\ UNCHANGED <<stopped, client, packets, pending, routes, forwarded>>
  BY DEF SendFails
<1>2. handles[h].sends - 1 \in Nat /\ Handles(handles)
  BY <1>1, HandlesFacts
<1>3. /\ Handles(g) /\ OthersKept(handles, g, h)
      /\ g[h].key = handles[h].key /\ g[h].opener = handles[h].opener
      /\ g[h].from = handles[h].from
      /\ g[h].loop = handles[h].loop /\ g[h].closed = handles[h].closed
  BY <1>2, SetSends DEF Ids
<1>4. CASE stopped \/ ~Listed(h)
  <2>1. handles' = g /\ UNCHANGED paths
    BY <1>4 DEF SendFails
  <2> HIDE DEF g
  <2>2. Listed(h) <=> (handles'[h].loop # "over" /\ ~handles'[h].closed)
    BY <1>3, <2>1 DEF PathsInv, PathsAndLoopsAgree
  <2>3. /\ Handles(handles') /\ OthersKept(handles, handles', h)
        /\ handles'[h].key = handles[h].key /\ handles'[h].opener = handles[h].opener
        /\ handles'[h].from = handles[h].from
    BY <1>3, <2>1 DEF Handles, OthersKept
  <2> QED BY <1>1, <2>1, <2>2, <2>3, HandleStep
<1>5. CASE ~stopped /\ Listed(h)
  <2> DEFINE x == TRUE
  <2>1. handles' = [g EXCEPT ![h].closed = x] /\ Unlist(h) /\ x \in BOOLEAN
    BY <1>5 DEF SendFails
  <2> HIDE DEF g, x
  <2>2. h \in DOMAIN g
    BY <1>3 DEF OthersKept, Ids
  <2>3. /\ Handles(handles') /\ OthersKept(g, handles', h)
        /\ handles'[h].key = g[h].key /\ handles'[h].opener = g[h].opener
        /\ handles'[h].from = g[h].from /\ handles'[h].closed = x
    BY <1>3, <2>1, <2>2, SetClosed DEF Handles, OthersKept
  <2>4. OthersKept(handles, handles', h)
    BY <1>3, <2>3 DEF OthersKept
  <2> QED BY <1>1, <1>3, <2>1, <2>3, <2>4, HandleStep DEF x
<1> QED BY <1>4, <1>5

\* A reply goes to the client in the key, or to the pinned one, who is the
\* one whose datagrams the path carries.
LEMMA ReplyOK ==
    ASSUME BoundsAssumption, PathsInv, NEW h \in Ids, Reply(h)
    PROVE  PathsInv'
<1> DEFINE to == IF PerAssociation THEN client ELSE handles[h].opener
<1>1. /\ forwarded' = forwarded \cup ({to} \X handles[h].from)
      /\ UNCHANGED <<stopped, client, packets, pending, routes, paths, handles>>
  BY DEF Reply
<1>2. handles[h].from \subseteq {to} /\ handles[h].from \subseteq Clients
  BY HandlesFacts DEF PathsInv, OneOwner, Owners
<1> HIDE DEF to
<1>3. \A r \in forwarded' \ forwarded : r[1] = r[2] /\ r \in Clients \X Clients
  BY <1>1, <1>2
<1>4. UdpTypeOK' /\ RepliesGoHome'
  BY <1>1, <1>3 DEF PathsInv, UdpTypeOK, RepliesGoHome, Ids
<1>5. /\ Numbered' /\ OnePlacePerKey' /\ ListedUnderItsKey' /\ StoppedIsEmpty'
      /\ WaitingWasReceived' /\ OneOwner' /\ PathsAndLoopsAgree' /\ PathsBounded'
      /\ RoutesThrow \/ PendingHasRoute'
  BY <1>1 DEF PathsInv, Numbered, OnePlacePerKey, ListedUnderItsKey, StoppedIsEmpty,
     WaitingWasReceived, OneOwner, PathsAndLoopsAgree, PathsBounded, PendingHasRoute, Ids, Listed
<1> QED BY <1>4, <1>5 DEF PathsInv

(* A response loop that ends with operation_aborted keeps the invariant.   *)
LEMMA ReceiveAbortedOK ==
    ASSUME BoundsAssumption, PathsInv, NEW h \in Ids, ReceiveAborted(h)
    PROVE  PathsInv'
<1> DEFINE x == IF handles[h].closed THEN "over" ELSE "cut"
<1>1. /\ handles' = [handles EXCEPT ![h].loop = x] /\ x \in {"runs", "cut", "over"}
      /\ handles[h].loop = "runs" /\ (handles[h].closed <=> x = "over")
      /\ Handles(handles) /\ h \in DOMAIN handles
  BY HandlesFacts DEF ReceiveAborted, Ids
<1> HIDE DEF x
<1>2. /\ Handles(handles') /\ OthersKept(handles, handles', h)
      /\ handles'[h].key = handles[h].key /\ handles'[h].opener = handles[h].opener
      /\ handles'[h].from = handles[h].from
      /\ handles'[h].loop = x /\ handles'[h].closed = handles[h].closed
  BY <1>1, SetLoop DEF Handles, OthersKept
<1>3. UNCHANGED <<stopped, client, packets, pending, routes, paths, forwarded>>
  BY DEF ReceiveAborted
<1>4. Listed(h) <=> (handles'[h].loop # "over" /\ ~handles'[h].closed)
  BY <1>1, <1>2, <1>3 DEF PathsInv, PathsAndLoopsAgree
<1> QED BY <1>2, <1>3, <1>4, HandleStep

(* A response loop that fails keeps the invariant.                         *)
LEMMA ReceiveFailsOK ==
    ASSUME BoundsAssumption, PathsInv, NEW h \in Ids, ReceiveFails(h)
    PROVE  PathsInv'
<1> DEFINE x == "over"
           y == handles[h].closed \/ (~PerAssociation /\ ~stopped /\ Listed(h))
           g == [handles EXCEPT ![h].loop = x]
<1>1. /\ handles' = [g EXCEPT ![h].closed = y] /\ x \in {"runs", "cut", "over"} /\ y \in BOOLEAN
      /\ Handles(handles) /\ h \in DOMAIN handles /\ g = [handles EXCEPT ![h].loop = x]
  BY HandlesFacts DEF ReceiveFails, Ids
<1> HIDE DEF x, y, g
<1>2. /\ Handles(g) /\ OthersKept(handles, g, h)
      /\ g[h].key = handles[h].key /\ g[h].opener = handles[h].opener
      /\ g[h].from = handles[h].from /\ g[h].loop = x
  BY <1>1, SetLoop DEF Handles, OthersKept
<1>3. h \in DOMAIN g
  BY <1>1, <1>2 DEF OthersKept
<1>4. /\ Handles(handles') /\ OthersKept(g, handles', h)
      /\ handles'[h].key = g[h].key /\ handles'[h].opener = g[h].opener
      /\ handles'[h].from = g[h].from /\ handles'[h].loop = g[h].loop
  <2>1. handles' = [g EXCEPT ![h].closed = y] /\ y \in BOOLEAN /\ Handles(g)
    BY <1>1, <1>2
  <2>2. /\ Handles(handles') /\ OthersKept(g, handles', h)
        /\ handles'[h].sends = g[h].sends /\ handles'[h].key = g[h].key
        /\ handles'[h].opener = g[h].opener /\ handles'[h].from = g[h].from
        /\ handles'[h].closed = y /\ handles'[h].loop = g[h].loop
    BY <1>3, <2>1, SetClosed DEF Handles, OthersKept
  <2> QED BY <2>2
<1>5. OthersKept(handles, handles', h)
  BY <1>2, <1>4 DEF OthersKept
<1>6. /\ handles[h].loop # "over" /\ ~handles[h].closed
      /\ UNCHANGED <<stopped, client, packets, pending, routes, forwarded>>
      /\ IF stopped THEN UNCHANGED paths ELSE Unlist(h)
  BY DEF ReceiveFails
<1>7. Unlist(h)
  BY <1>6 DEF PathsInv, PathsAndLoopsAgree, StoppedIsEmpty, Listed
<1> QED BY <1>2, <1>4, <1>5, <1>6, <1>7, HandleStep DEF x

(* stop() keeps the invariant: every path is closed and nothing waits.     *)
LEMMA StopOK ==
    ASSUME BoundsAssumption, PathsInv, StopUdp
    PROVE  PathsInv'
<1>1. /\ stopped' /\ DOMAIN paths' = {} /\ DOMAIN pending' = {}
      /\ handles' = [h \in Ids |-> [handles[h] EXCEPT !.closed = @ \/ Listed(h)]]
      /\ UNCHANGED <<client, packets, routes, forwarded>>
  BY DEF StopUdp
<1>2. Ids' = Ids /\ \A h \in Ids : /\ handles'[h] \in Handle
                                   /\ handles'[h].key = handles[h].key
                                   /\ handles'[h].opener = handles[h].opener
                                   /\ handles'[h].from = handles[h].from
                                   /\ handles'[h].loop = handles[h].loop
                                   /\ handles'[h].closed = (handles[h].closed \/ Listed(h))
  <2>1. Ids' = Ids
    BY <1>1 DEF Ids
  <2>2. ASSUME NEW h \in Ids
        PROVE  /\ handles'[h] \in Handle
               /\ handles'[h].key = handles[h].key
               /\ handles'[h].opener = handles[h].opener
               /\ handles'[h].from = handles[h].from
               /\ handles'[h].loop = handles[h].loop
               /\ handles'[h].closed = (handles[h].closed \/ Listed(h))
    <3> DEFINE y == handles[h].closed \/ Listed(h)
    <3>1. handles'[h] = [handles[h] EXCEPT !.closed = y] /\ y \in BOOLEAN /\ handles[h] \in Handle
      BY <1>1, HandlesFacts DEF Handles, Ids
    <3> HIDE DEF y
    <3>2. /\ handles'[h] \in Handle
          /\ handles'[h].key = handles[h].key
          /\ handles'[h].opener = handles[h].opener
          /\ handles'[h].from = handles[h].from
          /\ handles'[h].loop = handles[h].loop
          /\ handles'[h].closed = y
      BY <3>1 DEF Handle
    <3> QED BY <3>2 DEF y
  <2> QED BY <2>1, <2>2
<1>3. Cardinality({}) = 0 /\ IsFiniteSet({})
  BY FS_EmptySet
<1>4. Numbered' /\ PathsBounded'
  BY <1>1, <1>2, <1>3 DEF PathsInv, Numbered, PathsBounded, BoundsAssumption
<1>5. OnePlacePerKey' /\ ListedUnderItsKey' /\ StoppedIsEmpty' /\ WaitingWasReceived' /\ PendingHasRoute'
  BY <1>1 DEF OnePlacePerKey, ListedUnderItsKey, StoppedIsEmpty, WaitingWasReceived, PendingHasRoute
<1>6. UdpTypeOK'
  <2>1. stopped' \in BOOLEAN
    BY DEF StopUdp
  <2> QED BY <1>1, <1>2, <2>1 DEF PathsInv, UdpTypeOK
<1>7. OneOwner' /\ RepliesGoHome'
  BY <1>1, <1>2 DEF PathsInv, OneOwner, RepliesGoHome
<1>8. PathsAndLoopsAgree'
  <2>1. ASSUME NEW h \in Ids PROVE ~Listed(h)' /\ ~(handles'[h].loop # "over" /\ ~handles'[h].closed)
    BY <1>1, <1>2, ZenonT(30) DEF PathsInv, PathsAndLoopsAgree, Listed
  <2> QED BY <1>2, <2>1 DEF PathsAndLoopsAgree
<1> QED BY <1>4, <1>5, <1>6, <1>7, <1>8 DEF PathsInv

(* Every step keeps the invariant.                                         *)
LEMMA PathsNextOK == BoundsAssumption /\ PathsInv /\ [UdpNext]_udpVars => PathsInv'
<1> SUFFICES ASSUME BoundsAssumption, PathsInv, [UdpNext]_udpVars PROVE PathsInv'
  OBVIOUS
<1>1. ASSUME NEW c \in Clients, NEW d \in Dests, Receive(c, d) PROVE PathsInv'
  BY <1>1, ReceiveOK
<1>2. ASSUME NEW r \in routes, Route(r) PROVE PathsInv'
  BY <1>2, RouteOK
<1>3. ASSUME NEW h \in Ids, Sent(h) PROVE PathsInv'
  BY <1>3, SentOK
<1>4. ASSUME NEW h \in Ids, SendFails(h) PROVE PathsInv'
  BY <1>4, SendFailsOK
<1>5. ASSUME NEW h \in Ids, Reply(h) PROVE PathsInv'
  BY <1>5, ReplyOK
<1>6. ASSUME NEW h \in Ids, ReceiveAborted(h) PROVE PathsInv'
  BY <1>6, ReceiveAbortedOK
<1>7. ASSUME NEW h \in Ids, ReceiveFails(h) PROVE PathsInv'
  BY <1>7, ReceiveFailsOK
<1>8. StopUdp => PathsInv'
  BY StopOK
<1>9. ASSUME UNCHANGED udpVars PROVE PathsInv'
  BY <1>9 DEF udpVars, PathsInv, UdpTypeOK, Numbered, OnePlacePerKey, ListedUnderItsKey, StoppedIsEmpty,
     WaitingWasReceived, OneOwner, PathsAndLoopsAgree, PathsBounded, RepliesGoHome,
     PendingHasRoute, Ids, Listed
<1> QED BY <1>1, <1>2, <1>3, <1>4, <1>5, <1>6, <1>7, <1>8, <1>9 DEF UdpNext

(* The invariant always holds.                                             *)
LEMMA PathsInvariant == ASSUME BoundsAssumption PROVE UdpSpec => []PathsInv
<1>1. UdpInit => PathsInv
  BY PathsInitOK
<1>2. PathsInv /\ [UdpNext]_udpVars => PathsInv'
  BY PathsNextOK
<1> QED BY <1>1, <1>2, PTL DEF UdpSpec

(* Whatever datagrams arrive, routes do and paths meet: every listed path  *)
(* has its response loop and the other way round, an association keeps to  *)
(* its limit, a reply goes to the client whose datagrams the path carries, *)
(* and (unless a route may throw) what waits has a route under way.        *)
THEOREM SoundPaths == ASSUME BoundsAssumption PROVE UdpSpec => []PathsAreSound
<1>1. PathsInv => PathsAreSound
  BY DEF PathsInv, PathsAreSound
<1> QED BY <1>1, PathsInvariant, PTL

-----------------------------------------------------------------------------
(* Who takes a path out of the table. *)

\* A failure marks the handle whose path it removes.
LEMMA RemovalIsOwn ==
    ASSUME BoundsAssumption, PathsInv, [UdpNext]_udpVars, NEW k \in DOMAIN paths, k \notin DOMAIN paths'
    PROVE  stopped' \/ handles[paths[k]] # handles'[paths[k]]
<1>1. handles[paths[k]].loop # "over" /\ ~handles[paths[k]].closed /\ paths[k] \in Ids
  BY HandlesFacts DEF PathsInv, PathsAndLoopsAgree, Listed
<1>2. ASSUME NEW h \in Ids, SendFails(h) PROVE handles'[paths[k]].closed
  <2>1. /\ handles' = [handles EXCEPT ![h].sends = @ - 1, ![h].closed = TRUE]
        /\ Unlist(h)
    BY <1>2 DEF SendFails
  <2>2. paths[k] = h
    BY <2>1 DEF Unlist
  <2>3. handles[h] \in Handle /\ h \in DOMAIN handles
    BY HandlesFacts DEF Handles, Ids
  <2> QED BY <2>1, <2>2, <2>3 DEF Handle
<1>3. ASSUME NEW h \in Ids, ReceiveFails(h) PROVE handles'[paths[k]].loop = "over"
  <2>1. Unlist(h)
    BY <1>1, <1>3 DEF ReceiveFails, PathsInv, StoppedIsEmpty
  <2>2. paths[k] = h
    BY <2>1 DEF Unlist
  <2>3. handles[h] \in Handle /\ h \in DOMAIN handles
    BY HandlesFacts DEF Handles, Ids
  <2> QED BY <1>3, <2>2, <2>3 DEF ReceiveFails, Handle
<1>4. ASSUME NEW r \in routes, Route(r) PROVE FALSE
  BY <1>4 DEF Route, RouteOpens, RouteFails, RouteThrows, With
<1>5. StopUdp => stopped'
  BY DEF StopUdp
<1>6. CASE \/ \E c \in Clients, d \in Dests : Receive(c, d)
           \/ \E h \in Ids : Sent(h) \/ Reply(h) \/ ReceiveAborted(h)
           \/ UNCHANGED udpVars
  BY <1>6 DEF Receive, Sent, Reply, ReceiveAborted, udpVars
<1> QED BY <1>1, <1>2, <1>3, <1>4, <1>5, <1>6 DEF UdpNext

(* A path leaves the table by its own failure or by stop only: the failure *)
(* of a path that was replaced leaves its successor alone.                 *)
THEOREM OldPathsAreHarmless == ASSUME BoundsAssumption PROVE UdpSpec => OldPathsHarmless
<1> DEFINE own == \A k \in DOMAIN paths :
                    k \notin DOMAIN paths' =>
                       stopped' \/ handles[paths[k]] # handles'[paths[k]]
<1>1. PathsInv /\ [UdpNext]_udpVars => [own]_udpVars
  BY RemovalIsOwn
<1> QED BY <1>1, PathsInvariant, PTL DEF UdpSpec, OldPathsHarmless

(***************************************************************************)
(* HttpForward, for every number of requests and every set of kinds        *)
(* without "options+b": a body that OPTIONS * leaves unread is the one     *)
(* case in which the code parses a body as the next request.  ForwardInv   *)
(* is the inductive invariant.                                             *)
(***************************************************************************)

Live == awaited # "closed"

\* The requests whose head was parsed.
Parsed == IF req # 0 THEN req ELSE Len(replies)

\* One final response for each request before the one being handled; a relay
\* has begun with its own.
Progress ==
    /\ req \in 0 .. Len(asked)
    /\ awaited = "headers" => req = 0
    /\ awaited \notin {"headers", "answering", "closed"} => req # 0
    /\ awaited = "relay" => Len(replies) = req
    /\ awaited \notin {"relay", "closed"} /\ req # 0 => Len(replies) + 1 = req
    /\ Live => Parsed <= Len(asked)

\* A body follows its head, a head what was sent before it.
Follows(prev, t) == IF t.part = "body" THEN prev.part = "head" /\ prev.of = t.of
                                       ELSE t.of = prev.of + 1

\* What was not parsed yet: every request after the parsed ones, in order, its
\* head and then its body, after what is left of the parsed one.
InputInOrder ==
    /\ \A i \in 1 .. Len(input) : /\ input[i].of \in 1 .. Len(asked)
                                  /\ input[i].part = "body" => HasBody(asked[input[i].of].kind)
                                  /\ i > 1 => Follows(input[i - 1], input[i])
    /\ input # <<>> => input[Len(input)].of = Len(asked)
    /\ Live => /\ input = <<>> => Parsed = Len(asked)
               /\ input # <<>> => input[1].of = IF input[1].part = "body" THEN Parsed ELSE Parsed + 1

\* The body of the request being handled is still there: somebody will take it,
\* or the connection will not be used again.
BodyHasOwner ==
    (Live /\ input # <<>> /\ input[1].part = "body") =>
        \/ awaited = "answering" /\ ~answer.keep
        \/ awaited \in {"continuing", "opening", "exchange"} /\ bodied

\* The response being written is one.
AnswerIsOne == awaited = "answering" => answer.status # 0 /\ (req = 0 => ~answer.keep)

\* Before the target is opened nothing is registered.
NotYetOpen == awaited \in {"headers", "continuing", "closed"} => ~remote /\ connId = 0

ForwardInv ==
    /\ HttpTypeOK /\ Progress /\ InputInOrder /\ BodyHasOwner /\ AnswerIsOne /\ NotYetOpen
    /\ RepliesInOrder /\ BodyIsNoRequest /\ RegistryIsExact

-----------------------------------------------------------------------------
(* Facts about requests and tokens. *)

Token == [of : Requests, part : {"head", "body"}]
Statuses == {101, 200, 400, 403, 407, 502}
ReplyRecord == [to : 0 .. MaxRequests, status : Statuses, keep : BOOLEAN]

(* The invariant holds of a new session.                                   *)
LEMMA ForwardInitOK == KindsAssumption /\ HttpInit => ForwardInv
<1> SUFFICES ASSUME KindsAssumption, HttpInit PROVE ForwardInv
  OBVIOUS
<1>1. asked = <<>> /\ input = <<>> /\ replies = <<>> /\ Len(<<>>) = 0 /\ MaxRequests \in Nat
  BY DEF HttpInit, KindsAssumption
<1>2. HttpTypeOK
  <2>1. /\ asked \in Seq([kind : Kinds, keep : BOOLEAN])
        /\ input \in Seq([of : Requests, part : {"head", "body"}])
        /\ replies \in Seq([to : 0 .. MaxRequests, status : {101, 200, 400, 403, 407, 502},
                            keep : BOOLEAN])
    BY <1>1
  <2>2. answer \in [status : {0, 200, 400, 403, 407, 502}, keep : BOOLEAN]
    BY DEF HttpInit, NoAnswer
  <2>3. req \in 0 .. MaxRequests /\ connId \in 0 .. MaxRequests /\ ids \subseteq Requests
    BY <1>1 DEF HttpInit
  <2> QED BY <2>1, <2>2, <2>3 DEF HttpInit, HttpTypeOK
<1>3. Progress /\ InputInOrder /\ BodyHasOwner /\ AnswerIsOne /\ NotYetOpen
  BY <1>1 DEF HttpInit, Progress, InputInOrder, BodyHasOwner, AnswerIsOne, NotYetOpen, Parsed
<1>4. RepliesInOrder /\ BodyIsNoRequest /\ RegistryIsExact
  BY <1>1 DEF HttpInit, RepliesInOrder, Final, BodyIsNoRequest, RegistryIsExact
<1> QED BY <1>2, <1>3, <1>4 DEF ForwardInv

\* A step that moves the session and leaves what was sent and parsed alone.
LEMMA InputStays ==
    ASSUME ForwardInv, UNCHANGED <<asked, input>>, Live' => Live /\ Parsed' = Parsed
    PROVE  InputInOrder'
BY DEF ForwardInv, InputInOrder, HasBody, Follows

\* A reply to the request being handled is the next one.
LEMMA ReplyIsNext ==
    ASSUME ForwardInv, NEW status \in Statuses, NEW ka \in BOOLEAN,
           Replied(status, ka), awaited \notin {"headers", "relay", "closed"}
    PROVE  /\ RepliesInOrder' /\ Len(replies') = Len(replies) + 1
           /\ replies' \in Seq(ReplyRecord)
<1> DEFINE x == [to |-> req, status |-> status, keep |-> ka]
<1>1. x \in ReplyRecord /\ replies \in Seq(ReplyRecord) /\ replies' = Append(replies, x) /\ x.to = req
  BY DEF ForwardInv, HttpTypeOK, Replied, ReplyRecord, Statuses
<1> HIDE DEF x
<1>2. /\ replies' \in Seq(ReplyRecord) /\ Len(replies') = Len(replies) + 1 /\ Len(replies) \in Nat
      /\ \A i \in 1 .. Len(replies) : replies'[i] = replies[i]
      /\ replies'[Len(replies) + 1] = x
  BY <1>1
<1>3. req # 0 => req = Len(replies) + 1
  BY DEF ForwardInv, Progress
<1>4. RepliesInOrder'
  BY <1>1, <1>2, <1>3 DEF ForwardInv, RepliesInOrder, Final
<1> QED BY <1>2, <1>4

-----------------------------------------------------------------------------
(* The client. *)

(* The client's next request, pipelined or not, keeps the invariant.       *)
LEMMA ClientSendsOK ==
    ASSUME KindsAssumption, ForwardInv, NEW k \in Kinds, NEW ka \in BOOLEAN, ClientSends(k, ka)
    PROVE  ForwardInv'
<1> DEFINE r == Len(asked) + 1
           a == [kind |-> k, keep |-> ka]
           hd == [of |-> r, part |-> "head"]
           bd == [of |-> r, part |-> "body"]
           n == Len(input)
<1>1. /\ awaited # "closed" /\ Len(asked) < MaxRequests /\ asked' = Append(asked, a)
      /\ input' = input \o <<hd>> \o (IF HasBody(k) THEN <<bd>> ELSE <<>>)
      /\ UNCHANGED <<clientEnded, receiving, awaited, req, keep, reuse, bodied, answer, remote, ids,
                     connId, replies, misread>>
  BY DEF ClientSends
<1>2. /\ asked \in Seq([kind : Kinds, keep : BOOLEAN]) /\ input \in Seq(Token)
      /\ MaxRequests \in Nat /\ r \in Requests /\ n \in Nat /\ Len(asked) \in Nat
      /\ a \in [kind : Kinds, keep : BOOLEAN] /\ hd \in Token /\ bd \in Token
  BY <1>1 DEF ForwardInv, HttpTypeOK, Token, KindsAssumption, Requests
<1>3. /\ asked' \in Seq([kind : Kinds, keep : BOOLEAN]) /\ Len(asked') = r
      /\ \A i \in 1 .. Len(asked) : asked'[i] = asked[i]
      /\ asked'[r].kind = k
  <2> HIDE DEF a
  <2>1. /\ asked' \in Seq([kind : Kinds, keep : BOOLEAN]) /\ Len(asked') = r
        /\ \A i \in 1 .. Len(asked) : asked'[i] = asked[i]
        /\ asked'[r] = a
    BY <1>1, <1>2
  <2> QED BY <2>1 DEF a
<1>4. /\ input' \in Seq(Token)
      /\ Len(input') = IF HasBody(k) THEN n + 2 ELSE n + 1
      /\ \A i \in 1 .. n : input'[i] = input[i]
      /\ input'[n + 1] = hd /\ (HasBody(k) => input'[n + 2] = bd)
  <2> HIDE DEF hd, bd, r
  <2> QED BY <1>1, <1>2
<1>5. HttpTypeOK'
  BY <1>1, <1>3, <1>4 DEF ForwardInv, HttpTypeOK, Token
<1>6. Progress' /\ Parsed' = Parsed /\ Live' /\ Live
  BY <1>1, <1>2, <1>3 DEF ForwardInv, Progress, Parsed, Live
<1>7. InputInOrder'
  <2>1. \A i \in 1 .. n : /\ input[i].of \in 1 .. Len(asked) /\ asked'[input[i].of] = asked[input[i].of]
                          /\ input[i].part = "body" => HasBody(asked[input[i].of].kind)
    BY <1>3 DEF ForwardInv, InputInOrder
  <2>2. \A i \in 1 .. n : i > 1 => Follows(input[i - 1], input[i])
    BY DEF ForwardInv, InputInOrder
  <2>3. n > 0 => input[n].of = Len(asked)
    BY <1>2 DEF ForwardInv, InputInOrder
  <2>4. ASSUME NEW i \in 1 .. Len(input')
        PROVE  /\ input'[i].of \in 1 .. Len(asked')
               /\ input'[i].part = "body" => HasBody(asked'[input'[i].of].kind)
    <3>1. CASE i \in 1 .. n
      <4>1. input'[i] = input[i] /\ (input'[i].of \in 1 .. Len(asked'))
        BY <1>2, <1>3, <1>4, <2>1, <3>1
      <4> QED BY <2>1, <3>1, <4>1
    <3>2. CASE i = n + 1
      BY <1>2, <1>3, <1>4, <3>2
    <3>3. CASE i = n + 2 /\ HasBody(k)
      BY <1>2, <1>3, <1>4, <3>3
    <3> QED BY <1>2, <1>4, <3>1, <3>2, <3>3
  <2>5. ASSUME NEW i \in 1 .. Len(input'), i > 1 PROVE Follows(input'[i - 1], input'[i])
    <3>1. CASE i \in 1 .. n
      <4>1. i - 1 \in 1 .. n
        BY <1>2, <2>5, <3>1
      <4>2. input'[i] = input[i] /\ input'[i - 1] = input[i - 1]
        BY <1>4, <3>1, <4>1
      <4> QED BY <2>2, <2>5, <3>1, <4>2
    <3>2. CASE i = n + 1
      <4>1. n > 0 /\ input'[i] = hd /\ input'[i - 1] = input[n] /\ input[n].of = Len(asked)
        BY <1>2, <1>4, <2>3, <2>5, <3>2
      <4> QED BY <1>2, <4>1 DEF Follows
    <3>3. CASE i = n + 2 /\ HasBody(k)
      <4>1. input'[i] = bd /\ input'[i - 1] = hd
        BY <1>2, <1>4, <3>3
      <4> QED BY <4>1 DEF Follows
    <3> QED BY <1>2, <1>4, <3>1, <3>2, <3>3
  <2>6. input'[Len(input')].of = Len(asked')
    BY <1>2, <1>3, <1>4
  <2>7. input' # <<>> /\ input'[1].of = IF input'[1].part = "body" THEN Parsed ELSE Parsed + 1
    BY <1>2, <1>4, <1>6 DEF ForwardInv, InputInOrder
  <2> QED BY <1>6, <2>4, <2>5, <2>6, <2>7 DEF InputInOrder
<1>8. BodyHasOwner'
  <2>1. n = 0 => input'[1].part = "head"
    BY <1>2, <1>4
  <2>2. n > 0 => input # <<>> /\ input'[1] = input[1]
    BY <1>2, <1>4
  <2> QED BY <1>1, <1>2, <2>1, <2>2 DEF ForwardInv, BodyHasOwner, Live
<1>9. AnswerIsOne' /\ NotYetOpen' /\ RepliesInOrder' /\ BodyIsNoRequest' /\ RegistryIsExact'
  BY <1>1 DEF ForwardInv, AnswerIsOne, NotYetOpen, RepliesInOrder, Final, BodyIsNoRequest, RegistryIsExact
<1> QED BY <1>5, <1>6, <1>7, <1>8, <1>9 DEF ForwardInv

(* The end of the client's stream keeps the invariant.                     *)
LEMMA ClientEndsOK ==
    ASSUME ForwardInv, ClientEnds
    PROVE  ForwardInv'
BY DEF ClientEnds, ForwardInv, HttpTypeOK, Progress, InputInOrder, BodyHasOwner, AnswerIsOne, NotYetOpen,
   RepliesInOrder, BodyIsNoRequest, RegistryIsExact, Live, Parsed, Final, Follows, HasBody

-----------------------------------------------------------------------------
(* What the steps of the session have in common. *)

\* Nobody reads a body out of turn: the first token is no body.
HeadIsNext == input # <<>> => input[1].part # "body"

(* What is parsed next belongs to a request the client sent.               *)
LEMMA TokensTyped ==
    ASSUME ForwardInv, input # <<>>
    PROVE  /\ input[1] \in Token /\ input \in Seq(Token) /\ Len(input) \in Nat \ {0}
           /\ input[1].of \in 1 .. Len(asked) /\ input[1].of # 0
           /\ asked[input[1].of] \in [kind : Kinds, keep : BOOLEAN]
<1>1. /\ input \in Seq(Token) /\ asked \in Seq([kind : Kinds, keep : BOOLEAN])
  BY DEF ForwardInv, HttpTypeOK, Token
<1>2. Len(input) \in Nat \ {0} /\ input[1] \in Token
  BY <1>1
<1>3. input[1].of \in 1 .. Len(asked)
  BY <1>2 DEF ForwardInv, InputInOrder
<1>4. \A R, q, i : q \in Seq(R) /\ i \in 1 .. Len(q) => q[i] \in R
  OBVIOUS
<1>5. asked[input[1].of] \in [kind : Kinds, keep : BOOLEAN]
  BY <1>1, <1>3, <1>4
<1>6. input[1].of # 0
  <2>1. Len(asked) \in Nat
    BY <1>1
  <2> QED BY <1>3, <2>1
<1> QED BY <1>1, <1>2, <1>3, <1>5, <1>6

\* The first token is taken: what remains is in order.
LEMMA TailKeepsOrder ==
    ASSUME ForwardInv, input # <<>>, input' = Tail(input), asked' = asked, Parsed' = input[1].of
    PROVE  /\ InputInOrder' /\ input' \in Seq(Token)
           /\ (input' # <<>> /\ input'[1].part = "body")
                  => input[1].part = "head" /\ HasBody(asked[input[1].of].kind)
<1> DEFINE n == Len(input)
<1>1. /\ input \in Seq(Token) /\ n \in Nat \ {0}
  BY TokensTyped
<1>2. /\ input' \in Seq(Token) /\ Len(input') = n - 1
      /\ \A i \in 1 .. n - 1 : input'[i] = input[i + 1]
  BY <1>1
<1>3. /\ \A i \in 1 .. n : /\ input[i].of \in 1 .. Len(asked)
                           /\ input[i].part = "body" => HasBody(asked[input[i].of].kind)
                           /\ i > 1 => Follows(input[i - 1], input[i])
      /\ input[n].of = Len(asked)
  BY <1>1 DEF ForwardInv, InputInOrder
<1>4. ASSUME NEW i \in 1 .. Len(input')
      PROVE  /\ input'[i].of \in 1 .. Len(asked)
             /\ input'[i].part = "body" => HasBody(asked[input'[i].of].kind)
             /\ i > 1 => Follows(input'[i - 1], input'[i])
  <2>1. i + 1 \in 1 .. n /\ input'[i] = input[i + 1] /\ i + 1 > 1 /\ (i + 1) - 1 = i
    BY <1>1, <1>2
  <2>2. i > 1 => input'[i - 1] = input[i]
    BY <1>1, <1>2
  <2>3. Follows(input[i], input[i + 1])
    BY <1>3, <2>1
  <2> QED BY <1>3, <2>1, <2>2, <2>3
<1>5. input' # <<>> => /\ Len(input') > 0 /\ input'[Len(input')] = input[n]
                       /\ n > 1 /\ input'[1] = input[2]
  BY <1>1, <1>2
<1>6. n > 1 => Follows(input[1], input[2])
  <2>1. n > 1 => 2 \in 1 .. n /\ 2 > 1 /\ 2 - 1 = 1
    BY <1>1
  <2> QED BY <1>3, <2>1
<1>7. input' = <<>> => n = 1
  <2>1. input' = <<>> => Len(input') = 0
    OBVIOUS
  <2>2. n - 1 = 0 => n = 1
    BY <1>1
  <2> QED BY <1>2, <2>1, <2>2
<1>8. input' # <<>> => input'[1].of = IF input'[1].part = "body" THEN input[1].of ELSE input[1].of + 1
  BY <1>5, <1>6 DEF Follows
<1>9. InputInOrder'
  BY <1>3, <1>4, <1>5, <1>7, <1>8 DEF InputInOrder
<1>10. (input' # <<>> /\ input'[1].part = "body")
           => input[1].part = "head" /\ HasBody(asked[input[1].of].kind)
  <2>1. (input' # <<>> /\ input'[1].part = "body")
            => /\ input[1].part = "head" /\ input'[1].of = input[1].of
               /\ HasBody(asked[input'[1].of].kind)
    BY <1>2, <1>4, <1>5, <1>6 DEF Follows
  <2> QED BY <2>1
<1> QED BY <1>2, <1>9, <1>10

\* The exchange is over and nothing of it is kept: FinishHttpForward and CloseHttp.
LEMMA ExchangeOver ==
    ASSUME KindsAssumption, ForwardInv, NEW status \in Statuses,
           NEW ka \in BOOLEAN, Replied(status, ka), FinishHttpForward \/ (CloseHttp /\ UNCHANGED <<receiving, keep, reuse>>),
           awaited \notin {"headers", "relay", "closed"}, awaited' = "headers" => HeadIsNext /\ req # 0,
           UNCHANGED <<clientSide, input, misread>>
    PROVE  ForwardInv'
<1>1. /\ RepliesInOrder' /\ Len(replies') = Len(replies) + 1
      /\ replies' \in Seq(ReplyRecord)
  BY ReplyIsNext, Zenon
<1>2. /\ remote' = FALSE /\ bodied' = FALSE /\ connId' = 0 /\ ids' = ids \ {connId}
      /\ req' = 0 /\ answer' = NoAnswer /\ awaited' \in {"headers", "closed"}
      /\ asked' = asked /\ clientEnded' = clientEnded /\ input' = input /\ misread' = misread
  <2>1. CASE FinishHttpForward
    BY <2>1 DEF FinishHttpForward, Reset, CloseHttp, clientSide
  <2>2. CASE CloseHttp /\ UNCHANGED <<receiving, keep, reuse>>
    BY <2>2 DEF CloseHttp, clientSide
  <2> QED BY <2>1, <2>2
<1>3. HttpTypeOK'
  <2>1. answer' \in [status : {0, 200, 400, 403, 407, 502}, keep : BOOLEAN]
    BY <1>2 DEF NoAnswer
  <2>2. /\ asked' \in Seq([kind : Kinds, keep : BOOLEAN]) /\ clientEnded' \in BOOLEAN
        /\ input' \in Seq([of : Requests, part : {"head", "body"}]) /\ misread' \in BOOLEAN
    BY <1>2 DEF ForwardInv, HttpTypeOK
  <2>3. /\ awaited' \in {"headers", "answering", "continuing", "opening", "exchange", "tunnel",
                       "head", "body", "trailers", "established", "relay", "closed", "nobody"}
        /\ req' \in 0 .. MaxRequests /\ connId' \in 0 .. MaxRequests
        /\ remote' \in BOOLEAN /\ bodied' \in BOOLEAN
    <3>1. MaxRequests \in Nat
      BY DEF KindsAssumption
    <3>2. awaited' \in {"headers", "answering", "continuing", "opening", "exchange", "tunnel",
                     "head", "body", "trailers", "established", "relay", "closed", "nobody"}
      BY <1>2
    <3>3. req' \in 0 .. MaxRequests /\ connId' \in 0 .. MaxRequests
      BY <1>2, <3>1
    <3>4. remote' \in BOOLEAN /\ bodied' \in BOOLEAN
      BY <1>2
    <3> QED BY <3>2, <3>3, <3>4
  <2>4. ids' \subseteq Requests
    BY <1>2 DEF ForwardInv, HttpTypeOK
  <2>5. receiving' \in BOOLEAN /\ keep' \in BOOLEAN /\ reuse' \in BOOLEAN
    <3>1. CASE FinishHttpForward
      <4>1. receiving \in BOOLEAN
        BY DEF ForwardInv, HttpTypeOK
      <4>2. receiving' = (receiving /\ ~bodied) /\ keep' = FALSE /\ reuse' = FALSE
        BY <3>1 DEF FinishHttpForward, Reset
      <4> QED BY <4>2
    <3>2. CASE UNCHANGED <<receiving, keep, reuse>>
      BY <3>2 DEF ForwardInv, HttpTypeOK
    <3> QED BY <3>1, <3>2
  <2> QED BY <1>1, <1>2, <2>1, <2>2, <2>3, <2>4, <2>5 DEF HttpTypeOK, ReplyRecord, Statuses
<1>4. req # 0 => Len(replies) + 1 = req
  BY DEF ForwardInv, Progress
<1>5. Live' => Live /\ Parsed' = Parsed
  BY <1>1, <1>2, <1>4 DEF Live, Parsed
<1>6. Progress'
  BY <1>1, <1>2, <1>5 DEF ForwardInv, Progress, HttpTypeOK, Live
<1>7. InputInOrder'
  BY <1>2, <1>5, InputStays
<1>8. BodyHasOwner' /\ AnswerIsOne' /\ NotYetOpen' /\ BodyIsNoRequest'
  BY <1>2 DEF ForwardInv, BodyHasOwner, AnswerIsOne, NotYetOpen, BodyIsNoRequest, HeadIsNext, Live
<1>9. RegistryIsExact'
  BY <1>2 DEF ForwardInv, RegistryIsExact
<1> QED BY <1>1, <1>3, <1>6, <1>7, <1>8, <1>9 DEF ForwardInv

\* The session answers by itself, and will close: nothing else changes.
Refusals == {400, 403, 502}
MayRefuse == \/ awaited \notin {"headers", "relay", "closed"}
             \/ awaited = "headers" /\ input = <<>>
AnswersOnly == UNCHANGED <<clientSide, input, receiving, req, keep, reuse, bodied, remote, ids, connId,
                           replies, misread>>

(* An answer after which the connection is closed keeps the invariant.     *)
LEMMA LastAnswer ==
    ASSUME ForwardInv, NEW status \in Refusals, Respond(status, FALSE), MayRefuse, AnswersOnly
    PROVE  ForwardInv'
<1> USE DEF Refusals, MayRefuse, AnswersOnly
<1>1. /\ awaited' = "answering" /\ answer'.status = status /\ answer'.keep = FALSE
      /\ answer' \in [status : {0, 200, 400, 403, 407, 502}, keep : BOOLEAN]
  BY DEF Respond
<1>2. Live' => Live /\ Parsed' = Parsed
  BY <1>1 DEF Live, Parsed
<1>3. InputInOrder'
  BY <1>2, InputStays DEF clientSide
<1>4. HttpTypeOK' /\ Progress' /\ BodyHasOwner' /\ AnswerIsOne' /\ NotYetOpen'
  BY <1>1, <1>2 DEF ForwardInv, HttpTypeOK, Progress, BodyHasOwner, AnswerIsOne, NotYetOpen, clientSide, Live
<1>5. RepliesInOrder' /\ BodyIsNoRequest' /\ RegistryIsExact'
  BY DEF ForwardInv, RepliesInOrder, Final, BodyIsNoRequest, RegistryIsExact
<1> QED BY <1>3, <1>4, <1>5 DEF ForwardInv

-----------------------------------------------------------------------------
(* The steps of the session. *)

(* A local answer that was written keeps the invariant: the next request,  *)
(* or the close.                                                           *)
LEMMA AnswerWrittenOK ==
    ASSUME KindsAssumption, ForwardInv, AnswerWritten
    PROVE  ForwardInv'
<1>1. awaited = "answering" /\ Replied(answer.status, answer.keep) /\ UNCHANGED <<clientSide, input, misread>>
  BY DEF AnswerWritten
<1>2. answer.status \in Statuses /\ answer.keep \in BOOLEAN
  BY <1>1 DEF ForwardInv, HttpTypeOK, AnswerIsOne, Statuses
<1>3. awaited \notin {"headers", "relay", "closed"}
  BY <1>1
<1>4. CASE answer.keep
  <2>1. FinishHttpForward
    BY <1>4 DEF AnswerWritten
  <2>2. HeadIsNext /\ req # 0
    BY <1>1, <1>4 DEF ForwardInv, BodyHasOwner, AnswerIsOne, HeadIsNext, Live
  <2> QED BY <1>1, <1>2, <1>3, <2>1, <2>2, ExchangeOver
<1>5. CASE ~answer.keep
  <2>1. awaited' = "closed" /\ CloseHttp /\ UNCHANGED <<receiving, keep, reuse>>
    BY <1>5 DEF AnswerWritten, CloseHttp
  <2> QED BY <1>1, <1>2, <1>3, <2>1, ExchangeOver
<1> QED BY <1>4, <1>5

\* The head of a response without a body, or the trailers, end the exchange.
LEMMA ResponseOver ==
    ASSUME KindsAssumption, ForwardInv, awaited \in {"head", "trailers"},
           Replied(200, keep /\ reuse), FinishHttpForward, UNCHANGED <<clientSide, input, misread>>
    PROVE  ForwardInv'
<1>1. HeadIsNext /\ req # 0
  BY DEF ForwardInv, BodyHasOwner, HeadIsNext, Live, Progress
<1>2. 200 \in Statuses /\ (keep /\ reuse) \in BOOLEAN
  BY DEF Statuses
<1>3. awaited \notin {"headers", "relay", "closed"}
  OBVIOUS
<1> QED BY <1>1, <1>2, <1>3, ExchangeOver

(* A response head that was written keeps the invariant.                   *)
LEMMA HeadWrittenOK ==
    ASSUME KindsAssumption, ForwardInv, HeadWritten
    PROVE  ForwardInv'
<1>1. CASE Replied(200, keep /\ reuse) /\ FinishHttpForward
  BY <1>1, ResponseOver DEF HeadWritten
<1>2. CASE /\ awaited' = "body"
           /\ UNCHANGED <<receiving, req, keep, reuse, bodied, answer, remote, ids, connId, replies>>
  <2>1. Live' => Live /\ Parsed' = Parsed
    BY <1>2 DEF HeadWritten, Live, Parsed
  <2>2. awaited = "head" /\ UNCHANGED <<clientSide, input, misread>>
    BY DEF HeadWritten
  <2>3. InputInOrder'
    BY <2>1, <2>2, InputStays DEF clientSide
  <2>4. HttpTypeOK' /\ Progress' /\ BodyHasOwner' /\ AnswerIsOne' /\ NotYetOpen'
    BY <1>2, <2>1, <2>2
       DEF ForwardInv, HttpTypeOK, Progress, BodyHasOwner, AnswerIsOne, NotYetOpen, clientSide, Live
  <2>5. RepliesInOrder' /\ BodyIsNoRequest' /\ RegistryIsExact'
    BY <1>2, <2>2 DEF ForwardInv, RepliesInOrder, Final, BodyIsNoRequest, RegistryIsExact
  <2> QED BY <2>3, <2>4, <2>5 DEF ForwardInv
<1> QED BY <1>1, <1>2 DEF HeadWritten

(* The end of a forwarded response keeps the invariant: the next request,  *)
(* or the close.                                                           *)
LEMMA TrailersWrittenOK ==
    ASSUME KindsAssumption, ForwardInv, TrailersWritten
    PROVE  ForwardInv'
BY ResponseOver DEF TrailersWritten

(* A request that cannot be parsed keeps the invariant: 400, then the      *)
(* close.                                                                  *)
LEMMA HeaderFailsOK ==
    ASSUME ForwardInv, HeaderFails
    PROVE  ForwardInv'
<1>1. awaited = "headers" /\ Respond(400, FALSE)
      /\ UNCHANGED <<clientSide, receiving, req, keep, reuse, bodied, remote, ids, connId, replies>>
  BY DEF HeaderFails
<1>2. ~(input # <<>> /\ input[1].part = "body")
  BY <1>1 DEF ForwardInv, BodyHasOwner, Live
<1>3. input = <<>> /\ UNCHANGED <<input, misread>>
  BY <1>2 DEF HeaderFails
<1>4. 400 \in Refusals /\ MayRefuse /\ AnswersOnly
  BY <1>1, <1>3 DEF Refusals, MayRefuse, AnswersOnly
<1> QED BY <1>1, <1>4, LastAnswer, Zenon

\* What a parsed request leads to.
LEMMA HandledRequest ==
    ASSUME KindsAssumption, ForwardInv, "options+b" \notin Kinds, awaited = "headers",
           NEW r \in Requests, NEW k \in Kinds, NEW ka \in BOOLEAN, BeginHttpForward(r, k, ka)
    PROVE  /\ awaited' \in {"answering", "continuing", "opening"}
           /\ awaited' = "answering" => answer'.status # 0
           /\ answer' \in [status : {0, 200, 400, 403, 407, 502}, keep : BOOLEAN]
           /\ HasBody(k) => \/ awaited' = "answering" /\ ~answer'.keep
                            \/ awaited' \in {"continuing", "opening"} /\ bodied'
           /\ reuse' \in BOOLEAN /\ bodied' \in BOOLEAN
           /\ \/ UNCHANGED <<ids, connId>>
              \/ awaited' = "opening" /\ ids' = ids \cup {r} /\ connId' = r
<1>1. k \in AllKinds \ {"options+b"}
  BY DEF KindsAssumption
<1>2. answer \in [status : {0, 200, 400, 403, 407, 502}, keep : BOOLEAN]
      /\ reuse \in BOOLEAN /\ bodied \in BOOLEAN
  BY DEF ForwardInv, HttpTypeOK
<1>3. CASE k \in {"denied", "denied+b"} /\ Denied(k, ka) /\ UNCHANGED <<bodied, ids, connId>>
  <2> DEFINE again == ka /\ ~HasBody(k)
  <2>1. again \in BOOLEAN /\ (HasBody(k) => ~again)
    OBVIOUS
  <2>2. PICK status \in {403, 407} : Respond(status, again) /\ reuse' = again
    BY <1>3 DEF Denied
  <2> HIDE DEF again
  <2>3. awaited' = "answering" /\ answer' = [status |-> status, keep |-> again]
    BY <2>2 DEF Respond
  <2> QED BY <1>2, <1>3, <2>1, <2>2, <2>3
<1>4. CASE k = "bad" /\ Respond(400, FALSE) /\ UNCHANGED <<reuse, bodied, ids, connId>>
  BY <1>2, <1>4 DEF Respond, HasBody
<1>5. CASE /\ k \in {"options", "options+b"} /\ Respond(200, ka) /\ reuse' = ka
           /\ UNCHANGED <<bodied, ids, connId>>
  BY <1>1, <1>2, <1>5 DEF Respond, HasBody
<1>6. CASE /\ k = "expect" /\ awaited' = "continuing" /\ bodied' = TRUE
           /\ UNCHANGED <<reuse, answer, ids, connId>>
  BY <1>2, <1>6
<1>7. CASE /\ k \in {"get", "post", "connect", "upgrade"} /\ OpenTarget(r) /\ bodied' = HasBody(k)
           /\ UNCHANGED <<reuse, answer>>
  <2>1. bodied' \in BOOLEAN /\ (HasBody(k) => bodied')
    <3>1. bodied' = HasBody(k)
      BY <1>7
    <3>2. HasBody(k) \in BOOLEAN
      BY DEF HasBody
    <3> QED BY <3>1, <3>2, Zenon
  <2> QED BY <1>2, <1>7, <2>1 DEF OpenTarget
<1> QED BY <1>3, <1>4, <1>5, <1>6, <1>7 DEF BeginHttpForward

(* A request head that was read keeps the invariant, whichever of its      *)
(* paths the session takes.                                                *)
LEMMA HeaderReadOK ==
    ASSUME KindsAssumption, ForwardInv, "options+b" \notin Kinds, HeaderRead
    PROVE  ForwardInv'
<1> DEFINE r == input[1].of
           k == asked[r].kind
           ka == asked[r].keep
<1>1. /\ awaited = "headers" /\ input # <<>> /\ input[1].part = "head" /\ input' = Tail(input)
      /\ req' = r /\ keep' = ka /\ BeginHttpForward(r, k, ka)
      /\ UNCHANGED <<clientSide, receiving, remote, replies, misread>>
  BY DEF HeaderRead
<1>2. r \in Requests /\ k \in Kinds /\ ka \in BOOLEAN /\ r \in 1 .. Len(asked) /\ r # 0
  BY <1>1, TokensTyped DEF Token
<1> HIDE DEF r, k, ka
<1>3. /\ awaited' \in {"answering", "continuing", "opening"}
      /\ awaited' = "answering" => answer'.status # 0
      /\ answer' \in [status : {0, 200, 400, 403, 407, 502}, keep : BOOLEAN]
      /\ HasBody(k) => \/ awaited' = "answering" /\ ~answer'.keep
                       \/ awaited' \in {"continuing", "opening"} /\ bodied'
      /\ reuse' \in BOOLEAN /\ bodied' \in BOOLEAN
      /\ \/ UNCHANGED <<ids, connId>>
         \/ awaited' = "opening" /\ ids' = ids \cup {r} /\ connId' = r
  BY <1>1, <1>2, HandledRequest
<1>4. req = 0 /\ Parsed = Len(replies) /\ r = Parsed + 1 /\ Parsed' = r
  BY <1>1, <1>2 DEF ForwardInv, Progress, InputInOrder, Parsed, Live, r
<1>5. /\ InputInOrder' /\ input' \in Seq(Token)
      /\ (input' # <<>> /\ input'[1].part = "body") => HasBody(k)
  BY <1>1, <1>4, TailKeepsOrder DEF clientSide, r, k
<1>6. HttpTypeOK'
  <2>1. /\ awaited' \in {"headers", "answering", "continuing", "opening", "exchange", "tunnel",
                       "head", "body", "trailers", "established", "relay", "closed", "nobody"}
        /\ req' \in 0 .. MaxRequests /\ connId' \in 0 .. MaxRequests
        /\ ids' \subseteq Requests /\ keep' \in BOOLEAN
    <3>1. awaited' \in {"headers", "answering", "continuing", "opening", "exchange", "tunnel",
                     "head", "body", "trailers", "established", "relay", "closed", "nobody"}
      BY <1>3
    <3>2. connId \in 0 .. MaxRequests /\ ids \subseteq Requests
      BY DEF ForwardInv, HttpTypeOK
    <3>3. req' \in 0 .. MaxRequests /\ connId' \in 0 .. MaxRequests
      BY <1>1, <1>2, <1>3, <3>2 DEF Requests
    <3>4. ids' \subseteq Requests
      <4>1. ids' = ids \/ ids' = ids \cup {r}
        BY <1>3
      <4> QED BY <1>2, <3>2, <4>1
    <3>5. keep' \in BOOLEAN
      BY <1>1, <1>2
    <3> QED BY <3>1, <3>3, <3>4, <3>5
  <2>2. UNCHANGED <<asked, clientEnded, receiving, remote, replies, misread>>
    BY <1>1 DEF clientSide
  <2>3. input' \in Seq([of : Requests, part : {"head", "body"}])
    BY <1>5 DEF Token
  <2> QED BY <1>3, <2>1, <2>2, <2>3 DEF ForwardInv, HttpTypeOK
<1>7. Progress'
  BY <1>1, <1>2, <1>3, <1>4 DEF Progress, clientSide, Live
<1>8. BodyHasOwner'
  BY <1>3, <1>5 DEF BodyHasOwner
<1>9. AnswerIsOne' /\ NotYetOpen' /\ RegistryIsExact'
  <2>1. ~remote /\ connId = 0 /\ ids = {}
    BY <1>1 DEF ForwardInv, NotYetOpen, RegistryIsExact
  <2> QED BY <1>1, <1>2, <1>3, <2>1 DEF AnswerIsOne, NotYetOpen, RegistryIsExact
<1>10. RepliesInOrder' /\ BodyIsNoRequest'
  BY <1>1 DEF ForwardInv, RepliesInOrder, Final, BodyIsNoRequest
<1> QED BY <1>5, <1>6, <1>7, <1>8, <1>9, <1>10 DEF ForwardInv

(* A 100 Continue that was written keeps the invariant.                    *)
LEMMA ContinueWrittenOK ==
    ASSUME KindsAssumption, ForwardInv, ContinueWritten
    PROVE  ForwardInv'
<1>1. /\ awaited = "continuing" /\ awaited' = "opening" /\ ids' = ids \cup {req} /\ connId' = req
      /\ UNCHANGED <<clientSide, input, receiving, req, keep, reuse, bodied, answer, remote,
                     replies, misread>>
  BY DEF ContinueWritten, OpenTarget
<1>2. req \in Requests /\ req # 0 /\ connId = 0 /\ ids = {}
  BY <1>1 DEF ForwardInv, HttpTypeOK, Progress, NotYetOpen, RegistryIsExact, Requests, KindsAssumption
<1>3. Live' => Live /\ Parsed' = Parsed
  BY <1>1 DEF Live, Parsed
<1>4. InputInOrder'
  BY <1>1, <1>3, InputStays DEF clientSide
<1>5. HttpTypeOK' /\ Progress' /\ BodyHasOwner' /\ AnswerIsOne' /\ NotYetOpen' /\ RegistryIsExact'
  BY <1>1, <1>2, <1>3 DEF ForwardInv, HttpTypeOK, Progress, BodyHasOwner, AnswerIsOne, NotYetOpen,
     RegistryIsExact, clientSide, Live
<1>6. RepliesInOrder' /\ BodyIsNoRequest'
  BY <1>1 DEF ForwardInv, RepliesInOrder, Final, BodyIsNoRequest
<1> QED BY <1>4, <1>5, <1>6 DEF ForwardInv

(* An upstream that cannot be opened keeps the invariant.                  *)
LEMMA OpenFailsOK ==
    ASSUME ForwardInv, OpenFails
    PROVE  ForwardInv'
<1>1. PICK status \in {403, 502} : Respond(status, FALSE)
  BY DEF OpenFails
<1>2. status \in Refusals
  BY DEF Refusals
<1>3. MayRefuse /\ AnswersOnly
  BY DEF OpenFails, MayRefuse, AnswersOnly
<1> QED BY <1>1, <1>2, <1>3, LastAnswer, Zenon

(* A forwarded exchange that fails keeps the invariant.                    *)
LEMMA ExchangeFailsOK ==
    ASSUME ForwardInv, ExchangeFails
    PROVE  ForwardInv'
<1>1. PICK status \in {403, 502} : Respond(status, FALSE)
  BY DEF ExchangeFails
<1>2. status \in Refusals
  BY DEF Refusals
<1>3. MayRefuse /\ AnswersOnly
  BY DEF ExchangeFails, MayRefuse, AnswersOnly
<1> QED BY <1>1, <1>2, <1>3, LastAnswer, Zenon

(* A CONNECT that is refused keeps the invariant.                          *)
LEMMA TunnelRefusedOK ==
    ASSUME ForwardInv, TunnelRefused
    PROVE  ForwardInv'
<1>1. 502 \in Refusals
  BY DEF Refusals
<1>2. MayRefuse /\ AnswersOnly
  BY DEF TunnelRefused, MayRefuse, AnswersOnly
<1>3. Respond(502, FALSE)
  BY Zenon DEF TunnelRefused
<1> QED BY <1>1, <1>2, <1>3, LastAnswer, Zenon

\* The session goes on with the request, whose body is taken or still owned.
LEMMA GoesOn ==
    ASSUME ForwardInv, UNCHANGED <<clientSide, input, receiving, req, keep, bodied, answer, ids, connId,
                             replies, misread>>,
           awaited \in {"opening", "exchange", "body"},
           awaited' \in {"exchange", "tunnel", "established", "head", "trailers", "nobody"},
           remote' \in BOOLEAN, reuse' \in BOOLEAN,
           HeadIsNext \/ (awaited' = "exchange" /\ bodied)
    PROVE  ForwardInv'
<1>1. Live' => Live /\ Parsed' = Parsed
  BY DEF Live, Parsed
<1>2. InputInOrder'
  BY <1>1, InputStays DEF clientSide
<1>3. HttpTypeOK' /\ Progress' /\ BodyHasOwner' /\ AnswerIsOne' /\ NotYetOpen'
  BY <1>1 DEF ForwardInv, HttpTypeOK, Progress, BodyHasOwner, AnswerIsOne, NotYetOpen, clientSide, Live,
     HeadIsNext
<1>4. RepliesInOrder' /\ BodyIsNoRequest' /\ RegistryIsExact'
  BY DEF ForwardInv, RepliesInOrder, Final, BodyIsNoRequest, RegistryIsExact
<1> QED BY <1>2, <1>3, <1>4 DEF ForwardInv

(* An upstream that was opened keeps the invariant.                        *)
LEMMA OpenSucceedsOK ==
    ASSUME ForwardInv, OpenSucceeds
    PROVE  ForwardInv'
<1>1. /\ awaited = "opening" /\ awaited' \in {"exchange", "tunnel", "established"} /\ remote' = TRUE
      /\ UNCHANGED <<clientSide, input, receiving, req, keep, reuse, bodied, answer, ids, connId,
                     replies, misread>>
  BY DEF OpenSucceeds
<1>2. awaited' = "exchange" \/ Kind \in {"connect", "upgrade"}
  BY DEF OpenSucceeds
<1>3. ASSUME ~HeadIsNext PROVE awaited' = "exchange" /\ bodied
  <2>1. input # <<>> /\ input[1].part = "body" /\ bodied
    BY <1>1, <1>3 DEF HeadIsNext, ForwardInv, BodyHasOwner, Live
  <2>2. input[1].of = req /\ HasBody(asked[input[1].of].kind)
    <3>1. Len(input) \in Nat \ {0}
      BY <2>1, TokensTyped
    <3> QED BY <1>1, <2>1, <3>1 DEF ForwardInv, InputInOrder, Progress, Parsed, Live
  <2> QED BY <1>2, <2>1, <2>2 DEF Kind, HasBody
<1>4. remote' \in BOOLEAN /\ reuse' \in BOOLEAN
  BY <1>1 DEF ForwardInv, HttpTypeOK
<1> QED BY <1>1, <1>3, <1>4, GoesOn

(* The head of the upstream's response keeps the invariant.                *)
LEMMA ResponseHeadOK ==
    ASSUME ForwardInv, ResponseHead
    PROVE  ForwardInv'
<1>1. /\ awaited = "exchange" /\ awaited' = "head"
      /\ UNCHANGED <<clientSide, input, receiving, req, keep, bodied, answer, remote, ids, connId,
                     replies, misread>>
  BY DEF ResponseHead, EarlyResponse
<1>2. reuse' \in BOOLEAN
  BY DEF ResponseHead, EarlyResponse
<1>3. HeadIsNext
  <2>1. ASSUME input # <<>>, input[1].part = "body" PROVE FALSE
    <3>1. bodied /\ input[1].of = req /\ input[1] \in Token
      BY <1>1, <2>1, TokensTyped DEF ForwardInv, BodyHasOwner, Live, InputInOrder, Parsed, Progress
    <3>2. input[1] = [of |-> req, part |-> "body"]
      BY <2>1, <3>1 DEF Token
    <3> QED BY <2>1, <3>1, <3>2 DEF ResponseHead, Uploaded
  <2> QED BY <2>1 DEF HeadIsNext
<1>4. remote' \in BOOLEAN
  BY <1>1 DEF ForwardInv, HttpTypeOK
<1> QED BY <1>1, <1>2, <1>3, <1>4, GoesOn

(* A part of the upstream's response, or its end, keeps the invariant.     *)
LEMMA BodyReadOK ==
    ASSUME ForwardInv, BodyRead
    PROVE  ForwardInv'
<1>1. /\ awaited = "body" /\ awaited' \in {"trailers", "nobody"}
      /\ UNCHANGED <<clientSide, input, receiving, req, keep, bodied, answer, ids, connId,
                     replies, misread>>
  BY DEF BodyRead
<1>2. remote' \in BOOLEAN /\ reuse' \in BOOLEAN
  BY DEF BodyRead, ForwardInv, HttpTypeOK
<1>3. HeadIsNext
  BY <1>1 DEF ForwardInv, BodyHasOwner, HeadIsNext, Live
<1> QED BY <1>1, <1>2, <1>3, GoesOn

(* A part of the request's body that is passed on keeps the invariant.     *)
LEMMA UploadBodyOK ==
    ASSUME ForwardInv, UploadBody
    PROVE  ForwardInv'
<1>1. /\ awaited = "exchange" /\ input # <<>> /\ input[1] = [of |-> req, part |-> "body"]
      /\ input' = Tail(input)
      /\ UNCHANGED <<clientSide, receiving, awaited, req, keep, reuse, bodied, answer, remote, ids,
                     connId, replies, misread>>
  BY DEF UploadBody
<1>2. input[1].of = req /\ input[1].part = "body" /\ req # 0
  BY <1>1 DEF ForwardInv, Progress
<1>3. asked' = asked /\ Parsed' = input[1].of
  BY <1>1, <1>2 DEF Parsed, clientSide
<1>4. /\ InputInOrder' /\ input' \in Seq(Token)
      /\ ~(input' # <<>> /\ input'[1].part = "body")
  BY <1>1, <1>2, <1>3, TailKeepsOrder
<1>5. HttpTypeOK'
  BY <1>1, <1>4 DEF ForwardInv, HttpTypeOK, Token, clientSide
<1>6. Progress' /\ BodyHasOwner' /\ AnswerIsOne' /\ NotYetOpen' /\ RepliesInOrder'
      /\ BodyIsNoRequest' /\ RegistryIsExact'
  BY <1>1, <1>4 DEF ForwardInv, Progress, BodyHasOwner, AnswerIsOne, NotYetOpen, RepliesInOrder, Final,
     BodyIsNoRequest, RegistryIsExact, clientSide, Live, Parsed
<1> QED BY <1>4, <1>5, <1>6 DEF ForwardInv

\* The session hands its streams to the relay, after its last reply.
LEMMA RelayStarts ==
    ASSUME ForwardInv, awaited \in {"tunnel", "established"}, NEW status \in {101, 200},
           Replied(status, FALSE), Relay
    PROVE  ForwardInv'
<1>1. status \in Statuses /\ FALSE \in BOOLEAN /\ awaited \notin {"headers", "relay", "closed"}
  BY DEF Statuses
<1>2. /\ RepliesInOrder' /\ Len(replies') = Len(replies) + 1 /\ replies' \in Seq(ReplyRecord)
  BY <1>1, ReplyIsNext
<1>3. /\ awaited' = "relay"
      /\ UNCHANGED <<clientSide, input, receiving, req, keep, reuse, bodied, answer, remote,
                     ids, connId, misread>>
  BY DEF Relay
<1>4. req # 0 /\ Len(replies) + 1 = req /\ HeadIsNext
  BY DEF ForwardInv, Progress, BodyHasOwner, HeadIsNext, Live
<1>5. Live' => Live /\ Parsed' = Parsed
  BY <1>3, <1>4 DEF Live, Parsed
<1>6. InputInOrder'
  BY <1>3, <1>5, InputStays DEF clientSide
<1>7. HttpTypeOK'
  <2>1. /\ asked' = asked /\ clientEnded' = clientEnded /\ input' = input /\ receiving' = receiving
        /\ req' = req /\ keep' = keep /\ reuse' = reuse /\ bodied' = bodied /\ answer' = answer
        /\ remote' = remote /\ ids' = ids /\ connId' = connId /\ misread' = misread
    BY <1>3 DEF clientSide
  <2>2. awaited' \in {"headers", "answering", "continuing", "opening", "exchange", "tunnel",
                   "head", "body", "trailers", "established", "relay", "closed", "nobody"}
    BY <1>3
  <2>3. replies' \in Seq([to : 0 .. MaxRequests, status : {101, 200, 400, 403, 407, 502},
                          keep : BOOLEAN])
    BY <1>2 DEF ReplyRecord, Statuses
  <2> QED BY <2>1, <2>2, <2>3, SMTT(30) DEF ForwardInv, HttpTypeOK
<1>8. Progress' /\ BodyHasOwner' /\ AnswerIsOne' /\ NotYetOpen'
  BY <1>2, <1>3, <1>4, <1>5 DEF ForwardInv, Progress, BodyHasOwner, AnswerIsOne, NotYetOpen, clientSide,
     Live, HeadIsNext
<1>9. BodyIsNoRequest' /\ RegistryIsExact'
  BY <1>3 DEF ForwardInv, BodyIsNoRequest, RegistryIsExact
<1> QED BY <1>2, <1>6, <1>7, <1>8, <1>9 DEF ForwardInv

(* The end of the session keeps the invariant: nothing is held.            *)
LEMMA CloseSessionOK ==
    ASSUME KindsAssumption, ForwardInv, CloseSession
    PROVE  ForwardInv'
<1>1. /\ awaited' = "closed" /\ remote' = FALSE /\ bodied' = FALSE
      /\ ids' = ids \ {connId} /\ connId' = 0 /\ req' = 0 /\ answer' = NoAnswer
      /\ UNCHANGED <<clientSide, input, receiving, keep, reuse, replies, misread>>
  BY DEF CloseSession, CloseHttp
<1>2. Live' => Live /\ Parsed' = Parsed
  BY <1>1 DEF Live
<1>3. InputInOrder'
  BY <1>1, <1>2, InputStays DEF clientSide
<1>4. HttpTypeOK'
  <2>1. answer' \in [status : {0, 200, 400, 403, 407, 502}, keep : BOOLEAN]
    BY <1>1 DEF NoAnswer
  <2>2. req' \in 0 .. MaxRequests /\ connId' \in 0 .. MaxRequests
    BY <1>1 DEF KindsAssumption
  <2>3. ids' \subseteq Requests
    BY <1>1 DEF ForwardInv, HttpTypeOK
  <2>4. /\ asked' = asked /\ clientEnded' = clientEnded /\ input' = input /\ receiving' = receiving
        /\ keep' = keep /\ reuse' = reuse /\ replies' = replies /\ misread' = misread
    BY <1>1 DEF clientSide
  <2>5. /\ awaited' \in {"headers", "answering", "continuing", "opening", "exchange", "tunnel",
                      "head", "body", "trailers", "established", "relay", "closed", "nobody"}
        /\ remote' \in BOOLEAN /\ bodied' \in BOOLEAN
    BY <1>1
  <2> QED BY <2>1, <2>2, <2>3, <2>4, <2>5, SMTT(30) DEF ForwardInv, HttpTypeOK
<1>5. Progress' /\ BodyHasOwner' /\ AnswerIsOne' /\ NotYetOpen'
  BY <1>1 DEF ForwardInv, HttpTypeOK, Progress, BodyHasOwner, AnswerIsOne, NotYetOpen, clientSide, Live
<1>6. RepliesInOrder' /\ BodyIsNoRequest' /\ RegistryIsExact'
  BY <1>1 DEF ForwardInv, RepliesInOrder, Final, BodyIsNoRequest, RegistryIsExact
<1> QED BY <1>3, <1>4, <1>5, <1>6 DEF ForwardInv

-----------------------------------------------------------------------------
(* Every step. *)

(* Every step of the session keeps the invariant.                          *)
LEMMA ForwardNextOK ==
    ASSUME KindsAssumption, "options+b" \notin Kinds, ForwardInv, [HttpNext]_httpVars
    PROVE  ForwardInv'
<1>1. ASSUME NEW k \in Kinds, NEW ka \in BOOLEAN, ClientSends(k, ka) PROVE ForwardInv'
  BY <1>1, ClientSendsOK
<1>2. CASE ClientEnds
  BY <1>2, ClientEndsOK
<1>3. CASE AnswerWritten
  BY <1>3, AnswerWrittenOK
<1>4. CASE HeaderFails
  BY <1>4, HeaderFailsOK
<1>5. CASE HeaderRead
  BY <1>5, HeaderReadOK
<1>6. CASE ContinueWritten
  BY <1>6, ContinueWrittenOK
<1>7. CASE OpenFails
  BY <1>7, OpenFailsOK
<1>8. CASE OpenSucceeds
  BY <1>8, OpenSucceedsOK
<1>9. CASE UploadBody
  BY <1>9, UploadBodyOK
<1>10. CASE ExchangeFails
  BY <1>10, ExchangeFailsOK
<1>11. CASE ResponseHead
  BY <1>11, ResponseHeadOK
<1>12. CASE HeadWritten
  BY <1>12, HeadWrittenOK
<1>13. CASE BodyRead
  BY <1>13, BodyReadOK
<1>14. CASE TrailersWritten
  BY <1>14, TrailersWrittenOK
<1>15. CASE TunnelRefused
  BY <1>15, TunnelRefusedOK
<1>16. CASE TunnelOpens
  BY <1>16, RelayStarts DEF TunnelOpens
<1>17. CASE Established
  BY <1>17, RelayStarts DEF Established
<1>18. CASE CloseSession
  BY <1>18, CloseSessionOK
<1>19. CASE UNCHANGED httpVars
  BY <1>19 DEF httpVars, ForwardInv, HttpTypeOK, Progress, InputInOrder, BodyHasOwner, AnswerIsOne, NotYetOpen,
     RepliesInOrder, BodyIsNoRequest, RegistryIsExact, Live, Parsed, Final, Follows, HasBody
<1> QED BY <1>1, <1>2, <1>3, <1>4, <1>5, <1>6, <1>7, <1>8, <1>9, <1>10, <1>11, <1>12, <1>13,
           <1>14, <1>15, <1>16, <1>17, <1>18, <1>19 DEF HttpNext, Client, Session

\* Requests on one connection stay apart, whatever is pipelined: replies in
\* order, no body parsed as a request, the registry exact, no upstream
\* connection held between two requests (finish_http_forward() and its resets).
THEOREM RequestsKeptApart ==
    ASSUME KindsAssumption, "options+b" \notin Kinds
    PROVE  HttpSpec => []RequestsStayApart
<1>1. HttpInit => ForwardInv
  BY ForwardInitOK
<1>2. ForwardInv /\ [HttpNext]_httpVars => ForwardInv'
  BY ForwardNextOK
<1>3. ForwardInv => RequestsStayApart
  BY DEF ForwardInv, RequestsStayApart, UpstreamReleased, NotYetOpen
<1> QED BY <1>1, <1>2, <1>3, PTL DEF HttpSpec

-----------------------------------------------------------------------------
(* The promise of keep-alive. *)

\* No request has a body that the session would pass on: the case in which
\* reset_http_forward_exchange() leaves the receive side of the client open.
NothingPassedOn == Kinds \cap {"post", "expect", "options+b"} = {}

\* A 400 has a reason the client can see.
Deserved(r) == r # 0 /\ asked[r].kind = "bad"

PromiseInv ==
    /\ ForwardInv /\ ~bodied /\ receiving
    /\ (awaited = "answering" /\ answer.status = 400) => Deserved(req) \/ clientEnded
    /\ \A i \in 1 .. Len(replies) : replies[i].status = 400 => Deserved(replies[i].to) \/ clientEnded

(* A reply is to a request that was sent, or to what is none.              *)
LEMMA RepliesWereAsked ==
    ASSUME ForwardInv, Live, NEW i \in 1 .. Len(replies)
    PROVE  replies[i].to \in 0 .. Len(asked)
<1>1. replies[i] \in ReplyRecord /\ Len(replies) \in Nat /\ Len(asked) \in Nat
  <2>1. replies \in Seq(ReplyRecord) /\ asked \in Seq([kind : Kinds, keep : BOOLEAN])
    BY DEF ForwardInv, HttpTypeOK, ReplyRecord, Statuses
  <2> QED BY <2>1
<1>2. replies[i].to = 0 \/ replies[i].to = i
  BY DEF ForwardInv, RepliesInOrder, Final
<1>3. Len(replies) <= Len(asked)
  BY <1>1 DEF ForwardInv, HttpTypeOK, Progress, Parsed, Live
<1> QED BY <1>1, <1>2, <1>3

(* Without bodies that are passed on, every step keeps the promise made    *)
(* with keep-alive.                                                        *)
LEMMA PromiseNext ==
    ASSUME KindsAssumption, NothingPassedOn, PromiseInv, [HttpNext]_httpVars
    PROVE  PromiseInv'
<1> DEFINE Bad(r) == r # 0 /\ asked'[r].kind = "bad"
<1>1. ForwardInv /\ ForwardInv' /\ ~bodied /\ receiving
  BY ForwardNextOK DEF PromiseInv, NothingPassedOn
<1>2. CASE \E k \in Kinds, ka \in BOOLEAN : ClientSends(k, ka)
  <2>1. PICK k \in Kinds, ka \in BOOLEAN : ClientSends(k, ka)
    BY <1>2
  <2>2. Live /\ asked \in Seq([kind : Kinds, keep : BOOLEAN])
    BY <1>1, <2>1 DEF ClientSends, Live, ForwardInv, HttpTypeOK
  <2>3. asked' = Append(asked, [kind |-> k, keep |-> ka])
    BY <2>1 DEF ClientSends
  <2>4. \A r \in 0 .. Len(asked) : Deserved(r) => Bad(r)
    BY <2>2, <2>3 DEF Deserved
  <2>5. req \in 0 .. Len(asked) /\ \A i \in 1 .. Len(replies) : replies[i].to \in 0 .. Len(asked)
    BY <1>1, <2>2, RepliesWereAsked DEF ForwardInv, Progress
  <2>6. UNCHANGED <<clientEnded, receiving, awaited, req, bodied, answer, replies>>
    BY <2>1 DEF ClientSends
  <2>7. (awaited' = "answering" /\ answer'.status = 400) => Bad(req') \/ clientEnded'
    BY <2>4, <2>5, <2>6 DEF PromiseInv
  <2>8. \A i \in 1 .. Len(replies') : replies'[i].status = 400 => Bad(replies'[i].to) \/ clientEnded'
    BY <2>4, <2>5, <2>6 DEF PromiseInv
  <2> QED BY <1>1, <2>6, <2>7, <2>8 DEF PromiseInv, Deserved
<1>3. CASE asked' = asked /\ (clientEnded => clientEnded') /\ UNCHANGED replies
           /\ ~bodied' /\ receiving' /\ (awaited' = "answering" /\ answer'.status = 400 => Bad(req') \/ clientEnded')
  <2>1. \A i \in 1 .. Len(replies) : replies[i].status = 400 => Bad(replies[i].to) \/ clientEnded'
    BY <1>3 DEF PromiseInv, Deserved
  <2> QED BY <1>1, <1>3, <2>1 DEF PromiseInv, Deserved
<1>4. ASSUME NEW status \in Statuses, NEW ka \in BOOLEAN, Replied(status, ka), UNCHANGED clientSide,
             status = 400 => Deserved(req) \/ clientEnded, ~bodied', receiving', awaited' # "answering"
      PROVE  PromiseInv'
  <2> DEFINE x == [to |-> req, status |-> status, keep |-> ka]
  <2>1. replies' = Append(replies, x) /\ x.to = req /\ x.status = status
    BY <1>4 DEF Replied
  <2> HIDE DEF x
  <2>2. replies \in Seq(ReplyRecord)
    BY <1>1 DEF ForwardInv, HttpTypeOK, ReplyRecord, Statuses
  <2>3. ASSUME NEW i \in 1 .. Len(replies'), replies'[i].status = 400
        PROVE  Bad(replies'[i].to) \/ clientEnded'
    <3>1. CASE i \in 1 .. Len(replies)
      <4>1. replies'[i] = replies[i]
        BY <2>1, <2>2, <3>1
      <4> QED BY <1>4, <2>3, <3>1, <4>1 DEF PromiseInv, Deserved, clientSide
    <3>2. CASE i = Len(replies) + 1
      <4>1. replies'[i] = x
        BY <2>1, <2>2, <3>2
      <4> QED BY <1>4, <2>1, <2>3, <4>1 DEF Deserved, clientSide
    <3> QED BY <2>1, <2>2, <3>1, <3>2
  <2> QED BY <1>1, <1>4, <2>3 DEF PromiseInv, Deserved
<1>5. CASE ClientEnds
  BY <1>1, <1>3, <1>5 DEF ClientEnds, PromiseInv, Deserved
<1>6. CASE AnswerWritten
  <2>1. awaited = "answering" /\ Replied(answer.status, answer.keep) /\ UNCHANGED clientSide
    BY <1>6 DEF AnswerWritten
  <2>2. answer.status \in Statuses /\ answer.keep \in BOOLEAN
    BY <1>1, <2>1 DEF ForwardInv, HttpTypeOK, AnswerIsOne, Statuses
  <2>3. answer.status = 400 => Deserved(req) \/ clientEnded
    BY <2>1 DEF PromiseInv
  <2>4. ~bodied' /\ receiving' /\ awaited' # "answering"
    <3>1. CASE FinishHttpForward
      BY <1>1, <3>1 DEF FinishHttpForward, Reset, CloseHttp
    <3>2. CASE CloseHttp /\ UNCHANGED <<receiving, keep, reuse>>
      BY <1>1, <3>2 DEF CloseHttp
    <3> QED BY <1>6, <3>1, <3>2 DEF AnswerWritten
  <2> QED BY <1>4, <2>1, <2>2, <2>3, <2>4
<1>7. CASE HeaderFails
  <2>1. awaited = "headers" /\ ~(input # <<>> /\ input[1].part = "body")
    BY <1>1, <1>7 DEF HeaderFails, ForwardInv, BodyHasOwner, Live
  <2> QED BY <1>1, <1>3, <1>7, <2>1 DEF HeaderFails, clientSide
<1>8. CASE HeaderRead
  <2> DEFINE r == input[1].of
  <2>1. /\ r # 0 /\ asked[r].kind \in Kinds \ {"post", "expect", "options+b"} /\ req' = r
        /\ BeginHttpForward(r, asked[r].kind, asked[r].keep) /\ UNCHANGED <<clientSide, receiving, replies>>
    BY <1>1, <1>8, TokensTyped DEF HeaderRead, NothingPassedOn
  <2> HIDE DEF r
  <2>2. ~bodied'
    BY <1>1, <2>1 DEF BeginHttpForward, HasBody
  <2>3. awaited' = "answering" /\ answer'.status = 400 => asked[r].kind = "bad"
    BY <2>1 DEF BeginHttpForward, Denied, Respond, OpenTarget
  <2> QED BY <1>1, <1>3, <2>1, <2>2, <2>3 DEF clientSide
<1>9. CASE ContinueWritten
  BY <1>1, <1>3, <1>9 DEF ContinueWritten, OpenTarget, clientSide
<1>10. CASE OpenFails \/ ExchangeFails \/ TunnelRefused
  <2>1. AnswersOnly
    BY <1>10, Zenon DEF OpenFails, ExchangeFails, TunnelRefused, AnswersOnly
  <2>2. answer'.status # 400
    BY <1>10 DEF OpenFails, ExchangeFails, TunnelRefused, Respond
  <2> QED BY <1>1, <1>3, <2>1, <2>2 DEF AnswersOnly, clientSide
<1>11. CASE OpenSucceeds \/ UploadBody \/ ResponseHead \/ BodyRead
  <2>1. UNCHANGED <<asked, clientEnded, bodied, receiving, replies>> /\ awaited # "answering"
    BY <1>11 DEF OpenSucceeds, UploadBody, ResponseHead, EarlyResponse, BodyRead, clientSide
  <2>2. awaited' # "answering"
    <3>1. CASE OpenSucceeds
      BY <3>1 DEF OpenSucceeds
    <3>2. CASE UploadBody \/ ResponseHead \/ BodyRead
      BY <3>2 DEF UploadBody, ResponseHead, EarlyResponse, BodyRead
    <3> QED BY <1>11, <3>1, <3>2
  <2> QED BY <1>1, <1>3, <2>1, <2>2
<1>12. CASE HeadWritten /\ awaited' = "body"
           /\ UNCHANGED <<receiving, req, keep, reuse, bodied, answer, remote, ids, connId, replies>>
  BY <1>1, <1>3, <1>12 DEF HeadWritten, clientSide
<1>13. CASE Replied(200, keep /\ reuse) /\ FinishHttpForward /\ UNCHANGED clientSide
  <2>1. awaited' # "answering" /\ ~bodied' /\ receiving'
    <3>1. CASE keep /\ reuse
      BY <1>1, <1>13, <3>1 DEF FinishHttpForward, Reset
    <3>2. CASE ~(keep /\ reuse)
      BY <1>1, <1>13, <3>2 DEF FinishHttpForward, CloseHttp
    <3> QED BY <3>1, <3>2
  <2>2. PICK ka \in BOOLEAN : Replied(200, ka)
    BY <1>13
  <2>3. 200 \in Statuses /\ (200 = 400 => Deserved(req) \/ clientEnded)
    BY DEF Statuses
  <2> QED BY <1>4, <1>13, <2>1, <2>2, <2>3
<1>14. CASE TunnelOpens \/ Established
  <2>1. PICK status \in {101, 200}, ka \in BOOLEAN : Replied(status, ka)
    BY <1>14 DEF TunnelOpens, Established
  <2>2. UNCHANGED <<clientSide, bodied, receiving>> /\ awaited' # "answering"
    BY <1>14 DEF TunnelOpens, Established, Relay
  <2>3. status \in Statuses /\ (status = 400 => Deserved(req) \/ clientEnded)
    BY DEF Statuses
  <2> QED BY <1>1, <1>4, <2>1, <2>2, <2>3
<1>15. CASE CloseSession
  BY <1>1, <1>3, <1>15 DEF CloseSession, CloseHttp, clientSide
<1>16. CASE UNCHANGED httpVars
  BY <1>1, <1>16 DEF httpVars, PromiseInv, Deserved
<1> QED BY <1>2, <1>5, <1>6, <1>7, <1>8, <1>9, <1>10, <1>11, <1>12, <1>13, <1>14, <1>15, <1>16
        DEF HttpNext, Client, Session, HeadWritten, TrailersWritten

\* When no request body is passed on, a connection that was promised to stay
\* open carries the next request: the session answers 400 only to a request
\* that is malformed, or to the end of the client's stream.
THEOREM PromisesAreKept ==
    ASSUME KindsAssumption, NothingPassedOn
    PROVE  HttpSpec => []PromiseKept
<1>1. HttpInit => PromiseInv
  BY ForwardInitOK DEF HttpInit, PromiseInv
<1>2. PromiseInv /\ [HttpNext]_httpVars => PromiseInv'
  BY PromiseNext
<1>3. PromiseInv => PromiseKept
  BY DEF PromiseInv, PromiseKept, Deserved
<1> QED BY <1>1, <1>2, <1>3, PTL DEF HttpSpec

(***************************************************************************)
(* Socks4Request, for every user id, every domain and every way in which   *)
(* TCP cuts them.  As long as the user id is being read, what was read and *)
(* what was not read yet are together the client's bytes.                  *)
(***************************************************************************)

\* The bytes that any client sends.
Octets == {Terminator} \cup UNION {ToSet(s) : s \in UserIds \cup Domains}

\* While the user id is read nothing is lost; what was taken is the client's.
Socks4Inv ==
    /\ request \in Socks4Requests /\ wire \in Seq(Octets) /\ payload \in Seq(Octets)
    /\ stage = "user" => payload \o wire = Bytes(request)
    /\ UserIdExact

\* What a client sends begins with its user id and the first terminator.
LEMMA BytesFacts ==
    ASSUME StringsAssumption, NEW r \in Socks4Requests
    PROVE  /\ r.user \in Seq(Octets) /\ Bytes(r) \in Seq(Octets)
           /\ Len(r.user) + 1 <= Len(Bytes(r)) /\ Bytes(r)[Len(r.user) + 1] = Terminator
           /\ \A i \in 1 .. Len(r.user) : Bytes(r)[i] = r.user[i] /\ r.user[i] # Terminator
<1>1. r.user \in UserIds /\ r.domain \in Domains
  BY DEF Socks4Requests
<1>2. \A s \in UserIds \cup Domains : s \in Seq(Octets)
  <2> SUFFICES ASSUME NEW s \in UserIds \cup Domains PROVE s \in Seq(Octets)
    OBVIOUS
  <2>1. s \in Seq(ToSet(s)) /\ ToSet(s) \subseteq Octets
    BY DEF StringsAssumption, Octets
  <2> QED BY <2>1
<1>3. \A i \in 1 .. Len(r.user) : r.user[i] # Terminator
  <2>1. Terminator \notin ToSet(r.user) /\ DOMAIN r.user = 1 .. Len(r.user)
    BY <1>1, <1>2 DEF StringsAssumption
  <2> QED BY <2>1 DEF ToSet
<1>4. Terminator \in Octets
  BY DEF Octets
<1> DEFINE tail == IF r.is4a THEN r.domain \o <<Terminator>> ELSE << >>
<1>5. tail \in Seq(Octets) /\ r.user \in Seq(Octets)
  BY <1>1, <1>2, <1>4
<1>6. Bytes(r) = (r.user \o <<Terminator>>) \o tail
  BY <1>5, <1>4 DEF Bytes
<1> HIDE DEF tail
<1> QED BY <1>3, <1>4, <1>5, <1>6

\* The text before the first terminator of what was read is the user id.
LEMMA TextIsUser ==
    ASSUME StringsAssumption, Socks4Inv, stage = "user", Complete
    PROVE  Text = request.user
<1> DEFINE n == Len(request.user)
           I == {i \in 1 .. Len(payload) : payload[i] = Terminator}
<1>1. /\ request.user \in Seq(Octets) /\ Bytes(request) \in Seq(Octets)
      /\ n + 1 <= Len(Bytes(request)) /\ Bytes(request)[n + 1] = Terminator
      /\ \A i \in 1 .. n : Bytes(request)[i] = request.user[i] /\ request.user[i] # Terminator
  BY BytesFacts DEF Socks4Inv
<1>2. \A i \in 1 .. Len(payload) : payload[i] = Bytes(request)[i]
  BY DEF Socks4Inv
<1>3. Len(payload) >= n + 1
  <2>1. PICK i \in 1 .. Len(payload) : payload[i] = Terminator
    BY DEF Complete, Contains
  <2>2. n \in Nat /\ ~(i <= n)
    BY <1>1, <1>2, <2>1
  <2>3. i \in Nat /\ Len(payload) \in Nat /\ i <= Len(payload)
    BY <2>1 DEF Socks4Inv
  <2> QED BY <2>2, <2>3
<1>4. n + 1 \in I /\ \A i \in I : n + 1 <= i
  BY <1>1, <1>2, <1>3
<1>5. Min(I) = n + 1
  <2>1. \A x \in I : (\A i \in I : x <= i) => x = n + 1
    BY <1>4, <1>1
  <2> QED BY <1>4, <2>1, Zenon DEF Min
<1>6. SelectInSeq(payload, LAMBDA b : b = Terminator) = n + 1
  BY <1>4, <1>5, Zenon DEF SelectInSeq
<1>7. Text = SubSeq(payload, 1, n)
  <2>1. Text = SubSeq(payload, 1, (n + 1) - 1)
    BY <1>6, Zenon DEF Text
  <2>2. (n + 1) - 1 = n
    BY <1>1
  <2> QED BY <2>1, <2>2
<1> QED BY <1>1, <1>2, <1>3, <1>7 DEF Socks4Inv

\* The header has been read and nothing else.
LEMMA Socks4InitOK == ASSUME StringsAssumption, Socks4Init PROVE Socks4Inv
<1>1. Bytes(request) \in Seq(Octets)
  BY BytesFacts DEF Socks4Init
<1> QED BY <1>1 DEF Socks4Init, Socks4Inv, UserIdExact

\* Reading moves bytes, and taking the user id takes all of it.
LEMMA Socks4NextOK ==
    ASSUME StringsAssumption, Socks4Inv, [Socks4Next]_socks4Vars PROVE Socks4Inv'
<1>1. CASE UNCHANGED socks4Vars
  BY <1>1 DEF socks4Vars, Socks4Inv, UserIdExact
<1>2. ASSUME NEW n \in 1 .. Len(wire), Pull(n) PROVE Socks4Inv'
  <2>1. wire' \in Seq(Octets) /\ SubSeq(wire, 1, n) \in Seq(Octets)
    BY <1>2 DEF Pull, Socks4Inv
  <2>2. CASE UNCHANGED payload /\ stage' = "closed"
    BY <1>2, <2>1, <2>2 DEF Pull, Socks4Inv, UserIdExact
  <2>3. CASE payload' = payload \o SubSeq(wire, 1, n) /\ UNCHANGED stage
    <3>1. payload' \in Seq(Octets)
      BY <2>1, <2>3 DEF Socks4Inv
    <3>2. payload' \o wire' = payload \o wire
      <4>1. SubSeq(wire, 1, n) \o SubSeq(wire, n + 1, Len(wire)) = wire
        BY DEF Socks4Inv
      <4>2. \A a, b, c \in Seq(Octets) : (a \o b) \o c = a \o (b \o c)
        OBVIOUS
      <4>3. wire' = SubSeq(wire, n + 1, Len(wire)) /\ payload \in Seq(Octets)
        BY <1>2 DEF Pull, Socks4Inv
      <4> DEFINE a == SubSeq(wire, 1, n)
                 b == SubSeq(wire, n + 1, Len(wire))
      <4>4. (payload \o a) \o b = payload \o (a \o b)
        <5>1. a \in Seq(Octets) /\ b \in Seq(Octets)
          BY <2>1, <4>3
        <5> HIDE DEF a, b
        <5> QED BY <4>2, <4>3, <5>1
      <4> QED BY <2>3, <4>1, <4>3, <4>4, Zenon
    <3> QED BY <1>2, <2>1, <2>3, <3>1, <3>2 DEF Pull, Socks4Inv, UserIdExact, Bytes
  <2> QED BY <1>2, <2>2, <2>3 DEF Pull
<1>3. CASE PullFails
  BY <1>3 DEF PullFails, Socks4Inv, UserIdExact
<1>4. CASE TakeUser
  <2>1. user' = request.user
    BY <1>4, TextIsUser DEF TakeUser
  <2>2. payload' \in Seq(Octets) /\ stage' # "user"
    <3>1. << >> \in Seq(Octets)
      OBVIOUS
    <3> QED BY <1>4, <3>1 DEF TakeUser, Socks4Inv
  <2> QED BY <1>4, <2>1, <2>2 DEF TakeUser, Socks4Inv, UserIdExact
<1>5. CASE TakeDomain
  BY <1>5 DEF TakeDomain, Socks4Inv, UserIdExact
<1> QED BY <1>1, <1>2, <1>3, <1>4, <1>5 DEF Socks4Next

\* However TCP cuts a request, and whatever strings clients send, the user id
\* that was read when run_socks4_request() goes on is the client's.
THEOREM ExactUserId == ASSUME StringsAssumption PROVE Socks4Spec => []UserIdExact
<1>1. Socks4Init => Socks4Inv
  BY Socks4InitOK
<1>2. Socks4Inv /\ [Socks4Next]_socks4Vars => Socks4Inv'
  BY Socks4NextOK
<1>3. Socks4Inv => UserIdExact
  BY DEF Socks4Inv
<1> QED BY <1>1, <1>2, <1>3, PTL DEF Socks4Spec

(***************************************************************************)
(* Proofs about ProxyServer, its sessions and the connection registry, for *)
(* any number of sessions, starts, connection ids and close_connection()   *)
(* calls: stop() leaves nothing behind, an open session is always within   *)
(* its reach, the registry has the record of every open connection, and a  *)
(* session whose close() returned holds nothing and has no record, unless  *)
(* that close() overtook a handler of the session.                         *)
(*                                                                         *)
(* The inductive invariant says who may hold the strand in which phase,    *)
(* what a server that is down still has, where an id may be recorded, which*)
(* start a listed session belongs to, that a session is closed and not torn*)
(* down only while the management thread is in close(), and what a torn    *)
(* session may have.  That thread does not wait for the strand: what a     *)
(* handler does after its check of closed_ is what `overtaken' excepts.    *)
(***************************************************************************)

\* The gate is open exactly while the server runs, and a control thread in
\* stop() has already cleared running_.
GateAgrees == (gate <=> running) /\ (control # "idle" => ~running)

\* Before the first start, and from stop_on_owner() to the next start.
Down == ~running /\ control # "stopping"

\* A server that is down lists nothing, has no resolver request registered,
\* accepts nothing and runs no handler that was between its steps; once stop()
\* returned, its accept loop is gone too.
DownIsEmpty ==
    Down => /\ listed = {} /\ requests = {} /\ strand = Free /\ loop # "accepting"
            /\ control = "idle" => loop = "none"
            /\ \A s \in Sessions : sess[s].phase # "free" => sess[s].closed

\* A handler between its two steps has its session in the phase in which it
\* took the strand, and a handle is on its way to the relay only within
\* start_relay().
StrandAgrees ==
    \A s \in Sessions :
        /\ sess[s].phase = "accepted" <=> strand = <<"accept", s>>
        /\ strand = <<"open", s>> => sess[s].phase = "request" /\ nextId <= MaxIds
        /\ strand = <<"keep", s>> => sess[s].phase \in {"dialing", "exchange"}
        /\ strand = <<"relay", s>> => sess[s].phase = "replying"
        /\ sess[s].remote = "relay" => sess[s].relay = "running" \/ strand = <<"relay", s>>

\* Recorded ids were given out, and a session that has not opened a target has
\* none.
IdsAgree ==
    /\ \A i \in DOMAIN registry : i < nextId
    /\ \A s \in Sessions :
          sess[s].phase \in {"free", "accepted", "handshake", "protocol", "request"}
             => sess[s].id = NoId

\* A listed session, and one about to be, belongs to the latest start: its
\* close handler finds the gate of that start.
ListedAgree ==
    /\ \A s \in listed : sess[s].phase \notin {"free", "accepted"} /\ sess[s].gateOf = starts
    /\ \A s \in Sessions : sess[s].phase = "accepted" => sess[s].gateOf = starts

\* close() claims a session before it tears it down.
TornIsClosed == \A s \in Sessions : sess[s].torn => sess[s].closed

\* A record's id is its session's, a session's id is recorded, and an open session that
\* has a target has an id.
RecordsAgree ==
    /\ \A i \in DOMAIN registry : sess[registry[i]].id = i
    /\ \A s \in Sessions :
          /\ sess[s].id # NoId => sess[s].id \in DOMAIN registry /\ registry[sess[s].id] = s
          /\ sess[s].phase \in HasTarget /\ ~sess[s].closed => sess[s].id # NoId

\* close_connection() finds a session that was listed, and tears down what it claimed.
KillAgrees ==
    kill # Idle =>
        /\ sess[kill.target].phase \notin {"free", "accepted"}
        /\ kill.at = "claimed" => sess[kill.target].closed /\ ~sess[kill.target].torn

\* A session that is closed is torn down or being torn down; torn down under a
\* handler that goes on, it was overtaken; and torn down otherwise it has no
\* handle, relay or id, and is listed only until stop_on_owner() clears the list.
TornAgrees ==
    \A s \in Sessions :
        /\ sess[s].phase = "free" => sess[s] = Fresh
        /\ sess[s].phase = "accepted" => ~sess[s].closed
        /\ sess[s].closed /\ ~sess[s].torn => BeingClosed(s)
        /\ sess[s].torn /\ Within(s) => sess[s].overtaken
        /\ sess[s].torn /\ ~sess[s].overtaken =>
              sess[s].remote = "none" /\ sess[s].relay # "running" /\ sess[s].id = NoId
        /\ sess[s].torn /\ s \in listed => control = "stopping"

\* The inductive invariant.
IInv ==
    /\ ServerAssumption
    /\ ServerTypeOK /\ GateAgrees /\ DownIsEmpty /\ StrandAgrees /\ IdsAgree /\ ListedAgree
    /\ RecordsAgree /\ StopReachesAll /\ TornIsClosed /\ KillAgrees /\ TornAgrees

(***************************************************************************)
(* The registry and the teardown of a session                              *)
(***************************************************************************)
\* What connection_registry_ may be.
Maps == UNION {[I -> Sessions] : I \in SUBSET (1 .. MaxIds)}

\* A registry is a function from given-out ids to sessions.
LEMMA MapFacts ==
    ASSUME NEW f
    PROVE  f \in Maps <=> /\ f = [i \in DOMAIN f |-> f[i]]
                          /\ DOMAIN f \subseteq 1 .. MaxIds
                          /\ \A i \in DOMAIN f : f[i] \in Sessions
<1>1. ASSUME f \in Maps
      PROVE  /\ f = [i \in DOMAIN f |-> f[i]]
             /\ DOMAIN f \subseteq 1 .. MaxIds
             /\ \A i \in DOMAIN f : f[i] \in Sessions
  <2>1. PICK I \in SUBSET (1 .. MaxIds) : f \in [I -> Sessions]
    BY <1>1 DEF Maps
  <2> QED BY <2>1
<1>2. ASSUME f = [i \in DOMAIN f |-> f[i]], DOMAIN f \subseteq 1 .. MaxIds,
             \A i \in DOMAIN f : f[i] \in Sessions
      PROVE  f \in Maps
  <2>1. f \in [DOMAIN f -> Sessions]
    BY <1>2
  <2> QED BY <2>1, <1>2 DEF Maps
<1> QED BY <1>1, <1>2

\* ConnectionRegistry::remove() drops the ids it is given and keeps the rest.
LEMMA WithoutFacts ==
    ASSUME NEW f \in Maps, NEW I
    PROVE  /\ Unrecorded(f, I) \in Maps
           /\ DOMAIN Unrecorded(f, I) = DOMAIN f \ I
           /\ \A i \in DOMAIN f \ I : Unrecorded(f, I)[i] = f[i]
<1> DEFINE g == Unrecorded(f, I)
<1>1. DOMAIN g = DOMAIN f \ I /\ g = [i \in DOMAIN g |-> g[i]]
      /\ \A i \in DOMAIN f \ I : g[i] = f[i]
  BY DEF Unrecorded
<1>2. g \in Maps
  <2>1. DOMAIN f \subseteq 1 .. MaxIds /\ \A i \in DOMAIN f : f[i] \in Sessions
    BY MapFacts
  <2> HIDE DEF g
  <2> QED BY <2>1, <1>1, MapFacts
<1> QED BY <1>1, <1>2

\* close() leaves the phase alone and leaves a handle only if it was moved to a
\* relay that is not assigned yet.
LEMMA TornType ==
    ASSUME ServerAssumption, NEW x \in SessionState
    PROVE  /\ Torn(x) \in SessionState
           /\ Torn(x).phase = x.phase /\ Torn(x).closed /\ Torn(x).torn /\ Torn(x).id = NoId
           /\ Torn(x).gateOf = x.gateOf /\ Torn(x).relay # "running"
           /\ Torn(x).overtaken = x.overtaken /\ Torn(x).remote \in {"none", "relay"}
           /\ x.remote = "relay" /\ x.relay = "running" => Torn(x).remote = "none"
           /\ x.remote # "relay" => Torn(x).remote = "none"
           /\ Torn(x).remote = "relay" => x.remote = "relay" /\ x.relay # "running"
<1> DEFINE R == IF x.relay = "running" THEN "over" ELSE x.relay
           M == IF x.remote = "held" \/ x.relay = "running" THEN "none" ELSE x.remote
<1>1. Torn(x) = [x EXCEPT !.closed = TRUE, !.torn = TRUE, !.id = NoId,
                          !.relay = R, !.remote = M]
  BY Zenon DEF Torn
<1>2. x.remote \in {"none", "held", "relay"} /\ x.relay \in {"none", "running", "over"}
  BY DEF SessionState
<1>3. NoId \in 0 .. MaxIds
  BY DEF ServerAssumption, NoId
<1>4. /\ R \in {"none", "over"} /\ M \in {"none", "relay"}
      /\ x.remote = "relay" /\ x.relay = "running" => M = "none"
      /\ x.remote # "relay" => M = "none"
      /\ M = "relay" => x.remote = "relay" /\ x.relay # "running"
  BY <1>2
<1> HIDE DEF R, M
<1>5. Torn(x) \in SessionState
  BY <1>1, <1>3, <1>4 DEF SessionState
<1>6. /\ Torn(x).phase = x.phase /\ Torn(x).closed /\ Torn(x).torn /\ Torn(x).id = NoId
      /\ Torn(x).gateOf = x.gateOf /\ Torn(x).relay = R /\ Torn(x).remote = M
      /\ Torn(x).overtaken = x.overtaken
  BY <1>1 DEF SessionState
<1> QED BY <1>4, <1>5, <1>6

\* A handler that ends in close() changes its own session only, and drops no
\* record but its own.
LEMMA ClosesFacts ==
    ASSUME ServerAssumption, ServerTypeOK, NEW s \in Sessions, NEW x \in SessionState, Closes(s, x)
    PROVE  /\ sess' \in [Sessions -> SessionState] /\ registry' \in Maps
           /\ listed' \subseteq listed
           /\ \A t \in Sessions : t # s => sess'[t] = sess[t]
           /\ \A t \in listed : t # s => t \in listed'
           /\ \A i \in DOMAIN registry' : i \in DOMAIN registry /\ registry'[i] = registry[i]
           /\ x.closed => sess'[s] = x /\ registry' = registry /\ listed' = listed
           /\ ~x.closed => /\ sess'[s] = Torn(x) /\ listed' = listed \ Unlisted({s})
                           /\ DOMAIN registry' = DOMAIN registry \ {x.id}
<1>1. registry \in Maps /\ sess \in [Sessions -> SessionState]
  BY DEF ServerTypeOK, Maps
<1>2. CASE x.closed
  BY <1>1, <1>2 DEF Closes
<1>3. CASE ~x.closed
  <2>1. Torn(x) \in SessionState
    BY TornType
  <2>2. registry' = Unrecorded(registry, {x.id}) /\ listed' = listed \ Unlisted({s})
        /\ sess' = [sess EXCEPT ![s] = Torn(x)]
    BY <1>3 DEF Closes
  <2> DEFINE W == Unrecorded(registry, {x.id})
  <2>3. /\ W \in Maps /\ DOMAIN W = DOMAIN registry \ {x.id}
        /\ \A i \in DOMAIN registry \ {x.id} : W[i] = registry[i]
    BY <1>1, WithoutFacts
  <2>4. sess'[s] = Torn(x) /\ sess' \in [Sessions -> SessionState]
        /\ \A t \in Sessions : t # s => sess'[t] = sess[t]
    BY <1>1, <2>1, <2>2
  <2>5. listed' \subseteq listed /\ \A t \in listed : t # s => t \in listed'
    BY <2>2 DEF Unlisted
  <2> HIDE DEF W
  <2>6. registry' = W
    BY <2>2 DEF W
  <2> QED BY <1>3, <2>2, <2>3, <2>4, <2>5, <2>6
<1> QED BY <1>2, <1>3

\* stop_on_owner() tears down the sessions it copied, and drops their records.
LEMMA CloseAllFacts ==
    ASSUME ServerAssumption, ServerTypeOK, NEW T, CloseAll(T, sess)
    PROVE  /\ sess' \in [Sessions -> SessionState] /\ registry' \in Maps
           /\ \A t \in Sessions : sess'[t] = IF t \in T THEN Torn(sess[t]) ELSE sess[t]
           /\ DOMAIN registry' = DOMAIN registry \ {sess[t].id : t \in T}
           /\ \A i \in DOMAIN registry' : i \in DOMAIN registry /\ registry'[i] = registry[i]
<1>1. registry \in Maps /\ sess \in [Sessions -> SessionState]
  BY DEF ServerTypeOK, Maps
<1>2. \A t \in Sessions : Torn(sess[t]) \in SessionState
  BY <1>1, TornType
<1> DEFINE W == Unrecorded(registry, {sess[t].id : t \in T})
<1>3. /\ W \in Maps /\ DOMAIN W = DOMAIN registry \ {sess[t].id : t \in T}
      /\ \A i \in DOMAIN registry \ {sess[t].id : t \in T} : W[i] = registry[i]
  BY <1>1, WithoutFacts
<1>4. sess' \in [Sessions -> SessionState]
      /\ \A t \in Sessions : sess'[t] = IF t \in T THEN Torn(sess[t]) ELSE sess[t]
  BY <1>1, <1>2 DEF CloseAll
<1>5. registry' = W
  BY DEF CloseAll
<1> HIDE DEF W
<1> QED BY <1>3, <1>4, <1>5

(***************************************************************************)
(* Closing keeps the invariant                                             *)
(***************************************************************************)
\* A handler that ends in close() keeps the invariant, whatever it did before.
LEMMA CloseKeeps ==
    ASSUME IInv, NEW s \in Sessions, NEW x \in SessionState, Closes(s, x),
           sess[s].phase # "free", x.phase = "gone", x.closed = sess[s].closed,
           x.torn = sess[s].torn, x.id = sess[s].id, x.gateOf = sess[s].gateOf,
           x.overtaken = sess[s].overtaken,
           \/ x.remote = sess[s].remote /\ x.relay = sess[s].relay
           \/ x.remote = "none" /\ x.relay = "over",
           strand = Free \/ strand = <<"accept", s>>, strand' = Free,
           loop' = loop \/ loop' = "none",
           UNCHANGED <<running, gate, starts, control, scope, broken, requests, nextId, manager>>
    PROVE  IInv'
<1>1. ServerAssumption /\ ServerTypeOK
  BY DEF IInv
<1>2. /\ sess' \in [Sessions -> SessionState] /\ registry' \in Maps
      /\ listed' \subseteq listed
      /\ \A t \in Sessions : t # s => sess'[t] = sess[t]
      /\ \A t \in listed : t # s => t \in listed'
      /\ \A i \in DOMAIN registry' : i \in DOMAIN registry /\ registry'[i] = registry[i]
      /\ x.closed => sess'[s] = x /\ registry' = registry /\ listed' = listed
      /\ ~x.closed => /\ sess'[s] = Torn(x) /\ listed' = listed \ Unlisted({s})
                      /\ DOMAIN registry' = DOMAIN registry \ {x.id}
  BY <1>1, ClosesFacts
<1>3. x.remote = "relay" => x.relay = "running"
  BY DEF IInv, StrandAgrees, Free
<1>4. /\ sess'[s] \in SessionState /\ sess'[s].phase = "gone" /\ sess'[s].closed
      /\ sess'[s].gateOf = sess[s].gateOf
      /\ sess'[s].remote = "relay" => sess'[s].relay = "running"
      /\ sess'[s].id = IF x.closed THEN sess[s].id ELSE NoId
      /\ sess[s].torn => sess[s].closed /\ sess'[s].remote = x.remote /\ sess'[s].relay = x.relay
      /\ ~sess[s].closed => /\ sess'[s].remote = "none" /\ sess'[s].relay # "running"
                            /\ sess'[s].torn
      /\ sess[s].closed => sess'[s].torn = sess[s].torn
      /\ sess'[s].overtaken = sess[s].overtaken
  <2>1. sess[s].torn => sess[s].closed
    BY DEF IInv, TornIsClosed
  <2>2. CASE x.closed
    BY <1>2, <1>3, <2>1, <2>2
  <2>3. CASE ~x.closed
    BY <1>1, <1>2, <1>3, <2>1, <2>3, TornType
  <2> QED BY <2>2, <2>3
<1>5. ServerTypeOK'
  BY <1>1, <1>2 DEF ServerTypeOK, Maps, Free, manager
<1>6. GateAgrees'
  BY DEF IInv, GateAgrees
<1>7. DownIsEmpty'
  BY <1>2, <1>4 DEF IInv, DownIsEmpty, Down
<1>8. StrandAgrees'
  BY <1>2, <1>4 DEF IInv, StrandAgrees, Free
<1>9. IdsAgree'
  BY <1>2, <1>4 DEF IInv, IdsAgree, NoId
<1>10. ListedAgree'
  BY <1>1, <1>2, <1>4 DEF IInv, ListedAgree, ServerTypeOK
<1>11. RecordsAgree'
  <2>1. CASE x.closed
    BY <1>2, <1>4, <2>1, MapFacts DEF IInv, RecordsAgree
  <2>2. ASSUME ~x.closed, NEW i \in DOMAIN registry' PROVE sess'[registry'[i]].id = i
    <3>1. i \in DOMAIN registry /\ registry'[i] = registry[i] /\ i # sess[s].id
      BY <1>2, <2>2
    <3>2. registry[i] \in Sessions /\ sess[registry[i]].id = i
      BY <1>1, <3>1, MapFacts DEF IInv, RecordsAgree, ServerTypeOK, Maps
    <3> QED BY <1>2, <3>1, <3>2
  <2>3. ASSUME ~x.closed, NEW t \in Sessions, sess'[t].id # NoId
        PROVE  sess'[t].id \in DOMAIN registry' /\ registry'[sess'[t].id] = t
    <3>1. t # s
      BY <1>4, <2>3
    <3>2. sess'[t] = sess[t] /\ sess[t].id \in DOMAIN registry /\ registry[sess[t].id] = t
      BY <1>2, <2>3, <3>1 DEF IInv, RecordsAgree
    <3>3. sess[t].id # sess[s].id
      BY <2>3, <3>1, <3>2 DEF IInv, RecordsAgree
    <3> QED BY <1>2, <2>3, <3>2, <3>3
  <2>4. \A t \in Sessions : sess'[t].phase \in HasTarget /\ ~sess'[t].closed => sess'[t].id # NoId
    BY <1>2, <1>4 DEF IInv, RecordsAgree
  <2> QED BY <2>1, <2>2, <2>3, <2>4 DEF RecordsAgree
<1>12. StopReachesAll'
  BY <1>2, <1>4 DEF IInv, StopReachesAll
<1>13. TornIsClosed'
  BY <1>2, <1>4 DEF IInv, TornIsClosed
<1>14. KillAgrees'
  BY <1>2, <1>4 DEF IInv, KillAgrees, ServerTypeOK, manager, Idle
<1>15. TornAgrees'
  <2>1. \A t \in Sessions : ~Within(t)' /\ (BeingClosed(t)' <=> BeingClosed(t))
    BY DEF Within, Free, BeingClosed, manager
  <2>2. ASSUME s \in listed', sess'[s].torn PROVE control' = "stopping"
    <3>1. CASE x.closed
      BY <1>2, <2>2, <3>1 DEF IInv, TornAgrees
    <3>2. CASE ~x.closed
      <4>1. s \in listed /\ ~gate
        BY <1>2, <2>2, <3>2 DEF IInv, ListedAgree, Unlisted
      <4> QED BY <4>1 DEF IInv, GateAgrees, DownIsEmpty, Down
    <3> QED BY <3>1, <3>2
  <2>3. ASSUME sess'[s].torn, ~sess'[s].overtaken
        PROVE  sess'[s].remote = "none" /\ sess'[s].relay # "running" /\ sess'[s].id = NoId
    BY <1>2, <1>4, <2>3 DEF IInv, TornAgrees
  <2>4. sess'[s].closed /\ ~sess'[s].torn => BeingClosed(s)
    BY <1>2, <1>4 DEF IInv, TornAgrees
  <2>5. ASSUME NEW t \in Sessions, t # s
        PROVE  /\ sess'[t].phase = "free" => sess'[t] = Fresh
               /\ sess'[t].phase = "accepted" => ~sess'[t].closed
               /\ sess'[t].closed /\ ~sess'[t].torn => BeingClosed(t)
               /\ sess'[t].torn /\ ~sess'[t].overtaken =>
                     sess'[t].remote = "none" /\ sess'[t].relay # "running" /\ sess'[t].id = NoId
               /\ sess'[t].torn /\ t \in listed' => control' = "stopping"
    BY <1>2, <2>5 DEF IInv, TornAgrees
  <2>6. sess'[s].phase = "gone"
    BY <1>4
  <2> QED BY <2>1, <2>2, <2>3, <2>4, <2>5, <2>6 DEF TornAgrees
<1> QED BY <1>1, <1>5, <1>6, <1>7, <1>8, <1>9, <1>10, <1>11, <1>12, <1>13, <1>14,
          <1>15 DEF IInv, ServerAssumption

\* stop_on_owner() reaches every open session, since none is out of sessions_.
LEMMA StopOnOwnerKeeps == ASSUME IInv, StopOnOwner PROVE IInv'
<1> DEFINE T == Open(listed)
<1>1. ServerAssumption /\ ServerTypeOK /\ T \subseteq listed /\ strand = Free /\ ~running
      /\ \A t \in listed : t \notin T => sess[t].closed
  BY DEF IInv, Open, StopOnOwner, GateAgrees
<1>2. /\ CloseAll(T, sess) /\ listed' = {} /\ requests' = {} /\ control' = "draining"
      /\ scope' = "stopped" /\ loop' = IF loop = "accepting" THEN "aborted" ELSE loop
      /\ UNCHANGED <<running, gate, starts, broken, nextId, strand, kill, kills>>
  BY DEF StopOnOwner, manager
<1> HIDE DEF T
<1>3. /\ sess' \in [Sessions -> SessionState] /\ registry' \in Maps
      /\ \A t \in Sessions : sess'[t] = IF t \in T THEN Torn(sess[t]) ELSE sess[t]
      /\ DOMAIN registry' = DOMAIN registry \ {sess[t].id : t \in T}
      /\ \A i \in DOMAIN registry' : i \in DOMAIN registry /\ registry'[i] = registry[i]
  BY <1>1, <1>2, CloseAllFacts
<1>4. \A t \in Sessions : sess[t].remote = "relay" => sess[t].relay = "running"
  BY <1>1 DEF IInv, StrandAgrees, Free
<1>5. \A t \in Sessions :
        /\ sess'[t].phase = sess[t].phase /\ sess'[t].gateOf = sess[t].gateOf
        /\ sess'[t].overtaken = sess[t].overtaken
        /\ t \notin T => sess'[t] = sess[t]
        /\ t \in T => /\ sess'[t].closed /\ sess'[t].torn /\ sess'[t].id = NoId
                      /\ sess'[t].remote = "none" /\ sess'[t].relay # "running"
  <2> SUFFICES ASSUME NEW t \in Sessions
               PROVE  /\ sess'[t].phase = sess[t].phase /\ sess'[t].gateOf = sess[t].gateOf
                      /\ sess'[t].overtaken = sess[t].overtaken
                      /\ t \notin T => sess'[t] = sess[t]
                      /\ t \in T => /\ sess'[t].closed /\ sess'[t].torn /\ sess'[t].id = NoId
                                    /\ sess'[t].remote = "none" /\ sess'[t].relay # "running"
    OBVIOUS
  <2>1. CASE t \notin T
    BY <1>3, <2>1
  <2>2. CASE t \in T
    <3>1. sess[t] \in SessionState
      BY <1>1 DEF ServerTypeOK
    <3> QED BY <1>1, <1>3, <1>4, <2>2, <3>1, TornType
  <2> QED BY <2>1, <2>2
<1>6. ServerTypeOK'
  BY <1>1, <1>2, <1>3 DEF ServerTypeOK, Maps, Free
<1>7. GateAgrees'
  BY <1>1, <1>2 DEF IInv, GateAgrees
<1>8. DownIsEmpty'
  <2>1. ASSUME NEW t \in Sessions, sess[t].phase # "free" PROVE sess'[t].closed
    <3>1. sess[t].phase # "accepted"
      BY <1>1 DEF IInv, StrandAgrees, Free
    <3>2. sess[t].closed \/ t \in T
      BY <1>1, <2>1, <3>1 DEF IInv, StopReachesAll
    <3> QED BY <1>5, <3>2
  <2> QED BY <1>1, <1>2, <1>5, <2>1 DEF DownIsEmpty, Down
<1>9. StrandAgrees'
  BY <1>1, <1>2, <1>5 DEF IInv, StrandAgrees, Free
<1>10. IdsAgree'
  BY <1>2, <1>3, <1>5 DEF IInv, IdsAgree
<1>11. ListedAgree'
  BY <1>2, <1>5 DEF IInv, ListedAgree
<1>12. RecordsAgree'
  <2>1. ASSUME NEW i \in DOMAIN registry' PROVE sess'[registry'[i]].id = i
    <3>1. i \in DOMAIN registry /\ registry'[i] = registry[i]
          /\ i \notin {sess[t].id : t \in T}
      BY <1>3
    <3>2. registry[i] \in Sessions /\ sess[registry[i]].id = i
      BY <1>1, <3>1, MapFacts DEF IInv, RecordsAgree, ServerTypeOK, Maps
    <3>3. registry[i] \notin T
      BY <3>1, <3>2
    <3> QED BY <1>5, <3>1, <3>2, <3>3
  <2>2. ASSUME NEW t \in Sessions, sess'[t].id # NoId
        PROVE  sess'[t].id \in DOMAIN registry' /\ registry'[sess'[t].id] = t
    <3>1. t \notin T /\ sess'[t] = sess[t]
      BY <1>5, <2>2
    <3>2. sess[t].id \in DOMAIN registry /\ registry[sess[t].id] = t
      BY <2>2, <3>1 DEF IInv, RecordsAgree
    <3>3. sess[t].id \notin {sess[u].id : u \in T}
      <4> SUFFICES ASSUME NEW u \in T, sess[u].id = sess[t].id PROVE FALSE
        OBVIOUS
      <4>1. u \in Sessions
        BY <1>1 DEF ServerTypeOK
      <4>2. registry[sess[u].id] = u
        BY <2>2, <3>1, <4>1 DEF IInv, RecordsAgree
      <4> QED BY <3>1, <3>2, <4>2
    <3> QED BY <1>3, <3>1, <3>2, <3>3
  <2>3. \A t \in Sessions : sess'[t].phase \in HasTarget /\ ~sess'[t].closed => sess'[t].id # NoId
    BY <1>5 DEF IInv, RecordsAgree
  <2> QED BY <2>1, <2>2, <2>3 DEF RecordsAgree
<1>13. StopReachesAll'
  <2>1. ASSUME NEW t \in Sessions, sess[t].phase \notin {"free", "accepted"} PROVE sess'[t].closed
    BY <1>1, <1>5, <2>1 DEF IInv, StopReachesAll
  <2> QED BY <1>5, <2>1 DEF StopReachesAll
<1>14. TornIsClosed'
  BY <1>5 DEF IInv, TornIsClosed
<1>15. KillAgrees'
  <2>1. kill # Idle /\ kill.at = "claimed" => kill.target \notin T
    BY <1>1 DEF IInv, KillAgrees, Open, T
  <2>2. kill # Idle => kill.target \in Sessions
    BY <1>1 DEF ServerTypeOK
  <2> QED BY <1>2, <1>5, <2>1, <2>2 DEF IInv, KillAgrees
<1>16. TornAgrees'
  <2>1. \A t \in Sessions : ~Within(t)' /\ (BeingClosed(t)' <=> BeingClosed(t))
    BY <1>1, <1>2 DEF Within, Free, BeingClosed
  <2>2. ASSUME NEW t \in Sessions, sess[t].phase \in {"free", "accepted"} PROVE t \notin T
    BY <1>1, <2>2 DEF IInv, ListedAgree
  <2>3. ASSUME NEW t \in Sessions
        PROVE  /\ sess'[t].phase = "free" => sess'[t] = Fresh
               /\ sess'[t].phase = "accepted" => ~sess'[t].closed
    BY <1>5, <2>2 DEF IInv, TornAgrees
  <2>4. ASSUME NEW t \in Sessions
        PROVE  /\ sess'[t].closed /\ ~sess'[t].torn => BeingClosed(t)
               /\ sess'[t].torn /\ ~sess'[t].overtaken =>
                     sess'[t].remote = "none" /\ sess'[t].relay # "running" /\ sess'[t].id = NoId
    BY <1>5 DEF IInv, TornAgrees
  <2> QED BY <1>2, <2>1, <2>3, <2>4 DEF TornAgrees
<1> QED BY <1>1, <1>6, <1>7, <1>8, <1>9, <1>10, <1>11, <1>12, <1>13, <1>14, <1>15, <1>16
        DEF IInv, ServerAssumption

\* A session task that gives up keeps the invariant.
LEMMA GivesUpKeeps == ASSUME IInv, NEW s \in Sessions, GivesUp(s) PROVE IInv'
<1> DEFINE x == [sess[s] EXCEPT !.phase = "gone"]
<1>1. sess[s] \in SessionState
  BY DEF IInv, ServerTypeOK
<1>2. /\ x \in SessionState /\ x.phase = "gone" /\ x.closed = sess[s].closed
      /\ x.torn = sess[s].torn /\ x.id = sess[s].id /\ x.gateOf = sess[s].gateOf
      /\ x.overtaken = sess[s].overtaken /\ x.remote = sess[s].remote /\ x.relay = sess[s].relay
  BY <1>1 DEF SessionState, Phases
<1>3. Closes(s, x) /\ sess[s].phase # "free" /\ strand = Free /\ strand' = Free /\ loop' = loop
      /\ UNCHANGED <<running, gate, starts, control, scope, broken, requests, nextId, manager>>
  BY DEF GivesUp, server
<1> HIDE DEF x
<1> QED BY <1>2, <1>3, CloseKeeps

\* The relay's completion handler keeps the invariant.
LEMMA RelayEndsKeeps == ASSUME IInv, NEW s \in Sessions, RelayEnds(s) PROVE IInv'
<1> DEFINE x == [sess[s] EXCEPT !.phase = "gone", !.relay = "over", !.remote = "none"]
<1>1. sess[s] \in SessionState
  BY DEF IInv, ServerTypeOK
<1>2. /\ x \in SessionState /\ x.phase = "gone" /\ x.closed = sess[s].closed
      /\ x.torn = sess[s].torn /\ x.id = sess[s].id /\ x.gateOf = sess[s].gateOf
      /\ x.overtaken = sess[s].overtaken /\ x.remote = "none" /\ x.relay = "over"
  BY <1>1 DEF SessionState, Phases
<1>3. Closes(s, x) /\ sess[s].phase # "free" /\ strand = Free /\ strand' = Free /\ loop' = loop
      /\ UNCHANGED <<running, gate, starts, control, scope, broken, requests, nextId, manager>>
  BY DEF RelayEnds, Runs, server
<1> HIDE DEF x
<1> QED BY <1>2, <1>3, CloseKeeps

\* A session inserted by a running server is listed under its start; one that
\* stop() overtook is closed.
LEMMA InsertsKeeps == ASSUME IInv, NEW s \in Sessions, Inserts(s) PROVE IInv'
<1>1. sess[s] \in SessionState /\ sess \in [Sessions -> SessionState]
  BY DEF IInv, ServerTypeOK
<1>2. /\ strand = <<"accept", s>> /\ strand' = Free /\ sess[s].phase = "accepted"
      /\ UNCHANGED <<running, gate, starts, control, scope, broken, requests, nextId, manager>>
  BY DEF Inserts, IInv, StrandAgrees
<1>3. CASE ~running
  <2> DEFINE x == [sess[s] EXCEPT !.phase = "gone"]
  <2>1. /\ x \in SessionState /\ x.phase = "gone" /\ x.closed = sess[s].closed
        /\ x.torn = sess[s].torn /\ x.id = sess[s].id /\ x.gateOf = sess[s].gateOf
        /\ x.overtaken = sess[s].overtaken /\ x.remote = sess[s].remote /\ x.relay = sess[s].relay
    BY <1>1 DEF SessionState, Phases
  <2>2. Closes(s, x) /\ loop' = "none"
    BY <1>3 DEF Inserts
  <2> HIDE DEF x
  <2> QED BY <1>2, <2>1, <2>2, CloseKeeps
<1>4. CASE running
  <2>1. listed' = listed \cup {s} /\ registry' = registry /\ loop' = loop
        /\ sess' = [sess EXCEPT ![s].phase = "handshake"]
    BY <1>4 DEF Inserts
  <2>2. /\ \A t \in Sessions : t # s => sess'[t] = sess[t]
        /\ sess' \in [Sessions -> SessionState]
        /\ sess'[s].phase = "handshake" /\ sess'[s].closed = sess[s].closed
        /\ sess'[s].torn = sess[s].torn /\ sess'[s].id = sess[s].id
        /\ sess'[s].gateOf = sess[s].gateOf /\ sess'[s].overtaken = sess[s].overtaken
        /\ sess'[s].remote = sess[s].remote /\ sess'[s].relay = sess[s].relay
    BY <1>1, <2>1 DEF SessionState, Phases
  <2>3. ServerTypeOK'
    BY <1>2, <2>1, <2>2 DEF IInv, ServerTypeOK, Free, manager
  <2>4. GateAgrees'
    BY <1>2 DEF IInv, GateAgrees
  <2>5. DownIsEmpty'
    BY <1>2, <1>4 DEF DownIsEmpty, Down
  <2>6. StrandAgrees'
    BY <1>2, <2>2 DEF IInv, StrandAgrees, Free
  <2>7. IdsAgree'
    BY <1>2, <2>1, <2>2 DEF IInv, IdsAgree
  <2>8. ListedAgree'
    <3>1. listed \subseteq Sessions
      BY DEF IInv, ServerTypeOK
    <3>2. sess[s].gateOf = starts
      BY <1>2 DEF IInv, ListedAgree
    <3> QED BY <1>2, <2>1, <2>2, <3>1, <3>2 DEF IInv, ListedAgree
  <2>9. RecordsAgree'
    <3>1. \A t \in Sessions : sess'[t].id = sess[t].id
      BY <2>2
    <3>2. \A i \in DOMAIN registry : registry[i] \in Sessions
      BY MapFacts DEF IInv, ServerTypeOK, Maps
    <3> QED BY <2>1, <2>2, <3>1, <3>2 DEF IInv, RecordsAgree, HasTarget
  <2>10. StopReachesAll'
    BY <2>1, <2>2 DEF IInv, StopReachesAll
  <2>11. TornIsClosed'
    BY <2>2 DEF IInv, TornIsClosed
  <2>12. KillAgrees'
    BY <1>2, <2>2 DEF IInv, KillAgrees, ServerTypeOK, manager
  <2>13. TornAgrees'
    <3>1. \A t \in Sessions : ~Within(t)' /\ (BeingClosed(t)' <=> BeingClosed(t))
      BY <1>2 DEF Within, Free, BeingClosed, manager
    <3>2. ~sess[s].torn /\ ~sess[s].closed
      BY <1>2 DEF IInv, TornAgrees, TornIsClosed
    <3> QED BY <1>2, <2>1, <2>2, <3>1, <3>2 DEF IInv, TornAgrees
  <2> QED BY <2>3, <2>4, <2>5, <2>6, <2>7, <2>8, <2>9, <2>10, <2>11, <2>12,
             <2>13
          DEF IInv, ServerAssumption
<1> QED BY <1>3, <1>4

(***************************************************************************)
(* A session's handlers                                                    *)
(***************************************************************************)
\* A handler that moves its session on, without touching its id or its claim,
\* keeps the invariant.
LEMMA MoveKeeps ==
    ASSUME IInv, NEW s \in Sessions, NEW y \in SessionState, sess' = [sess EXCEPT ![s] = y],
           sess[s].phase \notin {"free", "accepted"}, y.phase \notin {"free", "accepted"},
           y.closed = sess[s].closed, y.torn = sess[s].torn, y.id = sess[s].id,
           y.gateOf = sess[s].gateOf, y.overtaken = sess[s].overtaken,
           y.torn /\ ~y.overtaken => y.remote = sess[s].remote /\ y.relay = sess[s].relay,
           y.phase \in HasTarget /\ ~y.closed => y.id # NoId,
           y.phase \in {"handshake", "protocol", "request"} => y.id = NoId,
           requests' \subseteq Sessions, requests' \subseteq requests \/ gate,
           strand \in {Free, <<"keep", s>>, <<"relay", s>>},
           strand' \in {Free, <<"keep", s>>, <<"relay", s>>},
           strand' # Free => ~y.closed,
           strand' = <<"keep", s>> => y.phase \in {"dialing", "exchange"},
           strand' = <<"relay", s>> => y.phase = "replying",
           y.remote = "relay" => y.relay = "running" \/ strand' = <<"relay", s>>,
           UNCHANGED <<server, listed, registry, nextId, manager>>
    PROVE  IInv'
<1>1. sess \in [Sessions -> SessionState]
  BY DEF IInv, ServerTypeOK
<1>2. sess' \in [Sessions -> SessionState] /\ sess'[s] = y
      /\ \A t \in Sessions : t # s => sess'[t] = sess[t]
  BY <1>1
<1>3. ServerTypeOK'
  BY <1>2 DEF IInv, ServerTypeOK, server, manager, Free
<1>4. GateAgrees'
  BY DEF IInv, GateAgrees, server
<1>5. DownIsEmpty'
  <2> SUFFICES ASSUME Down PROVE DownIsEmpty'
    BY DEF DownIsEmpty, Down, server
  <2>1. ~gate /\ DownIsEmpty /\ sess[s].closed
    BY DEF IInv, GateAgrees, DownIsEmpty, Down
  <2> QED BY <1>2, <2>1 DEF DownIsEmpty, server, Down
<1>6. StrandAgrees'
  BY <1>2 DEF IInv, StrandAgrees, Free
<1>7. IdsAgree'
  BY <1>2 DEF IInv, IdsAgree
<1>8. ListedAgree'
  BY <1>2 DEF IInv, ListedAgree, server
<1>9. RecordsAgree'
  <2>1. \A t \in Sessions : sess'[t].id = sess[t].id
    BY <1>2
  <2>2. \A i \in DOMAIN registry : registry[i] \in Sessions
    BY MapFacts DEF IInv, ServerTypeOK, Maps
  <2> QED BY <1>2, <2>1, <2>2 DEF IInv, RecordsAgree
<1>10. StopReachesAll'
  BY <1>2 DEF IInv, StopReachesAll
<1>11. TornIsClosed'
  BY <1>2 DEF IInv, TornIsClosed
<1>12. KillAgrees'
  BY <1>2 DEF IInv, KillAgrees, ServerTypeOK, manager
<1>13. TornAgrees'
  <2>1. \A t \in Sessions : BeingClosed(t)' <=> BeingClosed(t)
    BY DEF BeingClosed, manager
  <2>2. \A t \in Sessions : Within(t)' => t = s /\ ~y.closed
    BY DEF Within, Free
  <2>3. y.torn => y.closed
    BY DEF IInv, TornIsClosed
  <2> QED BY <1>2, <2>1, <2>2, <2>3 DEF IInv, TornAgrees, server
<1> QED BY <1>3, <1>4, <1>5, <1>6, <1>7, <1>8, <1>9, <1>10, <1>11, <1>12,
          <1>13
        DEF IInv, ServerAssumption

\* So does one that only moves the phase.
LEMMA PhaseMoveKeeps ==
    ASSUME IInv, NEW s \in Sessions, NEW phase \in Phases \ {"free", "accepted"},
           sess' = [sess EXCEPT ![s].phase = phase],
           sess[s].phase \notin {"free", "accepted"},
           phase \in {"handshake", "protocol", "request"} => sess[s].id = NoId,
           phase \in HasTarget => sess[s].phase \in HasTarget,
           requests' \subseteq Sessions, requests' \subseteq requests \/ gate,
           strand = Free, UNCHANGED <<server, listed, registry, nextId, strand, manager>>
    PROVE  IInv'
<1> DEFINE y == [sess[s] EXCEPT !.phase = phase]
<1>1. sess[s] \in SessionState /\ sess \in [Sessions -> SessionState]
  BY DEF IInv, ServerTypeOK
<1>2. /\ y \in SessionState /\ y.phase = phase /\ y.closed = sess[s].closed
      /\ y.torn = sess[s].torn /\ y.id = sess[s].id /\ y.gateOf = sess[s].gateOf
      /\ y.overtaken = sess[s].overtaken
      /\ y.remote = sess[s].remote /\ y.relay = sess[s].relay
  BY <1>1 DEF SessionState
<1>3. sess' = [sess EXCEPT ![s] = y]
  BY <1>1
<1>4. sess[s].remote = "relay" => sess[s].relay = "running"
  BY DEF IInv, StrandAgrees, Free
<1>5. strand' = Free /\ Free # <<"relay", s>> /\ Free # <<"keep", s>>
  BY DEF Free
<1>6. /\ y.phase \notin {"free", "accepted"}
      /\ y.phase \in {"handshake", "protocol", "request"} => y.id = NoId
      /\ y.phase \in HasTarget /\ ~y.closed => y.id # NoId
      /\ y.remote = "relay" => y.relay = "running" \/ strand' = <<"relay", s>>
  BY <1>2, <1>4, <1>5 DEF IInv, RecordsAgree
<1> HIDE DEF y
<1> QED BY <1>2, <1>3, <1>5, <1>6, MoveKeeps

\* A handler that checked closed_ takes the strand.
LEMMA TakesStrand ==
    ASSUME IInv, NEW s \in Sessions, sess' = sess, ~sess[s].closed,
           sess[s].phase \in {"dialing", "exchange"}, strand = Free, strand' = <<"keep", s>>,
           UNCHANGED <<server, listed, requests, registry, nextId, manager>>
    PROVE  IInv'
<1>1. /\ sess[s] \in SessionState /\ sess \in [Sessions -> SessionState]
      /\ requests \subseteq Sessions /\ ~sess[s].torn /\ sess[s].id # NoId
      /\ sess[s].remote = "relay" => sess[s].relay = "running"
  BY DEF IInv, ServerTypeOK, TornIsClosed, RecordsAgree, HasTarget, StrandAgrees, Free
<1>2. sess' = [sess EXCEPT ![s] = sess[s]]
  BY <1>1
<1> QED BY <1>1, <1>2, MoveKeeps

\* run_handshake() keeps the invariant.
LEMMA HandshakeKeeps == ASSUME IInv, NEW s \in Sessions, Handshake(s) PROVE IInv'
<1>1. PICK phase \in {"protocol", "request"} :
        sess' = [sess EXCEPT ![s].phase = phase]
        /\ sess[s].phase \in {"handshake", "protocol"} /\ strand = Free
        /\ UNCHANGED <<server, listed, registry, requests, nextId, strand, manager>>
  BY DEF Handshake, Moves, Runs
<1>2. sess[s].id = NoId /\ requests \subseteq Sessions
  BY <1>1 DEF IInv, IdsAgree, ServerTypeOK
<1> QED BY <1>1, <1>2, PhaseMoveKeeps DEF Phases, HasTarget

\* A refused request and a UDP association keep the invariant.
LEMMA RequestMovesKeep ==
    ASSUME IInv, NEW s \in Sessions, Refuses(s) \/ Associates(s) PROVE IInv'
<1>1. PICK phase \in {"refusing", "udp"} :
        sess' = [sess EXCEPT ![s].phase = phase] /\ sess[s].phase = "request" /\ strand = Free
        /\ UNCHANGED <<server, listed, registry, requests, nextId, strand, manager>>
  BY DEF Refuses, Associates, Moves, Runs
<1>2. requests \subseteq Sessions
  BY DEF IInv, ServerTypeOK
<1> QED BY <1>1, <1>2, PhaseMoveKeeps DEF Phases, HasTarget

\* A resolver answer keeps the invariant: it registers a new request only while
\* the gate is open.
LEMMA ResolvedKeeps == ASSUME IInv, NEW s \in Sessions, Resolved(s) PROVE IInv'
<1>1. requests \subseteq Sessions
  BY DEF IInv, ServerTypeOK
<1>2. PICK phase \in {"resolving", "dialing"} :
        sess' = [sess EXCEPT ![s].phase = phase] /\ sess[s].phase = "resolving"
        /\ strand = Free /\ requests' \subseteq Sessions
        /\ (requests' \subseteq requests \/ gate)
        /\ UNCHANGED <<server, listed, registry, nextId, strand, manager>>
  <2>1. PICK again \in BOOLEAN :
          /\ requests' = IF gate /\ again THEN requests \cup {s} ELSE requests \ {s}
          /\ sess' = [sess EXCEPT ![s].phase = IF gate /\ again THEN "resolving" ELSE "dialing"]
    BY DEF Resolved
  <2>2. CASE gate /\ again
    BY <1>1, <2>1, <2>2 DEF Resolved, Runs
  <2>3. CASE ~(gate /\ again)
    BY <1>1, <2>1, <2>3 DEF Resolved, Runs
  <2> QED BY <2>2, <2>3
<1> QED BY <1>2, PhaseMoveKeeps DEF Phases, HasTarget

\* handle_open_result() keeps the invariant: a closed session drops the result, an
\* open one takes the strand.
LEMMA OpenResultKeeps == ASSUME IInv, NEW s \in Sessions, OpenResult(s) PROVE IInv'
<1>1. /\ strand = Free /\ sess[s].phase = "dialing" /\ requests \subseteq Sessions
      /\ UNCHANGED <<server, listed, registry, requests, nextId, manager>>
  BY DEF OpenResult, Runs, IInv, ServerTypeOK
<1>2. CASE sess[s].closed
  <2>1. sess' = [sess EXCEPT ![s].phase = "gone"] /\ strand' = strand
    BY <1>2 DEF OpenResult
  <2> QED BY <1>1, <2>1, PhaseMoveKeeps DEF Phases, HasTarget
<1>3. CASE ~sess[s].closed
  <2>1. sess' = sess /\ strand' = <<"keep", s>>
    BY <1>3 DEF OpenResult
  <2> QED BY <1>1, <1>3, <2>1, TakesStrand
<1> QED BY <1>2, <1>3

\* run_http_upgrade_response() takes the strand with an open session.
LEMMA UpgradedKeeps == ASSUME IInv, NEW s \in Sessions, Upgraded(s) PROVE IInv'
<1>1. /\ strand = Free /\ sess[s].phase = "exchange" /\ ~sess[s].closed
      /\ sess' = sess /\ strand' = <<"keep", s>>
      /\ UNCHANGED <<server, listed, registry, requests, nextId, manager>>
  BY DEF Upgraded, Runs
<1> QED BY <1>1, TakesStrand

\* A handle that was opened is kept, by a session that is open or was overtaken.
LEMMA KeepsHandleKeeps == ASSUME IInv, NEW s \in Sessions, KeepsHandle(s) PROVE IInv'
<1>1. PICK phase \in {"refusing", "replying", "exchange"} :
        sess' = [sess EXCEPT ![s].phase = phase,
                             ![s].remote = IF phase = "refusing" THEN "none" ELSE "held"]
  <2>1. PICK phase \in {"replying"} \cup
                       IF sess[s].phase = "dialing" THEN {"refusing", "exchange"} ELSE {} :
          sess' = [sess EXCEPT ![s].phase = phase,
                               ![s].remote = IF phase = "refusing" THEN "none" ELSE "held"]
    BY DEF KeepsHandle
  <2>2. phase \in {"refusing", "replying", "exchange"}
    OBVIOUS
  <2> QED BY <2>1, <2>2
<1> DEFINE y == [sess[s] EXCEPT !.phase = phase,
                                !.remote = IF phase = "refusing" THEN "none" ELSE "held"]
<1>2. /\ sess[s] \in SessionState /\ sess \in [Sessions -> SessionState]
      /\ strand = <<"keep", s>> /\ strand' = Free /\ requests \subseteq Sessions
      /\ sess[s].phase \in {"dialing", "exchange"} /\ (sess[s].torn => sess[s].overtaken)
      /\ UNCHANGED <<server, listed, requests, registry, nextId, manager>>
  BY DEF KeepsHandle, IInv, ServerTypeOK, StrandAgrees, TornAgrees, Within
<1>3. /\ y \in SessionState /\ y.phase = phase /\ y.closed = sess[s].closed
      /\ y.torn = sess[s].torn /\ y.id = sess[s].id /\ y.gateOf = sess[s].gateOf
      /\ y.overtaken = sess[s].overtaken /\ y.remote # "relay"
  BY <1>2 DEF SessionState, Phases
<1>4. sess' = [sess EXCEPT ![s] = y]
  BY <1>1, <1>2
<1>5. ~y.closed => y.id # NoId
  BY <1>2, <1>3 DEF IInv, RecordsAgree, HasTarget
<1> HIDE DEF y
<1> QED BY <1>2, <1>3, <1>4, <1>5, MoveKeeps DEF Free

\* start_relay() takes the strand with an open session.
LEMMA StartRelayKeeps == ASSUME IInv, NEW s \in Sessions, StartRelay(s) PROVE IInv'
<1> DEFINE y == [sess[s] EXCEPT !.remote = "relay"]
<1>1. /\ sess[s] \in SessionState /\ sess \in [Sessions -> SessionState]
      /\ sess[s].phase = "replying" /\ sess[s].id # NoId
      /\ ~sess[s].closed /\ ~sess[s].torn /\ requests \subseteq Sessions /\ strand = Free
      /\ strand' = <<"relay", s>>
      /\ UNCHANGED <<server, listed, requests, registry, nextId, manager>>
  BY DEF StartRelay, Runs, IInv, ServerTypeOK, TornIsClosed, RecordsAgree, HasTarget
<1>2. /\ y \in SessionState /\ y.phase = "replying" /\ y.closed = sess[s].closed
      /\ y.torn = sess[s].torn /\ y.id = sess[s].id /\ y.gateOf = sess[s].gateOf
      /\ y.overtaken = sess[s].overtaken
  BY <1>1 DEF SessionState
<1>3. sess' = [sess EXCEPT ![s] = y]
  BY <1>1 DEF StartRelay
<1> HIDE DEF y
<1> QED BY <1>1, <1>2, <1>3, MoveKeeps

\* relay_ is assigned to a session that is open or was overtaken.
LEMMA RelayAssignedKeeps == ASSUME IInv, NEW s \in Sessions, RelayAssigned(s) PROVE IInv'
<1> DEFINE y == [sess[s] EXCEPT !.phase = "relaying", !.relay = "running"]
<1>1. /\ sess[s] \in SessionState /\ sess \in [Sessions -> SessionState]
      /\ requests \subseteq Sessions
      /\ strand = <<"relay", s>> /\ strand' = Free /\ sess[s].phase = "replying"
      /\ sess[s].torn => sess[s].overtaken
      /\ ~sess[s].closed => sess[s].id # NoId
      /\ UNCHANGED <<server, listed, requests, registry, nextId, manager>>
  BY DEF RelayAssigned, IInv, ServerTypeOK, StrandAgrees, TornAgrees, Within, RecordsAgree,
         HasTarget
<1>2. /\ y \in SessionState /\ y.phase = "relaying" /\ y.closed = sess[s].closed
      /\ y.torn = sess[s].torn /\ y.id = sess[s].id /\ y.gateOf = sess[s].gateOf
      /\ y.overtaken = sess[s].overtaken /\ y.relay = "running"
  BY <1>1 DEF SessionState, Phases
<1>3. sess' = [sess EXCEPT ![s] = y]
  BY <1>1 DEF RelayAssigned
<1> HIDE DEF y
<1> QED BY <1>1, <1>2, <1>3, MoveKeeps DEF Free

(***************************************************************************)
(* start(), stop() and the accept loop                                     *)
(***************************************************************************)
\* start(), stop() and the end of the accept loop keep the invariant: they leave
\* the sessions alone, and a server that is started was down.
LEMMA ServerStepKeeps ==
    ASSUME IInv, Start \/ StopCalled \/ StopReturns \/ LoopExits \/ AcceptFails PROVE IInv'
<1>1. UNCHANGED <<listed, sess, requests, registry, nextId, strand, kill, kills>>
  BY DEF Start, StopCalled, StopReturns, LoopExits, AcceptFails, manager
<1>2. /\ StrandAgrees' /\ IdsAgree' /\ RecordsAgree' /\ StopReachesAll' /\ TornIsClosed'
      /\ KillAgrees'
  BY <1>1 DEF IInv, StrandAgrees, IdsAgree, RecordsAgree, StopReachesAll, TornIsClosed, KillAgrees
<1>3. Down => \A s \in Sessions : sess[s].phase # "accepted"
  BY DEF IInv, DownIsEmpty, StrandAgrees, Down, Free
<1>4. ServerTypeOK'
  <2>1. starts' \in 0 .. MaxStarts
    BY DEF Start, StopCalled, StopReturns, LoopExits, AcceptFails, IInv, ServerTypeOK,
           ServerAssumption
  <2>2. /\ running' \in BOOLEAN /\ gate' \in BOOLEAN /\ broken' \in BOOLEAN
        /\ control' \in {"idle", "stopping", "draining"}
        /\ loop' \in {"none", "accepting", "aborted"} /\ scope' = scope
    BY DEF Start, StopCalled, StopReturns, LoopExits, AcceptFails, IInv, ServerTypeOK
  <2> QED BY <1>1, <2>1, <2>2 DEF IInv, ServerTypeOK
<1>5. GateAgrees'
  BY DEF Start, StopCalled, StopReturns, LoopExits, AcceptFails, IInv, GateAgrees, ServerTypeOK
<1>6. DownIsEmpty'
  BY <1>1 DEF Start, StopCalled, StopReturns, LoopExits, AcceptFails, IInv, DownIsEmpty, Down,
              GateAgrees
<1>7. \A t \in Sessions : (Within(t)' <=> Within(t)) /\ (BeingClosed(t)' <=> BeingClosed(t))
  BY <1>1 DEF Within, BeingClosed
<1>8. ListedAgree' /\ TornAgrees'
  <2>1. CASE Start
    <3>1. Down /\ listed = {} /\ control' = control
      BY <2>1 DEF Start, IInv, DownIsEmpty, Down
    <3> QED BY <1>1, <1>3, <1>7, <3>1 DEF IInv, ListedAgree, TornAgrees
  <2>2. CASE ~Start
    <3>1. starts' = starts /\ (control' = control \/ control' = "stopping" \/ control = "draining")
      BY <2>2 DEF StopCalled, StopReturns, LoopExits, AcceptFails
    <3>2. control' = "stopping" \/ control # "stopping" \/ control' = control
      BY <3>1
    <3> QED BY <1>1, <1>7, <3>1, <3>2 DEF IInv, ListedAgree, TornAgrees
  <2> QED BY <2>1, <2>2
<1> QED BY <1>2, <1>4, <1>5, <1>6, <1>8 DEF IInv, ServerAssumption

\* open_target() takes the strand with an open session.
LEMMA OpensTargetKeeps == ASSUME IInv, NEW s \in Sessions, OpensTarget(s) PROVE IInv'
<1>1. /\ sess[s].phase = "request" /\ ~sess[s].closed /\ nextId <= MaxIds
      /\ strand = Free /\ strand' = <<"open", s>>
      /\ UNCHANGED <<running, gate, starts, control, loop, scope, broken, listed, sess, requests,
                     registry, nextId, kill, kills>>
  BY DEF OpensTarget, Runs, server, manager
<1>2. ServerTypeOK' /\ GateAgrees'
  BY <1>1 DEF IInv, ServerTypeOK, GateAgrees
<1>3. DownIsEmpty'
  BY <1>1 DEF IInv, DownIsEmpty, Down
<1>4. StrandAgrees' /\ KillAgrees'
  BY <1>1 DEF IInv, StrandAgrees, KillAgrees, Free
<1>5. IdsAgree' /\ ListedAgree' /\ RecordsAgree' /\ StopReachesAll' /\ TornIsClosed'
  BY <1>1 DEF IInv, IdsAgree, ListedAgree, RecordsAgree, StopReachesAll, TornIsClosed
<1>6. TornAgrees'
  <2>1. ~sess[s].torn
    BY <1>1 DEF IInv, TornIsClosed
  <2>2. \A t \in Sessions : (Within(t)' => t = s) /\ (BeingClosed(t)' <=> BeingClosed(t))
    BY <1>1 DEF Within, BeingClosed
  <2> QED BY <1>1, <2>1, <2>2 DEF IInv, TornAgrees
<1> QED BY <1>2, <1>3, <1>4, <1>5, <1>6 DEF IInv, ServerAssumption

\* close_connection() finds a session that is listed and has a record.
LEMMA KillFindsKeeps == ASSUME IInv, NEW s \in Sessions, KillFinds(s) PROVE IInv'
<1>1. /\ kill' = [at |-> "found", id |-> sess[s].id, target |-> s] /\ kills' = kills + 1
      /\ kills < MaxKills /\ sess[s].id \in 1 .. MaxIds
      /\ UNCHANGED <<running, gate, starts, control, loop, scope, broken, listed, sess, requests,
                     registry, nextId, strand>>
  BY DEF KillFinds, server, IInv, ServerTypeOK, SessionState, NoId
<1>2. ServerTypeOK'
  BY <1>1 DEF IInv, ServerTypeOK, ServerAssumption
<1>3. /\ GateAgrees' /\ DownIsEmpty' /\ StrandAgrees' /\ IdsAgree' /\ ListedAgree'
      /\ RecordsAgree' /\ StopReachesAll' /\ TornIsClosed'
  BY <1>1 DEF IInv, GateAgrees, DownIsEmpty, Down, StrandAgrees, IdsAgree, ListedAgree,
              RecordsAgree, StopReachesAll, TornIsClosed
<1>4. KillAgrees'
  <2>1. s \in listed
    BY DEF KillFinds
  <2> QED BY <1>1, <2>1 DEF IInv, KillAgrees, ListedAgree
<1>5. TornAgrees'
  <2>1. \A t \in Sessions : (Within(t)' <=> Within(t)) /\ ~BeingClosed(t)
    BY <1>1 DEF Within, BeingClosed, KillFinds, Idle
  <2> QED BY <1>1, <2>1 DEF IInv, TornAgrees
<1> QED BY <1>2, <1>3, <1>4, <1>5 DEF IInv, ServerAssumption

\* An accepted session belongs to the start that runs; a connection that a
\* stopped server accepted is closed at once.
LEMMA AcceptsKeeps == ASSUME IInv, NEW s \in Sessions, Accepts(s) PROVE IInv'
<1>1. /\ sess[s] \in SessionState /\ sess \in [Sessions -> SessionState] /\ sess[s].phase = "free"
      /\ strand = Free /\ loop = "accepting" /\ starts \in 0 .. MaxStarts /\ sess[s].id = NoId
      /\ UNCHANGED <<running, gate, starts, control, scope, broken, listed, requests, registry,
                     nextId, kill, kills>>
  BY DEF Accepts, IInv, ServerTypeOK, IdsAgree, manager
<1>2. /\ \A t \in Sessions : t # s => sess'[t] = sess[t]
      /\ sess' \in [Sessions -> SessionState] /\ sess'[s].id = sess[s].id
      /\ sess'[s].remote = sess[s].remote /\ sess'[s].relay = sess[s].relay
      /\ \/ /\ running /\ gate /\ strand' = <<"accept", s>> /\ loop' = loop
            /\ sess'[s].phase = "accepted" /\ sess'[s].gateOf = starts
            /\ sess'[s].closed = sess[s].closed /\ sess'[s].torn = sess[s].torn
         \/ /\ ~(running /\ gate) /\ strand' = Free /\ loop' = "none"
            /\ sess'[s].phase = "gone" /\ sess'[s].gateOf = sess[s].gateOf
            /\ sess'[s].closed /\ sess'[s].torn
  <2>1. CASE running /\ gate
    <3>1. /\ sess' = [sess EXCEPT ![s].phase = "accepted", ![s].gateOf = starts]
          /\ strand' = <<"accept", s>> /\ loop' = loop
      BY <2>1 DEF Accepts
    <3> QED BY <1>1, <2>1, <3>1 DEF SessionState, Phases
  <2>2. CASE ~(running /\ gate)
    <3>1. /\ sess' = [sess EXCEPT ![s].phase = "gone", ![s].closed = TRUE, ![s].torn = TRUE]
          /\ strand' = strand /\ loop' = "none"
      BY <2>2 DEF Accepts
    <3> QED BY <1>1, <2>2, <3>1 DEF SessionState, Phases
  <2> QED BY <2>1, <2>2
<1>3. ServerTypeOK'
  BY <1>1, <1>2 DEF IInv, ServerTypeOK
<1>4. GateAgrees'
  BY <1>1 DEF IInv, GateAgrees
<1>5. DownIsEmpty'
  BY <1>1 DEF IInv, DownIsEmpty, Down
<1>6. StrandAgrees'
  BY <1>1, <1>2 DEF IInv, StrandAgrees, Free
<1>7. IdsAgree'
  BY <1>1, <1>2 DEF IInv, IdsAgree
<1>8. ListedAgree'
  BY <1>1, <1>2 DEF IInv, ListedAgree, ServerTypeOK
<1>9. RecordsAgree'
  <2>1. \A t \in Sessions : sess'[t].id = sess[t].id
    BY <1>2
  <2>2. \A i \in DOMAIN registry : registry[i] \in Sessions
    BY MapFacts DEF IInv, ServerTypeOK, Maps
  <2> QED BY <1>1, <1>2, <2>1, <2>2 DEF IInv, RecordsAgree, HasTarget
<1>10. StopReachesAll'
  BY <1>1, <1>2 DEF IInv, StopReachesAll
<1>11. TornIsClosed'
  BY <1>2 DEF IInv, TornIsClosed
<1>12. KillAgrees'
  BY <1>1, <1>2 DEF IInv, KillAgrees, ServerTypeOK
<1>13. TornAgrees'
  <2>1. \A t \in Sessions : ~Within(t)' /\ (BeingClosed(t)' <=> BeingClosed(t))
    BY <1>1, <1>2 DEF Within, Free, BeingClosed
  <2>2. sess[s] = Fresh /\ s \notin listed
    BY <1>1 DEF IInv, TornAgrees, ListedAgree
  <2>3. sess[s].remote = "none" /\ sess[s].relay = "none" /\ ~sess[s].torn /\ ~sess[s].closed
    BY <2>2 DEF Fresh
  <2>4. /\ sess'[s].phase # "free" /\ (sess'[s].phase = "accepted" => ~sess'[s].closed)
        /\ sess'[s].closed => sess'[s].torn
        /\ sess'[s].remote = "none" /\ sess'[s].relay # "running" /\ sess'[s].id = NoId
        /\ s \notin listed'
    BY <1>1, <1>2, <2>2, <2>3
  <2> QED BY <1>1, <1>2, <2>1, <2>4 DEF IInv, TornAgrees
<1> QED BY <1>3, <1>4, <1>5, <1>6, <1>7, <1>8, <1>9, <1>10, <1>11, <1>12,
          <1>13
        DEF IInv, ServerAssumption

(***************************************************************************)
(* Records, and close_connection()                                         *)
(***************************************************************************)
\* open_target() records a new id for its session.
LEMMA OpeningKeeps == ASSUME IInv, NEW s \in Sessions, Opening(s) PROVE IInv'
<1>1. /\ sess[s] \in SessionState /\ sess \in [Sessions -> SessionState]
      /\ sess[s].phase = "request"
      /\ strand = <<"open", s>> /\ strand' = Free /\ sess[s].id = NoId /\ nextId \in 1 .. MaxIds
      /\ nextId' = nextId + 1 /\ requests \subseteq Sessions
      /\ registry \in Maps /\ \A i \in DOMAIN registry : i < nextId
      /\ UNCHANGED <<running, gate, starts, control, loop, scope, broken, listed, kill, kills>>
  BY DEF Opening, IInv, ServerTypeOK, IdsAgree, StrandAgrees, server, manager, Maps,
         ServerAssumption
<1>2. PICK phase \in {"resolving", "dialing"} :
        /\ sess' = [sess EXCEPT ![s].phase = phase, ![s].id = nextId]
        /\ requests' = IF phase = "resolving" THEN requests \cup {s} ELSE requests
  BY DEF Opening
<1>3. /\ \A t \in Sessions : t # s => sess'[t] = sess[t]
      /\ sess' \in [Sessions -> SessionState] /\ sess'[s].id = nextId /\ sess'[s].phase = phase
      /\ sess'[s].closed = sess[s].closed /\ sess'[s].torn = sess[s].torn
      /\ sess'[s].gateOf = sess[s].gateOf /\ sess'[s].overtaken = sess[s].overtaken
      /\ sess'[s].remote = sess[s].remote /\ sess'[s].relay = sess[s].relay
      /\ requests' \subseteq Sessions
  <2> DEFINE y == [sess[s] EXCEPT !.phase = phase, !.id = nextId]
  <2>1. /\ y \in SessionState /\ y.phase = phase /\ y.id = nextId /\ y.closed = sess[s].closed
        /\ y.torn = sess[s].torn /\ y.gateOf = sess[s].gateOf
        /\ y.overtaken = sess[s].overtaken /\ y.remote = sess[s].remote /\ y.relay = sess[s].relay
    <3>1. nextId \in 0 .. MaxIds
      BY <1>1
    <3> QED BY <1>1, <3>1 DEF SessionState, Phases
  <2>2. sess' = [sess EXCEPT ![s] = y]
    BY <1>1, <1>2
  <2> HIDE DEF y
  <2> QED BY <1>1, <1>2, <2>1, <2>2
<1>4. /\ DOMAIN registry' = DOMAIN registry \cup {nextId}
      /\ registry' = [i \in DOMAIN registry' |-> registry'[i]]
      /\ registry'[nextId] = s
      /\ \A i \in DOMAIN registry : registry'[i] = registry[i]
  BY <1>1 DEF Opening
<1>5. registry' \in Maps
  <2>1. DOMAIN registry \subseteq 1 .. MaxIds /\ \A i \in DOMAIN registry : registry[i] \in Sessions
    BY <1>1, MapFacts
  <2> QED BY <1>1, <1>4, <2>1, MapFacts
<1>6. ServerTypeOK'
  <2>1. nextId' \in 1 .. MaxIds + 1
    BY <1>1 DEF IInv, ServerAssumption
  <2> QED BY <1>1, <1>3, <1>5, <2>1 DEF IInv, ServerTypeOK, Maps
<1>7. GateAgrees'
  BY <1>1 DEF IInv, GateAgrees
<1>8. DownIsEmpty'
  BY <1>1 DEF IInv, DownIsEmpty, Down, Free
<1>9. StrandAgrees'
  BY <1>1, <1>3 DEF IInv, StrandAgrees, Free
<1>10. IdsAgree'
  <2>1. DOMAIN registry \subseteq 1 .. MaxIds
    BY <1>1, MapFacts
  <2>2. \A i \in DOMAIN registry' : i < nextId'
    BY <1>1, <1>4, <2>1 DEF IInv, ServerAssumption
  <2> QED BY <1>1, <1>3, <2>2 DEF IInv, IdsAgree
<1>11. ListedAgree'
  BY <1>1, <1>3 DEF IInv, ListedAgree, ServerTypeOK
<1>12. RecordsAgree'
  <2>1. \A i \in DOMAIN registry : registry[i] \in Sessions /\ sess[registry[i]].id = i /\ i # NoId
    BY <1>1, MapFacts DEF IInv, RecordsAgree, NoId
  <2>2. \A i \in DOMAIN registry : registry[i] # s
    BY <1>1, <2>1
  <2>3. \A i \in DOMAIN registry' : sess'[registry'[i]].id = i
    BY <1>3, <1>4, <2>1, <2>2
  <2>4. \A t \in Sessions : sess'[t].id # NoId
           => sess'[t].id \in DOMAIN registry' /\ registry'[sess'[t].id] = t
    BY <1>3, <1>4 DEF IInv, RecordsAgree
  <2>5. \A t \in Sessions : sess'[t].phase \in HasTarget /\ ~sess'[t].closed => sess'[t].id # NoId
    BY <1>1, <1>3 DEF IInv, RecordsAgree, NoId
  <2> QED BY <2>3, <2>4, <2>5 DEF RecordsAgree
<1>13. StopReachesAll'
  BY <1>1, <1>3 DEF IInv, StopReachesAll
<1>14. TornIsClosed'
  BY <1>3 DEF IInv, TornIsClosed
<1>15. KillAgrees'
  BY <1>1, <1>3 DEF IInv, KillAgrees, ServerTypeOK
<1>16. TornAgrees'
  <2>1. \A t \in Sessions : ~Within(t)' /\ (BeingClosed(t)' <=> BeingClosed(t))
    BY <1>1 DEF Within, Free, BeingClosed
  <2>2. sess[s].torn => sess[s].overtaken
    BY <1>1 DEF IInv, TornAgrees, Within
  <2> QED BY <1>1, <1>3, <2>1, <2>2 DEF IInv, TornAgrees
<1> QED BY <1>6, <1>7, <1>8, <1>9, <1>10, <1>11, <1>12, <1>13, <1>14, <1>15,
          <1>16
        DEF IInv, ServerAssumption

\* finish_http_forward() drops the exchange's record with its id.
LEMMA ExchangeEndsKeeps ==
    ASSUME IInv, NEW s \in Sessions, ExchangeEnds(s) PROVE IInv'
<1> DEFINE W == Unrecorded(registry, {sess[s].id})
<1>1. /\ sess[s] \in SessionState /\ sess \in [Sessions -> SessionState]
      /\ sess[s].phase = "exchange"
      /\ ~sess[s].closed /\ ~sess[s].torn /\ strand = Free /\ registry \in Maps
      /\ registry' = W
      /\ sess' = [sess EXCEPT ![s].phase = "request", ![s].remote = "none", ![s].id = NoId]
      /\ UNCHANGED <<running, gate, starts, control, loop, scope, broken, listed, requests,
                     nextId, strand, kill, kills>>
  BY DEF ExchangeEnds, Runs, IInv, ServerTypeOK, Maps, TornIsClosed, server, manager
<1>2. /\ \A t \in Sessions : t # s => sess'[t] = sess[t]
      /\ sess' \in [Sessions -> SessionState] /\ sess'[s].id = NoId /\ sess'[s].phase = "request"
      /\ sess'[s].closed = sess[s].closed /\ sess'[s].torn = sess[s].torn
      /\ sess'[s].gateOf = sess[s].gateOf /\ sess'[s].remote = "none"
  <2> DEFINE y == [sess[s] EXCEPT !.phase = "request", !.remote = "none", !.id = NoId]
  <2>1. /\ y \in SessionState /\ y.phase = "request" /\ y.id = NoId /\ y.closed = sess[s].closed
        /\ y.torn = sess[s].torn /\ y.gateOf = sess[s].gateOf /\ y.remote = "none"
    <3>1. NoId \in 0 .. MaxIds
      BY DEF NoId, IInv, ServerAssumption
    <3> QED BY <1>1, <3>1 DEF SessionState, Phases
  <2>2. sess' = [sess EXCEPT ![s] = y]
    BY <1>1
  <2> HIDE DEF y
  <2> QED BY <1>1, <2>1, <2>2
<1>3. /\ W \in Maps /\ DOMAIN W = DOMAIN registry \ {sess[s].id}
      /\ \A i \in DOMAIN W : W[i] = registry[i]
  <2> HIDE DEF W
  <2>1. /\ W \in Maps /\ DOMAIN W = DOMAIN registry \ {sess[s].id}
        /\ \A i \in DOMAIN registry \ {sess[s].id} : W[i] = registry[i]
    BY <1>1, WithoutFacts DEF W
  <2> QED BY <2>1
<1> HIDE DEF W
<1>4. ServerTypeOK'
  BY <1>1, <1>2, <1>3 DEF IInv, ServerTypeOK, Maps
<1>5. GateAgrees'
  BY <1>1 DEF IInv, GateAgrees
<1>6. DownIsEmpty'
  BY <1>1 DEF IInv, DownIsEmpty, Down
<1>7. StrandAgrees'
  BY <1>1, <1>2 DEF IInv, StrandAgrees, Free
<1>8. IdsAgree'
  BY <1>1, <1>2, <1>3 DEF IInv, IdsAgree
<1>9. ListedAgree'
  BY <1>1, <1>2 DEF IInv, ListedAgree, ServerTypeOK
<1>10. RecordsAgree'
  BY <1>1, <1>2, <1>3, MapFacts DEF IInv, RecordsAgree, HasTarget
<1>11. StopReachesAll'
  BY <1>1, <1>2 DEF IInv, StopReachesAll
<1>12. TornIsClosed'
  BY <1>2 DEF IInv, TornIsClosed
<1>13. KillAgrees'
  BY <1>1, <1>2 DEF IInv, KillAgrees, ServerTypeOK
<1>14. TornAgrees'
  <2>1. \A t \in Sessions : ~Within(t)' /\ (BeingClosed(t)' <=> BeingClosed(t))
    BY <1>1 DEF Within, Free, BeingClosed
  <2> QED BY <1>1, <1>2, <2>1 DEF IInv, TornAgrees
<1> QED BY <1>4, <1>5, <1>6, <1>7, <1>8, <1>9, <1>10, <1>11, <1>12, <1>13,
          <1>14
        DEF IInv, ServerAssumption

\* close_connection() claims a session on the management thread.
LEMMA KillClaimsKeeps == ASSUME IInv, KillClaims PROVE IInv'
<1>1. /\ kill \in [at : {"found", "claimed"}, id : 1 .. MaxIds, target : Sessions]
      /\ sess \in [Sessions -> SessionState] /\ kill.at = "found"
      /\ UNCHANGED <<running, gate, starts, control, loop, scope, broken, listed, requests,
                     registry, nextId, strand, kills>>
  BY DEF KillClaims, IInv, ServerTypeOK, Idle, server
<1>2. PICK s \in Sessions : s = kill.target
  BY <1>1
<1>3. /\ kill' \in {Idle} \cup [at : {"found", "claimed"}, id : 1 .. MaxIds, target : Sessions]
      /\ sess' \in [Sessions -> SessionState]
      /\ \A t \in Sessions :
            /\ sess'[t].phase = sess[t].phase /\ sess'[t].torn = sess[t].torn
            /\ sess'[t].id = sess[t].id /\ sess'[t].gateOf = sess[t].gateOf
            /\ sess'[t].remote = sess[t].remote /\ sess'[t].relay = sess[t].relay
            /\ sess'[t].overtaken = sess[t].overtaken
            /\ sess[t].closed => sess'[t].closed
            /\ t # s => sess'[t] = sess[t]
      /\ \/ kill' = Idle /\ sess' = sess
         \/ /\ kill' # Idle /\ kill'.at = "claimed" /\ kill'.target = s
            /\ sess'[s].closed /\ ~sess[s].closed
  <2>1. CASE sess[s].closed
    BY <1>1, <1>2, <2>1 DEF KillClaims
  <2>2. CASE ~sess[s].closed
    <3>1. kill' = [kill EXCEPT !.at = "claimed"] /\ sess' = [sess EXCEPT ![s].closed = TRUE]
      BY <1>2, <2>2 DEF KillClaims
    <3>2. /\ kill' \in [at : {"found", "claimed"}, id : 1 .. MaxIds, target : Sessions]
          /\ kill'.at = "claimed" /\ kill'.target = s
      BY <1>1, <1>2, <3>1
    <3>3. kill' # Idle
      BY <3>2 DEF Idle
    <3>4. /\ sess' \in [Sessions -> SessionState] /\ sess'[s].closed
          /\ sess'[s].phase = sess[s].phase /\ sess'[s].torn = sess[s].torn
          /\ sess'[s].id = sess[s].id /\ sess'[s].gateOf = sess[s].gateOf
          /\ sess'[s].remote = sess[s].remote /\ sess'[s].relay = sess[s].relay
          /\ sess'[s].overtaken = sess[s].overtaken
          /\ \A t \in Sessions : t # s => sess'[t] = sess[t]
      <4> DEFINE y == [sess[s] EXCEPT !.closed = TRUE]
      <4>1. sess[s] \in SessionState
        BY <1>1
      <4>2. /\ y \in SessionState /\ y.closed
            /\ y.phase = sess[s].phase /\ y.torn = sess[s].torn
            /\ y.id = sess[s].id /\ y.gateOf = sess[s].gateOf
            /\ y.remote = sess[s].remote /\ y.relay = sess[s].relay
            /\ y.overtaken = sess[s].overtaken
        BY <4>1 DEF SessionState
      <4>3. sess' = [sess EXCEPT ![s] = y]
        BY <1>1, <3>1
      <4> HIDE DEF y
      <4> QED BY <1>1, <4>2, <4>3
    <3> QED BY <2>2, <3>2, <3>3, <3>4
  <2> QED BY <2>1, <2>2
<1>4. ServerTypeOK'
  BY <1>1, <1>3 DEF IInv, ServerTypeOK
<1>5. GateAgrees'
  BY <1>1 DEF IInv, GateAgrees
<1>6. DownIsEmpty'
  BY <1>1, <1>3 DEF IInv, DownIsEmpty, Down
<1>7. StrandAgrees'
  BY <1>1, <1>3 DEF IInv, StrandAgrees, Free
<1>8. IdsAgree'
  BY <1>1, <1>3 DEF IInv, IdsAgree
<1>9. ListedAgree'
  BY <1>1, <1>3 DEF IInv, ListedAgree, ServerTypeOK
<1>10. RecordsAgree'
  BY <1>1, <1>3, MapFacts DEF IInv, RecordsAgree, ServerTypeOK, Maps
<1>11. StopReachesAll'
  BY <1>1, <1>3 DEF IInv, StopReachesAll
<1>12. TornIsClosed'
  BY <1>3 DEF IInv, TornIsClosed
<1>13. sess[s].phase \notin {"free", "accepted"} /\ kill # Idle
  BY <1>1, <1>2 DEF IInv, KillAgrees, Idle
<1>14. KillAgrees'
  BY <1>2, <1>3, <1>13 DEF IInv, KillAgrees, TornIsClosed
<1>15. TornAgrees'
  <2>1. \A t \in Sessions : (Within(t)' <=> Within(t)) /\ ~BeingClosed(t)
    BY <1>1 DEF Within, BeingClosed
  <2>2. kill' # Idle => BeingClosed(s)'
    BY <1>3 DEF BeingClosed
  <2>3. ASSUME NEW t \in Sessions
        PROVE  sess'[t].closed /\ ~sess'[t].torn => BeingClosed(t)'
    BY <1>3, <2>1, <2>2 DEF IInv, TornAgrees
  <2>4. ASSUME NEW t \in Sessions, sess'[t].phase \in {"free", "accepted"}
        PROVE  sess'[t] = sess[t]
    BY <1>3, <1>13, <2>4
  <2> QED BY <1>1, <1>3, <2>1, <2>3, <2>4 DEF IInv, TornAgrees
<1> QED BY <1>4, <1>5, <1>6, <1>7, <1>8, <1>9, <1>10, <1>11, <1>12, <1>14,
          <1>15
        DEF IInv, ServerAssumption

\* ... and tears it down there, beside whatever handler holds the strand.
LEMMA KillTearsKeeps == ASSUME IInv, KillTears PROVE IInv'
<1> DEFINE s == kill.target
           W == Unrecorded(registry, {sess[s].id})
<1>1. /\ s \in Sessions /\ sess \in [Sessions -> SessionState]
      /\ sess[s] \in SessionState
      /\ registry \in Maps
  BY DEF KillTears, IInv, ServerTypeOK, Idle, Maps
<1>2. /\ kill' = Idle /\ registry' = W /\ listed' = listed \ Unlisted({s})
      /\ sess' = [sess EXCEPT ![s] = [Torn(sess[s]) EXCEPT !.overtaken = Within(s)]]
      /\ UNCHANGED <<running, gate, starts, control, loop, scope, broken, requests,
                     nextId, strand, kills>>
  BY <1>1 DEF KillTears, server
<1>3. /\ W \in Maps /\ DOMAIN W = DOMAIN registry \ {sess[s].id}
      /\ \A i \in DOMAIN W : W[i] = registry[i]
  BY <1>1, WithoutFacts
<1> HIDE DEF s, W
<1>4. /\ \A t \in Sessions : t # s => sess'[t] = sess[t]
      /\ sess' \in [Sessions -> SessionState] /\ sess'[s].id = NoId
      /\ sess'[s].phase = sess[s].phase /\ sess'[s].closed /\ sess'[s].torn
      /\ sess'[s].gateOf = sess[s].gateOf
      /\ sess'[s].overtaken = Within(s) /\ sess'[s].relay # "running"
      /\ sess'[s].remote # "relay" => sess'[s].remote = "none"
      /\ sess'[s].remote = "relay" => sess[s].remote = "relay" /\ sess[s].relay # "running"
  <2> DEFINE x == Torn(sess[s])
             y == [x EXCEPT !.overtaken = Within(s)]
  <2>1. ServerAssumption
    BY DEF IInv
  <2>2. /\ x \in SessionState /\ x.phase = sess[s].phase /\ x.closed /\ x.torn /\ x.id = NoId
        /\ x.gateOf = sess[s].gateOf /\ x.relay # "running" /\ x.remote \in {"none", "relay"}
        /\ x.remote = "relay" => sess[s].remote = "relay" /\ sess[s].relay # "running"
        /\ sess[s].remote # "relay" => x.remote = "none"
        /\ sess[s].remote = "relay" /\ sess[s].relay = "running" => x.remote = "none"
    BY <1>1, <2>1, TornType
  <2> HIDE DEF x
  <2>3. Within(s) \in BOOLEAN
    BY DEF Within
  <2>4. /\ y \in SessionState /\ y.phase = x.phase /\ y.closed = x.closed /\ y.torn = x.torn
        /\ y.id = x.id /\ y.gateOf = x.gateOf /\ y.relay = x.relay /\ y.remote = x.remote
        /\ y.overtaken = Within(s)
    BY <2>2, <2>3 DEF SessionState
  <2>5. sess' = [sess EXCEPT ![s] = y]
    BY <1>2 DEF x
  <2>6. x.remote # "relay" => x.remote = "none"
    BY <2>2
  <2> HIDE DEF y
  <2> QED BY <1>1, <2>2, <2>4, <2>5, <2>6
<1>5. listed' \subseteq listed /\ \A t \in listed : t # s => t \in listed'
  BY <1>2 DEF Unlisted
<1>6. ServerTypeOK'
  BY <1>2, <1>3, <1>4, <1>5 DEF IInv, ServerTypeOK, Maps
<1>7. GateAgrees'
  BY <1>2 DEF IInv, GateAgrees
<1>8. DownIsEmpty'
  BY <1>2, <1>4, <1>5 DEF IInv, DownIsEmpty, Down
<1>9. StrandAgrees'
  BY <1>2, <1>4 DEF IInv, StrandAgrees, Free
<1>10. IdsAgree'
  BY <1>2, <1>3, <1>4 DEF IInv, IdsAgree
<1>11. ListedAgree'
  BY <1>2, <1>4, <1>5 DEF IInv, ListedAgree, ServerTypeOK
<1>12. RecordsAgree'
  BY <1>1, <1>2, <1>3, <1>4, MapFacts DEF IInv, RecordsAgree
<1>13. StopReachesAll'
  BY <1>4, <1>5 DEF IInv, StopReachesAll
<1>14. TornIsClosed'
  BY <1>4 DEF IInv, TornIsClosed
<1>15. KillAgrees'
  BY <1>2 DEF KillAgrees
<1>16. TornAgrees'
  <2>1. \A t \in Sessions : (Within(t)' <=> Within(t)) /\ (BeingClosed(t) => t = s)
    BY <1>2 DEF Within, BeingClosed, s
  <2>2. sess[s].phase \notin {"free", "accepted"}
    BY DEF KillTears, IInv, KillAgrees, Idle, s
  <2>3. ASSUME ~Within(s) PROVE sess'[s].remote = "none"
    <3>1. strand # <<"relay", s>>
      BY <2>3 DEF Within
    <3> QED BY <1>1, <1>4, <3>1 DEF IInv, StrandAgrees
  <2>4. ASSUME s \in listed' PROVE control' = "stopping"
    <3>1. s \in listed /\ ~gate
      BY <1>1, <1>2, <2>4 DEF IInv, ListedAgree, Unlisted
    <3> QED BY <1>2, <3>1 DEF IInv, GateAgrees, DownIsEmpty, Down
  <2>5. ASSUME NEW t \in Sessions, t # s
        PROVE  /\ sess'[t].phase = "free" => sess'[t] = Fresh
               /\ sess'[t].phase = "accepted" => ~sess'[t].closed
               /\ sess'[t].closed => sess'[t].torn
               /\ sess'[t].torn /\ Within(t)' => sess'[t].overtaken
               /\ sess'[t].torn /\ ~sess'[t].overtaken =>
                     sess'[t].remote = "none" /\ sess'[t].relay # "running" /\ sess'[t].id = NoId
               /\ sess'[t].torn /\ t \in listed' => control' = "stopping"
    BY <1>2, <1>4, <1>5, <2>1, <2>5 DEF IInv, TornAgrees
  <2> QED BY <1>4, <2>1, <2>2, <2>3, <2>4, <2>5 DEF TornAgrees
<1> QED BY <1>6, <1>7, <1>8, <1>9, <1>10, <1>11, <1>12, <1>13, <1>14, <1>15,
          <1>16
        DEF IInv, ServerAssumption

(***************************************************************************)
(* The theorems                                                            *)
(***************************************************************************)
\* A new server satisfies the invariant.
LEMMA InitHolds == ASSUME ServerAssumption, ServerInit PROVE IInv
<1>1. /\ sess = [s \in Sessions |-> Fresh] /\ DOMAIN registry = {} /\ registry = << >>
      /\ Fresh \in SessionState
  BY DEF ServerInit, Fresh, SessionState, Phases, NoId, ServerAssumption
<1>2. \A s \in Sessions :
        /\ sess[s] = Fresh /\ sess[s].phase = "free" /\ ~sess[s].closed /\ ~sess[s].torn
        /\ sess[s].id = NoId /\ sess[s].remote = "none" /\ sess[s].relay = "none"
  BY <1>1 DEF Fresh
<1>3. registry \in Maps
  <2>1. registry = [i \in DOMAIN registry |-> registry[i]]
    BY <1>1
  <2> QED BY <1>1, <2>1, MapFacts
<1>4. ServerTypeOK
  <2>1. sess \in [Sessions -> SessionState]
    BY <1>1
  <2>2. /\ running \in BOOLEAN /\ gate \in BOOLEAN /\ starts \in 0 .. MaxStarts
        /\ control \in {"idle", "stopping", "draining"} /\ loop \in {"none", "accepting", "aborted"}
        /\ scope \in {"open", "stopped"} /\ broken \in BOOLEAN /\ listed \subseteq Sessions
        /\ requests \subseteq Sessions /\ nextId \in 1 .. MaxIds + 1 /\ kills \in 0 .. MaxKills
    <3>1. starts \in 0 .. MaxStarts /\ nextId \in 1 .. MaxIds + 1 /\ kills \in 0 .. MaxKills
      BY SMT DEF ServerInit, ServerAssumption
    <3>2. running \in BOOLEAN /\ gate \in BOOLEAN /\ broken \in BOOLEAN
      BY Zenon DEF ServerInit
    <3> QED BY <3>1, <3>2 DEF ServerInit
  <2>3. strand = Free /\ kill = Idle
    BY DEF ServerInit
  <2> QED BY <2>1, <2>2, <2>3, <1>3 DEF ServerTypeOK, Maps
<1>5. GateAgrees /\ DownIsEmpty /\ StrandAgrees /\ IdsAgree /\ ListedAgree
  BY <1>1, <1>2 DEF ServerInit, GateAgrees, DownIsEmpty, Down, StrandAgrees, IdsAgree, ListedAgree,
                    Free
<1>6. RecordsAgree /\ StopReachesAll /\ TornIsClosed
  BY <1>1, <1>2 DEF RecordsAgree, StopReachesAll, TornIsClosed, HasTarget
<1>7. KillAgrees /\ TornAgrees
  BY <1>1, <1>2 DEF ServerInit, KillAgrees, TornAgrees, BeingClosed
<1> QED BY <1>4, <1>5, <1>6, <1>7 DEF IInv

\* Every step keeps the invariant.
LEMMA StepKeeps == ASSUME IInv, [ServerNext]_serverVars PROVE IInv'
<1>1. CASE UNCHANGED serverVars
  BY <1>1 DEF serverVars, IInv, ServerAssumption, ServerTypeOK, GateAgrees, DownIsEmpty, Down,
              StrandAgrees,
              IdsAgree, ListedAgree, RecordsAgree, StopReachesAll, TornIsClosed, KillAgrees,
              TornAgrees, BeingClosed, Within
<1>2. CASE Start \/ StopCalled \/ StopOnOwner \/ StopReturns \/ LoopExits \/ AcceptFails
  BY <1>2, ServerStepKeeps, StopOnOwnerKeeps
<1>3. ASSUME NEW s \in Sessions, Accepts(s) \/ Inserts(s) PROVE IInv'
  BY <1>3, AcceptsKeeps, InsertsKeeps
<1>4. ASSUME NEW s \in Sessions, SessionStep(s) PROVE IInv'
  BY <1>4, GivesUpKeeps, HandshakeKeeps, RequestMovesKeep, OpensTargetKeeps, OpeningKeeps,
     ResolvedKeeps, OpenResultKeeps, UpgradedKeeps, KeepsHandleKeeps, StartRelayKeeps, RelayAssignedKeeps, RelayEndsKeeps,
     ExchangeEndsKeeps DEF SessionStep
<1>5. CASE Manage
  BY <1>5, KillFindsKeeps, KillClaimsKeeps, KillTearsKeeps DEF Manage
<1> QED BY <1>1, <1>2, <1>3, <1>4, <1>5 DEF ServerNext

\* What the invariant says of the properties.
LEMMA IInvSuffices == ASSUME IInv PROVE ServerIsSound
<1>1. \A i \in DOMAIN registry : registry[i] \in Sessions /\ sess[registry[i]].id = i /\ i # NoId
  BY MapFacts DEF IInv, ServerTypeOK, RecordsAgree, Maps, NoId, ServerAssumption
<1>2. StopIsComplete
  BY DEF IInv, DownIsEmpty, Down, StopIsComplete, Quiet, TornAgrees
<1>3. RegistryAgrees
  <2>1. ASSUME NEW i \in DOMAIN registry
        PROVE  LET s == registry[i]
               IN sess[s].id = i /\ (~sess[s].closed \/ BeingClosed(s) \/ sess[s].overtaken)
    BY <1>1 DEF IInv, TornAgrees
  <2> QED BY <2>1 DEF IInv, RecordsAgree, RegistryAgrees
<1>4. ClosedMeansGone
  <2> SUFFICES ASSUME NEW s \in Sessions, sess[s].torn
               PROVE  /\ \/ sess[s].overtaken
                         \/ /\ sess[s].remote = "none" /\ sess[s].relay # "running"
                            /\ sess[s].id = NoId
                            /\ \A i \in DOMAIN registry : registry[i] # s
                      /\ s \notin listed \/ (control = "stopping" /\ ~gate)
    BY DEF ClosedMeansGone
  <2>1. /\ \/ sess[s].overtaken
           \/ sess[s].remote = "none" /\ sess[s].relay # "running" /\ sess[s].id = NoId
        /\ s \in listed => control = "stopping"
    BY DEF IInv, TornAgrees
  <2>2. control = "stopping" => ~gate
    BY DEF IInv, GateAgrees
  <2> QED BY <1>1, <2>1, <2>2
<1> QED BY <1>2, <1>3, <1>4 DEF IInv, ServerIsSound

\* However often close_connection() is called: once stop() returned the accept
\* loop is gone, close() has returned or is under way for every session that was
\* accepted and no resolver request is registered; no open session is ever out of
\* sessions_; the registry has the record of every open connection, and the record of
\* a closed one only if that close() is under way or overtook a handler; and a session
\* whose close() returned has no handle, no running relay and no record, with the same
\* exception, and is not listed.
THEOREM SoundServer == ServerAssumption => (ServerSpec => []ServerIsSound)
<1> SUFFICES ASSUME ServerAssumption PROVE ServerSpec => []ServerIsSound
  OBVIOUS
<1>1. ServerInit => IInv
  BY InitHolds
<1>2. IInv /\ [ServerNext]_serverVars => IInv'
  BY StepKeeps
<1>3. IInv => ServerIsSound
  BY IInvSuffices
<1> QED BY <1>1, <1>2, <1>3, PTL DEF ServerSpec
=============================================================================

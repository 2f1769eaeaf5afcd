---------------------------- MODULE StreamMerge -----------------------------
(***************************************************************************)
(* Many streams made into one (include/clash_native/async/async_stream.hpp)*)
(* in two parts with variables of their own.  The sources are external.    *)
(* Completion handlers run on one thread, between whose steps anything     *)
(* else may happen.                                                        *)
(*                                                                         *)
(* The concurrent merge, consumed by a push subscription.  One driver      *)
(* coroutine per source moves items into one unbounded channel and ends    *)
(* with one sentinel; the subscription's loop pulls the channel, and the   *)
(* merge ends when it has seen every sentinel.                             *)
(*                                                                         *)
(* StreamMap: named streams, any of which may answer a pull of the map.  A *)
(* pull starts one child pull per source, in the order of registration;    *)
(* the first item or error decides it and destroys the other children, and *)
(* the end of a source only counts towards the end of the map.  A child    *)
(* completes when it starts if there is something already, or later.  The  *)
(* consumer has one pull outstanding and changes the map between pulls.    *)
(***************************************************************************)
EXTENDS Naturals, Sequences, SequencesExt, FiniteSets

CONSTANTS Sources,   \* the merged streams
          MaxItems,  \* bound: items of a source
          Keys,      \* the names of a map
          MaxPulls   \* bound: pulls of the map

MergeAssumption == /\ {MaxItems, MaxPulls} \subseteq Nat
                   /\ IsFiniteSet(Sources) /\ Sources # {} /\ IsFiniteSet(Keys)
Endings == {"end", "fail", "silent"}
Sentinel == 0

VARIABLES
    driver,    \* source -> where its driver is: "pull", "caught", "ending", "done"
    source,    \* source -> [n, pos, ending]: its items, those given away, what follows
    channel,   \* the unbounded channel: <<source, item>> or <<source, Sentinel>>
    error,     \* shared->error: the source that failed first, or {}
    consumed,  \* sentinels counted
    pull,      \* "start", "raw", "parked", "pulled", "none"
    slot,      \* what the pull received
    loop,      \* the loop: "running", or how it ended: "done", "error", "stopped", "threw"
    unsubscribed, \* stop was requested of the subscription
    dropped,   \* the merged stream was destroyed: stop was requested of the drivers
    seen,      \* the calls of the callbacks, in order
    since      \* history: how many there were when unsubscribe() returned

vars == <<driver, source, channel, error, consumed, pull, slot, loop, unsubscribed, dropped, seen,
          since>>

TypeOK ==
    /\ driver \in [Sources -> {"pull", "caught", "ending", "done"}]
    /\ source \in [Sources -> [n : 0 .. MaxItems, pos : 0 .. MaxItems, ending : Endings]]
    /\ error \subseteq Sources /\ Cardinality(error) <= 1 /\ consumed \in 0 .. Cardinality(Sources)
    /\ pull \in {"start", "raw", "parked", "pulled", "none"}
    /\ loop \in {"running", "done", "error", "stopped", "threw"}
    /\ unsubscribed \in BOOLEAN /\ dropped \in BOOLEAN

Init ==
    /\ driver = [s \in Sources |-> "pull"]
    /\ source \in [Sources -> [n : 0 .. MaxItems, pos : {0}, ending : Endings]]
    /\ channel = <<>> /\ error = {} /\ consumed = 0 /\ pull = "start" /\ slot = <<>>
    /\ loop = "running" /\ unsubscribed = FALSE /\ dropped = FALSE /\ seen = <<>> /\ since = 0

-----------------------------------------------------------------------------
(* The drivers.                                                            *)

\* send(): handed to the parked pull, or queued.
Send(x) == IF pull = "parked" THEN slot' = x /\ pull' = "pulled" /\ UNCHANGED channel
           ELSE channel' = Append(channel, x) /\ UNCHANGED <<slot, pull>>

Item(s) == /\ driver[s] = "pull" /\ source[s].pos < source[s].n
           /\ source' = [source EXCEPT ![s].pos = @ + 1] /\ Send(<<s, source[s].pos + 1>>)
           /\ UNCHANGED <<driver, error, consumed, loop, unsubscribed, dropped, seen, since>>

\* The source ends, or the stop requested of the scope ends its pull.
End(s) == /\ driver[s] = "pull"
          /\ dropped \/ (source[s].pos = source[s].n /\ source[s].ending = "end")
          /\ driver' = [driver EXCEPT ![s] = "ending"]
          /\ UNCHANGED <<source, channel, error, consumed, pull, slot, loop, unsubscribed, dropped,
                         seen, since>>

Fails(s) == /\ driver[s] = "pull" /\ source[s].pos = source[s].n /\ source[s].ending = "fail"
            /\ driver' = [driver EXCEPT ![s] = "caught"]
            /\ UNCHANGED <<source, channel, error, consumed, pull, slot, loop, unsubscribed,
                           dropped, seen, since>>

\* Mutant: a failure is taken for an end.
StoreNothing(s) == /\ driver[s] = "caught" /\ driver' = [driver EXCEPT ![s] = "ending"]
                   /\ UNCHANGED <<source, channel, error, consumed, pull, slot, loop,
                                  unsubscribed, dropped, seen, since>>
StoreError(s) == /\ driver[s] = "caught" /\ driver' = [driver EXCEPT ![s] = "ending"]
                 /\ error' = IF error = {} THEN {s} ELSE error
                 /\ UNCHANGED <<source, channel, consumed, pull, slot, loop, unsubscribed,
                                dropped, seen, since>>

SendSentinel(s) == /\ driver[s] = "ending" /\ driver' = [driver EXCEPT ![s] = "done"]
                   /\ Send(<<s, Sentinel>>)
                   /\ UNCHANGED <<source, error, consumed, loop, unsubscribed, dropped, seen,
                                  since>>

-----------------------------------------------------------------------------
(* The loop of the subscription and its pulls of the merged stream.        *)

\* The loop returns: its frame goes and with it the merged stream.
Exit(how, calls) == /\ loop' = how /\ dropped' = TRUE /\ pull' = "none" /\ seen' = seen \o calls
ReportsError == Exit("error", <<<<"error", error>>>>)

StartPull == /\ pull = "start"
             /\ IF unsubscribed THEN Exit("stopped", <<>>)
                ELSE pull' = "raw" /\ UNCHANGED <<loop, dropped, seen>>
             /\ UNCHANGED <<driver, source, channel, error, consumed, slot, unsubscribed, since>>

\* pull_raw(): the error comes before what is queued.
PullRaw == /\ pull = "raw" /\ UNCHANGED <<driver, source, error, consumed, unsubscribed, since>>
           /\ \/ error # {} /\ ReportsError /\ UNCHANGED <<channel, slot>>
              \/ error = {} /\ channel # <<>> /\ slot' = channel[1] /\ channel' = Tail(channel)
                 /\ pull' = "pulled" /\ UNCHANGED <<loop, dropped, seen>>
              \/ error = {} /\ channel = <<>> /\ ~unsubscribed /\ pull' = "parked"
                 /\ UNCHANGED <<channel, slot, loop, dropped, seen>>
              \/ error = {} /\ channel = <<>> /\ unsubscribed /\ Exit("stopped", <<>>)
                 /\ UNCHANGED <<channel, slot>>

\* on_pulled(): an item for on_next(), which may throw; or a sentinel.
OnItem == /\ pull = "pulled" /\ slot[2] # Sentinel
          /\ \/ pull' = "start" /\ seen' = Append(seen, <<"next", slot>>)
                /\ UNCHANGED <<loop, dropped>>
             \/ Exit("threw", <<<<"next", slot>>, <<"error", {}>>>>)
          /\ UNCHANGED <<driver, source, channel, error, consumed, slot, unsubscribed, since>>
OnSentinel ==
    /\ pull = "pulled" /\ slot[2] = Sentinel
    /\ \/ error # {} /\ ReportsError /\ UNCHANGED consumed
       \/ error = {} /\ consumed' = consumed + 1
          /\ IF consumed' >= Cardinality(Sources) THEN Exit("done", <<<<"done">>>>)
             ELSE pull' = "raw" /\ UNCHANGED <<loop, dropped, seen>>
    /\ UNCHANGED <<driver, source, channel, error, slot, unsubscribed, since>>

\* unsubscribe(): a parked pull is stopped, and the loop with it.
Unsubscribe == /\ ~unsubscribed /\ unsubscribed' = TRUE /\ since' = Len(seen)
               /\ IF pull = "parked" THEN Exit("stopped", <<>>)
                  ELSE UNCHANGED <<loop, dropped, pull, seen>>
               /\ UNCHANGED <<driver, source, channel, error, consumed, slot>>

Driver(s) == Item(s) \/ End(s) \/ Fails(s) \/ StoreError(s) \/ SendSentinel(s)
Loop == StartPull \/ PullRaw \/ OnItem \/ OnSentinel
Next == Loop \/ Unsubscribe \/ \E s \in Sources : Driver(s)
Spec == Init /\ [][Next]_vars
\* Handlers that are due run; sources answer a stop of their pull.
Due == Loop \/ \E s \in Sources : (dropped /\ End(s)) \/ StoreError(s) \/ SendSentinel(s)

-----------------------------------------------------------------------------
Of(s) == SelectSeq(seen, LAMBDA c : c[1] = "next" /\ c[2][1] = s)
Calls(kind) == Cardinality({i \in 1 .. Len(seen) : seen[i][1] = kind})
Ended == {"done", "error", "threw"}

\* The items of a source reach on_next() in their order, without a gap, and none twice.
OrderKept == \A s \in Sources : Of(s) = [i \in 1 .. Len(Of(s)) |-> <<"next", <<s, i>>>>]
\* on_done() comes when every source has ended, without a failure, and all their
\* items have been handed over: nothing is left behind in the channel.
DoneIsComplete ==
    loop = "done" => /\ channel = <<>> /\ error = {}
                     /\ \A s \in Sources : driver[s] = "done" /\ source[s].ending = "end"
                                           /\ Len(Of(s)) = source[s].n
\* One of on_done() and on_error() at the most, as the last call, and none if the
\* loop was stopped.
LastCallIsLast == /\ Calls("done") + Calls("error") = (IF loop \in Ended THEN 1 ELSE 0)
                  /\ loop \in Ended => seen[Len(seen)][1] # "next"
\* After unsubscribe() the pull under way may still end: with one item for on_next(),
\* which may throw, or with the end or the error of the merge; then nothing follows.
Since == SubSeq(seen, since + 1, Len(seen))
OneCallFollows ==
    unsubscribed => \/ Len(Since) <= 1
                    \/ Len(Since) = 2 /\ Since[1][1] = "next" /\ Since[2] = <<"error", {}>>
\* What the comment of unsubscribe() says: after it returns no callback fires.
NoCallAfterUnsubscribe == unsubscribed => Len(seen) = since
\* The error that is reported is the first one.
FirstErrorWins == loop = "error" => seen[Len(seen)] = <<"error", error>> /\ error # {}
\* A parked pull has a driver to wait for, and the channel has nothing for it.
ParkedIsRightly == pull = "parked" => channel = <<>> /\ \E s \in Sources : driver[s] # "done"
\* Each driver leaves one sentinel: those counted, queued and in hand.
Sentinels == Cardinality({i \in 1 .. Len(channel) : channel[i][2] = Sentinel})
OneSentinelEach == Sentinels + consumed <= Cardinality({s \in Sources : driver[s] = "done"})
MergeIsSound == /\ TypeOK /\ OrderKept /\ DoneIsComplete /\ LastCallIsLast /\ OneCallFollows
                /\ FirstErrorWins /\ ParkedIsRightly /\ OneSentinelEach
\* A loop that was told to stop, with its drivers, on the way to its end: not for ever.
Unwinding == unsubscribed /\ ~(loop # "running" /\ \A s \in Sources : driver[s] = "done")

-----------------------------------------------------------------------------
(* StreamMap.                                                              *)

VARIABLES
    entries,   \* the registered keys, in order
    mapSource, \* key -> [sent, end, pos]: items sent; "open", "end", "fail" or,
               \* for a stream that was removed, "gone"; items taken
    mapPull,   \* "idle", "starting", "racing"
    at,        \* children started
    pending,   \* keys with a parked child
    total, finished,  \* sources of this pull, those that ended
    stop,      \* a stop was requested of this pull before it started
    used,      \* pulls made
    log        \* what the pulls completed with, in order

mapVars == <<entries, mapSource, mapPull, at, pending, total, finished, stop, used, log>>

MapTypeOK ==
    /\ mapPull \in {"idle", "starting", "racing"} /\ pending \subseteq Keys /\ stop \in BOOLEAN
    /\ mapSource \in [Keys -> [sent : 0 .. MaxItems, end : {"open", "end", "fail", "gone"},
                            pos : 0 .. MaxItems]]
    /\ at \in 0 .. Len(entries) /\ used \in 0 .. MaxPulls
    /\ finished \in 0 .. Cardinality(Keys) /\ total \in 0 .. Cardinality(Keys)

MapInit ==
    /\ entries = <<>> /\ mapSource = [k \in Keys |-> [sent |-> 0, end |-> "open", pos |-> 0]]
    /\ mapPull = "idle" /\ at = 0 /\ pending = {} /\ total = 0 /\ finished = 0 /\ stop = FALSE
    /\ used = 0 /\ log = <<>>

-----------------------------------------------------------------------------
\* insert() of a stream under a new key, and remove(), which destroys the stream.
Insert(k) == /\ mapPull = "idle" /\ k \notin ToSet(entries) /\ mapSource[k].end # "gone"
             /\ entries' = Append(entries, k)
             /\ UNCHANGED <<mapSource, mapPull, at, pending, total, finished, stop, used, log>>
Erase(k) == /\ mapPull = "idle" /\ k \in ToSet(entries)
            /\ entries' = SelectSeq(entries, LAMBDA e : e # k)
            /\ mapSource' = [mapSource EXCEPT ![k].end = "gone"]
            /\ UNCHANGED <<mapPull, at, pending, total, finished, stop, used, log>>

\* The pull is decided: the losers are destroyed, then it completes.
Completes(what) == /\ mapPull' = "idle" /\ pending' = {} /\ log' = Append(log, what) /\ at' = 0
                   /\ total' = 0 /\ finished' = 0 /\ stop' = FALSE

NextPull == /\ mapPull = "idle" /\ used < MaxPulls /\ used' = used + 1 /\ stop' \in BOOLEAN
            /\ mapPull' = "starting"
            /\ UNCHANGED <<entries, mapSource, at, pending, total, finished, log>>

\* start(): a stop or an empty map at once, or one child after the other.
Begin == /\ mapPull = "starting" /\ total = 0
         /\ \/ stop /\ Completes(<<"stopped">>)
            \/ ~stop /\ entries = <<>> /\ Completes(<<"end">>)
            \/ ~stop /\ entries # <<>> /\ total' = Len(entries)
               /\ UNCHANGED <<mapPull, at, pending, finished, stop, log>>
         /\ UNCHANGED <<entries, mapSource, used>>

\* on_value(), on_error() of the child of k: decides the pull, or counts an end.
OnValue(k) == /\ Completes(<<"item", k, mapSource[k].pos + 1>>)
              /\ mapSource' = [mapSource EXCEPT ![k].pos = @ + 1]
OnFailure(k) == Completes(<<"error", k>>) /\ UNCHANGED mapSource
\* Mutant: the first source that ends is the end of the map.
OnFirstEnd(k) == Completes(<<"end">>) /\ UNCHANGED mapSource
OnEnd(k) == /\ UNCHANGED mapSource
            /\ IF finished + 1 >= total THEN Completes(<<"end">>)
               ELSE /\ finished' = finished + 1 /\ pending' = pending \ {k}
                    /\ at' = (IF mapPull = "starting" THEN at + 1 ELSE at)
                    /\ mapPull' = (IF at' = Len(entries) THEN "racing" ELSE mapPull)
                    /\ UNCHANGED <<log, total, stop>>
Ready(k) == mapSource[k].pos < mapSource[k].sent \/ mapSource[k].end # "open"
OnReady(k) == \/ mapSource[k].pos < mapSource[k].sent /\ OnValue(k)
              \/ mapSource[k].pos = mapSource[k].sent /\ mapSource[k].end = "end" /\ OnEnd(k)
              \/ mapSource[k].pos = mapSource[k].sent /\ mapSource[k].end = "fail" /\ OnFailure(k)

StartChild == /\ mapPull = "starting" /\ total > 0 /\ UNCHANGED <<entries, used>>
              /\ LET k == entries[at + 1] IN
                 \/ Ready(k) /\ OnReady(k)
                 \/ ~Ready(k) /\ pending' = pending \cup {k} /\ at' = at + 1
                    /\ mapPull' = (IF at' = Len(entries) THEN "racing" ELSE mapPull)
                    /\ UNCHANGED <<mapSource, total, finished, stop, log>>

\* The source of k sends an item, ends or fails: a parked child completes with it.
Arrives(k) ==
    /\ mapPull # "starting" /\ mapSource[k].end = "open" /\ UNCHANGED <<entries, used>>
    /\ \/ mapSource[k].sent < MaxItems /\ k \notin pending
          /\ mapSource' = [mapSource EXCEPT ![k].sent = @ + 1]
          /\ UNCHANGED <<mapPull, at, pending, total, finished, stop, log>>
       \/ mapSource[k].sent < MaxItems /\ k \in pending
          /\ Completes(<<"item", k, mapSource[k].pos + 1>>)
          /\ mapSource' = [mapSource EXCEPT ![k].sent = @ + 1, ![k].pos = @ + 1]
       \/ k \notin pending
          /\ \E e \in {"end", "fail"} : mapSource' = [mapSource EXCEPT ![k].end = e]
          /\ UNCHANGED <<mapPull, at, pending, total, finished, stop, log>>
       \/ k \in pending /\ Completes(<<"error", k>>)
          /\ mapSource' = [mapSource EXCEPT ![k].end = "fail"]
       \/ /\ k \in pending /\ mapSource' = [mapSource EXCEPT ![k].end = "end"]
          /\ IF finished + 1 >= total THEN Completes(<<"end">>)
             ELSE finished' = finished + 1 /\ pending' = pending \ {k}
                  /\ UNCHANGED <<mapPull, at, total, stop, log>>

\* on_stop(), and the destruction of an operation that was started.
OnStop == /\ mapPull = "racing" /\ Completes(<<"stopped">>)
          /\ UNCHANGED <<entries, mapSource, used>>
Abandon == /\ mapPull = "racing" /\ Completes(<<"abandoned">>)
           /\ UNCHANGED <<entries, mapSource, used>>

MapNext == NextPull \/ Begin \/ StartChild \/ OnStop \/ Abandon
        \/ \E k \in Keys : Insert(k) \/ Erase(k) \/ Arrives(k)
MapSpec == MapInit /\ [][MapNext]_mapVars

-----------------------------------------------------------------------------
MapOf(k) == SelectSeq(log, LAMBDA c : c[1] = "item" /\ c[2] = k)

\* What a source gives away is delivered, in its order and once: no loser takes an
\* item with it when it is destroyed.
NoItemLost == \A k \in Keys : MapOf(k) = [i \in 1 .. mapSource[k].pos |-> <<"item", k, i>>]
\* Children live as long as their pull; each registered source has ended or has one.
ChildrenTracked == /\ mapPull = "idle" => pending = {}
                   /\ mapPull = "racing" => /\ pending # {} /\ pending \subseteq ToSet(entries)
                                         /\ finished + Cardinality(pending) = total
\* A pull that waits has nothing to deliver.
WaitsRightly == mapPull = "racing" => \A k \in pending : ~Ready(k)
MapIsSound == MapTypeOK /\ NoItemLost /\ ChildrenTracked /\ WaitsRightly
\* The end of the map is that of every source: none has an item left or is still open.
EndStep ==
    (Len(log') > Len(log) /\ log'[Len(log')] = <<"end">>) =>
        \A k \in ToSet(entries) :
            mapSource'[k].end = "end" /\ mapSource'[k].pos = mapSource'[k].sent
=============================================================================

----------------------------- MODULE StreamOps -----------------------------
(***************************************************************************)
(* The adaptors of async streams (include/clash_native/async/              *)
(* async_stream.hpp): one stage over one or two sources, pulled by one     *)
(* consumer, one pull at a time.  A source is external: it has some items, *)
(* answers each pull with the next one or the end, and may fail or stop a  *)
(* pull without giving an item away.  The functions the stages are given   *)
(* are fixed below.  That a source completes inline or later makes no      *)
(* difference here; the trampolines for it are those of StreamMerge.       *)
(***************************************************************************)
EXTENDS Integers, Sequences, SequencesExt

CONSTANTS Kinds,     \* the stages
          MaxItems,  \* bound: items of a source
          MaxPulls,  \* bound: pulls of the consumer
          Count      \* the argument of take and skip

Stages == {"map", "filter", "take", "take_while", "skip", "skip_while", "scan", "flat_map",
           "zip", "merge"}
OpsAssumption == {MaxItems, MaxPulls, Count} \subseteq Nat /\ Kinds \subseteq Stages
Sources == {1, 2}
Items(n) == [i \in 1 .. n |-> i]

\* The functions: of map, of filter, of take_while and skip_while, of scan, of flat_map.
Double(v) == 2 * v
Odd(v) == v % 2 = 1
Early(v) == v < 2
Plus(a, v) == a + v
Inner(v) == [i \in 1 .. v - 1 |-> 10 * v + i]

VARIABLES
    kind,     \* the stage
    src,      \* source -> [n, pos]: its items, those given away
    left,     \* remaining_
    flag,     \* done_, skipping_, pull_first_
    acc,      \* acc_ of scan, held_ of zip
    current,  \* current_ of flat_map: [on, rest]
    pull,     \* the pull: "idle", "made", "first", "second", "inner"
    primary,  \* the source the pull of merge starts with
    used,     \* pulls made
    got,      \* items delivered
    ends,     \* ends delivered
    broken    \* a pull failed or was stopped

vars == <<kind, src, left, flag, acc, current, pull, primary, used, got, ends, broken>>

TypeOK ==
    /\ kind \in Kinds /\ src \in [Sources -> [n : 0 .. MaxItems, pos : 0 .. MaxItems]]
    /\ left \in 0 .. Count /\ flag \in BOOLEAN /\ current.on \in BOOLEAN
    /\ pull \in {"idle", "made", "first", "second", "inner"} /\ primary \in Sources
    /\ used \in 0 .. MaxPulls /\ ends \in 0 .. MaxPulls /\ broken \in BOOLEAN

Init ==
    /\ kind \in Kinds
    /\ src \in {s \in [Sources -> [n : 0 .. MaxItems, pos : {0}]] :
                  kind \notin {"zip", "merge"} => s[2].n = 0}
    /\ left = Count /\ flag = (kind = "skip_while") /\ acc = 0
    /\ current = [on |-> FALSE, rest |-> <<>>] /\ pull = "idle" /\ primary = 1
    /\ used = 0 /\ got = <<>> /\ ends = 0 /\ broken = FALSE

-----------------------------------------------------------------------------
Deliver(v) == got' = Append(got, v) /\ pull' = "idle" /\ UNCHANGED ends
DeliverEnd == ends' = ends + 1 /\ pull' = "idle" /\ UNCHANGED got
Again == UNCHANGED <<got, ends, pull>>
Onwards(p) == pull' = p /\ UNCHANGED <<got, ends>>

\* next(): take and merge change their state here, before the pull is started.
Exhausted == (kind = "take" /\ left = 0) \/ (kind = "take_while" /\ flag)
Next1 == /\ pull = "idle" /\ used < MaxPulls /\ used' = used + 1 /\ pull' = "made"
         /\ left' = IF kind = "take" /\ left > 0 THEN left - 1 ELSE left
         /\ flag' = IF kind = "merge" THEN ~flag ELSE flag
         /\ primary' = IF kind = "merge" /\ flag THEN 2 ELSE 1
         \* take: a pull without a source is told from the last one by the flag
         /\ acc' = IF kind = "take" THEN (IF left = 0 THEN 1 ELSE 0) ELSE acc
         /\ UNCHANGED <<kind, src, current, got, ends, broken>>

\* start(): the end without a pull, or a pull of the source whose turn it is.
Start ==
    /\ pull = "made" /\ UNCHANGED <<kind, src, left, flag, acc, current, primary, used, broken>>
    /\ \/ (IF kind = "take" THEN acc = 1 ELSE Exhausted) /\ DeliverEnd
       \/ ~(IF kind = "take" THEN acc = 1 ELSE Exhausted)
          /\ Onwards(IF kind = "flat_map" /\ current.on THEN "inner"
                     ELSE IF kind = "merge" /\ primary = 2 THEN "second" ELSE "first")

\* A stop, before or during the pull, or a failure of the source.
Breaks == /\ pull \in {"made", "first", "second", "inner"} /\ pull' = "idle" /\ broken' = TRUE
          /\ UNCHANGED <<kind, src, left, flag, acc, current, primary, used, got, ends>>

\* The steps of the stages for an item v of source s.
Filter(v) == (IF Odd(v) THEN Deliver(v) ELSE Again) /\ UNCHANGED <<left, flag, acc, current>>
TakeWhile(v) == /\ IF ~Early(v) THEN flag' = TRUE /\ DeliverEnd ELSE UNCHANGED flag /\ Deliver(v)
                /\ UNCHANGED <<left, acc, current>>
\* Mutant: the count of skip is not used up.
SkipAlways(v) == (IF left > 0 THEN Again ELSE Deliver(v)) /\ UNCHANGED <<left, flag, acc, current>>
Skip(v) == /\ IF left > 0 THEN left' = left - 1 /\ Again ELSE UNCHANGED left /\ Deliver(v)
           /\ UNCHANGED <<flag, acc, current>>
SkipWhile(v) == /\ IF flag /\ Early(v) THEN UNCHANGED flag /\ Again ELSE flag' = FALSE /\ Deliver(v)
                /\ UNCHANGED <<left, acc, current>>
Scan(v) == acc' = Plus(acc, v) /\ Deliver(acc') /\ UNCHANGED <<left, flag, current>>
FlatMap(v) == /\ current' = [on |-> TRUE, rest |-> Inner(v)] /\ Onwards("inner")
              /\ UNCHANGED <<left, flag, acc>>
ZipStep(s, v) == /\ IF s = 1 THEN acc' = v /\ Onwards("second")
                    ELSE UNCHANGED acc /\ Deliver(<<acc, v>>)
                 /\ UNCHANGED <<left, flag, current>>
Plain(v) == Deliver(v) /\ UNCHANGED <<left, flag, acc, current>>

Item(s) ==
    /\ pull = (IF s = 1 THEN "first" ELSE "second") /\ src[s].pos < src[s].n
    /\ src' = [src EXCEPT ![s].pos = @ + 1] /\ UNCHANGED <<kind, primary, used, broken>>
    /\ LET v == src[s].pos + 1 IN
       \/ kind = "map" /\ Plain(Double(v))
       \/ kind = "take" /\ Plain(v)
       \/ kind = "merge" /\ Plain(<<s, v>>)
       \/ kind = "filter" /\ Filter(v)
       \/ kind = "take_while" /\ TakeWhile(v)
       \/ kind = "skip" /\ Skip(v)
       \/ kind = "skip_while" /\ SkipWhile(v)
       \/ kind = "scan" /\ Scan(v)
       \/ kind = "flat_map" /\ FlatMap(v)
       \/ kind = "zip" /\ ZipStep(s, v)

\* The end of a source: merge asks the other one first.
Fallback(s) == kind = "merge" /\ s = primary
End(s) ==
    /\ pull = (IF s = 1 THEN "first" ELSE "second") /\ src[s].pos = src[s].n
    /\ IF Fallback(s) THEN Onwards(IF s = 1 THEN "second" ELSE "first") ELSE DeliverEnd
    /\ UNCHANGED <<kind, src, left, flag, acc, current, primary, used, broken>>

\* on_inner(): an item of the inner stream, or its end and the next outer item.
InnerItem ==
    /\ pull = "inner"
    /\ IF current.rest # <<>>
       THEN current' = [current EXCEPT !.rest = Tail(@)] /\ Deliver(current.rest[1])
       ELSE current' = [on |-> FALSE, rest |-> <<>>] /\ Onwards("first")
    /\ UNCHANGED <<kind, src, left, flag, acc, primary, used, broken>>

Next == Next1 \/ Start \/ Breaks \/ InnerItem \/ \E s \in Sources : Item(s) \/ End(s)
Spec == Init /\ [][Next]_vars

-----------------------------------------------------------------------------
(* What each stage is to deliver, as a function of the items.              *)
Least(a, b) == IF a < b THEN a ELSE b
Rounds(m, n) == FlattenSeq([i \in 1 .. Least(m, n) |-> <<<<1, i>>, <<2, i>>>>])
Tails(m, n) == [i \in 1 .. m - Least(m, n) |-> <<1, Least(m, n) + i>>]
               \o [i \in 1 .. n - Least(m, n) |-> <<2, Least(m, n) + i>>]
Reference(k, m, n) ==
    CASE k = "map" -> [i \in 1 .. m |-> Double(i)]
      [] k = "filter" -> SelectSeq(Items(m), Odd)
      [] k = "take" -> Items(Least(m, Count))
      [] k = "take_while" -> SelectSeq(Items(m), Early)
      [] k = "skip" -> SubSeq(Items(m), Count + 1, m)
      [] k = "skip_while" -> SelectSeq(Items(m), LAMBDA v : ~Early(v))
      [] k = "scan" -> [i \in 1 .. m |-> (i * (i + 1)) \div 2]
      [] k = "flat_map" -> FlattenSeq([i \in 1 .. m |-> Inner(i)])
      [] k = "zip" -> [i \in 1 .. Least(m, n) |-> <<i, i>>]
      [] k = "merge" -> Rounds(m, n) \o Tails(m, n)
Expected == Reference(kind, src[1].n, src[2].n)

\* The items delivered are the first of the reference, also after pulls that failed
\* or were stopped; of zip, which drops what it holds, and merge, which changes
\* sides at every pull, only without such pulls.
OutputIsReference == (broken => kind \notin {"zip", "merge"}) => IsPrefix(got, Expected)
\* An end means that all was delivered; take counts a pull that came to nothing.
EndIsComplete == (ends > 0 /\ (broken => kind \notin {"zip", "merge", "take"})) => got = Expected
\* merge loses nothing of either source, in order, even so.
MergeKeepsOrder ==
    kind = "merge" =>
        \A s \in Sources :
            SelectSeq(got, LAMBDA v : v[1] = s) = [i \in 1 .. src[s].pos |-> <<s, i>>]
\* take asks for no item more than it may give, take_while for one.
TakesNoMore == /\ kind = "take" => src[1].pos <= Count
               /\ kind = "take_while" => src[1].pos <= Len(Expected) + 1
OpsAreSound == TypeOK /\ OutputIsReference /\ EndIsComplete /\ MergeKeepsOrder /\ TakesNoMore
=============================================================================

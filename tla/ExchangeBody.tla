---------------------------- MODULE ExchangeBody ----------------------------
(***************************************************************************)
(* QueuedExchangeBodyStream (include/clash_native/io/                      *)
(* exchange_body_stream.hpp): the response body between an HTTP session    *)
(* and the one consumer that pulls it.  Everything runs on the session's   *)
(* executor; what the code posts is queued in posts and runs later, in     *)
(* order, while the session's own calls may come in between.               *)
(*                                                                         *)
(* A pull is a callback_sender operation: the first of the stream's        *)
(* handler and a stop settles it, and a later handler is dropped.          *)
(***************************************************************************)
EXTENDS Integers, Sequences, SequencesExt

CONSTANTS Capacity,   \* capacity_, in bytes
          BufferSize, \* size of the buffer of a pull
          MaxBytes,   \* bound: bytes of the body
          MaxPulls,   \* bound: pulls of the consumer
          Stops       \* whether a pull may be stopped on its own

SizesAssumption == /\ Capacity \in Nat \ {0} /\ BufferSize \in Nat \ {0}
                   /\ MaxBytes \in Nat /\ MaxPulls \in Nat
                   /\ Stops \in BOOLEAN

VARIABLES
    arrived,   \* bytes the session has passed to receive()
    credit,    \* the session's count of bytes not reported consumed
    refused,   \* receive() has returned false
    chunks,    \* chunks_, the front without its first front_offset_ bytes
    terminal,  \* "open", or terminal_error_: "eof", "failed", "aborted"
    cancelled, \* cancelled_
    told,      \* the session's on_cancel has been called
    drained,   \* drained_signalled_: "no", "signalled"; "called": on_drained ran
    parked,    \* the pull that owns read_handler_, or 0
    posts,     \* closures posted to the executor
    pull,      \* the consumer's latest pull, and how it stands
    given,     \* what the consumer has been given
    teardown   \* the consumer has called cancel()

bodyVars == <<arrived, credit, refused, chunks, terminal, cancelled, told, drained,
              parked, posts, pull, given, teardown>>

senderVars == <<arrived, credit, refused>>
consumerVars == <<pull, given, teardown>>

Bytes == Seq(1 .. MaxBytes)
Post == [kind : {"handler", "consume", "drained", "cancelRead", "cancel"},
         pull : 0 .. MaxPulls, bytes : Bytes,
         end : {"data", "eof", "failed", "aborted", "started"}]

BodyTypeOK ==
    /\ arrived \in 0 .. MaxBytes /\ credit \in 0 .. Capacity /\ refused \in BOOLEAN
    /\ chunks \in Seq(Bytes)
    /\ terminal \in {"open", "eof", "failed", "aborted"}
    /\ cancelled \in BOOLEAN /\ told \in BOOLEAN /\ teardown \in BOOLEAN
    /\ drained \in {"no", "signalled", "called"}
    /\ parked \in 0 .. MaxPulls
    /\ posts \in Seq(Post)
    /\ pull \in [id : 0 .. MaxPulls,
                 st : {"idle", "waiting", "data", "eof", "failed", "stopped", "started"}]
    /\ given \in Bytes

BodyInit ==
    /\ arrived = 0 /\ credit = 0 /\ refused = FALSE
    /\ chunks = <<>> /\ terminal = "open" /\ cancelled = FALSE /\ told = FALSE
    /\ drained = "no" /\ parked = 0 /\ posts = <<>>
    /\ pull = [id |-> 0, st |-> "idle"] /\ given = <<>> /\ teardown = FALSE

Closure(kind, p, bytes, end) == [kind |-> kind, pull |-> p, bytes |-> bytes, end |-> end]
Plain(kind) == Closure(kind, 0, <<>>, "data")
Handler(p, bytes, end) == Closure("handler", p, bytes, end)

(***************************************************************************)
(* deliver(), finish_read() and signal_drained(), on a queue q: what is    *)
(* left of the queue, what is posted, and whether the end is signalled.    *)
(***************************************************************************)
Taken(q) == SubSeq(q[1], 1, IF Len(q[1]) < BufferSize THEN Len(q[1]) ELSE BufferSize)
\* Mutant: what is left of a chunk after a short read is dropped.
RestDropsChunk(q) == SubSeq(q, 2, Len(q))
Rest(q) == IF Len(q[1]) <= BufferSize THEN SubSeq(q, 2, Len(q))
           ELSE [q EXCEPT ![1] = SubSeq(@, BufferSize + 1, Len(@))]

Signal(ended) == IF ended /\ drained = "no" THEN <<Plain("drained")>> ELSE <<>>
Mark(ended) == drained' = IF ended /\ drained = "no" THEN "signalled" ELSE drained

Deliver(p, q) ==
    LET ended == Rest(q) = <<>> /\ terminal # "open" IN
    /\ chunks' = Rest(q)
    /\ posts' = posts \o <<Closure("consume", p, Taken(q), "data"), Handler(p, Taken(q), "data")>>
                      \o Signal(ended)
    /\ Mark(ended)

FinishRead(p, end) ==
    /\ posts' = posts \o <<Handler(p, <<>>, end)>> \o Signal(end = "eof")
    /\ Mark(end = "eof")
    /\ UNCHANGED chunks

-----------------------------------------------------------------------------
(* The consumer. *)

\* async_read_some: read_some() runs at once.
ReadSome(p) ==
    \/ /\ parked # 0 /\ posts' = Append(posts, Handler(p, <<>>, "started"))
       /\ UNCHANGED <<parked, chunks, drained>>
    \/ /\ parked = 0 /\ chunks # <<>> /\ Deliver(p, chunks) /\ UNCHANGED parked
    \/ /\ parked = 0 /\ chunks = <<>> /\ terminal # "open" /\ FinishRead(p, terminal)
       /\ UNCHANGED parked
    \/ /\ parked = 0 /\ chunks = <<>> /\ terminal = "open" /\ parked' = p
       /\ UNCHANGED <<chunks, posts, drained>>

Pull == /\ pull.st \in {"idle", "data", "stopped"} /\ pull.id < MaxPulls /\ ~teardown
        /\ pull' = [id |-> pull.id + 1, st |-> "waiting"]
        /\ ReadSome(pull.id + 1)
        /\ UNCHANGED <<senderVars, terminal, cancelled, told, given, teardown>>

\* A stop of the pull settles it at once; its aborter posts cancel_read().
StopPull == /\ Stops /\ pull.st = "waiting"
            /\ pull' = [pull EXCEPT !.st = "stopped"]
            /\ posts' = Append(posts, Plain("cancelRead"))
            /\ UNCHANGED <<senderVars, chunks, terminal, cancelled, told, drained, parked, given, teardown>>

CancelStream ==
    /\ ~teardown /\ teardown' = TRUE
    /\ posts' = Append(posts, Plain("cancel"))
    /\ UNCHANGED <<senderVars, chunks, terminal, cancelled, told, drained, parked, pull, given>>

-----------------------------------------------------------------------------
(* The session.  It reads no more than its credit allows, and stops at the *)
(* end of the body or when it was told that the consumer is gone.          *)

Fits(k) == Len(FlattenSeq(chunks)) + k <= Capacity

Receive(k) ==
    /\ terminal = "open" /\ ~refused
    /\ arrived + k <= MaxBytes /\ credit + k <= Capacity
    /\ arrived' = arrived + k /\ credit' = credit + k
    /\ refused' = ~Fits(k)
    /\ LET queue == IF Fits(k) THEN Append(chunks, [i \in 1 .. k |-> arrived + i]) ELSE chunks IN
       IF parked # 0 /\ Fits(k) THEN Deliver(parked, queue) /\ parked' = 0
       ELSE chunks' = queue /\ UNCHANGED <<posts, parked, drained>>
    /\ UNCHANGED <<terminal, cancelled, told, consumerVars>>

Finish ==
    /\ terminal = "open"
    /\ terminal' = "eof"
    /\ \/ /\ chunks = <<>> /\ parked # 0 /\ FinishRead(parked, "eof") /\ parked' = 0
       \/ /\ ~(chunks = <<>> /\ parked # 0) /\ UNCHANGED <<chunks, posts, parked, drained>>
    /\ UNCHANGED <<senderVars, cancelled, told, consumerVars>>

\* fail(): what is queued is dropped and a parked pull gets the error.
Retire(error) ==
    /\ chunks' = <<>> /\ parked' = 0
    /\ posts' = posts \o (IF parked = 0 THEN <<>> ELSE <<Handler(parked, <<>>, error)>>)

Fail == /\ terminal = "open" /\ terminal' = "failed" /\ Retire("failed")
        /\ UNCHANGED <<senderVars, cancelled, told, drained, consumerVars>>

-----------------------------------------------------------------------------
(* The executor runs what was posted. *)

Next1(c) == Len(posts) > 0 /\ posts[1].kind = c
Popped == SubSeq(posts, 2, Len(posts))

\* The handler of a pull: dropped when the pull is settled already.
HandlerRuns ==
    /\ Next1("handler") /\ posts' = Popped
    /\ LET h == posts[1] IN
       IF pull = [id |-> h.pull, st |-> "waiting"]
       THEN /\ given' = given \o h.bytes
            /\ pull' = [pull EXCEPT !.st = IF h.end = "aborted" THEN "stopped" ELSE h.end]
       ELSE UNCHANGED <<given, pull>>
    /\ UNCHANGED <<senderVars, chunks, terminal, cancelled, told, drained, parked, teardown>>

Consumed(n) == IF credit >= n THEN credit - n ELSE 0
\* on_consume: the session gets its credit back.
ConsumeRuns ==
    /\ Next1("consume") /\ posts' = Popped
    /\ credit' = Consumed(Len(posts[1].bytes))
    /\ UNCHANGED <<arrived, refused, chunks, terminal, cancelled, told, drained, parked, consumerVars>>

DrainedRuns ==
    /\ Next1("drained") /\ posts' = Popped /\ drained' = "called"
    /\ UNCHANGED <<senderVars, chunks, terminal, cancelled, told, parked, consumerVars>>

CancelReadRuns ==
    /\ Next1("cancelRead")
    /\ posts' = Popped \o (IF parked = 0 THEN <<>> ELSE <<Handler(parked, <<>>, "aborted")>>)
    /\ parked' = 0
    /\ UNCHANGED <<senderVars, chunks, terminal, cancelled, told, drained, consumerVars>>

\* cancel(): nothing when the end has been signalled.  on_cancel comes first.
CancelRuns ==
    /\ Next1("cancel")
    /\ \/ /\ drained # "no" /\ posts' = Popped
          /\ UNCHANGED <<chunks, terminal, cancelled, told, parked>>
       \/ /\ drained = "no"
          /\ cancelled' = TRUE /\ terminal' = "aborted" /\ told' = TRUE
          /\ chunks' = <<>> /\ parked' = 0
          /\ posts' = Popped \o (IF parked = 0 THEN <<>> ELSE <<Handler(parked, <<>>, "aborted")>>)
    /\ UNCHANGED <<senderVars, drained, consumerVars>>

RunPost == HandlerRuns \/ ConsumeRuns \/ DrainedRuns \/ CancelReadRuns \/ CancelRuns

Sender == (\E k \in 1 .. Capacity : Receive(k)) \/ Finish \/ Fail
BodyNext == Pull \/ StopPull \/ CancelStream \/ Sender \/ RunPost

BodySpec == BodyInit /\ [][BodyNext]_bodyVars

\* The executor runs what is posted, and the session ends every body: the
\* deadline of the exchange makes it.
BodyFairSpec == BodySpec /\ WF_bodyVars(RunPost) /\ WF_bodyVars(Finish \/ Fail)

-----------------------------------------------------------------------------
(* The closures that bring bytes to a pull that still waits for them, and   *)
(* the bytes: a pull is handed bytes once.                                 *)
Owed == {i \in DOMAIN posts : posts[i].kind = "handler" /\ posts[i].bytes # <<>>
                                  /\ pull = [id |-> posts[i].pull, st |-> "waiting"]}
InFlight == IF Owed = {} THEN <<>> ELSE posts[CHOOSE i \in Owed : TRUE].bytes

\* Until the body fails or is cancelled, every byte receive() accepted has
\* been given to the consumer, is on its way or is queued, in order: whatever
\* partial reads, posted handlers and stopped pulls do in between.
NothingLost ==
    (terminal \in {"open", "eof"} /\ ~refused)
        => given \o InFlight \o FlattenSeq(chunks) = [i \in 1 .. arrived |-> i]

\* A pull completes with end of stream only when the consumer has been given
\* the whole body.
EofIsComplete == pull.st = "eof" => Len(given) = arrived

\* A session that stays within the credit on_consume gives back is never
\* refused for lack of room.
NeverRefused == ~refused

\* on_drained is called once everything has been handed out, and never beside
\* on_cancel: the session is told of one end only.
OneEnding ==
    /\ drained = "called" => chunks = <<>> /\ ~told
    /\ \A i, j \in DOMAIN posts :
          posts[i].kind = "drained" /\ posts[j].kind = "drained" => i = j /\ drained = "signalled"

\* The aborter of a pull retires that pull alone: the stream itself ends no
\* other pull as stopped, and refuses none as a second read, unless it was
\* cancelled as a whole.
AbortRetiresOnlyItsPull ==
    [][HandlerRuns /\ pull'.st \in {"stopped", "started"} => cancelled \/ pull' = pull]_bodyVars

\* No pull waits: one that does, does not for ever.
NobodyPulls == pull.st # "waiting"

\* Every byte that receive() accepted reaches the consumer once and in order,
\* the end after the last; a session that respects its credit is not refused;
\* and it is told that the body drained or that it was cancelled, not both.
\* Bytes and end are another matter once pulls may be stopped on their own.
BodyIsSound ==
    /\ BodyTypeOK /\ NeverRefused /\ OneEnding
    /\ ~Stops => NothingLost /\ EofIsComplete
=============================================================================

--------------------------- MODULE CallbackSender ---------------------------
(***************************************************************************)
(* One operation of include/clash_native/async/callback_sender.hpp, the    *)
(* bridge from handler-style work to senders.  Four parties meet in the    *)
(* reference-counted Shared block: start(), the terminal handler of the    *)
(* work, the stop callback and the destructor.  Any of them may run on its *)
(* own thread; a step is one spin-locked claim or one stretch between two. *)
(*                                                                         *)
(* fault records accesses to freed memory: "op" to the operation state,    *)
(* "block" to the Shared block.  raced records the races that the code does*)
(* not close: a stop between the registration of the callback and the      *)
(* fetch_add of start() ("register"), the destructor of an operation       *)
(* against a stop or a terminal on another thread ("destroy"), and an      *)
(* initiation that throws when somebody has settled ("settled") or after it*)
(* launched the work ("launched").                                         *)
(***************************************************************************)
EXTENDS Integers, Sequences, FiniteSets

VARIABLES
    pc,        \* progress of start()
    work,      \* the handler-style work: "none", "running", "done"
    term,      \* progress of the terminal handler
    stopper,   \* progress of on_stop()
    callback,  \* the registered stop callback
    dtor,      \* progress of ~OpState
    settled,   \* Shared::done, with the winner's name
    parked,    \* Shared::aborter is set
    orphan,    \* start() holds a fresh aborter it must run itself
    refs,      \* Shared::refs
    aborted,   \* the aborter has run
    signals,   \* completion signals delivered
    fault,
    raced      \* history

blockVars == <<settled, parked, refs>>
vars == <<pc, work, term, stopper, callback, dtor, settled, parked, orphan, refs,
          aborted, signals, fault, raced>>

TypeOK ==
    /\ pc \in {"idle", "registered", "initiating", "tail", "release", "abort", "returned"}
    /\ work \in {"none", "running", "done"}
    /\ term \in {"idle", "won", "lost", "delivered", "over"}
    /\ stopper \in {"idle", "abort", "complete"}
    /\ callback \in {"off", "armed", "running"}
    /\ dtor \in {"alive", "abort", "release", "members", "dead"}
    /\ settled \in {"no", "terminal", "stop", "destroy", "throw"}
    /\ parked \in BOOLEAN /\ orphan \in BOOLEAN /\ aborted \in BOOLEAN
    /\ refs \in 0..3
    /\ signals \in Seq({"terminal", "stopped", "error"})
    /\ fault \subseteq {"op", "block"}
    /\ raced \subseteq {"register", "destroy", "settled", "launched"}

Init ==
    /\ pc = "idle" /\ work = "none" /\ term = "idle" /\ stopper = "idle"
    /\ callback = "off" /\ dtor = "alive" /\ settled = "no"
    /\ parked = FALSE /\ orphan = FALSE /\ refs = 1 /\ aborted = FALSE
    /\ signals = <<>> /\ fault = {} /\ raced = {}

OpDead == dtor = "dead"
BlockDead == refs = 0

Races(happened) == raced' = raced \cup happened

Touch(op, block) ==
    fault' = fault \cup (IF op /\ OpDead THEN {"op"} ELSE {})
                   \cup (IF block /\ BlockDead THEN {"block"} ELSE {})

Complete(sig) == signals' = Append(signals, sig)
Release(n) == refs' = IF refs >= n THEN refs - n ELSE 0

(* claim(): the first caller wins and takes the parked aborter with it. *)
Claim(winner) ==
    /\ settled = "no"
    /\ settled' = winner
    /\ parked' = FALSE

-----------------------------------------------------------------------------
(* start() *)

(* A stop that is already requested completes before anything is started. *)
StartStopped ==
    /\ pc = "idle" /\ dtor = "alive"
    /\ pc' = "returned"
    /\ Complete("stopped")
    /\ UNCHANGED <<work, term, stopper, callback, dtor, blockVars, orphan, aborted, fault, raced>>

StartRegister ==
    /\ pc = "idle" /\ dtor = "alive"
    /\ pc' = "registered"
    /\ callback' = "armed"
    /\ UNCHANGED <<work, term, stopper, dtor, blockVars, orphan, aborted, signals, fault, raced>>

(* Mutant: the frame of start() takes no reference of its own. *)
StartCountOne ==
    /\ pc = "registered"
    /\ pc' = "initiating"
    /\ refs' = refs + 1
    /\ Touch(TRUE, TRUE)
    /\ UNCHANGED <<work, term, stopper, callback, dtor, settled, parked, orphan, aborted, signals,
                   raced>>

(* refs.fetch_add(2) and the hoisting of initiate_. *)
StartCount ==
    /\ pc = "registered"
    /\ pc' = "initiating"
    /\ refs' = refs + 2
    /\ Touch(TRUE, TRUE)
    /\ UNCHANGED <<work, term, stopper, callback, dtor, settled, parked, orphan, aborted, signals,
                   raced>>

(* The initiation hands its handler to the work. *)
Launch ==
    /\ pc = "initiating" /\ work = "none"
    /\ work' = "running"
    /\ UNCHANGED <<pc, term, stopper, callback, dtor, blockVars, orphan, aborted, signals, fault,
                   raced>>

InitiateReturns ==
    /\ pc = "initiating" /\ work # "none"
    /\ pc' = "tail"
    /\ UNCHANGED <<work, term, stopper, callback, dtor, blockVars, orphan, aborted, signals, fault,
                   raced>>

(* The initiation throws and the catch block runs, whoever settled before   *)
(* and whether or not the work was launched: it completes the receiver.     *)
InitiateThrows ==
    /\ pc = "initiating" /\ callback # "running"
    /\ pc' = "returned"
    /\ callback' = "off"
    /\ settled' = IF settled = "no" THEN "throw" ELSE settled
    /\ parked' = FALSE
    /\ Release(2)
    /\ Complete("error")
    /\ Touch(TRUE, TRUE)
    /\ Races((IF settled # "no" THEN {"settled"} ELSE {})
             \cup (IF work # "none" THEN {"launched"} ELSE {}))
    /\ UNCHANGED <<work, term, stopper, dtor, orphan, aborted>>

(* Somebody settled while the initiation ran: the fresh aborter is ours. *)
StartTail ==
    /\ pc = "tail"
    /\ pc' = "release"
    /\ IF settled = "no" THEN parked' = TRUE /\ UNCHANGED orphan
                         ELSE orphan' = TRUE /\ parked' = FALSE
    /\ Touch(FALSE, TRUE)
    /\ UNCHANGED <<work, term, stopper, callback, dtor, settled, refs, aborted, signals, raced>>

TailRelease ==
    /\ pc = "release"
    /\ pc' = IF orphan THEN "abort" ELSE "returned"
    /\ Release(1)
    /\ Touch(FALSE, TRUE)
    /\ UNCHANGED <<work, term, stopper, callback, dtor, settled, parked, orphan, aborted, signals,
                   raced>>

TailAbort ==
    /\ pc = "abort"
    /\ pc' = "returned"
    /\ orphan' = FALSE
    /\ aborted' = TRUE
    /\ UNCHANGED <<work, term, stopper, callback, dtor, blockVars, signals, fault, raced>>

-----------------------------------------------------------------------------
(* The terminal handler of the work. *)

TerminalClaim ==
    /\ work = "running" /\ term = "idle"
    /\ work' = "done"
    /\ IF settled = "no" THEN Claim("terminal") /\ term' = "won"
                         ELSE term' = "lost" /\ UNCHANGED <<settled, parked>>
    /\ Touch(FALSE, TRUE)
    /\ UNCHANGED <<pc, stopper, callback, dtor, orphan, refs, aborted, signals, raced>>

(* stop_callback_.reset() waits for a running callback, then translate_. *)
TerminalDeliver ==
    /\ term = "won" /\ callback # "running"
    /\ term' = "delivered"
    /\ callback' = "off"
    /\ Complete("terminal")
    /\ Touch(TRUE, FALSE)
    /\ UNCHANGED <<pc, work, stopper, dtor, blockVars, orphan, aborted, raced>>

TerminalRelease ==
    /\ term \in {"lost", "delivered"}
    /\ term' = "over"
    /\ Release(1)
    /\ Touch(FALSE, TRUE)
    /\ UNCHANGED <<pc, work, stopper, callback, dtor, settled, parked, orphan, aborted, signals,
                   raced>>

-----------------------------------------------------------------------------
(* on_stop() *)

RequestStop ==
    /\ callback = "armed" /\ ~OpDead
    /\ callback' = "running"
    /\ Races((IF pc = "registered" THEN {"register"} ELSE {})
             \cup (IF dtor # "alive" THEN {"destroy"} ELSE {}))
    /\ UNCHANGED <<pc, work, term, stopper, dtor, blockVars, orphan, aborted, signals, fault>>

StopClaim ==
    /\ callback = "running" /\ stopper = "idle"
    /\ IF settled = "no"
       THEN /\ Claim("stop")
            /\ stopper' = IF parked THEN "abort" ELSE "complete"
            /\ UNCHANGED callback
       ELSE callback' = "off" /\ UNCHANGED <<settled, parked, stopper>>
    /\ Touch(TRUE, TRUE)
    /\ UNCHANGED <<pc, work, term, dtor, orphan, refs, aborted, signals, raced>>

StopAbort ==
    /\ stopper = "abort"
    /\ stopper' = "complete"
    /\ aborted' = TRUE
    /\ UNCHANGED <<pc, work, term, callback, dtor, blockVars, orphan, signals, fault, raced>>

StopComplete ==
    /\ stopper = "complete"
    /\ stopper' = "idle"
    /\ callback' = "off"
    /\ Complete("stopped")
    /\ Touch(TRUE, FALSE)
    /\ UNCHANGED <<pc, work, term, dtor, blockVars, orphan, aborted, raced>>

-----------------------------------------------------------------------------
(* ~OpState: by the owner once it was completed, or as a cancellation of a  *)
(* pending operation whose start() has returned.                            *)
Destroy ==
    /\ dtor = "alive"
    /\ signals # <<>> \/ pc = "returned"
    /\ dtor' = IF parked THEN "abort" ELSE "release"
    /\ IF settled = "no" THEN Claim("destroy") ELSE UNCHANGED <<settled, parked>>
    /\ Touch(FALSE, TRUE)
    /\ Races(IF callback = "running" \/ term = "won" THEN {"destroy"} ELSE {})
    /\ UNCHANGED <<pc, work, term, stopper, callback, orphan, refs, aborted, signals>>

DestroyAbort ==
    /\ dtor = "abort"
    /\ dtor' = "release"
    /\ aborted' = TRUE
    /\ UNCHANGED <<pc, work, term, stopper, callback, blockVars, orphan, signals, fault, raced>>

DestroyRelease ==
    /\ dtor = "release"
    /\ dtor' = "members"
    /\ Release(1)
    /\ UNCHANGED <<pc, work, term, stopper, callback, settled, parked, orphan, aborted, signals,
                   fault, raced>>

(* ~stop_callback_ waits for a callback that is running. *)
DestroyMembers ==
    /\ dtor = "members" /\ callback # "running"
    /\ dtor' = "dead"
    /\ callback' = "off"
    /\ UNCHANGED <<pc, work, term, stopper, blockVars, orphan, aborted, signals, fault, raced>>

-----------------------------------------------------------------------------

StartStep ==
    \/ StartCount \/ Launch \/ InitiateReturns \/ InitiateThrows
    \/ StartTail \/ TailRelease \/ TailAbort
TerminalStep == TerminalDeliver \/ TerminalRelease
StopStep == StopClaim \/ StopAbort \/ StopComplete
DestroyStep == DestroyAbort \/ DestroyRelease \/ DestroyMembers

Next == StartStopped \/ StartRegister \/ StartStep \/ TerminalClaim \/ TerminalStep
        \/ RequestStop \/ StopStep \/ Destroy \/ DestroyStep

Spec == Init /\ [][Next]_vars

(* Every thread that is inside one of the four parties goes on, aborted    *)
(* work calls its handler (work nobody aborts may run for ever), and the   *)
(* owner destroys what was completed.                                      *)
FairSpec ==
    /\ Spec
    /\ WF_vars(StartStep) /\ WF_vars(StopStep)
    /\ WF_vars((aborted /\ TerminalClaim) \/ TerminalStep)
    /\ WF_vars(Destroy \/ DestroyStep)

-----------------------------------------------------------------------------
(* First-wins settlement: at most one completion signal, and it is the one *)
(* of the party that claimed; a destroyed operation is never completed.    *)
FirstWins ==
    /\ Len(signals) <= 1
    /\ settled = "stop" /\ signals # <<>> => signals = <<"stopped">>
    /\ settled = "terminal" /\ signals # <<>> => signals = <<"terminal">>
    /\ settled = "throw" => signals = <<"error">>
    /\ settled = "destroy" => signals = <<>> \/ (signals = <<"stopped">> /\ work = "none")

(* Nobody touches the Shared block after its last reference is dropped. *)
BlockUntouched == "block" \notin fault

(* Nobody touches the operation state after its destructor ended. *)
OpUntouched == "op" \notin fault

(* The reference count accounts exactly for the owner, the terminal and    *)
(* the frame of start(), so the block is neither leaked nor freed early.   *)
RefsAccounted ==
    refs = (IF dtor \in {"alive", "abort", "release"} THEN 1 ELSE 0)
         + (IF pc \in {"initiating", "tail", "release"} THEN 1 ELSE 0)
         + (IF pc \in {"initiating", "tail", "release", "abort"} \/ work # "none"
            THEN (IF term = "over" THEN 0 ELSE 1) ELSE 0)

(* Each of the four promises, over every interleaving, initiations that    *)
(* throw included, except after the races that break it: an initiation that*)
(* throws completes whoever settled before and drops the reference of the  *)
(* work it launched, and start() and the destructor are not serialised with*)
(* a stop or a terminal on another thread.                                 *)
SettlesCleanly ==
    /\ TypeOK
    /\ "settled" \notin raced => FirstWins
    /\ "launched" \notin raced => RefsAccounted
    /\ raced \cap {"register", "destroy", "launched"} = {} => BlockUntouched
    /\ raced \cap {"register", "destroy", "settled"} = {} => OpUntouched

(* What the comments of the class say of an initiation that throws: the    *)
(* operation completes once, by whoever was first, and work launched before*)
(* the throw ends later without touching what is gone.  The stop and the   *)
(* destructor keep out of the two windows of the other races.              *)
ThrowsCleanly ==
    raced \subseteq {"settled", "launched"} =>
        Len(signals) <= 1 /\ BlockUntouched /\ OpUntouched

(* What a settled operation must not leave behind for ever: work that a stop*)
(* or a destruction settled and nobody aborts, and the block.              *)
WorkOrphaned == settled \in {"stop", "destroy"} /\ work = "running" /\ "launched" \notin raced
BlockLeaked == OpDead /\ pc = "returned" /\ work # "running" /\ refs # 0
Leftover == WorkOrphaned \/ BlockLeaked
=============================================================================

---------------------------- MODULE DnsExchange ----------------------------
(***************************************************************************)
(* What docs/architecture.md (14.6) promises of a DNS exchange, whoever    *)
(* performs it: an exchange begins, ends exactly once with one outcome,    *)
(* cancellation and shutdown included, and an outcome never changes.       *)
(* DnsUpstreamGroup, the transports and the bootstrap resolver are shown   *)
(* to implement it.                                                        *)
(***************************************************************************)
CONSTANTS Ops, Outcomes, NoOutcome

VARIABLES phase, outcome

exchangeVars == <<phase, outcome>>

Init ==
    /\ phase = [o \in Ops |-> "idle"]
    /\ outcome = [o \in Ops |-> NoOutcome]

Begin(o) ==
    /\ phase[o] = "idle"
    /\ phase' = [phase EXCEPT ![o] = "running"]
    /\ UNCHANGED outcome

(* An exchange that is refused ends in the step that begins it. *)
End(o) ==
    /\ phase[o] \in {"idle", "running"}
    /\ phase' = [phase EXCEPT ![o] = "done"]
    /\ \E r \in Outcomes : outcome' = [outcome EXCEPT ![o] = r]

(* Shutdown, or the loss of what they share, ends several in one step. *)
EndTogether ==
    \E S \in SUBSET {o \in Ops : phase[o] = "running"}, r \in Outcomes :
        /\ phase' = [o \in Ops |-> IF o \in S THEN "done" ELSE phase[o]]
        /\ outcome' = [o \in Ops |-> IF o \in S THEN r ELSE outcome[o]]

Next == EndTogether \/ \E o \in Ops : Begin(o) \/ End(o)

Spec == Init /\ [][Next]_exchangeVars

(* Every exchange ends: for finitely many Ops this is what weak fairness   *)
(* of End(o) for a running o comes to.                                     *)
FairSpec == Spec /\ <>[](\A o \in Ops : phase[o] # "running")
=============================================================================

----------------------------- MODULE Http1Proofs -----------------------------
(***************************************************************************)
(* Proofs about Http1Session, for any number of exchanges of any kinds,    *)
(* and about ExchangeBody, the body of a response, whatever its sizes.     *)
(***************************************************************************)
EXTENDS Http1Session, ExchangeBody, SequenceTheorems, FiniteSetTheorems, WellFoundedInduction, TLAPS

-----------------------------------------------------------------------------
(* The inductive invariant. *)

Stages == {"idle", "writing", "uploading", "reading", "spinning", "downloading", "over"}
Terminals == {"response", "tunnel", "error"}

(* Before it is submitted nothing is known of an exchange. *)
Unsubmitted ==
    \A x \in Exchanges : kind[x] = "none" =>
        /\ x \notin pending /\ x \notin posted /\ outcome[x] = <<>>
        /\ body[x] = "none" /\ stage[x] = "idle"

(* queue_ lists submitted exchanges that have not begun, each once.  Some  *)
(* may have left pending_ meanwhile.                                       *)
Queued(q) == {q[i] : i \in 1 .. Len(q)}
Once(q) == \A i, j \in 1 .. Len(q) : q[i] = q[j] => i = j
QueueInv == /\ Once(queue)
            /\ \A x \in Queued(queue) : kind[x] # "none" /\ stage[x] = "idle"

(* The active exchange is pending and has begun. *)
ActiveInv == active # 0 => active \in pending /\ stage[active] # "idle"

(* Once the connection is retired nothing is pending, active or queued. *)
RetiredInv == /\ retired <=> link # "open"
              /\ stopped => retired
              /\ retired => pending = {} /\ active = 0 /\ queue = <<>>

(* Only streaming exchanges have response bodies, one that is not drained  *)
(* belongs to the active exchange, and tells how far that one is.          *)
BodyInv ==
    /\ \A x \in Exchanges :
          /\ kind[x] # "streaming" \/ stage[x] = "idle" => body[x] = "none"
          /\ ~retired /\ body[x] \in {"open", "eof"} => x = active
    /\ active # 0 =>
          /\ body[active] # "drained"
          /\ stage[active] = "downloading" <=> body[active] = "open"
          /\ stage[active] = "over" => body[active] = "eof"
          /\ stage[active] = "downloading" => unread # <<>>
          /\ body[active] = "none" <=> stage[active] \in {"writing", "uploading", "reading", "spinning"}

(* A pending exchange has had its terminal exactly if it has a body. *)
TerminalInv ==
    \A x \in pending : x \notin posted /\ (outcome[x] = <<>> <=> body[x] = "none")

(* A pending exchange has its turn now or later, and a timer until then,   *)
(* unless its body was drained; who was not told is pending.               *)
TurnInv ==
    /\ \A x \in pending : body[x] # "drained" =>
          x \in timers /\ (x = active \/ (active # 0 /\ x \in Queued(queue)))
    /\ \A x \in Exchanges :
          kind[x] # "none" /\ outcome[x] = <<>> /\ x \notin posted => x \in pending

IInv == /\ TypeOK /\ OneTerminal /\ Unsubmitted /\ QueueInv /\ ActiveInv /\ RetiredInv
        /\ BodyInv /\ TerminalInv /\ TurnInv /\ TunnelIsAlone

(* What is unread on a connection in use: the one response the active      *)
(* exchange waits for, and nothing besides.                                *)
WireInv ==
    ~retired =>
        /\ active # 0 => stage[active] # "spinning"
        /\ unread = IF active # 0 /\ stage[active] \in {"reading", "downloading"}
                    THEN <<[of |-> active, final |-> TRUE]>> ELSE <<>>

-----------------------------------------------------------------------------
(* Sequences: what Append, SubSeq and start_next() make of the queue. *)

(* Every set of naturals that is not empty has a least element. *)
LEMMA LeastExists ==
    ASSUME NEW S \in SUBSET Nat, S # {}
    PROVE  \E x \in S : \A y \in S : x <= y
<1> DEFINE R == {ss \in Nat \X Nat : ss[1] < ss[2]}
<1>1. R = OpToRel(<, Nat)
  BY Zenon DEF OpToRel
<1>2. IsWellFoundedOn(R, Nat)
  BY <1>1, NatLessThanWellFounded, Zenon
<1> HIDE DEF R
<1>3. PICK x \in S : \A y \in S : ~(<<y, x>> \in R)
  BY <1>2, WFMin, Zenon
<1>4. ASSUME NEW y \in S PROVE x <= y
  <2>1. x \in Nat /\ y \in Nat
    OBVIOUS
  <2>2. y < x => <<y, x>> \in R
    BY <2>1 DEF R
  <2> QED BY <1>3, <2>1, <2>2
<1> QED BY <1>4

(* submit() puts an exchange behind the queue: it is queued once.          *)
LEMMA QueueAppend ==
    ASSUME NEW q \in Seq(Exchanges), NEW x \in Exchanges
    PROVE  /\ Append(q, x) \in Seq(Exchanges)
           /\ Queued(Append(q, x)) = Queued(q) \cup {x}
           /\ Once(q) /\ x \notin Queued(q) => Once(Append(q, x))
<1>1. Append(q, x) \in Seq(Exchanges) /\ Len(Append(q, x)) = Len(q) + 1 /\ Len(q) \in Nat
  OBVIOUS
<1>2. Append(q, x)[Len(q) + 1] = x /\ \A i \in 1 .. Len(q) : Append(q, x)[i] = q[i]
  OBVIOUS
<1>3. 1 .. (Len(q) + 1) = (1 .. Len(q)) \cup {Len(q) + 1}
  BY <1>1
<1>4. Queued(Append(q, x)) = Queued(q) \cup {x}
  BY <1>1, <1>2, <1>3 DEF Queued
<1>5. ASSUME Once(q), x \notin Queued(q) PROVE Once(Append(q, x))
  BY <1>1, <1>2, <1>3, <1>5 DEF Queued, Once
<1> QED BY <1>1, <1>4, <1>5

(* start_next(): who becomes active was queued and pending, what it leaves *)
(* behind is pending no more, and the rest of the queue stays.             *)
Began(q, p, st) ==
    /\ active' \in {0} \cup (Queued(q) \cap p) /\ queue' \in Seq(Exchanges)
    /\ Once(queue') /\ Queued(queue') \subseteq Queued(q) \ {active'}
    /\ Queued(q) \cap p \subseteq Queued(queue') \cup {active'}
    /\ active' = 0 => Queued(q) \cap p = {} /\ queue' = <<>>
    /\ stage' = [y \in Exchanges |-> IF y = active' THEN "writing" ELSE st[y]]

(* start_next() begins the first in the queue that has not left, and       *)
(* drops those before it.                                                  *)
LEMMA StartNextFacts ==
    ASSUME NEW q \in Seq(Exchanges), NEW p \in SUBSET Exchanges, Once(q),
           NEW st \in [Exchanges -> Stages], StartNext(q, p, st)
    PROVE  Began(q, p, st)
<1> USE DEF Began
<1> DEFINE live == {i \in 1 .. Len(q) : q[i] \in p}
<1>1. Len(q) \in Nat /\ \A i \in 1 .. Len(q) : q[i] \in Exchanges
  OBVIOUS
<1>0. 0 \notin Exchanges
  BY ExchangesAssumption DEF Exchanges
<1>2. CASE live = {}
  <2>1. active' = 0 /\ queue' = <<>> /\ stage' = st
    BY <1>2 DEF StartNext
  <2>2. Queued(q) \cap p = {}
    BY <1>2 DEF Queued
  <2>3. queue' \in Seq(Exchanges) /\ Len(queue') = 0
    BY <2>1
  <2>4. Queued(queue') = {} /\ Once(queue')
    BY <2>3 DEF Queued, Once
  <2> QED BY <1>0, <2>1, <2>2, <2>3, <2>4
<1>3. CASE live # {}
  <2> DEFINE i == Min(live)
  <2>1. live \in SUBSET Nat
    BY <1>1
  <2>2. i \in live /\ \A j \in live : i <= j
    <3> HIDE DEF live
    <3> QED BY <1>3, <2>1, LeastExists DEF Min
  <2>3. /\ active' = q[i] /\ queue' = SubSeq(q, i + 1, Len(q))
        /\ stage' = [st EXCEPT ![q[i]] = "writing"]
    BY <1>3 DEF StartNext
  <2>4. i \in 1 .. Len(q) /\ q[i] \in p /\ \A j \in 1 .. Len(q) : q[j] \in p => i <= j
    BY <2>2
  <2> HIDE DEF i
  <2>5. /\ queue' \in Seq(Exchanges) /\ Len(queue') = Len(q) - i
        /\ \A j \in 1 .. (Len(q) - i) : queue'[j] = q[j + i]
    BY <2>3, <2>4
  <2>6. Queued(queue') = {q[j] : j \in (i + 1) .. Len(q)}
    <3>1. \A j \in (i + 1) .. Len(q) : j - i \in 1 .. (Len(q) - i) /\ (j - i) + i = j
      BY <1>1, <2>4
    <3>2. \A j \in 1 .. (Len(q) - i) : j + i \in (i + 1) .. Len(q)
      BY <1>1, <2>4
    <3> QED BY <2>5, <3>1, <3>2, SMTT(30) DEF Queued
  <2>7. Once(queue')
    <3>1. \A j \in 1 .. (Len(q) - i) : j \in Int /\ j + i \in 1 .. Len(q)
      BY <1>1, <2>4
    <3> QED BY <2>4, <2>5, <3>1, SMTT(30) DEF Once
  <2>8. Queued(queue') \subseteq Queued(q) \ {active'}
    <3>1. \A j \in (i + 1) .. Len(q) : j \in 1 .. Len(q) /\ j # i
      BY <1>1, <2>4
    <3> QED BY <2>3, <2>4, <2>6, <3>1 DEF Queued, Once
  <2>9. Queued(q) \cap p \subseteq Queued(queue') \cup {active'}
    <3>1. \A j \in 1 .. Len(q) : q[j] \in p => j = i \/ j \in (i + 1) .. Len(q)
      BY <1>1, <2>4
    <3> QED BY <2>3, <2>6, <3>1 DEF Queued
  <2>10. active' \in Queued(q) \cap p /\ active' # 0
    BY <1>0, <1>1, <2>3, <2>4 DEF Queued
  <2> QED BY <1>1, <2>3, <2>4, <2>5, <2>7, <2>8, <2>9, <2>10
<1> QED BY <1>2, <1>3

-----------------------------------------------------------------------------
(* Initially. *)

(* active = 0 is nobody.                                                   *)
LEMMA ZeroIsNobody == 0 \notin Exchanges /\ Exchanges \subseteq Nat
BY ExchangesAssumption DEF Exchanges

(* The invariants hold of a new session.                                   *)
LEMMA InitIInv == Init => IInv /\ WireInv /\ ResponsesAreOwn
<1> SUFFICES ASSUME Init PROVE IInv /\ WireInv /\ ResponsesAreOwn
  OBVIOUS
<1> USE ExchangesAssumption DEF Init
<1>1. TypeOK
  <2>1. outcome \in [Exchanges -> Seq({"response", "tunnel", "error"})]
    OBVIOUS
  <2>2. queue \in Seq(Exchanges) /\ unread \in Seq(Message) /\ got \in [Exchanges -> 0 .. MaxExchanges]
    OBVIOUS
  <2>3. /\ kind \in [Exchanges -> ExchangeKinds \cup {"none"}]
        /\ stage \in [Exchanges -> {"idle", "writing", "uploading", "reading", "spinning",
                                    "downloading", "over"}]
        /\ body \in [Exchanges -> {"none", "open", "eof", "failed", "drained"}]
    BY DEF ExchangeKinds
  <2>4. active \in 0 .. MaxExchanges /\ timers \subseteq pending /\ pending \subseteq Exchanges
    OBVIOUS
  <2>5. posted \subseteq Exchanges /\ link \in {"open", "closed", "taken"}
        /\ retired \in BOOLEAN /\ stopped \in BOOLEAN
    OBVIOUS
  <2> HIDE DEF Init
  <2> QED BY <2>1, <2>2, <2>3, <2>4, <2>5 DEF TypeOK
<1>2. OneTerminal /\ Unsubmitted /\ ActiveInv /\ RetiredInv /\ TunnelIsAlone /\ TerminalInv
  BY DEF OneTerminal, Unsubmitted, ActiveInv, RetiredInv, TunnelIsAlone, TerminalInv
<1>3. QueueInv /\ BodyInv /\ TurnInv
  <2>1. Len(queue) = 0
    OBVIOUS
  <2>2. QueueInv
    BY <2>1 DEF QueueInv, Once, Queued
  <2> QED BY <2>2 DEF BodyInv, TurnInv
<1>4. WireInv /\ ResponsesAreOwn
  BY DEF WireInv, ResponsesAreOwn
<1> QED BY <1>1, <1>2, <1>3, <1>4 DEF IInv

-----------------------------------------------------------------------------
(* Told(): every exchange that leaves has had its terminal, or gets it by  *)
(* a post, and nobody gets two.                                            *)

(* Exchanges that are told their terminal leave the pending ones with one  *)
(* terminal each.                                                          *)
LEMMA ToldFacts ==
    ASSUME IInv, NEW S \in SUBSET pending, NEW x, NEW r \in Terminals, Told(S, x, r),
           x \in S => body[x] = "none", x \in S \/ x \notin Exchanges
    PROVE  /\ outcome' \in [Exchanges -> Seq(Terminals)] /\ posted' \subseteq Exchanges
           /\ OneTerminal'
           /\ \A y \in S : outcome'[y] # <<>> \/ y \in posted'
           /\ \A y \in Exchanges \ S : outcome'[y] = outcome[y] /\ (y \in posted' <=> y \in posted)
<1> USE DEF IInv, TypeOK, Terminals
<1>1. /\ S \subseteq Exchanges
      /\ \A y \in S : y \notin posted /\ (outcome[y] = <<>> <=> body[y] = "none")
      /\ \A y \in S : kind[y] # "streaming" => outcome[y] = <<>>
  BY DEF TerminalInv, BodyInv
<1>2. \A result \in Terminals : /\ Append(<<>>, result) \in Seq(Terminals)
                                /\ Append(<<>>, result) # <<>>
                                /\ Len(Append(<<>>, result)) = 1
  OBVIOUS
<1>3. posted' = posted \cup {y \in S \ {x} : kind[y] = "streaming" /\ body[y] = "none"}
  BY DEF Told, Delivered
<1>4. \A y \in Exchanges :
         outcome'[y] = IF y = x THEN Append(outcome[y], r)
                       ELSE IF y \in S /\ kind[y] # "streaming" THEN Append(outcome[y], "error")
                       ELSE outcome[y]
  BY DEF Told
<1>5. \A y \in Exchanges \ S : outcome'[y] = outcome[y] /\ (y \in posted' <=> y \in posted)
  BY <1>3, <1>4
<1>6. \A y \in S : /\ outcome'[y] \in Seq(Terminals)
                   /\ outcome'[y] # <<>> \/ y \in posted'
                   /\ Len(outcome'[y]) + (IF y \in posted' THEN 1 ELSE 0) <= 1
  <2> SUFFICES ASSUME NEW y \in S
               PROVE  /\ outcome'[y] \in Seq(Terminals)
                      /\ outcome'[y] # <<>> \/ y \in posted'
                      /\ Len(outcome'[y]) + (IF y \in posted' THEN 1 ELSE 0) <= 1
    OBVIOUS
  <2>0. y \in Exchanges /\ Len(outcome[y]) <= 1 /\ outcome[y] \in Seq(Terminals)
    BY <1>1 DEF OneTerminal
  <2>1. CASE y = x
    <3>1. outcome'[y] = Append(<<>>, r) /\ y \notin posted'
      BY <1>1, <1>3, <1>4, <2>0, <2>1
    <3> QED BY <1>2, <3>1
  <2>2. CASE y # x /\ kind[y] # "streaming"
    <3>1. outcome'[y] = Append(<<>>, "error") /\ y \notin posted'
      BY <1>1, <1>3, <1>4, <2>0, <2>2
    <3> QED BY <1>2, <3>1
  <2>3. CASE y # x /\ kind[y] = "streaming"
    <3>1. outcome'[y] = outcome[y] /\ (y \in posted' <=> body[y] = "none")
      BY <1>1, <1>3, <1>4, <2>0, <2>3
    <3>2. body[y] = "none" => Len(outcome'[y]) = 0
      BY <1>1, <3>1
    <3>3. Len(outcome[y]) \in Nat
      BY <2>0
    <3> QED BY <1>1, <2>0, <3>1, <3>2, <3>3
  <2> QED BY <2>1, <2>2, <2>3
<1>7. \A y \in Exchanges : outcome'[y] \in Seq(Terminals)
  BY <1>5, <1>6
<1>8. outcome' \in [Exchanges -> Seq(Terminals)]
  <2>1. outcome' = [y \in Exchanges |-> outcome'[y]]
    BY DEF Told
  <2> QED BY <1>7, <2>1
<1>9. OneTerminal'
  BY <1>5, <1>6 DEF OneTerminal
<1>10. posted' \subseteq Exchanges
  BY <1>1, <1>3
<1> QED BY <1>5, <1>6, <1>8, <1>9, <1>10

-----------------------------------------------------------------------------
(* The steps by what they do.  Everybody leaves: the connection is retired *)
(* or taken over.                                                          *)

(* fail_all() and the ends of the connection leave nobody pending, active  *)
(* or queued.                                                              *)
LEMMA EverybodyLeaves ==
    ASSUME IInv, NEW x, NEW r \in Terminals, Told(pending, x, r),
           x \in pending => body[x] = "none", x \in pending \/ x \notin Exchanges,
           pending' = {}, timers' = {}, active' = 0, queue' = <<>>, retired' = TRUE,
           link' \in {"closed", "taken"}, stopped' \in BOOLEAN, kind' = kind,
           stage' \in [Exchanges -> Stages],
           body' \in [Exchanges -> {"none", "open", "eof", "failed", "drained"}],
           unread' \in Seq(Message), got' \in [Exchanges -> 0 .. MaxExchanges],
           \A y \in Exchanges : body'[y] = "none" <=> body[y] = "none",
           \A y \in Exchanges : kind[y] = "none" => stage'[y] = "idle",
           \A y \in Exchanges : stage'[y] = "idle" => stage[y] = "idle",
           link' = "taken" => \A y \in Exchanges : body'[y] \notin {"open", "eof"}
    PROVE  IInv'
<1>1. pending \in SUBSET pending
  OBVIOUS
<1>2. /\ outcome' \in [Exchanges -> Seq(Terminals)] /\ posted' \subseteq Exchanges
      /\ OneTerminal'
      /\ \A y \in pending : outcome'[y] # <<>> \/ y \in posted'
      /\ \A y \in Exchanges \ pending : outcome'[y] = outcome[y] /\ (y \in posted' <=> y \in posted)
  BY <1>1, ToldFacts
<1>3. TypeOK'
  BY <1>2, ExchangesAssumption DEF IInv, TypeOK, Stages, Terminals
<1>4. Unsubmitted'
  <2>1. \A y \in Exchanges : kind[y] = "none" =>
           y \notin pending /\ y \notin posted /\ outcome[y] = <<>> /\ body[y] = "none"
    BY DEF IInv, Unsubmitted
  <2>2. \A y \in Exchanges : kind[y] = "none" =>
           y \notin posted' /\ outcome'[y] = <<>> /\ body'[y] = "none"
    BY <1>2, <2>1
  <2> QED BY <2>2 DEF Unsubmitted
<1>5. QueueInv'
  <2>1. Len(queue') = 0
    OBVIOUS
  <2> QED BY <2>1 DEF QueueInv, Once, Queued
<1>6. ActiveInv' /\ RetiredInv' /\ TerminalInv' /\ TunnelIsAlone'
  BY DEF ActiveInv, RetiredInv, TerminalInv, TunnelIsAlone
<1>7. BodyInv'
  BY DEF IInv, BodyInv
<1>8. TurnInv'
  <2>1. \A y \in Exchanges :
           kind[y] # "none" /\ outcome[y] = <<>> /\ y \notin posted => y \in pending
    BY DEF IInv, TurnInv
  <2>2. \A y \in Exchanges : ~(kind'[y] # "none" /\ outcome'[y] = <<>> /\ y \notin posted')
    BY <1>2, <2>1
  <2> QED BY <2>2 DEF TurnInv
<1> QED BY <1>2, <1>3, <1>4, <1>5, <1>6, <1>7, <1>8 DEF IInv

(* retire_all() is one of them. *)
LEMMA RetireAllStep ==
    ASSUME IInv, RetireAll, stage' = CancelledStage, kind' = kind, stopped' \in BOOLEAN,
           unread' = unread, got' = got
    PROVE  IInv'
<1>1. /\ retired' = TRUE /\ link' = Closed /\ active' = 0 /\ queue' = <<>>
      /\ pending' = {} /\ timers' = timers \ pending /\ Told(pending, 0, "error")
      /\ body' = [x \in Exchanges |-> IF x \in pending /\ body[x] = "open" THEN "failed" ELSE body[x]]
  BY DEF RetireAll, CompleteError, Leave
<1>2. timers' = {} /\ 0 \notin Exchanges /\ 0 \notin pending
  BY <1>1, ZeroIsNobody DEF IInv, TypeOK
<1>3. link' \in {"closed", "taken"} /\ (link' = "taken" => link = "taken")
  BY <1>1 DEF IInv, TypeOK, Closed
<1>4. /\ body' \in [Exchanges -> {"none", "open", "eof", "failed", "drained"}]
      /\ \A y \in Exchanges : body'[y] = "none" <=> body[y] = "none"
      /\ \A y \in Exchanges : body'[y] \in {"open", "eof"} => body[y] \in {"open", "eof"}
  BY <1>1 DEF IInv, TypeOK
<1>5. link' = "taken" => \A y \in Exchanges : body'[y] \notin {"open", "eof"}
  BY <1>3, <1>4 DEF IInv, TunnelIsAlone
<1>6. /\ stage' \in [Exchanges -> Stages]
      /\ \A y \in Exchanges : kind[y] = "none" => stage'[y] = "idle"
      /\ \A y \in Exchanges : stage'[y] = "idle" => stage[y] = "idle"
  <2>1. \A y \in Exchanges : kind[y] = "none" => y # active
    BY ZeroIsNobody DEF IInv, ActiveInv, Unsubmitted, TypeOK
  <2> QED BY <2>1 DEF CancelledStage, IInv, TypeOK, Stages, Unsubmitted
<1>7. /\ unread' \in Seq(Message) /\ got' \in [Exchanges -> 0 .. MaxExchanges]
      /\ "error" \in Terminals
  BY DEF IInv, TypeOK, Terminals
<1> QED BY <1>1, <1>2, <1>3, <1>4, <1>5, <1>6, <1>7, EverybodyLeaves

(* One that waits in the queue leaves. *)
LEMMA WaitingLeaves ==
    ASSUME IInv, NEW x \in pending, x # active, CompleteError({x}),
           UNCHANGED <<kind, queue, active, stage, link, retired, stopped, unread, got>>
    PROVE  IInv'
<1>1. /\ pending' = pending \ {x} /\ timers' = timers \ {x} /\ Told({x}, 0, "error")
      /\ body' = [y \in Exchanges |-> IF y \in {x} /\ body[y] = "open" THEN "failed" ELSE body[y]]
  BY DEF CompleteError, Leave
<1>2. x \in Exchanges /\ ~retired
  BY DEF IInv, TypeOK, RetiredInv
<1>3. body' = body
  <2>1. body[x] # "open"
    BY <1>2 DEF IInv, BodyInv
  <2> QED BY <1>1, <2>1 DEF IInv, TypeOK
<1>4. {x} \in SUBSET pending /\ 0 \notin Exchanges /\ 0 \notin {x} /\ "error" \in Terminals
  BY <1>2, ZeroIsNobody DEF Terminals
<1>5. /\ outcome' \in [Exchanges -> Seq(Terminals)] /\ posted' \subseteq Exchanges
      /\ OneTerminal'
      /\ outcome'[x] # <<>> \/ x \in posted'
      /\ \A y \in Exchanges \ {x} : outcome'[y] = outcome[y] /\ (y \in posted' <=> y \in posted)
  BY <1>1, <1>4, ToldFacts
<1>6. TypeOK'
  BY <1>1, <1>3, <1>5 DEF IInv, TypeOK, Terminals
<1>7. QueueInv' /\ RetiredInv' /\ TunnelIsAlone' /\ BodyInv'
  <2>1. UNCHANGED <<kind, queue, active, stage, link, retired, stopped, body>>
    BY <1>3
  <2>2. QueueInv'
    BY <2>1 DEF IInv, QueueInv, Once, Queued
  <2>3. RetiredInv'
    BY <1>2, <2>1 DEF IInv, RetiredInv
  <2> QED BY <2>1, <2>2, <2>3 DEF IInv, TunnelIsAlone, BodyInv
<1>8. ActiveInv' /\ TerminalInv'
  <2>1. \A y \in pending' : y \in pending /\ y \in Exchanges \ {x}
    BY <1>1 DEF IInv, TypeOK
  <2> QED BY <1>1, <1>3, <1>5, <2>1 DEF IInv, ActiveInv, TerminalInv
<1>9. TurnInv'
  <2>1. \A y \in Exchanges :
           kind[y] # "none" /\ outcome[y] = <<>> /\ y \notin posted => y \in pending
    BY DEF IInv, TurnInv
  <2>2. \A y \in Exchanges :
           kind'[y] # "none" /\ outcome'[y] = <<>> /\ y \notin posted' => y \in pending'
    BY <1>1, <1>5, <2>1
  <2>3. \A y \in pending' : body'[y] # "drained" =>
           y \in timers' /\ (y = active' \/ (active' # 0 /\ y \in Queued(queue)))
    BY <1>1, <1>3 DEF IInv, TurnInv
  <2> QED BY <2>2, <2>3 DEF TurnInv, Queued
<1>10. Unsubmitted'
  <2>1. \A y \in Exchanges : kind[y] = "none" =>
           /\ y \in Exchanges \ {x} /\ y \notin pending /\ y \notin posted
           /\ outcome[y] = <<>> /\ body[y] = "none" /\ stage[y] = "idle"
    BY DEF IInv, Unsubmitted
  <2> QED BY <1>1, <1>3, <1>5, <2>1 DEF Unsubmitted
<1> QED BY <1>5, <1>6, <1>7, <1>8, <1>9, <1>10 DEF IInv

(* The next one begins: start_next() on the queue q, after the active      *)
(* exchange left, was drained, or when there was none.                     *)
LEMMA NextBegins ==
    ASSUME IInv, NEW q \in Seq(Exchanges), Once(q), NEW st \in [Exchanges -> Stages],
           NEW p \in SUBSET Exchanges, pending' = p, StartNext(q, p, st), ~retired,
           UNCHANGED <<link, retired, stopped>>,
           TypeOK', OneTerminal', TerminalInv',
           \A x \in Exchanges : kind'[x] = "none" =>
              /\ x \notin p /\ x \notin Queued(q) /\ x \notin posted' /\ outcome'[x] = <<>>
              /\ body'[x] = "none" /\ st[x] = "idle",
           \A x \in Queued(q) : st[x] = "idle",
           \A x \in Exchanges : kind'[x] # "streaming" \/ st[x] = "idle" => body'[x] = "none",
           \A x \in Exchanges : body'[x] \notin {"open", "eof"},
           \A x \in p : body'[x] # "drained" => x \in timers' /\ x \in Queued(q),
           \A x \in Exchanges : kind'[x] # "none" /\ outcome'[x] = <<>> /\ x \notin posted' => x \in p
    PROVE  IInv'
<1>1. /\ active' \in {0} \cup (Queued(q) \cap p) /\ queue' \in Seq(Exchanges)
      /\ Once(queue') /\ Queued(queue') \subseteq Queued(q) \ {active'}
      /\ Queued(q) \cap p \subseteq Queued(queue') \cup {active'}
      /\ active' = 0 => Queued(q) \cap p = {} /\ queue' = <<>>
      /\ stage' = [y \in Exchanges |-> IF y = active' THEN "writing" ELSE st[y]]
  <2>1. Began(q, p, st)
    BY StartNextFacts
  <2> QED BY <2>1 DEF Began
<1>2. link = "open" /\ ~stopped
  BY DEF IInv, RetiredInv
<1>3. Queued(q) \subseteq Exchanges
  BY DEF Queued
<1>4. \A x \in Exchanges : x # active' => stage'[x] = st[x]
  BY <1>1
<1>5. active' # 0 => /\ active' \in p /\ active' \in Exchanges /\ active' \in Queued(q)
                     /\ stage'[active'] = "writing" /\ body'[active'] = "none"
  BY <1>1, <1>3
<1>6. Unsubmitted'
  <2> SUFFICES ASSUME NEW x \in Exchanges, kind'[x] = "none"
               PROVE  /\ x \notin p /\ x \notin posted' /\ outcome'[x] = <<>>
                      /\ body'[x] = "none" /\ stage'[x] = "idle"
    BY DEF Unsubmitted
  <2>1. x # active'
    BY <1>5, ZeroIsNobody
  <2> QED BY <1>4, <2>1
<1>7. QueueInv'
  <2>1. \A x \in Queued(queue') : x \in Queued(q) /\ x # active' /\ x \in Exchanges
    BY <1>1, <1>3
  <2>2. \A x \in Queued(queue') : kind'[x] # "none" /\ stage'[x] = "idle"
    BY <1>4, <2>1
  <2>3. Queued(queue)' = Queued(queue') /\ Once(queue)'
    BY <1>1 DEF Queued, Once
  <2> QED BY <2>2, <2>3 DEF QueueInv
<1>8. ActiveInv' /\ RetiredInv' /\ TunnelIsAlone'
  BY <1>2, <1>5 DEF ActiveInv, RetiredInv, TunnelIsAlone
<1>9. BodyInv'
  <2>1. \A x \in Exchanges : stage'[x] = "idle" => st[x] = "idle"
    BY <1>1
  <2> QED BY <1>5, <2>1 DEF BodyInv
<1>10. TurnInv'
  <2>1. \A x \in Queued(q) \cap p : x = active' \/ (active' # 0 /\ x \in Queued(queue'))
    BY <1>1
  <2>2. \A x \in p : body'[x] # "drained" =>
           x \in timers' /\ (x = active' \/ (active' # 0 /\ x \in Queued(queue')))
    BY <2>1
  <2>3. Queued(queue)' = Queued(queue')
    BY DEF Queued
  <2> QED BY <2>2, <2>3 DEF TurnInv
<1> QED BY <1>6, <1>7, <1>8, <1>9, <1>10 DEF IInv

(* A step that changes nothing but how far the active exchange is, what it *)
(* took and what is left to read.                                          *)
LEMMA ActiveGoesOn ==
    ASSUME IInv, active # 0, NEW s \in {"uploading", "reading", "spinning"},
           stage[active] \in {"writing", "uploading", "reading"},
           stage' = [stage EXCEPT ![active] = s], unread' \in Seq(Message),
           UNCHANGED <<kind, pending, queue, active, link, retired, stopped, body, outcome, posted,
                       timers, got>>
    PROVE  IInv'
<1>1. active \in pending /\ active \in Exchanges
  BY DEF IInv, ActiveInv, TypeOK
<1>2. stage' \in [Exchanges -> Stages] /\ stage'[active] = s
      /\ \A x \in Exchanges : x # active => stage'[x] = stage[x]
  BY <1>1 DEF IInv, TypeOK, Stages
<1>3. TypeOK'
  BY <1>2 DEF IInv, TypeOK, Stages
<1>4. OneTerminal' /\ RetiredInv' /\ TerminalInv' /\ TunnelIsAlone'
  BY DEF IInv, OneTerminal, RetiredInv, TerminalInv, TunnelIsAlone
<1>5. TurnInv'
  BY DEF IInv, TurnInv, Queued
<1>6. Unsubmitted'
  BY <1>1, <1>2 DEF IInv, Unsubmitted
<1>7. QueueInv'
  <2>0. queue \in Seq(Exchanges) /\ \A x \in Queued(queue) : stage[x] = "idle"
    BY DEF IInv, QueueInv, TypeOK
  <2>1. \A x \in Queued(queue) : x \in Exchanges /\ x # active
    BY <2>0 DEF Queued
  <2>2. Queued(queue)' = Queued(queue) /\ Once(queue)' = Once(queue)
    BY DEF Queued, Once
  <2> QED BY <1>2, <2>1, <2>2 DEF IInv, QueueInv
<1>8. ActiveInv'
  BY <1>1, <1>2 DEF ActiveInv
<1>9. BodyInv'
  <2>1. body[active] = "none"
    BY DEF IInv, BodyInv
  <2> QED BY <1>2, <2>1 DEF IInv, BodyInv
<1> QED BY <1>3, <1>4, <1>5, <1>6, <1>7, <1>8, <1>9 DEF IInv

-----------------------------------------------------------------------------
(* One lemma per action. *)

(* An exchange that ends before its response is complete takes the         *)
(* connection with it when it is the active one, and only itself when it   *)
(* is queued.                                                              *)
LEMMA EndsEarlyStep ==
    ASSUME IInv, NEW x \in pending, EndsEarly(x), UNCHANGED <<kind, stopped, unread, got>>
    PROVE  IInv'
<1>1. CASE x = active /\ RetireAll /\ stage' = CancelledStage
  <2>1. stopped' \in BOOLEAN
    BY DEF IInv, TypeOK
  <2> QED BY <1>1, <2>1, RetireAllStep
<1>2. CASE /\ x # active /\ CompleteError({x})
           /\ UNCHANGED <<queue, active, stage, link, retired>>
  BY <1>2, WaitingLeaves
<1> QED BY <1>1, <1>2 DEF EndsEarly

(* A cancellation, of the exchange or of its body, and the deadline keep   *)
(* the invariant.                                                          *)
LEMMA CancelStep ==
    ASSUME IInv, NEW x \in Exchanges, Cancel(x) \/ CancelBody(x) \/ Expire(x)
    PROVE  IInv'
<1>1. x \in pending /\ EndsEarly(x) /\ UNCHANGED <<kind, stopped, unread, got>>
  BY DEF Cancel, CancelBody, Expire, IInv, TypeOK
<1> QED BY <1>1, EndsEarlyStep

(* stop() keeps the invariant: everybody pending is told.                  *)
LEMMA StopStep ==
    ASSUME IInv, Stop
    PROVE  IInv'
BY RetireAllStep DEF Stop

(* A failure of the connection keeps the invariant.                        *)
LEMMA FailsStep ==
    ASSUME IInv, NEW x \in Exchanges, Fails(x)
    PROVE  IInv'
<1>1. stopped' \in BOOLEAN
  BY DEF Fails, IInv, TypeOK
<1> QED BY <1>1, RetireAllStep DEF Fails

(* A submission that is refused at once keeps the invariant.               *)
LEMMA RefuseStep ==
    ASSUME IInv, NEW x \in Exchanges, NEW k \in ExchangeKinds, Refuse(x, k)
    PROVE  IInv'
<1>1. /\ kind[x] = "none" /\ kind' = [kind EXCEPT ![x] = k]
      /\ outcome' = [outcome EXCEPT ![x] = Append(outcome[x], "error")]
      /\ UNCHANGED <<pending, queue, active, link, retired, stopped, stage, body, posted,
                     timers, unread, got>>
  BY DEF Refuse, Fresh, Tell
<1>2. x \notin pending /\ x \notin posted /\ outcome[x] = <<>> /\ body[x] = "none" /\ stage[x] = "idle"
  BY <1>1 DEF IInv, Unsubmitted
<1>3. /\ Append(<<>>, "error") \in Seq(Terminals) /\ Append(<<>>, "error") # <<>>
      /\ Len(Append(<<>>, "error")) = 1
  BY DEF Terminals
<1>4. /\ kind' \in [Exchanges -> ExchangeKinds \cup {"none"}] /\ kind'[x] # "none"
      /\ outcome' \in [Exchanges -> Seq(Terminals)]
      /\ outcome'[x] # <<>> /\ Len(outcome'[x]) = 1
      /\ \A y \in Exchanges : y # x => kind'[y] = kind[y] /\ outcome'[y] = outcome[y]
  BY <1>1, <1>2, <1>3 DEF IInv, TypeOK, ExchangeKinds, Terminals
<1>5. TypeOK'
  BY <1>1, <1>4 DEF IInv, TypeOK, Terminals
<1>6. OneTerminal' /\ Unsubmitted'
  <2>1. \A y \in Exchanges : Len(outcome[y]) + (IF y \in posted THEN 1 ELSE 0) <= 1
    BY DEF IInv, OneTerminal
  <2>2. posted' = posted
    BY <1>1
  <2>3. \A y \in Exchanges : Len(outcome'[y]) + (IF y \in posted' THEN 1 ELSE 0) <= 1
    <3> TAKE y \in Exchanges
    <3>1. CASE y = x
      <4>1. Len(outcome'[y]) = 1 /\ y \notin posted'
        BY <1>2, <1>4, <2>2, <3>1
      <4> QED BY <4>1
    <3>2. CASE y # x
      <4>1. outcome'[y] = outcome[y] /\ (y \in posted' <=> y \in posted)
        BY <1>4, <2>2, <3>2
      <4> QED BY <2>1, <4>1
    <3> QED BY <3>1, <3>2
  <2> QED BY <1>1, <1>4, <2>3 DEF IInv, OneTerminal, Unsubmitted
<1>7. QueueInv'
  <2>1. Queued(queue)' = Queued(queue) /\ Once(queue)' = Once(queue)
    BY <1>1 DEF Queued, Once
  <2>2. Queued(queue) \subseteq Exchanges
    <3>1. queue \in Seq(Exchanges)
      BY DEF IInv, TypeOK
    <3> QED BY <3>1 DEF Queued
  <2> QED BY <1>1, <1>4, <2>1, <2>2 DEF IInv, QueueInv
<1>8. ActiveInv' /\ RetiredInv' /\ TunnelIsAlone'
  BY <1>1 DEF IInv, ActiveInv, RetiredInv, TunnelIsAlone
<1>9. BodyInv'
  BY <1>1, <1>2, <1>4 DEF IInv, BodyInv
<1>10. TerminalInv'
  <2>1. \A y \in pending : y \in Exchanges /\ y # x
    BY <1>2 DEF IInv, TypeOK
  <2> QED BY <1>1, <1>4, <2>1 DEF IInv, TerminalInv
<1>11. TurnInv'
  <2>1. Queued(queue)' = Queued(queue)
    BY <1>1 DEF Queued
  <2> QED BY <1>1, <1>4, <2>1 DEF IInv, TurnInv
<1> QED BY <1>5, <1>6, <1>7, <1>8, <1>9, <1>10, <1>11 DEF IInv

(* A submission, which begins or is queued, keeps the invariant.           *)
LEMMA SubmitStep ==
    ASSUME IInv, NEW x \in Exchanges, NEW k \in ExchangeKinds, Submit(x, k)
    PROVE  IInv'
<1>1. /\ kind[x] = "none" /\ ~stopped /\ ~retired /\ kind' = [kind EXCEPT ![x] = k]
      /\ pending' = pending \cup {x} /\ timers' = timers \cup {x}
      /\ UNCHANGED <<link, retired, stopped, body, outcome, posted, unread, got>>
  BY DEF Submit, Fresh
<1>2. x \notin pending /\ x \notin posted /\ outcome[x] = <<>> /\ body[x] = "none" /\ stage[x] = "idle"
  BY <1>1 DEF IInv, Unsubmitted
<1>3. /\ kind' \in [Exchanges -> ExchangeKinds \cup {"none"}] /\ kind'[x] # "none"
      /\ \A y \in Exchanges : y # x => kind'[y] = kind[y]
  BY <1>1 DEF IInv, TypeOK, ExchangeKinds
<1>4. queue \in Seq(Exchanges) /\ Once(queue)
      /\ \A y \in Queued(queue) : y \in Exchanges /\ kind[y] # "none" /\ stage[y] = "idle"
  <2>1. queue \in Seq(Exchanges)
    BY DEF IInv, TypeOK
  <2>2. Queued(queue) \subseteq Exchanges
    BY <2>1 DEF Queued
  <2> QED BY <2>1, <2>2 DEF IInv, QueueInv
<1> DEFINE q == Append(queue, x)
<1>5. q \in Seq(Exchanges) /\ Queued(q) = Queued(queue) \cup {x} /\ Once(q)
  BY <1>1, <1>4, QueueAppend
<1>6. OneTerminal' /\ TerminalInv'
  <2>1. \A y \in pending' : y = x \/ y \in pending
    BY <1>1
  <2> QED BY <1>1, <1>2, <2>1 DEF IInv, OneTerminal, TerminalInv
<1>7. /\ pending' \in SUBSET Exchanges /\ timers' \subseteq pending'
      /\ \A y \in Exchanges : kind'[y] # "streaming" \/ stage[y] = "idle" => body'[y] = "none"
      /\ \A y \in Exchanges : kind'[y] # "none" /\ outcome'[y] = <<>> /\ y \notin posted'
                                 => y \in pending'
      /\ \A y \in Exchanges : kind'[y] = "none" =>
            /\ y \notin pending' /\ y \notin Queued(q) /\ y \notin posted' /\ outcome'[y] = <<>>
            /\ body'[y] = "none" /\ stage[y] = "idle"
  <2>1. \A y \in Exchanges : kind'[y] # "streaming" \/ stage[y] = "idle" => body'[y] = "none"
    BY <1>1, <1>2, <1>3 DEF IInv, BodyInv
  <2>2. \A y \in Exchanges : kind'[y] # "none" /\ outcome'[y] = <<>> /\ y \notin posted'
                                 => y \in pending'
    BY <1>1, <1>3 DEF IInv, TurnInv
  <2>3. pending' \in SUBSET Exchanges /\ timers' \subseteq pending'
    BY <1>1 DEF IInv, TypeOK
  <2>4. \A y \in Exchanges : kind'[y] = "none" =>
            /\ y # x /\ kind[y] = "none" /\ y \notin pending /\ y \notin posted /\ outcome[y] = <<>>
            /\ body[y] = "none" /\ stage[y] = "idle"
    BY <1>3 DEF IInv, Unsubmitted
  <2> HIDE DEF q
  <2> QED BY <1>1, <1>4, <1>5, <2>1, <2>2, <2>3, <2>4
<1>8. CASE active = 0
  <2>1. StartNext(q, pending', stage)
    BY <1>8 DEF Submit
  <2> HIDE DEF q
  <2>2. stage \in [Exchanges -> Stages] /\ 0 \notin Exchanges
    BY ZeroIsNobody DEF IInv, TypeOK, Stages
  <2>3. /\ active' \in {0} \cup (Queued(q) \cap pending') /\ queue' \in Seq(Exchanges)
        /\ stage' = [y \in Exchanges |-> IF y = active' THEN "writing" ELSE stage[y]]
    <3>1. Began(q, pending', stage)
      BY <1>5, <1>7, <2>1, <2>2, StartNextFacts
    <3> QED BY <3>1 DEF Began
  <2>4. TypeOK'
    <3>1. active' \in 0 .. MaxExchanges
      BY <1>7, <2>3, ExchangesAssumption DEF Exchanges
    <3>2. stage' \in [Exchanges -> Stages]
      BY <2>2, <2>3 DEF Stages
    <3> QED BY <1>1, <1>3, <1>7, <2>3, <3>1, <3>2 DEF IInv, TypeOK, Stages
  <2>5. \A y \in Exchanges : body'[y] \notin {"open", "eof"}
    BY <1>1, <1>8, <2>2 DEF IInv, BodyInv
  <2>6. \A y \in Queued(q) : stage[y] = "idle"
    BY <1>2, <1>4, <1>5
  <2>7. \A y \in pending' : body'[y] # "drained" => y \in timers' /\ y \in Queued(q)
    <3>1. \A y \in pending : y \in Exchanges /\ body[y] = "drained"
      BY <1>8, <2>2 DEF IInv, TurnInv, TypeOK
    <3>2. x \in timers' /\ x \in Queued(q)
      BY <1>1, <1>5
    <3> QED BY <1>1, <3>1, <3>2
  <2>8. UNCHANGED <<link, retired, stopped>> /\ ~retired
    BY <1>1
  <2> QED BY <1>5, <1>6, <1>7, <2>1, <2>2, <2>4, <2>5, <2>6, <2>7, <2>8, NextBegins, Zenon
<1>9. CASE active # 0
  <2>1. queue' = q /\ UNCHANGED <<active, stage>>
    BY <1>9 DEF Submit
  <2> HIDE DEF q
  <2>2. TypeOK'
    BY <1>1, <1>3, <1>5, <1>7, <2>1 DEF IInv, TypeOK
  <2>3. Unsubmitted' /\ RetiredInv' /\ TunnelIsAlone'
    BY <1>1, <1>7, <2>1 DEF IInv, Unsubmitted, RetiredInv, TunnelIsAlone
  <2>4. Queued(queue)' = Queued(q) /\ Once(queue)'
    BY <1>5, <2>1 DEF Queued, Once
  <2>5. QueueInv'
    <3>1. \A y \in Queued(q) : kind'[y] # "none" /\ stage'[y] = "idle"
      BY <1>2, <1>3, <1>4, <1>5, <2>1
    <3> QED BY <2>4, <3>1 DEF QueueInv
  <2>6. ActiveInv'
    BY <1>1, <2>1 DEF IInv, ActiveInv
  <2>7. BodyInv'
    BY <1>1, <1>7, <2>1 DEF IInv, BodyInv
  <2>8. TurnInv'
    <3>1. \A y \in pending' : body'[y] # "drained" =>
             y \in timers' /\ (y = active' \/ (active' # 0 /\ y \in Queued(q)))
      BY <1>1, <1>5, <1>9, <2>1 DEF IInv, TurnInv
    <3> QED BY <1>7, <2>4, <3>1 DEF TurnInv
  <2> QED BY <1>6, <2>2, <2>3, <2>5, <2>6, <2>7, <2>8 DEF IInv
<1> QED BY <1>8, <1>9

(* A terminal that was posted reaches its caller; the invariant is kept.   *)
LEMMA PostedRunsStep ==
    ASSUME IInv, NEW x \in Exchanges, PostedRuns(x)
    PROVE  IInv'
<1>1. /\ x \in posted /\ posted' = posted \ {x}
      /\ outcome' = [outcome EXCEPT ![x] = Append(outcome[x], "error")]
      /\ UNCHANGED <<kind, pending, queue, active, link, retired, stopped, stage, body,
                     timers, unread, got>>
  BY DEF PostedRuns, Tell
<1>2. \A y \in Exchanges : /\ outcome[y] \in Seq(Terminals)
                           /\ Len(outcome[y]) + (IF y \in posted THEN 1 ELSE 0) <= 1
  BY DEF IInv, TypeOK, OneTerminal, Terminals
<1>3. outcome[x] = <<>> /\ x \notin pending /\ kind[x] # "none"
  <2>0. outcome[x] \in Seq(Terminals) /\ Len(outcome[x]) + 1 <= 1 /\ Len(outcome[x]) \in Nat
    <3>1. outcome[x] \in Seq(Terminals) /\ Len(outcome[x]) + 1 <= 1
      BY <1>1, <1>2
    <3> QED BY <3>1
  <2>1. outcome[x] \in Seq(Terminals) /\ Len(outcome[x]) <= 0
    BY <2>0
  <2>2. outcome[x] = <<>>
    BY <2>1
  <2> QED BY <1>1, <2>2 DEF IInv, Unsubmitted, TerminalInv
<1>4. /\ Append(<<>>, "error") \in Seq(Terminals) /\ Append(<<>>, "error") # <<>>
      /\ Len(Append(<<>>, "error")) = 1
  BY DEF Terminals
<1>5. /\ outcome' \in [Exchanges -> Seq(Terminals)]
      /\ outcome'[x] # <<>> /\ Len(outcome'[x]) = 1
      /\ \A y \in Exchanges : y # x => outcome'[y] = outcome[y]
  BY <1>1, <1>3, <1>4 DEF IInv, TypeOK, Terminals
<1>6. TypeOK'
  BY <1>1, <1>5 DEF IInv, TypeOK, Terminals
<1>7. OneTerminal'
  <2>1. \A y \in Exchanges : Len(outcome'[y]) + (IF y \in posted' THEN 1 ELSE 0) <= 1
    <3> TAKE y \in Exchanges
    <3>1. CASE y = x
      <4>1. Len(outcome'[y]) = 1 /\ y \notin posted'
        BY <1>1, <1>5, <3>1
      <4> QED BY <4>1
    <3>2. CASE y # x
      <4>1. outcome'[y] = outcome[y] /\ (y \in posted' <=> y \in posted)
        BY <1>1, <1>5, <3>2
      <4>2. Len(outcome[y]) + (IF y \in posted THEN 1 ELSE 0) <= 1
        BY <1>2
      <4> QED BY <4>1, <4>2
    <3> QED BY <3>1, <3>2
  <2> QED BY <2>1 DEF OneTerminal
<1>8. Unsubmitted' /\ ActiveInv' /\ RetiredInv' /\ TunnelIsAlone' /\ BodyInv'
  <2>1. \A y \in Exchanges : kind[y] = "none" => y # x
    BY <1>3
  <2> QED BY <1>1, <1>5, <2>1
      DEF IInv, Unsubmitted, ActiveInv, RetiredInv, TunnelIsAlone, BodyInv
<1>9. QueueInv'
  BY <1>1 DEF IInv, QueueInv, Queued, Once
<1>10. TerminalInv'
  <2>1. \A y \in pending : y \in Exchanges /\ y # x
    BY <1>3 DEF IInv, TypeOK
  <2> QED BY <1>1, <1>5, <2>1 DEF IInv, TerminalInv
<1>11. TurnInv'
  <2>1. Queued(queue)' = Queued(queue)
    BY <1>1 DEF Queued
  <2> QED BY <1>1, <1>5, <2>1 DEF IInv, TurnInv
<1> QED BY <1>6, <1>7, <1>8, <1>9, <1>10, <1>11 DEF IInv

(* The request is written and answered, and an interim response is read.   *)
LEMMA OnWayStep ==
    ASSUME IInv, NEW x \in Exchanges, Uploads(x) \/ Written(x) \/ StreamInterim(x)
    PROVE  IInv'
<1>1. unread \in Seq(Message)
  BY DEF IInv, TypeOK
<1>2. CASE Uploads(x)
  BY <1>1, <1>2, ActiveGoesOn DEF Uploads, At, Goes, rest
<1>3. CASE Written(x)
  <2>1. PICK hint \in {FALSE, Interims} :
           unread' = unread \o (IF hint THEN <<[of |-> x, final |-> FALSE]>> ELSE <<>>)
                            \o <<[of |-> x, final |-> TRUE]>>
    BY <1>3 DEF Written
  <2>2. [of |-> x, final |-> FALSE] \in Message /\ [of |-> x, final |-> TRUE] \in Message
    BY DEF Message
  <2>3. (IF hint THEN <<[of |-> x, final |-> FALSE]>> ELSE <<>>) \in Seq(Message)
    BY <2>2
  <2>4. <<[of |-> x, final |-> TRUE]>> \in Seq(Message)
    BY <2>2
  <2>5. unread' \in Seq(Message)
    BY <1>1, <2>1, <2>3, <2>4
  <2>6. /\ active = x /\ x # 0 /\ stage[active] \in {"writing", "uploading"}
        /\ stage' = [stage EXCEPT ![active] = "reading"]
        /\ UNCHANGED <<kind, pending, queue, active, link, retired, stopped, body, outcome, posted,
                       timers, got>>
    BY <1>3 DEF Written, At, Goes, rest
  <2> QED BY <2>5, <2>6, ActiveGoesOn
<1>4. CASE StreamInterim(x)
  <2>1. unread' \in Seq(Message)
    BY <1>1, <1>4 DEF StreamInterim, NextMessage
  <2> QED BY <1>4, <2>1, ActiveGoesOn DEF StreamInterim, At, Goes, rest
<1> QED BY <1>2, <1>3, <1>4

(* An interim response to a tunnel keeps the invariant.                    *)
LEMMA TunnelInterimStep ==
    ASSUME IInv, NEW x \in Exchanges, TunnelInterim(x)
    PROVE  IInv'
<1>1. UNCHANGED <<kind, pending, queue, active, link, retired, stopped, stage, body, outcome,
                  posted, timers, got>>
  BY DEF TunnelInterim, rest
<1>2. unread' \in Seq(Message)
  <2>1. unread \in Seq(Message) /\ unread # <<>> /\ unread' = Tail(unread)
    BY DEF TunnelInterim, NextMessage, IInv, TypeOK
  <2> QED BY <2>1
<1>3. TypeOK'
  BY <1>1, <1>2 DEF IInv, TypeOK
<1>4. QueueInv'
  BY <1>1 DEF IInv, QueueInv, Queued, Once
<1>5. TurnInv'
  BY <1>1 DEF IInv, TurnInv, Queued
<1>6. BodyInv'
  <2>1. stage[active] = "reading"
    BY DEF TunnelInterim, At
  <2> QED BY <1>1, <2>1 DEF IInv, BodyInv
<1> QED BY <1>1, <1>3, <1>4, <1>5, <1>6 DEF IInv, OneTerminal, Unsubmitted, ActiveInv,
          RetiredInv, TerminalInv, TunnelIsAlone

(* A response that was read to its end: the caller has it, and the next    *)
(* exchange begins, or nothing is left to the session.                     *)
LEMMA AnswerStep ==
    ASSUME IInv, NEW x \in Exchanges, NEW reusable \in BOOLEAN,
           active = x, stage[x] = "reading", kind[x] # "streaming", Answer(x, reusable),
           unread' \in Seq(Message), got' \in [Exchanges -> 0 .. MaxExchanges],
           UNCHANGED <<kind, stopped, body>>
    PROVE  IInv'
<1>1. x # 0 /\ ~retired /\ link = "open" /\ ~stopped /\ x \in pending /\ kind[x] # "none"
  BY ZeroIsNobody DEF IInv, RetiredInv, ActiveInv, Unsubmitted
<1>2. "response" \in Terminals /\ body[x] = "none"
  BY <1>1 DEF IInv, BodyInv, Terminals
<1> DEFINE st == [stage EXCEPT ![x] = "over"]
<1>3. /\ st \in [Exchanges -> Stages] /\ st[x] = "over"
      /\ \A y \in Exchanges : y # x => st[y] = stage[y]
      /\ \A y \in Exchanges : kind[y] = "none" => st[y] = "idle"
  BY <1>1 DEF IInv, TypeOK, Unsubmitted, Stages
<1>4. CASE ~reusable
  <2>1. /\ pending' = {} /\ timers' = timers \ pending /\ Told(pending, x, "response")
        /\ retired' = TRUE /\ link' = Closed /\ active' = 0 /\ queue' = <<>> /\ stage' = st
    BY <1>4 DEF Answer, Leave, AfterResponse, Goes
  <2>2. timers' = {} /\ link' = "closed" /\ stopped' \in BOOLEAN
    BY <1>1, <2>1 DEF IInv, TypeOK, Closed
  <2>3. body' \in [Exchanges -> {"none", "open", "eof", "failed", "drained"}]
        /\ \A y \in Exchanges : body'[y] = "none" <=> body[y] = "none"
    BY DEF IInv, TypeOK
  <2> HIDE DEF st
  <2>4. \A y \in Exchanges : stage'[y] = "idle" => stage[y] = "idle"
    BY <1>3, <2>1
  <2> QED BY <1>1, <1>2, <1>3, <2>1, <2>2, <2>3, <2>4, EverybodyLeaves
<1>5. CASE reusable
  <2>1. /\ pending' = pending \ {x} /\ timers' = timers \ {x} /\ Told({x}, x, "response")
        /\ StartNext(queue, pending', st) /\ UNCHANGED <<link, retired>>
    BY <1>5 DEF Answer, Leave, AfterResponse
  <2> HIDE DEF st
  <2>2. {x} \in SUBSET pending
    BY <1>1
  <2>3. /\ outcome' \in [Exchanges -> Seq(Terminals)] /\ posted' \subseteq Exchanges
        /\ OneTerminal'
        /\ outcome'[x] # <<>> \/ x \in posted'
        /\ \A y \in Exchanges \ {x} : outcome'[y] = outcome[y] /\ (y \in posted' <=> y \in posted)
    BY <1>2, <2>1, <2>2, ToldFacts
  <2>4. /\ queue \in Seq(Exchanges) /\ Once(queue)
        /\ \A y \in Queued(queue) : y \in Exchanges /\ y # x /\ kind[y] # "none" /\ stage[y] = "idle"
    <3>1. queue \in Seq(Exchanges)
      BY DEF IInv, TypeOK
    <3>2. Queued(queue) \subseteq Exchanges
      BY <3>1 DEF Queued
    <3> QED BY <3>1, <3>2 DEF IInv, QueueInv
  <2>5. pending' \in SUBSET Exchanges /\ pending' \subseteq pending /\ timers' \subseteq pending'
    BY <2>1 DEF IInv, TypeOK
  <2>6. /\ active' \in {0} \cup (Queued(queue) \cap pending') /\ queue' \in Seq(Exchanges)
        /\ stage' = [y \in Exchanges |-> IF y = active' THEN "writing" ELSE st[y]]
    <3>1. Began(queue, pending', st)
      BY <1>3, <2>1, <2>4, <2>5, StartNextFacts
    <3> QED BY <3>1 DEF Began
  <2>7. TypeOK'
    <3>1. active' \in 0 .. MaxExchanges
      BY <2>5, <2>6, ExchangesAssumption DEF Exchanges
    <3>2. stage' \in [Exchanges -> Stages]
      BY <1>3, <2>6 DEF Stages
    <3> QED BY <2>1, <2>3, <2>5, <2>6, <3>1, <3>2 DEF IInv, TypeOK, Stages, Terminals
  <2>8. TerminalInv'
    <3>1. \A y \in pending' : y \in Exchanges \ {x} /\ y \in pending
      BY <2>1, <2>5
    <3> QED BY <2>3, <3>1 DEF IInv, TerminalInv
  <2>9. \A y \in Exchanges : kind'[y] = "none" =>
           /\ y \notin pending' /\ y \notin Queued(queue) /\ y \notin posted' /\ outcome'[y] = <<>>
           /\ body'[y] = "none" /\ st[y] = "idle"
    <3>1. \A y \in Exchanges : kind[y] = "none" =>
             /\ y # x /\ y \notin pending /\ y \notin posted /\ outcome[y] = <<>> /\ body[y] = "none"
      BY <1>1 DEF IInv, Unsubmitted
    <3> QED BY <1>3, <2>3, <2>4, <2>5, <3>1
  <2>10. \A y \in Queued(queue) : st[y] = "idle"
    BY <1>3, <2>4
  <2>11. /\ \A y \in Exchanges : kind'[y] # "streaming" \/ st[y] = "idle" => body'[y] = "none"
         /\ \A y \in Exchanges : body'[y] \notin {"open", "eof"}
    BY <1>1, <1>2, <1>3 DEF IInv, BodyInv
  <2>12. \A y \in pending' : body'[y] # "drained" => y \in timers' /\ y \in Queued(queue)
    BY <2>1 DEF IInv, TurnInv
  <2>13. \A y \in Exchanges : kind'[y] # "none" /\ outcome'[y] = <<>> /\ y \notin posted'
                                => y \in pending'
    <3>1. \A y \in Exchanges : kind[y] # "none" /\ outcome[y] = <<>> /\ y \notin posted => y \in pending
      BY DEF IInv, TurnInv
    <3> QED BY <2>1, <2>3, <3>1
  <2>14. UNCHANGED <<link, retired, stopped>> /\ ~retired /\ StartNext(queue, pending', st)
    BY <1>1, <2>1
  <2>15. /\ queue \in Seq(Exchanges) /\ Once(queue) /\ st \in [Exchanges -> Stages]
         /\ pending' \in SUBSET Exchanges /\ OneTerminal'
    BY <1>3, <2>3, <2>4, <2>5
  <2> QED BY <2>7, <2>8, <2>9, <2>10, <2>11, <2>12, <2>13, <2>14, <2>15, NextBegins, Zenon
<1> QED BY <1>4, <1>5

(* What an exchange takes is one of the messages on the connection. *)
LEMMA TakeMessageFacts ==
    ASSUME IInv, NEW x \in Exchanges, NextMessage, TakeMessage(x)
    PROVE  /\ unread' \in Seq(Message) /\ got' \in [Exchanges -> 0 .. MaxExchanges]
           /\ unread[1] \in Message
<1>1. unread \in Seq(Message) /\ unread # <<>> /\ unread' = Tail(unread)
  BY DEF IInv, TypeOK, NextMessage, TakeMessage
<1>2. unread' \in Seq(Message) /\ unread[1] \in Message
  BY <1>1
<1>3. unread[1].of \in 0 .. MaxExchanges
  BY <1>2, ExchangesAssumption DEF Message, Exchanges
<1>4. got \in [Exchanges -> 0 .. MaxExchanges] /\ got' = [got EXCEPT ![x] = unread[1].of]
  BY DEF IInv, TypeOK, TakeMessage
<1> QED BY <1>2, <1>3, <1>4

(* A complete response, and one that refuses a tunnel, keep the            *)
(* invariant: the next one begins.                                         *)
LEMMA AnsweredStep ==
    ASSUME IInv, NEW x \in Exchanges, BufferedResponse(x) \/ TunnelRejected(x)
    PROVE  IInv'
<1>1. PICK reusable \in BOOLEAN : Answer(x, reusable)
  BY DEF BufferedResponse, TunnelRejected
<1>2. /\ active = x /\ stage[x] = "reading" /\ kind[x] # "streaming" /\ NextMessage /\ TakeMessage(x)
      /\ UNCHANGED <<kind, stopped, body>>
  BY DEF BufferedResponse, TunnelRejected, At
<1>3. unread' \in Seq(Message) /\ got' \in [Exchanges -> 0 .. MaxExchanges]
  BY <1>2, TakeMessageFacts
<1> QED BY <1>1, <1>2, <1>3, AnswerStep

(* An accepted tunnel keeps the invariant: it has the connection alone.    *)
LEMMA TunnelAcceptedStep ==
    ASSUME IInv, NEW x \in Exchanges, TunnelAccepted(x)
    PROVE  IInv'
<1>1. /\ active = x /\ x # 0 /\ stage[x] = "reading" /\ kind[x] = "tunnel"
      /\ NextMessage /\ TakeMessage(x)
      /\ pending' = {} /\ timers' = timers \ pending /\ Told(pending, x, "tunnel")
      /\ retired' = TRUE /\ link' = "taken" /\ active' = 0 /\ queue' = <<>>
      /\ stage' = [stage EXCEPT ![x] = "over"] /\ UNCHANGED <<kind, stopped, body>>
  BY DEF TunnelAccepted, At, Leave, Goes
<1>2. unread' \in Seq(Message) /\ got' \in [Exchanges -> 0 .. MaxExchanges]
  BY <1>1, TakeMessageFacts
<1>3. /\ ~retired /\ x \in pending /\ kind[x] # "none" /\ body[x] = "none" /\ "tunnel" \in Terminals
      /\ timers' = {} /\ stopped' \in BOOLEAN
  BY <1>1 DEF IInv, TypeOK, RetiredInv, ActiveInv, BodyInv, Terminals
<1>4. /\ body' \in [Exchanges -> {"none", "open", "eof", "failed", "drained"}]
      /\ \A y \in Exchanges : body'[y] = "none" <=> body[y] = "none"
      /\ \A y \in Exchanges : body'[y] \notin {"open", "eof"}
  BY <1>1, <1>3 DEF IInv, TypeOK, BodyInv
<1>5. /\ stage' \in [Exchanges -> Stages]
      /\ \A y \in Exchanges : kind[y] = "none" => stage'[y] = "idle"
      /\ \A y \in Exchanges : stage'[y] = "idle" => stage[y] = "idle"
  BY <1>1, <1>3 DEF IInv, TypeOK, Unsubmitted, Stages
<1> QED BY <1>1, <1>2, <1>3, <1>4, <1>5, EverybodyLeaves

(* The response body of the active exchange begins, or comes to its end.   *)
LEMMA BodyGoesOn ==
    ASSUME IInv, NEW x \in Exchanges, active = x, kind[x] = "streaming", stage[x] # "idle",
           NEW b \in {"open", "eof"},
           body' = [body EXCEPT ![x] = b],
           stage' = [stage EXCEPT ![x] = IF b = "open" THEN "downloading" ELSE "over"],
           outcome' \in [Exchanges -> Seq(Terminals)], outcome'[x] # <<>>, Len(outcome'[x]) = 1,
           \A y \in Exchanges : y # x => outcome'[y] = outcome[y],
           unread' \in Seq(Message), b = "open" => unread' # <<>>,
           got' \in [Exchanges -> 0 .. MaxExchanges],
           UNCHANGED <<kind, pending, queue, active, link, retired, stopped, posted, timers>>
    PROVE  IInv'
<1>1. x # 0 /\ x \in pending /\ x \notin posted /\ ~retired /\ link = "open"
  BY ZeroIsNobody DEF IInv, ActiveInv, TerminalInv, RetiredInv
<1>2. /\ body' \in [Exchanges -> {"none", "open", "eof", "failed", "drained"}] /\ body'[x] = b
      /\ stage' \in [Exchanges -> Stages]
      /\ stage'[x] = (IF b = "open" THEN "downloading" ELSE "over")
      /\ \A y \in Exchanges : y # x => body'[y] = body[y] /\ stage'[y] = stage[y]
  BY DEF IInv, TypeOK, Stages
<1>3. TypeOK'
  BY <1>2 DEF IInv, TypeOK, Stages, Terminals
<1>4. OneTerminal'
  <2>1. \A y \in Exchanges : Len(outcome[y]) + (IF y \in posted THEN 1 ELSE 0) <= 1
    BY DEF IInv, OneTerminal
  <2>2. \A y \in Exchanges : Len(outcome'[y]) + (IF y \in posted' THEN 1 ELSE 0) <= 1
    <3> TAKE y \in Exchanges
    <3>1. CASE y = x
      <4>1. Len(outcome'[y]) = 1 /\ y \notin posted'
        BY <1>1, <3>1
      <4> QED BY <4>1
    <3>2. CASE y # x
      <4>1. outcome'[y] = outcome[y] /\ (y \in posted' <=> y \in posted)
        BY <3>2
      <4> QED BY <2>1, <4>1
    <3> QED BY <3>1, <3>2
  <2> QED BY <2>2 DEF OneTerminal
<1>5. Unsubmitted'
  <2>1. \A y \in Exchanges : kind[y] = "none" => y # x
    OBVIOUS
  <2> QED BY <1>2, <2>1 DEF IInv, Unsubmitted
<1>6. QueueInv'
  <2>0. queue \in Seq(Exchanges) /\ \A y \in Queued(queue) : stage[y] = "idle"
    BY DEF IInv, QueueInv, TypeOK
  <2>1. \A y \in Queued(queue) : y \in Exchanges /\ y # x
    BY <2>0 DEF Queued
  <2>2. Queued(queue)' = Queued(queue) /\ Once(queue)' = Once(queue)
    BY DEF Queued, Once
  <2> QED BY <1>2, <2>1, <2>2 DEF IInv, QueueInv
<1>7. ActiveInv' /\ RetiredInv' /\ TunnelIsAlone'
  BY <1>1, <1>2 DEF IInv, ActiveInv, RetiredInv, TunnelIsAlone
<1>8. BodyInv'
  BY <1>1, <1>2 DEF IInv, BodyInv
<1>9. TerminalInv'
  <2>1. \A y \in pending : /\ y \in Exchanges /\ y \notin posted
                           /\ (outcome[y] = <<>> <=> body[y] = "none")
    BY DEF IInv, TypeOK, TerminalInv
  <2>2. \A y \in pending : (outcome'[y] = <<>> <=> body'[y] = "none")
    <3> TAKE y \in pending
    <3>1. CASE y = x
      <4>1. outcome'[y] # <<>> /\ body'[y] # "none"
        BY <1>2, <3>1
      <4> QED BY <4>1
    <3>2. CASE y # x
      BY <1>2, <2>1, <3>2, ZenonT(30)
    <3> QED BY <3>1, <3>2
  <2> QED BY <2>1, <2>2 DEF TerminalInv
<1>10. TurnInv'
  <2>1. Queued(queue)' = Queued(queue)
    BY DEF Queued
  <2>2. \A y \in pending : body'[y] # "drained" => body[y] # "drained"
    <3>1. body[x] # "drained" /\ \A y \in pending : y \in Exchanges
      BY <1>1 DEF IInv, TypeOK, BodyInv
    <3> QED BY <1>2, <3>1
  <2>3. \A y \in Exchanges : outcome'[y] = <<>> => outcome[y] = <<>>
    OBVIOUS
  <2> QED BY <2>1, <2>2, <2>3 DEF IInv, TurnInv
<1> QED BY <1>3, <1>4, <1>5, <1>6, <1>7, <1>8, <1>9, <1>10 DEF IInv

(* The head of a streamed response keeps the invariant, with a body to     *)
(* come and without.                                                       *)
LEMMA StreamHeadStep ==
    ASSUME IInv, NEW x \in Exchanges, StreamHead(x)
    PROVE  IInv'
<1>1. /\ active = x /\ x # 0 /\ stage[x] = "reading" /\ kind[x] = "streaming" /\ unread # <<>>
      /\ got' = [got EXCEPT ![x] = unread[1].of]
      /\ outcome' = [outcome EXCEPT ![x] = Append(outcome[x], "response")]
      /\ UNCHANGED <<kind, pending, queue, active, link, retired, stopped, posted, timers>>
  BY DEF StreamHead, At, Tell, NextMessage
<1>2. unread \in Seq(Message) /\ Tail(unread) \in Seq(Message) /\ unread[1] \in Message
  <2>1. unread \in Seq(Message)
    BY DEF IInv, TypeOK
  <2> QED BY <1>1, <2>1
<1>3. got' \in [Exchanges -> 0 .. MaxExchanges]
  <2>1. unread[1].of \in 0 .. MaxExchanges
    BY <1>2, ExchangesAssumption DEF Message, Exchanges
  <2> QED BY <1>1, <2>1 DEF IInv, TypeOK
<1>4. outcome[x] = <<>>
  <2>1. x \in pending /\ body[x] = "none"
    BY <1>1 DEF IInv, ActiveInv, BodyInv
  <2> QED BY <2>1 DEF IInv, TerminalInv
<1>5. /\ Append(<<>>, "response") \in Seq(Terminals) /\ Append(<<>>, "response") # <<>>
      /\ Len(Append(<<>>, "response")) = 1
  BY DEF Terminals
<1>6. /\ outcome' \in [Exchanges -> Seq(Terminals)] /\ outcome'[x] # <<>> /\ Len(outcome'[x]) = 1
      /\ \A y \in Exchanges : y # x => outcome'[y] = outcome[y]
  BY <1>1, <1>4, <1>5 DEF IInv, TypeOK, Terminals
<1>7. CASE /\ body' = [body EXCEPT ![x] = "open"] /\ stage' = [stage EXCEPT ![x] = "downloading"]
           /\ unread' = unread
  BY <1>1, <1>2, <1>3, <1>6, <1>7, BodyGoesOn
<1>8. CASE /\ body' = [body EXCEPT ![x] = "eof"] /\ stage' = [stage EXCEPT ![x] = "over"]
           /\ unread' = Tail(unread)
  BY <1>1, <1>2, <1>3, <1>6, <1>8, BodyGoesOn
<1> QED BY <1>7, <1>8 DEF StreamHead, Goes

(* The end of a streamed body keeps the invariant: the next one begins.    *)
LEMMA DownloadedStep ==
    ASSUME IInv, NEW x \in Exchanges, Downloaded(x)
    PROVE  IInv'
<1>1. /\ active = x /\ x # 0 /\ stage[x] = "downloading"
      /\ body' = [body EXCEPT ![x] = "eof"] /\ stage' = [stage EXCEPT ![x] = "over"]
      /\ unread' = Tail(unread)
      /\ UNCHANGED <<kind, pending, queue, active, link, retired, stopped, outcome, posted,
                     timers, got>>
  BY DEF Downloaded, At, Goes
<1>2. body[x] = "open" /\ x \in pending /\ kind[x] = "streaming"
  BY <1>1 DEF IInv, BodyInv, ActiveInv, TypeOK, ExchangeKinds
<1>3. outcome[x] # <<>> /\ outcome[x] \in Seq(Terminals) /\ Len(outcome[x]) <= 1
  <2>1. outcome[x] # <<>> /\ x \notin posted /\ outcome[x] \in Seq(Terminals)
    BY <1>2 DEF IInv, TerminalInv, TypeOK, Terminals
  <2>2. Len(outcome[x]) + (IF x \in posted THEN 1 ELSE 0) <= 1
    BY <2>1 DEF IInv, OneTerminal
  <2>3. Len(outcome[x]) \in Nat
    BY <2>1
  <2> QED BY <2>1, <2>2, <2>3
<1>4. Len(outcome[x]) = 1
  <2>1. Len(outcome[x]) \in Nat /\ (Len(outcome[x]) = 0 => outcome[x] = <<>>)
    BY <1>3
  <2>2. Len(outcome[x]) # 0 /\ Len(outcome[x]) <= 1
    BY <1>3, <2>1
  <2>3. \A n \in Nat : n # 0 /\ n <= 1 => n = 1
    OBVIOUS
  <2> QED BY <2>1, <2>2, <2>3, Zenon
<1>5. outcome' \in [Exchanges -> Seq(Terminals)] /\ got' \in [Exchanges -> 0 .. MaxExchanges]
  BY <1>1 DEF IInv, TypeOK, Terminals
<1>6. unread' \in Seq(Message)
  <2>1. unread \in Seq(Message) /\ unread # <<>>
    BY <1>1 DEF IInv, TypeOK, BodyInv
  <2> QED BY <1>1, <2>1
<1> QED BY <1>1, <1>2, <1>3, <1>4, <1>5, <1>6, BodyGoesOn

(* The consumer has the whole body of the active exchange, which keeps its *)
(* place in pending_ but not its turn.                                     *)
LEMMA DrainedStep ==
    ASSUME IInv, NEW x \in Exchanges, Drained(x)
    PROVE  IInv'
<1>1. /\ body[x] = "eof" /\ x \in pending /\ body' = [body EXCEPT ![x] = "drained"]
      /\ UNCHANGED <<kind, stopped, unread, got>>
  BY DEF Drained
<1>2. PICK reusable \in BOOLEAN :
        /\ pending' = pending \ (IF reusable THEN {} ELSE pending)
        /\ timers' = timers \ ((IF reusable THEN {} ELSE pending) \cup {x})
        /\ Told(IF reusable THEN {} ELSE pending, 0, "error")
        /\ AfterResponse(x, reusable, pending)
  BY DEF Drained
<1>3. ~retired /\ x = active /\ x # 0 /\ kind[x] = "streaming" /\ stage[x] # "idle"
      /\ link = "open" /\ ~stopped
  BY <1>1, ZeroIsNobody DEF IInv, RetiredInv, BodyInv
<1>4. /\ body' \in [Exchanges -> {"none", "open", "eof", "failed", "drained"}]
      /\ body'[x] = "drained"
      /\ \A y \in Exchanges : y # x => body'[y] = body[y]
      /\ \A y \in Exchanges : body'[y] = "none" <=> body[y] = "none"
      /\ \A y \in Exchanges : body'[y] \notin {"open", "eof"}
  BY <1>1, <1>3 DEF IInv, TypeOK, BodyInv
<1> DEFINE st == [stage EXCEPT ![x] = "over"]
<1>5. /\ st \in [Exchanges -> Stages] /\ st[x] = "over"
      /\ \A y \in Exchanges : y # x => st[y] = stage[y]
      /\ \A y \in Exchanges : kind[y] = "none" => st[y] = "idle"
  BY <1>3 DEF IInv, TypeOK, Unsubmitted, Stages
<1>6. unread' \in Seq(Message) /\ got' \in [Exchanges -> 0 .. MaxExchanges]
      /\ "error" \in Terminals /\ 0 \notin Exchanges /\ 0 \notin pending
  BY <1>1, ZeroIsNobody DEF IInv, TypeOK, Terminals
<1>7. CASE ~reusable
  <2>1. /\ pending' = {} /\ timers' = timers \ (pending \cup {x}) /\ Told(pending, 0, "error")
        /\ retired' = TRUE /\ link' = Closed /\ active' = 0 /\ queue' = <<>> /\ stage' = st
    BY <1>2, <1>7 DEF AfterResponse, Goes
  <2>2. timers' = {} /\ link' = "closed" /\ stopped' \in BOOLEAN
    BY <1>1, <1>3, <2>1 DEF IInv, TypeOK, Closed
  <2> HIDE DEF st
  <2>3. \A y \in Exchanges : stage'[y] = "idle" => stage[y] = "idle"
    BY <1>5, <2>1
  <2> QED BY <1>1, <1>4, <1>5, <1>6, <2>1, <2>2, <2>3, EverybodyLeaves
<1>8. CASE reusable
  <2>1. /\ pending' = pending /\ timers' = timers \ {x} /\ Told({}, 0, "error")
        /\ StartNext(queue, pending, st) /\ UNCHANGED <<link, retired, stopped>>
    BY <1>1, <1>2, <1>8 DEF AfterResponse
  <2> HIDE DEF st
  <2>2. /\ outcome' \in [Exchanges -> Seq(Terminals)] /\ posted' \subseteq Exchanges
        /\ OneTerminal'
        /\ \A y \in Exchanges : outcome'[y] = outcome[y] /\ (y \in posted' <=> y \in posted)
    <3>1. {} \in SUBSET pending /\ 0 \notin {}
      OBVIOUS
    <3> QED BY <1>6, <2>1, <3>1, ToldFacts
  <2>3. /\ queue \in Seq(Exchanges) /\ Once(queue)
        /\ \A y \in Queued(queue) : y \in Exchanges /\ y # x /\ kind[y] # "none" /\ stage[y] = "idle"
    <3>1. queue \in Seq(Exchanges)
      BY DEF IInv, TypeOK
    <3>2. Queued(queue) \subseteq Exchanges
      BY <3>1 DEF Queued
    <3> QED BY <1>3, <3>1, <3>2 DEF IInv, QueueInv
  <2>4. pending \in SUBSET Exchanges /\ timers' \subseteq pending
    BY <2>1 DEF IInv, TypeOK
  <2>5. /\ active' \in {0} \cup (Queued(queue) \cap pending) /\ queue' \in Seq(Exchanges)
        /\ stage' = [y \in Exchanges |-> IF y = active' THEN "writing" ELSE st[y]]
    <3>1. Began(queue, pending, st)
      BY <1>5, <2>1, <2>3, <2>4, StartNextFacts
    <3> QED BY <3>1 DEF Began
  <2>6. TypeOK'
    <3>1. active' \in 0 .. MaxExchanges
      BY <2>4, <2>5, ExchangesAssumption DEF Exchanges
    <3>2. stage' \in [Exchanges -> Stages]
      BY <1>5, <2>5 DEF Stages
    <3> QED BY <1>1, <1>4, <1>6, <2>1, <2>2, <2>4, <2>5, <3>1, <3>2
        DEF IInv, TypeOK, Stages, Terminals
  <2>7. TerminalInv'
    <3>1. \A y \in pending : y \in Exchanges
      BY <2>4
    <3> QED BY <1>4, <2>1, <2>2, <3>1 DEF IInv, TerminalInv
  <2>8. \A y \in Exchanges : kind'[y] = "none" =>
           /\ y \notin pending /\ y \notin Queued(queue) /\ y \notin posted' /\ outcome'[y] = <<>>
           /\ body'[y] = "none" /\ st[y] = "idle"
    <3>1. \A y \in Exchanges : kind[y] = "none" =>
             /\ y # x /\ y \notin pending /\ y \notin posted /\ outcome[y] = <<>> /\ body[y] = "none"
      BY <1>3 DEF IInv, Unsubmitted
    <3>2. \A y \in Exchanges : kind'[y] = kind[y] /\ (y \in Queued(queue) => kind[y] # "none")
      BY <1>1, <2>3
    <3> QED BY <1>4, <1>5, <2>2, <3>1, <3>2
  <2>9. \A y \in Queued(queue) : st[y] = "idle"
    BY <1>5, <2>3
  <2>10. \A y \in Exchanges : kind'[y] # "streaming" \/ st[y] = "idle" => body'[y] = "none"
    BY <1>1, <1>3, <1>4, <1>5 DEF IInv, BodyInv
  <2>11. \A y \in pending : body'[y] # "drained" => y \in timers' /\ y \in Queued(queue)
    <3>1. \A y \in pending : body'[y] # "drained" => y # x /\ body[y] # "drained"
      BY <1>4, <2>4
    <3> QED BY <1>3, <2>1, <3>1 DEF IInv, TurnInv
  <2>12. \A y \in Exchanges : kind'[y] # "none" /\ outcome'[y] = <<>> /\ y \notin posted'
                                => y \in pending
    BY <1>1, <2>2 DEF IInv, TurnInv
  <2>13. /\ queue \in Seq(Exchanges) /\ Once(queue) /\ st \in [Exchanges -> Stages]
         /\ OneTerminal' /\ pending \in SUBSET Exchanges /\ pending' = pending
    BY <1>5, <2>1, <2>2, <2>3, <2>4
  <2>14. UNCHANGED <<link, retired, stopped>> /\ ~retired /\ StartNext(queue, pending, st)
    BY <1>3, <2>1
  <2>15. \A y \in Exchanges : body'[y] \notin {"open", "eof"}
    BY <1>4
  <2> QED BY <2>6, <2>7, <2>8, <2>9, <2>10, <2>11, <2>12, <2>13, <2>14, <2>15, NextBegins, Zenon
<1> QED BY <1>7, <1>8

(* The invariant says nothing of anything else.                            *)
LEMMA NoStep ==
    ASSUME IInv, UNCHANGED vars
    PROVE  IInv'
<1> USE DEF vars
<1>1. TypeOK' /\ OneTerminal' /\ TunnelIsAlone'
  BY DEF IInv, TypeOK, OneTerminal, TunnelIsAlone
<1>2. Unsubmitted' /\ ActiveInv' /\ RetiredInv' /\ BodyInv' /\ TerminalInv'
  BY DEF IInv, Unsubmitted, ActiveInv, RetiredInv, BodyInv, TerminalInv
<1>3. QueueInv' /\ TurnInv'
  BY DEF IInv, QueueInv, TurnInv, Queued, Once
<1> QED BY <1>1, <1>2, <1>3 DEF IInv

(* Every step of the session keeps the invariant.                          *)
LEMMA InductiveStep == IInv /\ [Next]_vars => IInv'
<1> SUFFICES ASSUME IInv, [Next]_vars PROVE IInv'
  OBVIOUS
<1>1. CASE UNCHANGED vars
  BY <1>1, NoStep
<1>2. CASE Stop
  BY <1>2, StopStep
<1>3. ASSUME NEW x \in Exchanges, Owner(x) PROVE IInv'
  <2>1. ASSUME NEW k \in ExchangeKinds, Submit(x, k) PROVE IInv'
    BY <2>1, SubmitStep
  <2>2. ASSUME NEW k \in ExchangeKinds, Refuse(x, k) PROVE IInv'
    BY <2>2, RefuseStep
  <2>3. CASE Cancel(x) \/ CancelBody(x)
    BY <2>3, CancelStep
  <2> QED BY <1>3, <2>1, <2>2, <2>3 DEF Owner
<1>4. ASSUME NEW x \in Exchanges, Exchange(x) PROVE IInv'
  <2>1. CASE Uploads(x) \/ Written(x) \/ StreamInterim(x)
    BY <2>1, OnWayStep
  <2>2. CASE Fails(x)
    BY <2>2, FailsStep
  <2>3. CASE BufferedResponse(x) \/ TunnelRejected(x)
    BY <2>3, AnsweredStep
  <2>4. CASE TunnelInterim(x)
    BY <2>4, TunnelInterimStep
  <2>5. CASE TunnelAccepted(x)
    BY <2>5, TunnelAcceptedStep
  <2>6. CASE StreamHead(x)
    BY <2>6, StreamHeadStep
  <2>7. CASE Downloaded(x)
    BY <2>7, DownloadedStep
  <2>8. CASE Drained(x)
    BY <2>8, DrainedStep
  <2> QED BY <1>4, <2>1, <2>2, <2>3, <2>4, <2>5, <2>6, <2>7, <2>8 DEF Exchange
<1>5. ASSUME NEW x \in Exchanges, Expire(x) PROVE IInv'
  BY <1>5, CancelStep
<1>6. ASSUME NEW x \in Exchanges, PostedRuns(x) PROVE IInv'
  BY <1>6, PostedRunsStep
<1> QED BY <1>1, <1>2, <1>3, <1>4, <1>5, <1>6 DEF Next

-----------------------------------------------------------------------------
(* With a peer that sends no interim responses, the message an exchange    *)
(* takes answers its own request.                                          *)

(* What is unread while an exchange reads is the one response to it.       *)
LEMMA OwnMessage ==
    ASSUME IInv, WireInv, NEW x \in Exchanges, active = x, stage[x] \in {"reading", "downloading"}
    PROVE  unread = <<[of |-> x, final |-> TRUE]>> /\ unread[1].of = x /\ Tail(unread) = <<>>
<1>1. ~retired /\ active # 0
  BY ZeroIsNobody DEF IInv, RetiredInv
<1>2. unread = <<[of |-> x, final |-> TRUE]>>
  BY <1>1 DEF WireInv
<1> QED BY <1>2

(* start_next() finds nothing unread, and leaves nothing unread. *)
LEMMA BeginsClean ==
    ASSUME NEW q \in Seq(Exchanges), Once(q), NEW p \in SUBSET Exchanges,
           NEW st \in [Exchanges -> Stages], StartNext(q, p, st), unread' = <<>>
    PROVE  WireInv'
<1>1. Began(q, p, st)
  BY StartNextFacts
<1>2. active' = 0 \/ (active' \in Exchanges /\ stage'[active'] = "writing")
  BY <1>1 DEF Began
<1> QED BY <1>2 DEF WireInv

(* A step that reads nothing and writes nothing, and that leaves the       *)
(* active exchange where it is or retires the connection.                  *)
LEMMA WireUntouched ==
    ASSUME WireInv, unread' = unread, retired' \/ UNCHANGED <<active, stage, retired>>
    PROVE  WireInv'
BY DEF WireInv

(* Without interim responses, every step keeps what is said of the unread  *)
(* responses.                                                              *)
LEMMA WireStep ==
    ASSUME ~Interims, IInv, WireInv, Next
    PROVE  WireInv'
<1>0. queue \in Seq(Exchanges) /\ Once(queue) /\ pending \in SUBSET Exchanges
      /\ stage \in [Exchanges -> Stages]
  BY DEF IInv, TypeOK, QueueInv, Stages
<1>1. ASSUME RetireAll, unread' = unread PROVE WireInv'
  BY <1>1, WireUntouched DEF RetireAll
<1>2. ASSUME NEW x \in Exchanges, EndsEarly(x), unread' = unread PROVE WireInv'
  BY <1>1, <1>2, WireUntouched DEF EndsEarly
<1>3. ASSUME Stop PROVE WireInv'
  BY <1>1, <1>3 DEF Stop
<1>4. ASSUME NEW x \in Exchanges, NEW k \in ExchangeKinds, Submit(x, k) PROVE WireInv'
  <2>1. kind[x] = "none" /\ ~retired /\ unread' = unread /\ retired' = retired
        /\ pending' = pending \cup {x}
    BY <1>4 DEF Submit, Fresh
  <2>2. CASE active = 0
    <3>1. StartNext(Append(queue, x), pending', stage)
      BY <1>4, <2>2 DEF Submit
    <3>2. x \notin Queued(queue)
      BY <2>1 DEF IInv, QueueInv
    <3>3. Append(queue, x) \in Seq(Exchanges) /\ Once(Append(queue, x))
      BY <1>0, <3>2, QueueAppend
    <3>4. unread' = <<>>
      BY <2>1, <2>2 DEF WireInv
    <3>5. pending' \in SUBSET Exchanges
      BY <1>0, <2>1
    <3> QED BY <1>0, <3>1, <3>3, <3>4, <3>5, BeginsClean
  <2>3. CASE active # 0
    <3>1. UNCHANGED <<active, stage>>
      BY <1>4, <2>3 DEF Submit
    <3> QED BY <2>1, <3>1, WireUntouched
  <2> QED BY <2>2, <2>3
<1>5. ASSUME NEW x \in Exchanges, NEW k \in ExchangeKinds, Refuse(x, k) PROVE WireInv'
  BY <1>5, WireUntouched DEF Refuse
<1>6. ASSUME NEW x \in Exchanges, Cancel(x) \/ CancelBody(x) \/ Expire(x) PROVE WireInv'
  BY <1>2, <1>6 DEF Cancel, CancelBody, Expire
<1>7. ASSUME NEW x \in Exchanges, Fails(x) PROVE WireInv'
  BY <1>1, <1>7 DEF Fails
<1>8. ASSUME NEW x \in Exchanges, PostedRuns(x) PROVE WireInv'
  BY <1>8, WireUntouched DEF PostedRuns
<1>9. ASSUME NEW x \in Exchanges, Uploads(x) PROVE WireInv'
  <2>1. /\ active = x /\ x # 0 /\ stage[x] = "writing" /\ stage' = [stage EXCEPT ![x] = "uploading"]
        /\ UNCHANGED <<active, retired, unread>>
    BY <1>9 DEF Uploads, At, Goes, rest
  <2>2. stage'[x] = "uploading"
    BY <1>0, <2>1
  <2> QED BY <2>1, <2>2 DEF WireInv
<1>10. ASSUME NEW x \in Exchanges, Written(x) PROVE WireInv'
  <2>1. /\ active = x /\ x # 0 /\ stage[x] \in {"writing", "uploading"}
        /\ stage' = [stage EXCEPT ![x] = "reading"] /\ UNCHANGED <<active, retired>>
    BY <1>10 DEF Written, At, Goes, rest
  <2>2. unread' = unread \o <<>> \o <<[of |-> x, final |-> TRUE]>>
    <3>1. PICK hint \in {FALSE, Interims} :
             unread' = unread \o (IF hint THEN <<[of |-> x, final |-> FALSE]>> ELSE <<>>)
                              \o <<[of |-> x, final |-> TRUE]>>
      BY <1>10 DEF Written
    <3>2. ~hint
      BY <3>1
    <3> QED BY <3>1, <3>2
  <2>3. ~retired /\ unread = <<>>
    BY <2>1 DEF IInv, RetiredInv, WireInv
  <2>4. unread' = <<[of |-> x, final |-> TRUE]>>
    BY <2>2, <2>3
  <2>5. stage'[x] = "reading"
    BY <1>0, <2>1
  <2> QED BY <2>1, <2>4, <2>5 DEF WireInv
<1>11. ASSUME NEW x \in Exchanges, NEW reusable \in BOOLEAN, Answer(x, reusable),
              active = x, stage[x] = "reading", TakeMessage(x)
       PROVE  WireInv'
  <2>1. unread' = <<>>
    BY <1>11, OwnMessage DEF TakeMessage
  <2>2. CASE reusable
    <3>1. StartNext(queue, pending \ {x}, [stage EXCEPT ![x] = "over"])
      BY <1>11, <2>2 DEF Answer, AfterResponse
    <3>2. [stage EXCEPT ![x] = "over"] \in [Exchanges -> Stages] /\ pending \ {x} \in SUBSET Exchanges
      BY <1>0 DEF Stages
    <3> QED BY <1>0, <2>1, <3>1, <3>2, BeginsClean
  <2>3. CASE ~reusable
    BY <1>11, <2>3 DEF Answer, AfterResponse, WireInv
  <2> QED BY <2>2, <2>3
<1>12. ASSUME NEW x \in Exchanges, BufferedResponse(x) \/ TunnelRejected(x) PROVE WireInv'
  BY <1>11, <1>12 DEF BufferedResponse, TunnelRejected, At
<1>13. ASSUME NEW x \in Exchanges, TunnelInterim(x) \/ StreamInterim(x) PROVE WireInv'
  <2>1. active = x /\ stage[x] = "reading" /\ ~unread[1].final
    BY <1>13 DEF TunnelInterim, StreamInterim, At
  <2>2. unread = <<[of |-> x, final |-> TRUE]>>
    BY <2>1, OwnMessage
  <2> QED BY <2>1, <2>2
<1>14. ASSUME NEW x \in Exchanges, TunnelAccepted(x) PROVE WireInv'
  BY <1>14 DEF TunnelAccepted, WireInv
<1>15. ASSUME NEW x \in Exchanges, StreamHead(x) PROVE WireInv'
  <2>1. active = x /\ x # 0 /\ stage[x] = "reading" /\ UNCHANGED <<active, retired>>
    BY <1>15 DEF StreamHead, At
  <2>2. unread = <<[of |-> x, final |-> TRUE]>> /\ Tail(unread) = <<>>
    BY <2>1, OwnMessage
  <2>3. \/ stage'[x] = "downloading" /\ unread' = unread
        \/ stage'[x] = "over" /\ unread' = Tail(unread)
    BY <1>0, <1>15 DEF StreamHead, Goes
  <2> QED BY <2>1, <2>2, <2>3 DEF WireInv
<1>16. ASSUME NEW x \in Exchanges, Downloaded(x) PROVE WireInv'
  <2>1. active = x /\ x # 0 /\ stage[x] = "downloading" /\ UNCHANGED <<active, retired>>
        /\ unread' = Tail(unread) /\ stage' = [stage EXCEPT ![x] = "over"]
    BY <1>16 DEF Downloaded, At, Goes
  <2>2. Tail(unread) = <<>>
    BY <2>1, OwnMessage
  <2>3. stage'[x] = "over"
    BY <1>0, <2>1
  <2> QED BY <2>1, <2>2, <2>3 DEF WireInv
<1>17. ASSUME NEW x \in Exchanges, Drained(x) PROVE WireInv'
  <2>1. body[x] = "eof" /\ x \in pending /\ unread' = unread
    BY <1>17 DEF Drained
  <2>2. ~retired /\ x = active /\ x # 0 /\ stage[x] \notin {"reading", "downloading"}
    BY <2>1, ZeroIsNobody DEF IInv, RetiredInv, BodyInv
  <2>3. unread' = <<>>
    BY <2>1, <2>2 DEF WireInv
  <2>4. PICK reusable \in BOOLEAN : AfterResponse(x, reusable, pending)
    BY <1>17 DEF Drained
  <2>5. CASE reusable
    <3>1. StartNext(queue, pending, [stage EXCEPT ![x] = "over"])
      BY <2>4, <2>5 DEF AfterResponse
    <3>2. [stage EXCEPT ![x] = "over"] \in [Exchanges -> Stages]
      BY <1>0 DEF Stages
    <3> QED BY <1>0, <2>3, <3>1, <3>2, BeginsClean
  <2>6. CASE ~reusable
    BY <2>4, <2>6 DEF AfterResponse, WireInv
  <2> QED BY <2>5, <2>6
<1>18. ASSUME NEW x \in Exchanges, Owner(x) PROVE WireInv'
  BY <1>4, <1>5, <1>6, <1>18 DEF Owner
<1>19. ASSUME NEW x \in Exchanges, Exchange(x) PROVE WireInv'
  BY <1>7, <1>9, <1>10, <1>12, <1>13, <1>14, <1>15, <1>16, <1>17, <1>19 DEF Exchange
<1> QED BY <1>3, <1>6, <1>8, <1>18, <1>19 DEF Next

(* Only three steps take a message. *)
LEMMA OwnStep ==
    ASSUME IInv, WireInv, ResponsesAreOwn, Next
    PROVE  ResponsesAreOwn'
<1>0. got \in [Exchanges -> 0 .. MaxExchanges]
  BY DEF IInv, TypeOK
<1>1. ASSUME got' = got PROVE ResponsesAreOwn'
  BY <1>1 DEF ResponsesAreOwn
<1>2. ASSUME NEW x \in Exchanges, active = x, stage[x] = "reading",
             got' = [got EXCEPT ![x] = unread[1].of]
      PROVE  ResponsesAreOwn'
  <2>1. unread[1].of = x
    BY <1>2, OwnMessage
  <2> QED BY <1>0, <1>2, <2>1 DEF ResponsesAreOwn
<1>3. ASSUME NEW x \in Exchanges, Owner(x) PROVE got' = got
  BY <1>3 DEF Owner, Submit, Refuse, Cancel, CancelBody
<1>4. ASSUME NEW x \in Exchanges, Exchange(x) PROVE ResponsesAreOwn'
  <2>1. CASE Uploads(x) \/ Written(x) \/ Fails(x) \/ TunnelInterim(x) \/ StreamInterim(x)
             \/ Downloaded(x) \/ Drained(x)
    <3>1. got' = got
      BY <2>1 DEF Uploads, Written, Fails, TunnelInterim, StreamInterim, Downloaded, Drained, rest
    <3> QED BY <1>1, <3>1
  <2>2. CASE BufferedResponse(x) \/ TunnelRejected(x) \/ TunnelAccepted(x) \/ StreamHead(x)
    <3>1. active = x /\ stage[x] = "reading" /\ got' = [got EXCEPT ![x] = unread[1].of]
      BY <2>2 DEF BufferedResponse, TunnelRejected, TunnelAccepted, StreamHead, At, TakeMessage
    <3> QED BY <1>2, <3>1
  <2> QED BY <1>4, <2>1, <2>2 DEF Exchange
<1>5. Stop => got' = got
  BY DEF Stop
<1>6. ASSUME NEW x \in Exchanges, Expire(x) \/ PostedRuns(x) PROVE got' = got
  BY <1>6 DEF Expire, PostedRuns
<1> QED BY <1>1, <1>3, <1>4, <1>5, <1>6 DEF Next

-----------------------------------------------------------------------------
(* What the session promises. *)

(* The invariant always holds.                                             *)
LEMMA Invariance == Spec => []IInv
<1>1. Init => IInv
  BY InitIInv
<1> QED BY <1>1, InductiveStep, PTL DEF Spec

(* Who is not told is queued or active, with its timer. *)
LEMMA TurnsAreKept == IInv => NobodyForgotten
<1> SUFFICES ASSUME IInv, NEW x \in Exchanges, kind[x] # "none", outcome[x] = <<>>, x \notin posted
             PROVE  /\ x \in pending /\ x \in timers /\ ~retired /\ link = "open"
                    /\ x = active \/ (active # 0 /\ x \in ToSet(queue))
  BY DEF NobodyForgotten
<1>1. x \in pending
  BY DEF IInv, TurnInv
<1>2. body[x] = "none" /\ ~retired /\ link = "open"
  BY <1>1 DEF IInv, TerminalInv, RetiredInv
<1>3. x \in timers /\ (x = active \/ (active # 0 /\ x \in Queued(queue)))
  BY <1>1, <1>2 DEF IInv, TurnInv
<1>4. Queued(queue) = ToSet(queue)
  <2>1. DOMAIN queue = 1 .. Len(queue)
    BY DEF IInv, TypeOK
  <2> QED BY <2>1 DEF Queued, ToSet
<1> QED BY <1>1, <1>2, <1>3, <1>4

(* Whatever is cancelled, expires, fails or is drained, on whatever peer:  *)
(* a caller has one terminal, until then its exchange is the active one or *)
(* queued behind one, with its deadline armed, on an open connection       *)
(* (start_next(), retire_queued(), complete_error()), and a tunnel that    *)
(* was accepted shares its connection with nobody.                         *)
THEOREM EveryCallerIsTold == Spec => [](TypeOK /\ OneTerminal /\ NobodyForgotten /\ TunnelIsAlone)
<1>1. IInv => TypeOK /\ OneTerminal /\ NobodyForgotten /\ TunnelIsAlone
  BY TurnsAreKept DEF IInv
<1> QED BY <1>1, Invariance, PTL

(* While the peer sends no interim response, what is unread is known.      *)
LEMMA WireInvariance ==
    ASSUME ~Interims
    PROVE  Spec => [](IInv /\ WireInv /\ ResponsesAreOwn)
<1>1. Init => IInv /\ WireInv /\ ResponsesAreOwn
  BY InitIInv
<1>2. IInv /\ WireInv /\ ResponsesAreOwn /\ [Next]_vars
         => (IInv /\ WireInv /\ ResponsesAreOwn)'
  <2> SUFFICES ASSUME IInv, WireInv, ResponsesAreOwn, [Next]_vars
               PROVE  (IInv /\ WireInv /\ ResponsesAreOwn)'
    OBVIOUS
  <2>1. IInv'
    BY InductiveStep
  <2>2. CASE Next
    BY <2>1, <2>2, WireStep, OwnStep
  <2>3. CASE UNCHANGED vars
    <3>1. WireInv'
      BY <2>3 DEF vars, WireInv
    <3>2. ResponsesAreOwn'
      BY <2>3 DEF vars, ResponsesAreOwn
    <3> QED BY <2>1, <3>1, <3>2
  <2> QED BY <2>2, <2>3
<1> QED BY <1>1, <1>2, PTL DEF Spec

(* No exchange is given the response to another one's request, though      *)
(* responses carry no identifier: an exchange that ends early takes the    *)
(* connection with it (expire(), cancel(), fail_active()), so that its     *)
(* response is never left for the next one.                                *)
THEOREM ResponsesReachTheirRequests ==
    ASSUME ~Interims
    PROVE  Spec => []ResponsesAreOwn
BY WireInvariance, PTL

(* The whole of ExchangesAreSound: with EveryCallerIsTold, a connection    *)
(* between two exchanges has nothing left to read.                         *)
THEOREM SoundExchanges ==
    ASSUME ~Interims
    PROVE  Spec => []ExchangesAreSound
<1>1. IInv /\ WireInv => ExchangesAreSound
  <2>1. WireInv => IdleIsClean
    BY DEF WireInv, IdleIsClean
  <2> QED BY <2>1, TurnsAreKept DEF IInv, ExchangesAreSound
<1> QED BY <1>1, WireInvariance, PTL

-----------------------------------------------------------------------------
(* The body of a response. *)

(* Pieces of the body, in order: each holds consecutive bytes, the next one *)
(* begins where it ends, and the last one ends with byte n.                 *)
InOrder(q, n) ==
    /\ \A j \in 1 .. Len(q) : /\ Len(q[j]) > 0 /\ q[j][1] <= n
                              /\ \A i \in 1 .. Len(q[j]) : q[j][i] = q[j][1] + i - 1
    /\ \A j \in 1 .. (Len(q) - 1) : q[j + 1][1] = q[j][1] + Len(q[j])
    /\ Len(q) > 0 => q[Len(q)][1] + Len(q[Len(q)]) = n + 1

(* How many of n bytes were taken from the queue q. *)
Before(q, n) == IF q = <<>> THEN n ELSE q[1][1] - 1
Handed == Before(chunks, arrived)

(* What ended, and what may still be read: nothing after a failure or a     *)
(* cancellation; a pull is parked only while there is nothing to read; the  *)
(* end is signalled after the last byte was handed out.                     *)
EndsAgree ==
    /\ terminal \in {"failed", "aborted"} => chunks = <<>>
    /\ parked # 0 => chunks = <<>> /\ terminal = "open"
    /\ told => terminal = "aborted"
    /\ drained # "no" => chunks = <<>> /\ terminal = "eof"

(* The queue holds what was received and not handed out. *)
QueueInOrder == terminal \in {"open", "eof"} => InOrder(chunks, arrived)

(* The session gets its credit back for what was handed out, in order:     *)
(* at[i] of n bytes are returned before the i-th closure of p runs, and all *)
(* h that were handed out after the last; c are not returned yet.          *)
Cost(c) == IF c.kind = "consume" THEN Len(c.bytes) ELSE 0
Returns(at, p, c, n, h) ==
    /\ at[1] + c = n /\ at[Len(p) + 1] = h
    /\ \A i \in 1 .. (Len(p) + 1) : at[i] <= h
    /\ \A i \in 1 .. Len(p) : at[i + 1] = at[i] + Cost(p[i])
Repays(p, c, n, h) == \E at \in [1 .. (Len(p) + 1) -> Nat] : Returns(at, p, c, n, h)
CreditComesBack == terminal = "open" => Repays(posts, credit, arrived, Handed)

(* The closure of the latest pull. *)
Own(i) == posts[i].kind = "handler" /\ posts[i].pull = pull.id

(* When no pull is stopped on its own: a pull that waits is parked or has   *)
(* one closure, and what it will be given follows what was given.           *)
PullsAgree ==
    /\ \A i \in DOMAIN posts : posts[i].kind # "cancelRead"
    /\ \A i \in DOMAIN posts : posts[i].kind = "handler" => posts[i].pull <= pull.id
    /\ parked # 0 => parked = pull.id /\ pull.st = "waiting"
    /\ \A i, j \in DOMAIN posts : Own(i) /\ Own(j) => i = j
    /\ \A i \in DOMAIN posts : Own(i) =>
          /\ parked = 0 /\ pull.st = "waiting" /\ posts[i].end # "started"
          /\ posts[i].end = "data" <=> posts[i].bytes # <<>>
          /\ posts[i].end = "eof" => Len(given) = arrived /\ terminal # "open"
    /\ pull.st = "eof" => Len(given) = arrived /\ terminal # "open"
BytesInOrder ==
    terminal \in {"open", "eof"} =>
        /\ \A k \in 1 .. Len(given) : given[k] = k
        /\ \A i \in Owed : /\ \A k \in 1 .. Len(posts[i].bytes) : posts[i].bytes[k] = Len(given) + k
                           /\ Len(given) + Len(posts[i].bytes) = Handed
        /\ Owed = {} => Len(given) = Handed

StreamInv ==
    /\ BodyTypeOK /\ NeverRefused /\ OneEnding
    /\ EndsAgree /\ QueueInOrder /\ CreditComesBack
    /\ ~Stops => PullsAgree /\ BytesInOrder

-----------------------------------------------------------------------------
(* Sequences of closures, and pieces of the body. *)

LEMMA PostsGrow ==
    ASSUME NEW S, NEW p \in Seq(S), NEW x \in S
    PROVE  /\ Append(p, x) \in Seq(S) /\ Len(Append(p, x)) = Len(p) + 1
           /\ \A i \in 1 .. Len(p) : Append(p, x)[i] = p[i]
           /\ Append(p, x)[Len(p) + 1] = x
           /\ p \o <<x>> = Append(p, x) /\ p \o <<>> = p
  BY AppendProperties, AppendIsConcat, ConcatEmptySeq

LEMMA PostTwo ==
    ASSUME NEW S, NEW p \in Seq(S), NEW x \in S, NEW y \in S
    PROVE  p \o <<x, y>> = Append(Append(p, x), y)
  BY PostsGrow, SeqEqual

LEMMA PostsRun ==
    ASSUME NEW S, NEW p \in Seq(S), Len(p) > 0
    PROVE  /\ SubSeq(p, 2, Len(p)) \in Seq(S) /\ Len(SubSeq(p, 2, Len(p))) = Len(p) - 1
           /\ \A i \in 1 .. (Len(p) - 1) : SubSeq(p, 2, Len(p))[i] = p[i + 1]
           /\ p[1] \in S
<1>1. Len(p) \in Nat /\ 2 \in 1 .. (Len(p) + 1) /\ Len(p) \in 1 .. Len(p) /\ 1 \in 1 .. Len(p)
  OBVIOUS
<1>2. p[1] \in S
  BY <1>1, ElementOfSeq
<1>3. \A i \in 2 .. Len(p) : p[i] \in S
  BY ElementOfSeq
<1>4. 2 \in Int /\ Len(p) \in Int /\ (2 <= Len(p) \/ Len(p) - 1 = 0)
  <2>1. PICK n \in Nat : n = Len(p)
    BY <1>1
  <2> QED BY <2>1
<1>5. /\ SubSeq(p, 2, Len(p)) \in Seq(S)
      /\ Len(SubSeq(p, 2, Len(p))) = IF 2 <= Len(p) THEN Len(p) - 2 + 1 ELSE 0
      /\ \A i \in 1 .. (Len(p) - 2 + 1) : SubSeq(p, 2, Len(p))[i] = p[2 + i - 1]
  BY <1>3, <1>4, SubSeqProperties
<1> QED BY <1>1, <1>2, <1>4, <1>5

LEMMA CostIsNat ==
    ASSUME NEW x \in Post
    PROVE  Cost(x) \in Nat
  BY DEF Cost, Post, Bytes

(* A closure that returns bytes is posted as they are handed out ...       *)
LEMMA RepaysMore ==
    ASSUME NEW p \in Seq(Post), NEW x \in Post, NEW c \in Nat, NEW n \in Nat, NEW h \in Nat,
           Repays(p, c, n, h)
    PROVE  Repays(Append(p, x), c, n, h + Cost(x))
<1> DEFINE q == Append(p, x)
<1>1. Cost(x) \in Nat
  BY CostIsNat
<1>2. PICK at \in [1 .. (Len(p) + 1) -> Nat] : Returns(at, p, c, n, h)
  BY DEF Repays
<1>3. /\ q \in Seq(Post) /\ Len(q) = Len(p) + 1 /\ Len(p) \in Nat
      /\ \A i \in 1 .. Len(p) : q[i] = p[i]
      /\ q[Len(p) + 1] = x
  BY PostsGrow
<1> HIDE DEF q
<1> DEFINE up == [i \in 1 .. (Len(q) + 1) |-> IF i = Len(q) + 1 THEN h + Cost(x) ELSE at[i]]
<1>4. \A i \in 1 .. (Len(p) + 1) : up[i] = at[i] /\ at[i] \in Nat
  <2> SUFFICES ASSUME NEW i \in 1 .. (Len(p) + 1) PROVE up[i] = at[i] /\ at[i] \in Nat
    OBVIOUS
  <2>1. i \in 1 .. (Len(q) + 1) /\ i # Len(q) + 1
    BY <1>3
  <2> QED BY <1>2, <2>1
<1>5. up[Len(q) + 1] = h + Cost(x) /\ up \in [1 .. (Len(q) + 1) -> Nat]
  BY <1>1, <1>3
<1> HIDE DEF up
<1>6. \A i \in 1 .. (Len(q) + 1) : up[i] <= h + Cost(x)
  <2> SUFFICES ASSUME NEW i \in 1 .. (Len(q) + 1) PROVE up[i] <= h + Cost(x)
    OBVIOUS
  <2>1. CASE i = Len(q) + 1
    BY <1>1, <1>5, <2>1
  <2>2. CASE i # Len(q) + 1
    <3>1. i \in 1 .. (Len(p) + 1) /\ up[i] = at[i] /\ at[i] <= h /\ at[i] \in Nat
      BY <1>2, <1>3, <1>4, <2>2 DEF Returns
    <3> QED BY <1>1, <3>1
  <2> QED BY <2>1, <2>2
<1>7. \A i \in 1 .. Len(q) : up[i + 1] = up[i] + Cost(q[i])
  <2> SUFFICES ASSUME NEW i \in 1 .. Len(q) PROVE up[i + 1] = up[i] + Cost(q[i])
    OBVIOUS
  <2>1. CASE i = Len(q)
    <3>1. q[i] = x /\ up[i + 1] = h + Cost(x) /\ up[i] = at[i] /\ at[i] = h
      BY <1>2, <1>3, <1>4, <1>5, <2>1 DEF Returns
    <3> QED BY <3>1
  <2>2. CASE i # Len(q)
    <3>1. i \in 1 .. Len(p) /\ i + 1 \in 1 .. (Len(p) + 1)
      BY <1>3, <2>2
    <3> QED BY <1>2, <1>3, <1>4, <3>1 DEF Returns
  <2> QED BY <2>1, <2>2
<1>8. up[1] + c = n
  BY <1>2, <1>3, <1>4 DEF Returns
<1>9. Returns(up, q, c, n, h + Cost(x))
  BY <1>5, <1>6, <1>7, <1>8 DEF Returns
<1> QED BY <1>5, <1>9 DEF Repays, q

(* ... and returns them when it runs.  The count is never below zero.      *)
LEMMA RepaysNext ==
    ASSUME NEW p \in Seq(Post), NEW c \in Nat, NEW n \in Nat, NEW h \in Nat,
           h <= n, Len(p) > 0, Repays(p, c, n, h)
    PROVE  c >= Cost(p[1]) /\ Repays(SubSeq(p, 2, Len(p)), c - Cost(p[1]), n, h)
<1> DEFINE q == SubSeq(p, 2, Len(p))
<1>1. PICK at \in [1 .. (Len(p) + 1) -> Nat] : Returns(at, p, c, n, h)
  BY DEF Repays
<1>2. /\ q \in Seq(Post) /\ Len(q) = Len(p) - 1 /\ Len(p) \in Nat /\ p[1] \in Post
      /\ \A i \in 1 .. Len(q) : q[i] = p[i + 1]
  BY PostsRun
<1> HIDE DEF q
<1>3. Cost(p[1]) \in Nat
  BY <1>2, CostIsNat
<1>4. at[2] = at[1] + Cost(p[1]) /\ at[1] + c = n /\ at[1] \in Nat /\ at[2] \in Nat /\ at[2] <= h
  <2>1. 1 \in 1 .. Len(p) /\ 1 \in 1 .. (Len(p) + 1) /\ 2 \in 1 .. (Len(p) + 1)
    BY <1>2
  <2> QED BY <1>1, <2>1 DEF Returns
<1>5. c >= Cost(p[1]) /\ at[2] + (c - Cost(p[1])) = n
  BY <1>3, <1>4
<1> DEFINE down == [i \in 1 .. (Len(q) + 1) |-> at[i + 1]]
<1>6. down \in [1 .. (Len(q) + 1) -> Nat] /\ \A i \in 1 .. (Len(q) + 1) : down[i] = at[i + 1]
  BY <1>2
<1> HIDE DEF down
<1>7. Returns(down, q, c - Cost(p[1]), n, h)
  <2>1. down[1] + (c - Cost(p[1])) = n
    BY <1>2, <1>5, <1>6
  <2>2. down[Len(q) + 1] = h
    BY <1>1, <1>2, <1>6 DEF Returns
  <2>3. \A i \in 1 .. (Len(q) + 1) : down[i] <= h
    BY <1>1, <1>2, <1>6 DEF Returns
  <2>4. \A i \in 1 .. Len(q) : down[i + 1] = down[i] + Cost(q[i])
    <3> SUFFICES ASSUME NEW i \in 1 .. Len(q) PROVE down[i + 1] = down[i] + Cost(q[i])
      OBVIOUS
    <3>1. i + 1 \in 1 .. Len(p) /\ i \in 1 .. (Len(q) + 1) /\ i + 1 \in 1 .. (Len(q) + 1)
      BY <1>2
    <3> QED BY <1>1, <1>2, <1>6, <3>1 DEF Returns
  <2> QED BY <2>1, <2>2, <2>3, <2>4 DEF Returns
<1> QED BY <1>5, <1>6, <1>7 DEF Repays, q

(* What is not returned covers what is not handed out. *)
LEMMA CreditCovers ==
    ASSUME NEW p \in Seq(Post), NEW c \in Nat, NEW n \in Nat, NEW h \in Nat, Repays(p, c, n, h)
    PROVE  n - h <= c
<1>1. PICK at \in [1 .. (Len(p) + 1) -> Nat] : Returns(at, p, c, n, h)
  BY DEF Repays
<1>2. 1 \in 1 .. (Len(p) + 1)
  OBVIOUS
<1> QED BY <1>1, <1>2 DEF Returns

(* A chunk of the body holds consecutive bytes.                            *)
LEMMA Joined ==
    ASSUME NEW b \in Nat, NEW s \in Seq(Nat), NEW t \in Seq(Nat),
           \A i \in 1 .. Len(s) : s[i] = b + i,
           \A i \in 1 .. Len(t) : t[i] = b + Len(s) + i
    PROVE  /\ s \o t \in Seq(Nat) /\ Len(s \o t) = Len(s) + Len(t)
           /\ \A i \in 1 .. Len(s \o t) : (s \o t)[i] = b + i
<1>1. /\ s \o t \in Seq(Nat) /\ Len(s \o t) = Len(s) + Len(t)
      /\ \A i \in 1 .. Len(s) + Len(t) : (s \o t)[i] = IF i <= Len(s) THEN s[i] ELSE t[i - Len(s)]
  BY ConcatProperties
<1>2. ASSUME NEW i \in 1 .. Len(s \o t) PROVE (s \o t)[i] = b + i
  <2>1. Len(s) \in Nat /\ Len(t) \in Nat
    OBVIOUS
  <2>2. CASE i <= Len(s)
    <3>1. i \in 1 .. Len(s) /\ i \in 1 .. Len(s) + Len(t)
      BY <1>1, <2>1, <2>2
    <3> QED BY <1>1, <2>2, <3>1
  <2>3. CASE ~(i <= Len(s))
    <3>1. i - Len(s) \in 1 .. Len(t) /\ i \in 1 .. Len(s) + Len(t)
      BY <1>1, <2>1, <2>3
    <3>2. (s \o t)[i] = t[i - Len(s)] /\ t[i - Len(s)] = b + Len(s) + (i - Len(s))
      BY <1>1, <2>3, <3>1
    <3> QED BY <2>1, <3>1, <3>2
  <2> QED BY <2>2, <2>3
<1> QED BY <1>1, <1>2

(* Where the pieces in order begin.                                        *)
LEMMA BeforeFacts ==
    ASSUME NEW q \in Seq(Bytes), NEW n \in Nat, InOrder(q, n), SizesAssumption
    PROVE  /\ Before(q, n) \in Nat /\ Before(q, n) <= n /\ (q # <<>> => Before(q, n) < n)
           /\ \A j \in 1 .. Len(q) : q[j] \in Seq(Nat) /\ q[j][1] \in Nat \ {0} /\ Len(q[j]) \in Nat \ {0}
<1>1. ASSUME NEW j \in 1 .. Len(q)
      PROVE  q[j] \in Seq(Nat) /\ q[j][1] \in Nat \ {0} /\ Len(q[j]) \in Nat \ {0} /\ q[j][1] <= n
  <2>1. q[j] \in Bytes /\ Len(q[j]) > 0 /\ q[j][1] <= n
    BY ElementOfSeq DEF InOrder
  <2>2. q[j] \in Seq(1 .. MaxBytes) /\ q[j] \in Seq(Nat) /\ MaxBytes \in Nat
    BY <2>1, SeqMonotonic DEF Bytes, SizesAssumption
  <2>3. 1 \in 1 .. Len(q[j]) /\ Len(q[j]) \in Nat
    BY <2>1, <2>2
  <2>4. q[j][1] \in 1 .. MaxBytes
    BY <2>2, <2>3, ElementOfSeq
  <2> QED BY <2>1, <2>2, <2>3, <2>4
<1>2. q # <<>> => 1 \in 1 .. Len(q)
  BY EmptySeq
<1> QED BY <1>1, <1>2 DEF Before

(* Put together, the pieces in order are the bytes that were not taken.    *)
LEMMA FlattenFacts ==
    ASSUME NEW q \in Seq(Bytes), NEW n \in Nat, InOrder(q, n), SizesAssumption
    PROVE  /\ FlattenSeq(q) \in Seq(Nat) /\ Len(FlattenSeq(q)) = n - Before(q, n)
           /\ \A i \in 1 .. Len(FlattenSeq(q)) : FlattenSeq(q)[i] = Before(q, n) + i
<1>0. PICK b : b = Before(q, n)
  OBVIOUS
<1>1. /\ Len(q) \in Nat /\ b \in Nat /\ b <= n
      /\ \A j \in 1 .. Len(q) : q[j] \in Seq(Nat) /\ q[j][1] \in Nat \ {0} /\ Len(q[j]) \in Nat \ {0}
  BY <1>0, BeforeFacts
<1>2. CASE q = <<>>
  <2>1. Len(q) = 0 /\ FlattenSeq(q) = <<>> /\ Before(q, n) = n
    BY <1>2 DEF FlattenSeq, Before
  <2> QED BY <1>0, <2>1
<1>3. CASE q # <<>>
  <2> DEFINE Step(g, k) == g[k - 1] \o q[k]
             Rule(g) == [k \in 1 .. Len(q) |-> IF k = 1 THEN q[k] ELSE Step(g, k)]
             Upto(m, f) == \A k \in 1 .. m : f[k] = IF k = 1 THEN q[k] ELSE Step(f, k)
             flat == CHOOSE g : g = Rule(g)
             Good(k) == /\ flat[k] \in Seq(Nat) /\ Len(flat[k]) = q[k][1] + Len(q[k]) - 1 - b
                        /\ \A i \in 1 .. Len(flat[k]) : flat[k][i] = b + i
  <2>1. Len(q) \in Nat \ {0} /\ b = q[1][1] - 1
    BY <1>0, <1>1, <1>3, EmptySeq DEF Before
  <2>2. \E f : f = [k \in 1 .. Len(q) |-> f[k]] /\ Upto(Len(q), f)
    <3> DEFINE Bad == {m \in 1 .. Len(q) : ~\E f : f = [k \in 1 .. m |-> f[k]] /\ Upto(m, f)}
    <3>1. SUFFICES ASSUME Bad # {} PROVE FALSE
      <4>1. Len(q) \in 1 .. Len(q)
        BY <2>1
      <4> QED BY <4>1
    <3>2. PICK m \in Bad : \A l \in Bad : m <= l
      <4> HIDE DEF Upto
      <4>1. Bad \in SUBSET Nat
        OBVIOUS
      <4> HIDE DEF Bad
      <4> QED BY <3>1, <4>1, LeastExists
    <3>3. CASE m = 1
      <4> DEFINE f == [k \in 1 .. 1 |-> q[k]]
      <4>1. f = [k \in 1 .. 1 |-> f[k]] /\ Upto(1, f)
        OBVIOUS
      <4> HIDE DEF f, Upto
      <4> QED BY <3>3, <4>1
    <3>4. CASE m # 1
      <4>1. m - 1 \in 1 .. Len(q) /\ m - 1 \notin Bad /\ m \in Nat
        BY <2>1, <3>2, <3>4
      <4>2. PICK f : f = [k \in 1 .. (m - 1) |-> f[k]] /\ Upto(m - 1, f)
        <5> HIDE DEF Upto
        <5> QED BY <4>1
      <4> DEFINE g == [k \in 1 .. m |-> IF k = m THEN Step(f, m) ELSE f[k]]
      <4>3. g = [k \in 1 .. m |-> g[k]]
        OBVIOUS
      <4>4. ASSUME NEW k \in 1 .. m PROVE g[k] = IF k = 1 THEN q[k] ELSE Step(g, k)
        <5>1. k # m => k \in 1 .. (m - 1) /\ g[k] = f[k] /\ (k # 1 => g[k - 1] = f[k - 1])
          BY <3>4, <4>1
        <5>2. k = m => g[k] = Step(f, m) /\ g[m - 1] = f[m - 1]
          <6>1. m \in 1 .. m /\ m - 1 \in 1 .. m /\ m - 1 # m
            BY <3>4, <4>1
          <6> QED BY <6>1
        <5> QED BY <3>4, <4>1, <4>2, <5>1, <5>2
      <4>5. Upto(m, g)
        <5> HIDE DEF g
        <5> QED BY <4>4
      <4> HIDE DEF Upto, g
      <4> QED BY <4>3, <4>5
    <3> QED BY <3>3, <3>4
  <2>3. flat = Rule(flat)
    <3>1. PICK f : f = [k \in 1 .. Len(q) |-> f[k]] /\ Upto(Len(q), f)
      <4> HIDE DEF Upto
      <4> QED BY <2>2
    <3>2. f = Rule(f)
      BY <3>1
    <3> HIDE DEF Rule
    <3> QED BY <3>2
  <2>4. FlattenSeq(q) = flat[Len(q)]
    BY <2>1 DEF FlattenSeq
  <2> HIDE DEF flat
  <2>5. \A k \in 1 .. Len(q) : flat[k] = IF k = 1 THEN q[1] ELSE flat[k - 1] \o q[k]
    BY <2>3
  <2>6. \A k \in 1 .. Len(q) : Good(k)
    <3> DEFINE Bad == {m \in 1 .. Len(q) : ~Good(m)}
    <3>1. SUFFICES ASSUME Bad # {} PROVE FALSE
      OBVIOUS
    <3>2. PICK m \in Bad : \A l \in Bad : m <= l
      <4> HIDE DEF Good
      <4>1. Bad \in SUBSET Nat
        OBVIOUS
      <4> HIDE DEF Bad
      <4> QED BY <3>1, <4>1, LeastExists
    <3>3. m \in 1 .. Len(q) /\ ~Good(m)
      <4> HIDE DEF Good
      <4> QED BY <3>2
    <3>4. /\ q[m] \in Seq(Nat) /\ q[m][1] \in Nat \ {0} /\ Len(q[m]) \in Nat \ {0}
          /\ \A i \in 1 .. Len(q[m]) : q[m][i] = q[m][1] + i - 1
      BY <1>1, <3>3 DEF InOrder
    <3>5. CASE m = 1
      <4>1. flat[1] = q[1]
        BY <2>5, <3>3, <3>5
      <4> QED BY <2>1, <3>3, <3>4, <3>5, <4>1
    <3>6. CASE m # 1
      <4>1. m - 1 \in 1 .. Len(q) /\ m - 1 \in 1 .. (Len(q) - 1) /\ m - 1 < m
        BY <2>1, <3>3, <3>6
      <4>2. Good(m - 1)
        <5> HIDE DEF Good
        <5>1. m - 1 \notin Bad
          <6> HIDE DEF Bad
          <6> QED BY <3>2, <3>3, <4>1
        <5> QED BY <4>1, <5>1
      <4>3. q[m][1] = q[m - 1][1] + Len(q[m - 1])
        BY <4>1 DEF InOrder
      <4>4. flat[m] = flat[m - 1] \o q[m]
        BY <2>5, <3>3, <3>6
      <4>10. PICK s : s = flat[m - 1]
        OBVIOUS
      <4>11. PICK t : t = q[m]
        OBVIOUS
      <4>5. s \in Seq(Nat) /\ t \in Seq(Nat) /\ Len(s) = t[1] - 1 - b /\ \A i \in 1 .. Len(s) : s[i] = b + i
        <5>1. Len(s) = q[m - 1][1] + Len(q[m - 1]) - 1 - b /\ \A i \in 1 .. Len(s) : s[i] = b + i
          BY <4>2, <4>10
        <5>2. t[1] = q[m - 1][1] + Len(q[m - 1])
          BY <4>3, <4>11
        <5>3. s \in Seq(Nat) /\ t \in Seq(Nat)
          BY <3>4, <4>2, <4>10, <4>11
        <5>4. q[m - 1][1] \in Nat /\ Len(q[m - 1]) \in Nat
          BY <1>1, <4>1
        <5>5. Len(s) = t[1] - 1 - b
          <6>1. PICK u \in Nat : u = q[m - 1][1]
            BY <5>4
          <6>2. PICK v \in Nat : v = Len(q[m - 1])
            BY <5>4
          <6>3. Len(s) = u + v - 1 - b
            BY <5>1, <6>1, <6>2
          <6>4. t[1] = u + v
            BY <5>2, <6>1, <6>2
          <6> QED BY <1>1, <6>3, <6>4
        <5> QED BY <5>1, <5>3, <5>5
      <4>6. \A i \in 1 .. Len(t) : t[i] = b + Len(s) + i
        <5> SUFFICES ASSUME NEW i \in 1 .. Len(t) PROVE t[i] = b + Len(s) + i
          OBVIOUS
        <5>1. t[i] = t[1] + i - 1 /\ t[1] \in Nat /\ i \in Nat
          BY <3>4, <4>11
        <5>2. Len(s) = t[1] - 1 - b /\ b \in Nat
          BY <1>1, <4>5
        <5> QED BY <5>1, <5>2
      <4>7. /\ s \o t \in Seq(Nat) /\ Len(s \o t) = Len(s) + Len(t)
            /\ \A i \in 1 .. Len(s \o t) : (s \o t)[i] = b + i
        BY <1>1, <4>5, <4>6, Joined
      <4>8. flat[m] = s \o t /\ q[m] = t /\ t[1] \in Nat /\ Len(t) \in Nat /\ b \in Nat
        BY <1>1, <3>4, <4>4, <4>10, <4>11
      <4>9. Good(m)
        <5>1. Len(s \o t) = q[m][1] + Len(q[m]) - 1 - b
          <6>1. PICK u \in Nat : u = t[1]
            BY <4>8
          <6>2. PICK v \in Nat : v = Len(t)
            BY <4>8
          <6>3. Len(s \o t) = u - 1 - b + v
            BY <4>5, <4>7, <6>1, <6>2
          <6>4. Len(s \o t) = u + v - 1 - b
            BY <4>8, <6>3
          <6> QED BY <4>8, <6>1, <6>2, <6>4
        <5> QED BY <4>7, <4>8, <5>1
      <4> QED BY <3>3, <4>9
    <3> QED BY <3>5, <3>6
  <2>7. Len(q) \in 1 .. Len(q) /\ q[Len(q)][1] + Len(q[Len(q)]) = n + 1
    BY <2>1 DEF InOrder
  <2>8. Good(Len(q))
    <3> HIDE DEF Good
    <3> QED BY <2>6, <2>7
  <2>9. q[Len(q)][1] + Len(q[Len(q)]) - 1 - b = n - b
    <3>1. q[Len(q)][1] \in Nat /\ Len(q[Len(q)]) \in Nat
      BY <1>1, <2>7
    <3> QED BY <1>1, <2>7, <3>1
  <2> QED BY <1>0, <2>4, <2>8, <2>9
<1> QED BY <1>2, <1>3

(* deliver() takes bytes from the front: what is left is still in order.   *)
LEMMA DeliverFacts ==
    ASSUME NEW q \in Seq(Bytes), NEW n \in Nat, InOrder(q, n), SizesAssumption, q # <<>>
    PROVE  /\ Taken(q) \in Bytes /\ Len(Taken(q)) \in Nat \ {0}
           /\ \A k \in 1 .. Len(Taken(q)) : Taken(q)[k] = Before(q, n) + k
           /\ Rest(q) \in Seq(Bytes) /\ InOrder(Rest(q), n)
           /\ Before(Rest(q), n) = Before(q, n) + Len(Taken(q))
<1>1. PICK c : c = q[1]
  OBVIOUS
<1>2. 1 \in 1 .. Len(q) /\ Len(q) \in Nat \ {0}
  BY EmptySeq
<1>3. /\ c \in Bytes /\ c[1] \in Nat \ {0} /\ Len(c) \in Nat \ {0}
      /\ \A i \in 1 .. Len(c) : c[i] = c[1] + i - 1
      /\ Before(q, n) = c[1] - 1
  BY <1>1, <1>2, BeforeFacts, ElementOfSeq DEF InOrder, Before
<1>4. \A i \in 1 .. Len(c) : c[i] \in 1 .. MaxBytes
  BY <1>3, ElementOfSeq DEF Bytes
<1>5. BufferSize \in Nat \ {0} /\ MaxBytes \in Nat
  BY DEF SizesAssumption
<1>6. PICK m : m = IF Len(c) < BufferSize THEN Len(c) ELSE BufferSize
  OBVIOUS
<1>7. m \in Nat \ {0} /\ m <= Len(c) /\ Taken(q) = SubSeq(c, 1, m)
  BY <1>1, <1>3, <1>5, <1>6 DEF Taken
<1>8. /\ Taken(q) \in Bytes /\ Len(Taken(q)) = m
      /\ \A k \in 1 .. m : Taken(q)[k] = c[k]
  <2>1. \A i \in 1 .. m : c[i] \in 1 .. MaxBytes
    BY <1>3, <1>4, <1>7
  <2>2. /\ SubSeq(c, 1, m) \in Seq(1 .. MaxBytes)
        /\ Len(SubSeq(c, 1, m)) = IF 1 <= m THEN m - 1 + 1 ELSE 0
        /\ \A i \in 1 .. (m - 1 + 1) : SubSeq(c, 1, m)[i] = c[1 + i - 1]
    <3>1. 1 \in Int /\ m \in Int
      BY <1>7
    <3> QED BY <2>1, <3>1, SubSeqProperties
  <2> QED BY <1>7, <2>2 DEF Bytes
<1>9. \A k \in 1 .. Len(Taken(q)) : Taken(q)[k] = Before(q, n) + k
  <2> SUFFICES ASSUME NEW k \in 1 .. Len(Taken(q)) PROVE Taken(q)[k] = Before(q, n) + k
    OBVIOUS
  <2>1. k \in 1 .. m /\ k \in 1 .. Len(c) /\ k \in Nat
    BY <1>3, <1>7, <1>8
  <2>2. Taken(q)[k] = c[1] + k - 1
    BY <1>3, <1>8, <2>1
  <2> QED BY <1>3, <2>1, <2>2
<1>10. CASE Len(c) <= BufferSize
  <2>1. m = Len(c)
    BY <1>3, <1>5, <1>6, <1>10
  <2>2. Rest(q) = SubSeq(q, 2, Len(q))
    BY <1>1, <1>10 DEF Rest
  <2>3. PICK r : r = Rest(q)
    OBVIOUS
  <2>4. /\ r \in Seq(Bytes) /\ Len(r) = Len(q) - 1
        /\ \A i \in 1 .. Len(r) : r[i] = q[i + 1]
    BY <1>2, <2>2, <2>3, PostsRun
  <2>5. \A j \in 1 .. Len(r) : /\ Len(r[j]) > 0 /\ r[j][1] <= n
                               /\ \A i \in 1 .. Len(r[j]) : r[j][i] = r[j][1] + i - 1
    <3> SUFFICES ASSUME NEW j \in 1 .. Len(r)
                 PROVE  /\ Len(r[j]) > 0 /\ r[j][1] <= n
                        /\ \A i \in 1 .. Len(r[j]) : r[j][i] = r[j][1] + i - 1
      OBVIOUS
    <3>1. j + 1 \in 1 .. Len(q) /\ r[j] = q[j + 1]
      BY <1>2, <2>4
    <3> QED BY <3>1 DEF InOrder
  <2>6. \A j \in 1 .. (Len(r) - 1) : r[j + 1][1] = r[j][1] + Len(r[j])
    <3> SUFFICES ASSUME NEW j \in 1 .. (Len(r) - 1) PROVE r[j + 1][1] = r[j][1] + Len(r[j])
      OBVIOUS
    <3>1. j + 1 \in 1 .. (Len(q) - 1) /\ j \in 1 .. Len(r) /\ j + 1 \in 1 .. Len(r)
      BY <1>2, <2>4
    <3>2. r[j] = q[j + 1] /\ r[j + 1] = q[j + 1 + 1]
      BY <2>4, <3>1
    <3> QED BY <3>1, <3>2 DEF InOrder
  <2>7. CASE Len(q) = 1
    <3>1. r = <<>> /\ Len(r) = 0
      BY <2>4, <2>7, EmptySeq
    <3>2. c[1] + Len(c) = n + 1
      BY <1>1, <1>2, <2>7 DEF InOrder
    <3>3. Before(r, n) = Before(q, n) + Len(Taken(q))
      BY <1>3, <1>8, <2>1, <3>1, <3>2 DEF Before
    <3>4. InOrder(r, n)
      BY <3>1 DEF InOrder
    <3> QED BY <1>7, <1>8, <1>9, <2>3, <2>4, <3>3, <3>4
  <2>8. CASE Len(q) # 1
    <3>1. Len(r) \in 1 .. Len(r) /\ 1 \in 1 .. Len(r) /\ r # <<>> /\ 1 \in 1 .. (Len(q) - 1)
      BY <1>2, <2>4, <2>8, EmptySeq
    <3>2. r[1] = q[2] /\ r[Len(r)] = q[Len(q)] /\ q[2][1] = c[1] + Len(c)
      <4>1. r[1] = q[1 + 1] /\ r[Len(r)] = q[Len(r) + 1] /\ Len(r) + 1 = Len(q)
        BY <1>2, <2>4, <3>1
      <4> QED BY <1>1, <3>1, <4>1 DEF InOrder
    <3>3. Before(r, n) = Before(q, n) + Len(Taken(q))
      <4>1. Before(r, n) = r[1][1] - 1
        BY <3>1 DEF Before
      <4>2. r[1][1] = c[1] + Len(c) /\ c[1] \in Nat /\ Len(c) \in Nat
        BY <1>3, <3>2
      <4>3. Before(q, n) = c[1] - 1 /\ Len(Taken(q)) = Len(c)
        BY <1>3, <1>8, <2>1
      <4> QED BY <4>1, <4>2, <4>3
    <3>4. r[Len(r)][1] + Len(r[Len(r)]) = n + 1
      BY <1>2, <3>2 DEF InOrder
    <3>5. InOrder(r, n)
      BY <2>5, <2>6, <3>4 DEF InOrder
    <3> QED BY <1>7, <1>8, <1>9, <2>3, <2>4, <3>3, <3>5
  <2> QED BY <2>7, <2>8
<1>11. CASE ~(Len(c) <= BufferSize)
  <2>1. m = BufferSize /\ m < Len(c)
    BY <1>3, <1>5, <1>6, <1>11
  <2>2. PICK d : d = SubSeq(c, BufferSize + 1, Len(c))
    OBVIOUS
  <2>3. /\ d \in Bytes /\ Len(d) = Len(c) - m /\ Len(d) \in Nat \ {0}
        /\ \A i \in 1 .. Len(d) : d[i] = c[m + i]
    <3>1. BufferSize + 1 \in Int /\ Len(c) \in Int /\ \A i \in (BufferSize + 1) .. Len(c) : c[i] \in 1 .. MaxBytes
      BY <1>3, <1>4, <1>5
    <3>2. /\ d \in Seq(1 .. MaxBytes)
          /\ Len(d) = IF BufferSize + 1 <= Len(c) THEN Len(c) - (BufferSize + 1) + 1 ELSE 0
          /\ \A i \in 1 .. (Len(c) - (BufferSize + 1) + 1) : d[i] = c[BufferSize + 1 + i - 1]
      BY <2>2, <3>1, SubSeqProperties
    <3>3. Len(d) = Len(c) - m /\ Len(d) \in Nat \ {0}
      BY <1>3, <1>5, <2>1, <3>2
    <3>4. \A i \in 1 .. Len(d) : d[i] = c[m + i]
      <4> SUFFICES ASSUME NEW i \in 1 .. Len(d) PROVE d[i] = c[m + i]
        OBVIOUS
      <4>1. i \in 1 .. (Len(c) - (BufferSize + 1) + 1) /\ BufferSize + 1 + i - 1 = m + i
        BY <1>3, <1>5, <2>1, <3>3
      <4> QED BY <3>2, <4>1
    <3> QED BY <3>2, <3>3, <3>4 DEF Bytes
  <2>4. d[1] = c[1] + m
    <3>1. 1 \in 1 .. Len(d) /\ m + 1 \in 1 .. Len(c) /\ m \in Nat /\ c[1] \in Nat
      BY <1>3, <1>7, <2>1, <2>3
    <3>2. d[1] = c[m + 1] /\ c[m + 1] = c[1] + (m + 1) - 1
      BY <1>3, <2>3, <3>1
    <3> QED BY <3>1, <3>2
  <2>5. \A i \in 1 .. Len(d) : d[i] = d[1] + i - 1
    <3> SUFFICES ASSUME NEW i \in 1 .. Len(d) PROVE d[i] = d[1] + i - 1
      OBVIOUS
    <3>1. m + i \in 1 .. Len(c) /\ m \in Nat /\ i \in Nat /\ c[1] \in Nat
      BY <1>3, <1>7, <2>1, <2>3
    <3>2. d[i] = c[1] + (m + i) - 1
      BY <1>3, <2>3, <3>1
    <3> QED BY <2>4, <3>1, <3>2
  <2>6. PICK r : r = Rest(q)
    OBVIOUS
  <2>7. r = [q EXCEPT ![1] = d]
    BY <1>1, <1>11, <2>2, <2>6 DEF Rest
  <2>8. /\ r \in Seq(Bytes) /\ Len(r) = Len(q) /\ r[1] = d
        /\ \A i \in 1 .. Len(q) : i # 1 => r[i] = q[i]
    BY <1>2, <2>3, <2>7, ExceptSeq
  <2>9. d[1] <= n /\ (Len(q) = 1 => d[1] + Len(d) = n + 1)
    <3>1. CASE Len(q) = 1
      <4>1. c[1] + Len(c) = n + 1
        BY <1>1, <1>2, <3>1 DEF InOrder
      <4>2. c[1] \in Nat /\ Len(c) \in Nat /\ m \in Nat /\ Len(d) \in Nat \ {0} /\ Len(d) = Len(c) - m
        BY <1>3, <1>7, <2>3
      <4> QED BY <2>4, <4>1, <4>2
    <3>2. CASE Len(q) # 1
      <4>1. 1 \in 1 .. (Len(q) - 1) /\ 2 \in 1 .. Len(q)
        <5>1. PICK l \in Nat \ {0} : l = Len(q)
          BY <1>2
        <5> QED BY <3>2, <5>1
      <4>2. q[1 + 1][1] = c[1] + Len(c) /\ q[2][1] <= n
        BY <1>1, <4>1 DEF InOrder
      <4> QED BY <1>3, <1>7, <2>1, <2>4, <3>2, <4>2
    <3> QED BY <3>1, <3>2
  <2>10. \A j \in 1 .. Len(r) : /\ Len(r[j]) > 0 /\ r[j][1] <= n
                                /\ \A i \in 1 .. Len(r[j]) : r[j][i] = r[j][1] + i - 1
    <3> SUFFICES ASSUME NEW j \in 1 .. Len(r)
                 PROVE  /\ Len(r[j]) > 0 /\ r[j][1] <= n
                        /\ \A i \in 1 .. Len(r[j]) : r[j][i] = r[j][1] + i - 1
      OBVIOUS
    <3>1. CASE j = 1
      BY <2>3, <2>5, <2>8, <2>9, <3>1
    <3>2. CASE j # 1
      BY <2>8, <3>2 DEF InOrder
    <3> QED BY <3>1, <3>2
  <2>11. \A j \in 1 .. (Len(r) - 1) : r[j + 1][1] = r[j][1] + Len(r[j])
    <3> SUFFICES ASSUME NEW j \in 1 .. (Len(r) - 1) PROVE r[j + 1][1] = r[j][1] + Len(r[j])
      OBVIOUS
    <3>1. j \in 1 .. (Len(q) - 1) /\ j + 1 \in 1 .. Len(q) /\ j + 1 # 1 /\ j \in 1 .. Len(q)
      BY <1>2, <2>8
    <3>2. r[j + 1] = q[j + 1] /\ q[j + 1][1] = q[j][1] + Len(q[j])
      BY <2>8, <3>1 DEF InOrder
    <3>3. CASE j = 1
      <4>1. r[2][1] = c[1] + Len(c)
        BY <1>1, <3>2, <3>3
      <4>2. c[1] \in Nat /\ Len(c) \in Nat /\ m \in Nat /\ Len(d) = Len(c) - m
        BY <1>3, <1>7, <2>3
      <4>3. c[1] + Len(c) = d[1] + Len(d)
        BY <2>4, <4>2
      <4> QED BY <2>8, <3>3, <4>1, <4>3
    <3>4. CASE j # 1
      BY <2>8, <3>1, <3>2, <3>4
    <3> QED BY <3>3, <3>4
  <2>12. Len(r) > 0 => r[Len(r)][1] + Len(r[Len(r)]) = n + 1
    <3>1. CASE Len(q) = 1
      BY <2>8, <2>9, <3>1
    <3>2. CASE Len(q) # 1
      <4>1. r[Len(r)] = q[Len(q)]
        BY <1>2, <2>8, <3>2
      <4> QED BY <1>2, <4>1 DEF InOrder
    <3> QED BY <3>1, <3>2
  <2>13. InOrder(r, n)
    BY <2>10, <2>11, <2>12 DEF InOrder
  <2>14. Before(r, n) = Before(q, n) + Len(Taken(q))
    <3>1. r # <<>>
      BY <1>2, <2>8, EmptySeq
    <3> QED BY <1>3, <1>7, <1>8, <2>4, <2>8, <3>1 DEF Before
  <2> QED BY <1>7, <1>8, <1>9, <2>6, <2>8, <2>13, <2>14
<1> QED BY <1>3, <1>5, <1>10, <1>11

(* receive() puts the next bytes behind.                                   *)
LEMMA ReceiveFacts ==
    ASSUME NEW q \in Seq(Bytes), NEW n \in Nat, NEW k \in Nat \ {0}, n + k <= MaxBytes,
           InOrder(q, n), SizesAssumption,
           NEW c, c = [i \in 1 .. k |-> n + i]
    PROVE  /\ c \in Bytes /\ Append(q, c) \in Seq(Bytes) /\ Append(q, c) # <<>>
           /\ InOrder(Append(q, c), n + k)
           /\ Before(Append(q, c), n + k) = Before(q, n)
<1>1. MaxBytes \in Nat
  BY DEF SizesAssumption
<1>2. c \in Bytes /\ Len(c) = k /\ c[1] = n + 1 /\ \A i \in 1 .. k : c[i] = n + i
  <2>1. c \in [1 .. k -> 1 .. MaxBytes] /\ DOMAIN c = 1 .. k /\ \A i \in 1 .. k : c[i] = n + i
    BY <1>1
  <2>2. c \in Seq(1 .. MaxBytes)
    BY <2>1
  <2>3. Len(c) = k /\ 1 \in 1 .. k
    BY <2>1, <2>2
  <2> QED BY <2>1, <2>2, <2>3 DEF Bytes
<1>3. PICK r : r = Append(q, c)
  OBVIOUS
<1>4. /\ r \in Seq(Bytes) /\ Len(r) = Len(q) + 1 /\ r[Len(q) + 1] = c /\ Len(q) \in Nat
      /\ \A i \in 1 .. Len(q) : r[i] = q[i]
  BY <1>2, <1>3, PostsGrow
<1>5. \A j \in 1 .. Len(r) : /\ Len(r[j]) > 0 /\ r[j][1] <= n + k
                             /\ \A i \in 1 .. Len(r[j]) : r[j][i] = r[j][1] + i - 1
  <2> SUFFICES ASSUME NEW j \in 1 .. Len(r)
               PROVE  /\ Len(r[j]) > 0 /\ r[j][1] <= n + k
                      /\ \A i \in 1 .. Len(r[j]) : r[j][i] = r[j][1] + i - 1
    OBVIOUS
  <2>1. CASE j = Len(q) + 1
    BY <1>2, <1>4, <2>1
  <2>2. CASE j # Len(q) + 1
    <3>1. j \in 1 .. Len(q) /\ r[j] = q[j]
      BY <1>4, <2>2
    <3>2. r[j][1] \in Nat /\ r[j][1] <= n
      BY <3>1, BeforeFacts DEF InOrder
    <3> QED BY <3>1, <3>2 DEF InOrder
  <2> QED BY <2>1, <2>2
<1>6. \A j \in 1 .. (Len(r) - 1) : r[j + 1][1] = r[j][1] + Len(r[j])
  <2> SUFFICES ASSUME NEW j \in 1 .. (Len(r) - 1) PROVE r[j + 1][1] = r[j][1] + Len(r[j])
    OBVIOUS
  <2>1. CASE j = Len(q)
    <3>1. r[j] = q[Len(q)] /\ r[j + 1] = c /\ Len(q) > 0
      BY <1>4, <2>1
    <3> QED BY <1>2, <3>1 DEF InOrder
  <2>2. CASE j # Len(q)
    <3>1. j \in 1 .. Len(q) /\ j + 1 \in 1 .. Len(q) /\ j \in 1 .. (Len(q) - 1)
      <4>1. PICK l \in Nat : l = Len(q)
        BY <1>4
      <4>2. j \in 1 .. l /\ j # l
        BY <1>4, <2>2, <4>1
      <4> QED BY <4>1, <4>2
    <3>2. r[j] = q[j] /\ r[j + 1] = q[j + 1]
      BY <1>4, <3>1
    <3> QED BY <3>1, <3>2 DEF InOrder
  <2> QED BY <2>1, <2>2
<1>7. r[Len(r)][1] + Len(r[Len(r)]) = n + k + 1
  BY <1>2, <1>4
<1>8. InOrder(r, n + k)
  BY <1>5, <1>6, <1>7 DEF InOrder
<1>9. r # <<>>
  BY <1>4, EmptySeq
<1>10. Before(r, n + k) = Before(q, n)
  <2>1. CASE q = <<>>
    BY <1>2, <1>4, <1>9, <2>1 DEF Before
  <2>2. CASE q # <<>>
    <3>1. r[1] = q[1]
      BY <1>4, <2>2, EmptySeq
    <3> QED BY <1>9, <2>2, <3>1 DEF Before
  <2> QED BY <2>1, <2>2
<1> QED BY <1>2, <1>3, <1>4, <1>8, <1>9, <1>10

LEMMA RepaysLater ==
    ASSUME NEW p, NEW c \in Nat, NEW n \in Nat, NEW h \in Nat, NEW k \in Nat, Repays(p, c, n, h)
    PROVE  Repays(p, c + k, n + k, h)
<1>1. PICK at \in [1 .. (Len(p) + 1) -> Nat] : Returns(at, p, c, n, h)
  BY DEF Repays
<1>2. at[1] + c = n => at[1] + (c + k) = n + k
  <2>1. CASE at[1] \in Nat
    BY <2>1
  <2>2. CASE at[1] \notin Nat
    <3>1. 1 \notin 1 .. (Len(p) + 1)
      BY <1>1, <2>2
    <3> QED BY <1>1, <3>1
  <2> QED BY <2>1, <2>2
<1> QED BY <1>1, <1>2 DEF Repays, Returns

LEMMA ClosuresArePosts ==
    ASSUME NEW p \in 0 .. MaxPulls, NEW b \in Bytes, SizesAssumption,
           NEW e \in {"data", "eof", "failed", "aborted", "started"},
           NEW k \in {"consume", "drained", "cancelRead", "cancel"}
    PROVE  Handler(p, b, e) \in Post /\ Closure("consume", p, b, "data") \in Post /\ Plain(k) \in Post
<1>1. 0 \in 0 .. MaxPulls /\ <<>> \in Bytes
  BY DEF SizesAssumption, Bytes
<1> QED BY <1>1 DEF Handler, Plain, Closure, Post

(* deliver(), of a queue in order that is not empty.                       *)
LEMMA DeliverStep ==
    ASSUME SizesAssumption, posts \in Seq(Post), terminal \in {"open", "eof"},
           NEW p \in 0 .. MaxPulls, NEW q \in Seq(Bytes), q # <<>>, NEW n \in Nat, InOrder(q, n),
           NEW c \in Nat, terminal = "open" => Repays(posts, c, n, Before(q, n)),
           drained \in {"no", "signalled", "called"}, Deliver(p, q)
    PROVE  /\ chunks' \in Seq(Bytes) /\ InOrder(chunks', n)
           /\ posts' \in Seq(Post) /\ Len(posts) \in Nat
           /\ \A i \in 1 .. Len(posts) : posts'[i] = posts[i]
           /\ posts'[Len(posts) + 1].kind = "consume"
           /\ \E b \in Bytes : /\ posts'[Len(posts) + 2] = Handler(p, b, "data")
                               /\ Len(b) \in Nat \ {0}
                               /\ \A k \in 1 .. Len(b) : b[k] = Before(q, n) + k
                               /\ Before(chunks', n) = Before(q, n) + Len(b)
           /\ \/ Len(posts') = Len(posts) + 2 /\ drained' = drained
              \/ /\ Len(posts') = Len(posts) + 3 /\ posts'[Len(posts) + 3] = Plain("drained")
                 /\ drained = "no" /\ drained' = "signalled" /\ chunks' = <<>> /\ terminal = "eof"
           /\ terminal = "open" => Repays(posts', c, n, Before(chunks', n)) /\ drained' = drained
<1>1. PICK b : b = Taken(q)
  OBVIOUS
<1>2. /\ b \in Bytes /\ Len(b) \in Nat \ {0}
      /\ \A k \in 1 .. Len(b) : b[k] = Before(q, n) + k
      /\ chunks' = Rest(q) /\ Rest(q) \in Seq(Bytes) /\ InOrder(Rest(q), n)
      /\ Before(Rest(q), n) = Before(q, n) + Len(b)
  BY <1>1, DeliverFacts DEF Deliver
<1>3. PICK x : x = Closure("consume", p, b, "data")
  OBVIOUS
<1>4. PICK y : y = Handler(p, b, "data")
  OBVIOUS
<1>5. PICK z : z = Plain("drained")
  OBVIOUS
<1>6. x \in Post /\ y \in Post /\ z \in Post
  BY <1>2, <1>3, <1>4, <1>5, ClosuresArePosts
<1>7. x.kind = "consume" /\ y.kind = "handler" /\ Cost(x) = Len(b) /\ Cost(y) = 0
  BY <1>3, <1>4 DEF Cost, Handler, Closure
<1>8. PICK ended : ended = (Rest(q) = <<>> /\ terminal # "open")
  OBVIOUS
<1>9. posts' = posts \o <<x, y>> \o Signal(ended) /\ Mark(ended)
  BY <1>1, <1>3, <1>4, <1>8 DEF Deliver
<1>10. PICK one : one = Append(posts, x)
  OBVIOUS
<1>11. PICK two : two = Append(one, y)
  OBVIOUS
<1>12. /\ one \in Seq(Post) /\ Len(one) = Len(posts) + 1 /\ one[Len(posts) + 1] = x
       /\ \A i \in 1 .. Len(posts) : one[i] = posts[i]
  BY <1>6, <1>10, PostsGrow
<1>13. /\ two \in Seq(Post) /\ Len(two) = Len(one) + 1 /\ two[Len(one) + 1] = y
       /\ \A i \in 1 .. Len(one) : two[i] = one[i]
  BY <1>6, <1>11, <1>12, PostsGrow
<1>14. posts \o <<x, y>> = two
  BY <1>6, <1>10, <1>11, PostTwo
<1>15. Len(posts) \in Nat
  OBVIOUS
<1>16. /\ two \in Seq(Post) /\ Len(two) = Len(posts) + 2
       /\ two[Len(posts) + 1] = x /\ two[Len(posts) + 2] = y
       /\ \A i \in 1 .. Len(posts) : two[i] = posts[i]
  <2>1. Len(posts) + 1 \in 1 .. Len(one) /\ \A i \in 1 .. Len(posts) : i \in 1 .. Len(one)
    BY <1>12, <1>15
  <2> QED BY <1>12, <1>13, <1>15, <2>1
<1>17. terminal = "open" => Repays(two, c, n, Before(Rest(q), n))
  <2> SUFFICES ASSUME terminal = "open" PROVE Repays(two, c, n, Before(Rest(q), n))
    OBVIOUS
  <2>1. Before(q, n) \in Nat
    BY BeforeFacts
  <2>2. Repays(one, c, n, Before(q, n) + Len(b))
    BY <1>6, <1>7, <1>10, <2>1, RepaysMore
  <2>3. Before(q, n) + Len(b) \in Nat /\ Before(q, n) + Len(b) + 0 = Before(q, n) + Len(b)
    BY <1>2, <2>1
  <2>4. Repays(two, c, n, Before(q, n) + Len(b) + Cost(y))
    BY <1>6, <1>11, <1>12, <2>2, <2>3, RepaysMore
  <2> QED BY <1>2, <1>7, <2>3, <2>4
<1>18. CASE ended /\ drained = "no"
  <2>1. posts' = Append(two, z) /\ drained' = "signalled"
    BY <1>5, <1>6, <1>9, <1>14, <1>16, <1>18, PostsGrow DEF Signal, Mark
  <2>2. /\ posts' \in Seq(Post) /\ Len(posts') = Len(two) + 1 /\ posts'[Len(two) + 1] = z
        /\ \A i \in 1 .. Len(two) : posts'[i] = two[i]
    BY <1>6, <1>16, <2>1, PostsGrow
  <2>3. /\ Len(posts') = Len(posts) + 3 /\ posts'[Len(posts) + 3] = z
        /\ \A i \in 1 .. Len(posts) : posts'[i] = posts[i]
        /\ posts'[Len(posts) + 1] = x /\ posts'[Len(posts) + 2] = y
    <3>1. /\ Len(two) + 1 = Len(posts) + 3 /\ Len(posts) + 1 \in 1 .. Len(two)
          /\ Len(posts) + 2 \in 1 .. Len(two)
          /\ \A i \in 1 .. Len(posts) : i \in 1 .. Len(two)
      BY <1>15, <1>16
    <3> QED BY <1>16, <2>2, <3>1
  <2>4. chunks' = <<>> /\ terminal = "eof"
    BY <1>2, <1>8, <1>18
  <2> QED BY <1>2, <1>4, <1>5, <1>7, <1>15, <1>18, <2>1, <2>2, <2>3, <2>4
<1>19. CASE ~(ended /\ drained = "no")
  <2>1. posts' = two /\ drained' = drained
    BY <1>9, <1>14, <1>16, <1>19, ConcatEmptySeq DEF Signal, Mark
  <2> QED BY <1>2, <1>4, <1>7, <1>15, <1>16, <1>17, <2>1
<1> QED BY <1>18, <1>19

(* finish_read(): one closure, and on_drained at the end of the body.      *)
LEMMA FinishStep ==
    ASSUME SizesAssumption, posts \in Seq(Post), NEW p \in 0 .. MaxPulls,
           NEW e \in {"eof", "failed", "aborted"}, FinishRead(p, e)
    PROVE  /\ posts' \in Seq(Post) /\ Len(posts) \in Nat
           /\ \A i \in 1 .. Len(posts) : posts'[i] = posts[i]
           /\ posts'[Len(posts) + 1].kind = "handler" /\ posts'[Len(posts) + 1].pull = p
           /\ posts'[Len(posts) + 1].bytes = <<>> /\ posts'[Len(posts) + 1].end = e
           /\ \/ Len(posts') = Len(posts) + 1 /\ drained' = drained
              \/ /\ Len(posts') = Len(posts) + 2 /\ posts'[Len(posts) + 2] = Plain("drained")
                 /\ drained = "no" /\ drained' = "signalled" /\ e = "eof"
<1>1. PICK y : y = Handler(p, <<>>, e)
  OBVIOUS
<1>2. PICK z : z = Plain("drained")
  OBVIOUS
<1>9. y.kind = "handler" /\ y.pull = p /\ y.bytes = <<>> /\ y.end = e
  BY <1>1 DEF Handler, Closure
<1>3. y \in Post /\ z \in Post
  <2>1. <<>> \in Bytes
    BY DEF Bytes
  <2> QED BY <1>1, <1>2, <2>1, ClosuresArePosts
<1>4. PICK one : one = Append(posts, y)
  OBVIOUS
<1>5. /\ one \in Seq(Post) /\ Len(one) = Len(posts) + 1 /\ one[Len(posts) + 1] = y
      /\ \A i \in 1 .. Len(posts) : one[i] = posts[i]
      /\ posts \o <<y>> = one
  BY <1>3, <1>4, PostsGrow
<1>6. Len(posts) \in Nat
  OBVIOUS
<1>7. CASE e = "eof" /\ drained = "no"
  <2>1. posts' = Append(one, z) /\ drained' = "signalled"
    BY <1>1, <1>2, <1>3, <1>5, <1>7, PostsGrow DEF FinishRead, Signal, Mark
  <2>2. /\ posts' \in Seq(Post) /\ Len(posts') = Len(one) + 1 /\ posts'[Len(one) + 1] = z
        /\ \A i \in 1 .. Len(one) : posts'[i] = one[i]
    BY <1>3, <1>5, <2>1, PostsGrow
  <2>3. /\ Len(posts) + 1 \in 1 .. Len(one) /\ Len(one) + 1 = Len(posts) + 2
        /\ \A i \in 1 .. Len(posts) : i \in 1 .. Len(one)
    BY <1>5, <1>6
  <2>4. posts'[Len(posts) + 1] = y
    BY <1>5, <2>2, <2>3
  <2> QED BY <1>2, <1>5, <1>6, <1>7, <1>9, <2>1, <2>2, <2>3, <2>4
<1>8. CASE ~(e = "eof" /\ drained = "no")
  <2>1. posts' = one /\ drained' = drained
    BY <1>1, <1>5, <1>8, ConcatEmptySeq DEF FinishRead, Signal, Mark
  <2> QED BY <1>5, <1>6, <1>9, <2>1
<1> QED BY <1>7, <1>8

-----------------------------------------------------------------------------
(* The steps. *)

LEMMA HandedFacts ==
    ASSUME SizesAssumption, BodyTypeOK, QueueInOrder, terminal \in {"open", "eof"}
    PROVE  /\ arrived \in Nat /\ Handed \in Nat /\ Handed <= arrived /\ InOrder(chunks, arrived)
           /\ (chunks = <<>> => Handed = arrived)
<1>1. arrived \in Nat /\ chunks \in Seq(Bytes) /\ InOrder(chunks, arrived)
  BY DEF BodyTypeOK, QueueInOrder, SizesAssumption
<1> QED BY <1>1, BeforeFacts DEF Handed, Before

(* The executor takes the first closure. *)
LEMMA RunFacts ==
    ASSUME BodyTypeOK, NEW k, Next1(k)
    PROVE  /\ DOMAIN posts = 1 .. Len(posts) /\ Len(posts) \in Nat \ {0}
           /\ posts[1] \in Post /\ posts[1].kind = k /\ 1 \in DOMAIN posts
           /\ Popped \in Seq(Post) /\ Len(Popped) = Len(posts) - 1
           /\ DOMAIN Popped = 1 .. Len(Popped)
           /\ \A i \in DOMAIN Popped : i + 1 \in DOMAIN posts /\ i + 1 # 1 /\ Popped[i] = posts[i + 1]
<1>1. posts \in Seq(Post) /\ Len(posts) > 0 /\ posts[1].kind = k
  BY DEF BodyTypeOK, Next1
<1>2. DOMAIN posts = 1 .. Len(posts) /\ Len(posts) \in Nat \ {0}
  <2>1. Len(posts) \in Nat
    BY <1>1
  <2> QED BY <1>1, <2>1
<1>3. /\ Popped \in Seq(Post) /\ Len(Popped) = Len(posts) - 1 /\ posts[1] \in Post
      /\ \A i \in 1 .. (Len(posts) - 1) : Popped[i] = posts[i + 1]
  BY <1>1, PostsRun DEF Popped
<1>4. DOMAIN Popped = 1 .. Len(Popped)
  BY <1>3
<1> QED BY <1>1, <1>2, <1>3, <1>4

LEMMA OneEndingRuns ==
    ASSUME BodyTypeOK, OneEnding, EndsAgree, NEW k, Next1(k), posts' = Popped,
           drained' = drained, EndsAgree'
    PROVE  OneEnding'
<1>1. drained' = "called" => chunks' = <<>> /\ ~told'
  BY DEF EndsAgree
<1>2. ASSUME NEW i \in DOMAIN posts', NEW j \in DOMAIN posts',
             posts'[i].kind = "drained", posts'[j].kind = "drained"
      PROVE  i = j /\ drained' = "signalled"
  <2>1. /\ i + 1 \in DOMAIN posts /\ posts'[i] = posts[i + 1]
        /\ j + 1 \in DOMAIN posts /\ posts'[j] = posts[j + 1] /\ i \in Nat /\ j \in Nat
    BY RunFacts
  <2>2. i + 1 = j + 1 /\ drained = "signalled"
    BY <1>2, <2>1 DEF OneEnding
  <2> QED BY <2>1, <2>2
<1> QED BY <1>1, <1>2 DEF OneEnding

LEMMA CreditRuns ==
    ASSUME SizesAssumption, BodyTypeOK, QueueInOrder, CreditComesBack, NEW k, Next1(k), posts' = Popped,
           terminal' = terminal, arrived' = arrived, chunks' = chunks,
           k # "consume" => credit' = credit,
           k = "consume" => credit' = Consumed(Len(posts[1].bytes))
    PROVE  CreditComesBack' /\ QueueInOrder'
<1>1. QueueInOrder'
  BY DEF QueueInOrder
<1>2. CASE terminal = "open"
  <2>1. /\ posts \in Seq(Post) /\ credit \in Nat /\ arrived \in Nat /\ Handed \in Nat /\ Handed <= arrived
        /\ Repays(posts, credit, arrived, Handed) /\ Len(posts) > 0
    BY <1>2, HandedFacts DEF BodyTypeOK, SizesAssumption, CreditComesBack, Next1
  <2>2. /\ credit >= Cost(posts[1])
        /\ Repays(SubSeq(posts, 2, Len(posts)), credit - Cost(posts[1]), arrived, Handed)
    BY <2>1, RepaysNext
  <2>3. posts[1] \in Post /\ posts[1].kind = k /\ Cost(posts[1]) \in Nat
    BY RunFacts, CostIsNat
  <2>4. credit' = credit - Cost(posts[1])
    BY <2>1, <2>2, <2>3 DEF Cost, Consumed
  <2> QED BY <1>1, <2>2, <2>4 DEF CreditComesBack, Popped, Handed
<1>3. CASE terminal # "open"
  BY <1>1, <1>3 DEF CreditComesBack
<1> QED BY <1>2, <1>3

(* Closures that are not a pull's come and go, or the first one has run.   *)
LEMMA PullsKept ==
    ASSUME PullsAgree, NEW s \in {0, 1}, DOMAIN posts' \subseteq Nat,
           \A i \in DOMAIN posts' : \/ i + s \in DOMAIN posts /\ posts'[i] = posts[i + s]
                                    \/ posts'[i].kind \notin {"handler", "cancelRead"},
           UNCHANGED <<arrived, parked, pull, given>>, terminal # "open" => terminal' # "open"
    PROVE  PullsAgree'
<1>1. \A i \in DOMAIN posts' : Own(i)' => i + s \in DOMAIN posts /\ posts'[i] = posts[i + s] /\ Own(i + s)
  BY DEF Own
<1>2. \A i \in DOMAIN posts' : posts'[i].kind # "cancelRead"
  BY DEF PullsAgree
<1>3. \A i \in DOMAIN posts' : posts'[i].kind = "handler" => posts'[i].pull <= pull'.id
  BY DEF PullsAgree
<1>4. \A i, j \in DOMAIN posts' : Own(i)' /\ Own(j)' => i = j
  <2> SUFFICES ASSUME NEW i \in DOMAIN posts', NEW j \in DOMAIN posts', Own(i)', Own(j)' PROVE i = j
    OBVIOUS
  <2>1. i + s = j + s
    BY <1>1 DEF PullsAgree
  <2>2. i \in Nat /\ j \in Nat /\ s \in Nat
    OBVIOUS
  <2> QED BY <2>1, <2>2
<1>5. \A i \in DOMAIN posts' : Own(i)' =>
        /\ parked' = 0 /\ pull'.st = "waiting" /\ posts'[i].end # "started"
        /\ posts'[i].end = "data" <=> posts'[i].bytes # <<>>
        /\ posts'[i].end = "eof" => Len(given') = arrived' /\ terminal' # "open"
  BY <1>1 DEF PullsAgree
<1>6. /\ parked' # 0 => parked' = pull'.id /\ pull'.st = "waiting"
      /\ pull'.st = "eof" => Len(given') = arrived' /\ terminal' # "open"
  BY DEF PullsAgree
<1> QED BY <1>2, <1>3, <1>4, <1>5, <1>6 DEF PullsAgree

LEMMA BytesKept ==
    ASSUME BytesInOrder, NEW s \in {0, 1}, given' = given,
           terminal' \in {"open", "eof"} => terminal \in {"open", "eof"} /\ Handed' = Handed,
           \A i \in Owed' : i + s \in Owed /\ posts'[i] = posts[i + s], Owed' = {} => Owed = {}
    PROVE  BytesInOrder'
<1> SUFFICES ASSUME terminal' \in {"open", "eof"}
             PROVE  /\ \A k \in 1 .. Len(given') : given'[k] = k
                    /\ \A i \in Owed' :
                          /\ \A k \in 1 .. Len(posts'[i].bytes) : posts'[i].bytes[k] = Len(given') + k
                          /\ Len(given') + Len(posts'[i].bytes) = Handed'
                    /\ Owed' = {} => Len(given') = Handed'
  BY DEF BytesInOrder
<1>1. /\ \A k \in 1 .. Len(given) : given[k] = k
      /\ Owed = {} => Len(given) = Handed
  BY DEF BytesInOrder
<1>2. ASSUME NEW j \in Owed
      PROVE  /\ \A k \in 1 .. Len(posts[j].bytes) : posts[j].bytes[k] = Len(given) + k
             /\ Len(given) + Len(posts[j].bytes) = Handed
  BY DEF BytesInOrder
<1>3. ASSUME NEW i \in Owed'
      PROVE  /\ \A k \in 1 .. Len(posts'[i].bytes) : posts'[i].bytes[k] = Len(given') + k
             /\ Len(given') + Len(posts'[i].bytes) = Handed'
  <2>1. i + s \in Owed /\ posts'[i] = posts[i + s]
    OBVIOUS
  <2>2. /\ \A k \in 1 .. Len(posts[i + s].bytes) : posts[i + s].bytes[k] = Len(given) + k
        /\ Len(given) + Len(posts[i + s].bytes) = Handed
    BY <1>2, <2>1
  <2> QED BY <2>1, <2>2
<1> QED BY <1>1, <1>3

(* What is left to a pull when the first closure was not its own.          *)
LEMMA OthersRun ==
    ASSUME SizesAssumption, BodyTypeOK, PullsAgree, BytesInOrder, NEW k, Next1(k), posts' = Popped,
           ~Own(1), UNCHANGED <<terminal, arrived, chunks, parked, pull, given>>
    PROVE  PullsAgree' /\ BytesInOrder'
<1>1. \A i \in DOMAIN posts' : i \in Nat /\ i + 1 \in DOMAIN posts /\ i + 1 # 1 /\ posts'[i] = posts[i + 1]
  BY RunFacts
<1>2. DOMAIN posts = 1 .. Len(posts) /\ Len(posts) \in Nat /\ DOMAIN posts' = 1 .. (Len(posts) - 1)
  BY RunFacts
<1>3. \A i \in DOMAIN posts' : i \in Owed' <=> i + 1 \in Owed
  BY <1>1 DEF Owed
<1>4. \A j \in Owed : j - 1 \in Owed'
  <2> SUFFICES ASSUME NEW j \in Owed PROVE j - 1 \in Owed'
    OBVIOUS
  <2>1. j \in 1 .. Len(posts) /\ j # 1
    BY <1>2 DEF Owed, Own
  <2>2. j - 1 \in DOMAIN posts' /\ j - 1 + 1 = j
    BY <1>2, <2>1
  <2> QED BY <1>3, <2>2
<1>5. PullsAgree'
  BY <1>1, PullsKept
<1>6. \A i \in Owed' : i + 1 \in Owed /\ posts'[i] = posts[i + 1]
  BY <1>1, <1>3 DEF Owed
<1>7. Handed' = Handed
  BY DEF Handed
<1>8. BytesInOrder'
  BY <1>4, <1>6, <1>7, BytesKept
<1> QED BY <1>5, <1>8

LEMMA EndsRun ==
    ASSUME EndsAgree, UNCHANGED <<terminal, chunks, parked, told>>,
           drained' = drained \/ (drained # "no" /\ drained' # "no")
    PROVE  EndsAgree'
  BY DEF EndsAgree

LEMMA HandlerKeeps ==
    ASSUME SizesAssumption, StreamInv, HandlerRuns
    PROVE  StreamInv'
<1>1. /\ BodyTypeOK /\ OneEnding /\ EndsAgree /\ QueueInOrder /\ CreditComesBack
      /\ Next1("handler") /\ posts' = Popped
      /\ UNCHANGED <<arrived, credit, refused, chunks, terminal, cancelled, told, drained, parked, teardown>>
  BY DEF StreamInv, HandlerRuns, senderVars
<1>2. PICK h : h = posts[1]
  OBVIOUS
<1>3. h \in Post /\ h.kind = "handler" /\ Popped \in Seq(Post)
  BY <1>1, <1>2, RunFacts
<1>4. h.bytes \in Bytes /\ h.end \in {"data", "eof", "failed", "aborted", "started"}
  BY <1>3 DEF Post
<1>5. BodyTypeOK'
  <2>1. given' \in Bytes /\ pull' \in [id : 0 .. MaxPulls,
                 st : {"idle", "waiting", "data", "eof", "failed", "stopped", "started"}]
    <3>1. given \o h.bytes \in Bytes
      BY <1>1, <1>4, ConcatProperties DEF BodyTypeOK, Bytes
    <3>2. CASE pull = [id |-> h.pull, st |-> "waiting"]
      BY <1>1, <1>2, <1>4, <3>1, <3>2 DEF HandlerRuns, BodyTypeOK
    <3>3. CASE pull # [id |-> h.pull, st |-> "waiting"]
      BY <1>1, <1>2, <3>3 DEF HandlerRuns, BodyTypeOK
    <3> QED BY <3>2, <3>3
  <2> QED BY <1>1, <1>3, <2>1 DEF BodyTypeOK
<1>6. EndsAgree' /\ NeverRefused'
  BY <1>1, EndsRun DEF StreamInv, NeverRefused
<1>7. OneEnding'
  BY <1>1, <1>6, OneEndingRuns
<1>8. CreditComesBack' /\ QueueInOrder'
  BY <1>1, CreditRuns
<1>9. ASSUME ~Stops PROVE PullsAgree' /\ BytesInOrder'
  <2>1. PullsAgree /\ BytesInOrder
    BY <1>9 DEF StreamInv
  <2>2. pull = [id |-> pull.id, st |-> pull.st]
    BY <1>1 DEF BodyTypeOK
  <2>3. Own(1) <=> pull.id = h.pull
    BY <1>2, <1>3 DEF Own
  <2>4. CASE ~Own(1)
    <3>1. pull # [id |-> h.pull, st |-> "waiting"]
      BY <2>2, <2>3, <2>4
    <3>2. UNCHANGED <<given, pull>>
      BY <1>2, <3>1 DEF HandlerRuns
    <3> QED BY <1>1, <2>1, <2>4, <3>2, OthersRun
  <2>5. CASE Own(1)
    <3>1. 1 \in DOMAIN posts /\ DOMAIN posts = 1 .. Len(posts) /\ Len(posts) \in Nat \ {0}
      BY <1>1, RunFacts
    <3>2. /\ parked = 0 /\ pull.st = "waiting" /\ h.end # "started"
          /\ h.end = "data" <=> h.bytes # <<>>
          /\ h.end = "eof" => Len(given) = arrived /\ terminal # "open"
      BY <1>2, <2>1, <2>5, <3>1 DEF PullsAgree
    <3>3. pull = [id |-> h.pull, st |-> "waiting"]
      BY <2>2, <2>3, <2>5, <3>2
    <3>4. /\ given' = given \o h.bytes /\ pull'.id = pull.id
          /\ pull'.st = IF h.end = "aborted" THEN "stopped" ELSE h.end
      BY <1>1, <1>2, <3>3 DEF HandlerRuns, BodyTypeOK
    <3>5. \A i \in DOMAIN posts' : /\ i \in Nat /\ i + 1 \in DOMAIN posts /\ i + 1 # 1
                                   /\ posts'[i] = posts[i + 1] /\ ~Own(i + 1)
      <4> SUFFICES ASSUME NEW i \in DOMAIN posts'
                   PROVE  /\ i \in Nat /\ i + 1 \in DOMAIN posts /\ i + 1 # 1
                          /\ posts'[i] = posts[i + 1] /\ ~Own(i + 1)
        OBVIOUS
      <4>1. i \in Nat /\ i + 1 \in DOMAIN posts /\ i + 1 # 1 /\ posts'[i] = posts[i + 1]
        BY <1>1, RunFacts
      <4> QED BY <2>1, <2>5, <3>1, <4>1 DEF PullsAgree
    <3>6. \A i \in DOMAIN posts' : ~Own(i)'
      BY <3>4, <3>5 DEF Own
    <3>7. Owed' = {}
      <4> SUFFICES ASSUME NEW i \in Owed' PROVE FALSE
        OBVIOUS
      <4> QED BY <3>6 DEF Owed, Own
    <3>8. given \in Seq(Nat) /\ h.bytes \in Seq(Nat) /\ Len(given) \in Nat /\ Len(h.bytes) \in Nat
      <4>1. MaxBytes \in Nat /\ given \in Seq(1 .. MaxBytes) /\ h.bytes \in Seq(1 .. MaxBytes)
        BY <1>1, <1>4 DEF SizesAssumption, BodyTypeOK, Bytes
      <4> QED BY <4>1, SeqMonotonic
    <3>9. /\ Len(given') = Len(given) + Len(h.bytes)
          /\ \A i \in 1 .. Len(given) + Len(h.bytes) :
                given'[i] = IF i <= Len(given) THEN given[i] ELSE h.bytes[i - Len(given)]
      BY <3>4, <3>8, ConcatProperties
    <3>10. h.end # "data" => Len(given') = Len(given)
      BY <3>2, <3>8, <3>9
    <3>11. PullsAgree'
      <4>5. /\ \A i \in DOMAIN posts' : posts'[i].kind # "cancelRead"
            /\ \A i \in DOMAIN posts' : posts'[i].kind = "handler" => posts'[i].pull <= pull'.id
        BY <2>1, <3>4, <3>5 DEF PullsAgree
      <4>2. pull'.st = "eof" => Len(given') = arrived' /\ terminal' # "open"
        BY <1>1, <3>2, <3>4, <3>10
      <4>3. parked' # 0 => parked' = pull'.id /\ pull'.st = "waiting"
        BY <1>1, <3>2
      <4>4. /\ \A i, j \in DOMAIN posts' : Own(i)' /\ Own(j)' => i = j
            /\ \A i \in DOMAIN posts' : Own(i)' =>
                  /\ parked' = 0 /\ pull'.st = "waiting" /\ posts'[i].end # "started"
                  /\ posts'[i].end = "data" <=> posts'[i].bytes # <<>>
                  /\ posts'[i].end = "eof" => Len(given') = arrived' /\ terminal' # "open"
        BY <3>6
      <4> QED BY <4>2, <4>3, <4>4, <4>5 DEF PullsAgree
    <3>12. BytesInOrder'
      <4> SUFFICES ASSUME terminal' \in {"open", "eof"}
                   PROVE  (\A k \in 1 .. Len(given') : given'[k] = k) /\ Len(given') = Handed'
        BY <3>7 DEF BytesInOrder
      <4>1. Handed' = Handed /\ terminal \in {"open", "eof"}
        BY <1>1 DEF Handed
      <4>2. \A k \in 1 .. Len(given) : given[k] = k
        BY <2>1, <4>1 DEF BytesInOrder
      <4>3. CASE h.bytes = <<>>
        <5>1. Owed = {}
          <6> SUFFICES ASSUME NEW i \in Owed PROVE FALSE
            OBVIOUS
          <6>1. Own(i) /\ i \in DOMAIN posts /\ posts[i].bytes # <<>>
            BY <2>2 DEF Owed, Own
          <6>2. i = 1
            BY <2>1, <2>5, <3>1, <6>1 DEF PullsAgree
          <6> QED BY <1>2, <4>3, <6>1, <6>2
        <5>2. given' = given
          BY <3>4, <3>8, <4>3, ConcatEmptySeq
        <5>3. Len(given) = Handed
          BY <2>1, <4>1, <5>1 DEF BytesInOrder
        <5> QED BY <4>1, <4>2, <5>2, <5>3
      <4>4. CASE h.bytes # <<>>
        <5>1. 1 \in Owed
          BY <1>2, <1>3, <3>1, <3>3, <4>4 DEF Owed
        <5>2. /\ \A k \in 1 .. Len(h.bytes) : h.bytes[k] = Len(given) + k
              /\ Len(given) + Len(h.bytes) = Handed
          BY <1>2, <2>1, <4>1, <5>1 DEF BytesInOrder
        <5>3. ASSUME NEW k \in 1 .. Len(given') PROVE given'[k] = k
          <6>1. CASE k <= Len(given)
            <7>1. k \in 1 .. Len(given) /\ k \in 1 .. Len(given) + Len(h.bytes)
              BY <3>8, <3>9, <6>1
            <7> QED BY <3>9, <4>2, <6>1, <7>1
          <6>2. CASE ~(k <= Len(given))
            <7>1. k \in 1 .. Len(given) + Len(h.bytes) /\ k - Len(given) \in 1 .. Len(h.bytes)
              BY <3>8, <3>9, <6>2
            <7>2. given'[k] = Len(given) + (k - Len(given))
              BY <3>9, <5>2, <6>2, <7>1
            <7> QED BY <3>8, <7>1, <7>2
          <6> QED BY <6>1, <6>2
        <5> QED BY <3>9, <4>1, <5>2, <5>3
      <4> QED BY <4>3, <4>4
    <3> QED BY <3>11, <3>12
  <2> QED BY <2>4, <2>5
<1> QED BY <1>5, <1>6, <1>7, <1>8, <1>9 DEF StreamInv

LEMMA ConsumeKeeps ==
    ASSUME SizesAssumption, StreamInv, ConsumeRuns
    PROVE  StreamInv'
<1>1. /\ BodyTypeOK /\ OneEnding /\ EndsAgree /\ QueueInOrder /\ CreditComesBack
      /\ Next1("consume") /\ posts' = Popped /\ credit' = Consumed(Len(posts[1].bytes))
      /\ UNCHANGED <<arrived, refused, chunks, terminal, cancelled, told, drained, parked>>
      /\ UNCHANGED <<pull, given, teardown>>
  BY DEF StreamInv, ConsumeRuns, consumerVars
<1>2. posts[1] \in Post /\ posts[1].kind = "consume" /\ Popped \in Seq(Post)
  BY <1>1, RunFacts
<1>3. BodyTypeOK'
  <2>1. Len(posts[1].bytes) \in Nat
    BY <1>2 DEF Post, Bytes
  <2>2. credit' \in 0 .. Capacity
    BY <1>1, <2>1 DEF BodyTypeOK, Consumed, SizesAssumption
  <2> QED BY <1>1, <1>2, <2>2 DEF BodyTypeOK
<1>4. EndsAgree' /\ NeverRefused'
  BY <1>1, EndsRun DEF StreamInv, NeverRefused
<1>5. OneEnding'
  BY <1>1, <1>4, OneEndingRuns
<1>6. CreditComesBack' /\ QueueInOrder'
  BY <1>1, CreditRuns
<1>7. ASSUME ~Stops PROVE PullsAgree' /\ BytesInOrder'
  <2>1. PullsAgree /\ BytesInOrder /\ ~Own(1)
    BY <1>2, <1>7 DEF StreamInv, Own
  <2> QED BY <1>1, <2>1, OthersRun
<1> QED BY <1>3, <1>4, <1>5, <1>6, <1>7 DEF StreamInv

LEMMA DrainedKeeps ==
    ASSUME SizesAssumption, StreamInv, DrainedRuns
    PROVE  StreamInv'
<1>1. /\ BodyTypeOK /\ OneEnding /\ EndsAgree /\ QueueInOrder /\ CreditComesBack
      /\ Next1("drained") /\ posts' = Popped /\ drained' = "called"
      /\ UNCHANGED <<arrived, credit, refused, chunks, terminal, cancelled, told, parked>>
      /\ UNCHANGED <<pull, given, teardown>>
  BY DEF StreamInv, DrainedRuns, senderVars, consumerVars
<1>2. /\ posts[1] \in Post /\ posts[1].kind = "drained" /\ Popped \in Seq(Post) /\ 1 \in DOMAIN posts
      /\ \A i \in DOMAIN Popped : i + 1 \in DOMAIN posts /\ i + 1 # 1 /\ Popped[i] = posts[i + 1]
  BY <1>1, RunFacts
<1>3. BodyTypeOK'
  BY <1>1, <1>2 DEF BodyTypeOK
<1>4. drained = "signalled" /\ \A i \in DOMAIN posts : posts[i].kind = "drained" => i = 1
  BY <1>1, <1>2 DEF OneEnding
<1>5. EndsAgree' /\ NeverRefused'
  BY <1>1, <1>4, EndsRun DEF StreamInv, NeverRefused
<1>6. OneEnding'
  <2>1. \A i \in DOMAIN posts' : posts'[i].kind # "drained"
    BY <1>1, <1>2, <1>4
  <2>2. chunks' = <<>> /\ ~told'
    BY <1>1, <1>5 DEF EndsAgree
  <2> QED BY <2>1, <2>2 DEF OneEnding
<1>7. CreditComesBack' /\ QueueInOrder'
  BY <1>1, CreditRuns
<1>8. ASSUME ~Stops PROVE PullsAgree' /\ BytesInOrder'
  <2>1. PullsAgree /\ BytesInOrder /\ ~Own(1)
    BY <1>2, <1>8 DEF StreamInv, Own
  <2> QED BY <1>1, <2>1, OthersRun
<1> QED BY <1>3, <1>5, <1>6, <1>7, <1>8 DEF StreamInv

(* No on_drained is posted: the ones there were may have moved up.         *)
LEMMA OneEndingKept ==
    ASSUME OneEnding, EndsAgree', drained' = drained, NEW s \in {0, 1}, DOMAIN posts' \subseteq Nat,
           \A i \in DOMAIN posts' : posts'[i].kind = "drained" =>
               i + s \in DOMAIN posts /\ posts[i + s].kind = "drained"
    PROVE  OneEnding'
<1>1. drained' = "called" => chunks' = <<>> /\ ~told'
  BY DEF EndsAgree
<1>2. ASSUME NEW i \in DOMAIN posts', NEW j \in DOMAIN posts',
             posts'[i].kind = "drained", posts'[j].kind = "drained"
      PROVE  i = j /\ drained' = "signalled"
  <2>1. i + s = j + s /\ drained = "signalled"
    BY <1>2 DEF OneEnding
  <2>2. i \in Nat /\ j \in Nat /\ s \in Nat
    OBVIOUS
  <2> QED BY <2>1, <2>2
<1> QED BY <1>1, <1>2 DEF OneEnding

(* A closure that neither hands out nor returns bytes.                     *)
LEMMA CreditPosted ==
    ASSUME SizesAssumption, NEW p \in Seq(Post), NEW x \in Post, x.kind # "consume",
           NEW c \in Nat, NEW n \in Nat, NEW h \in Nat, Repays(p, c, n, h)
    PROVE  Repays(Append(p, x), c, n, h)
<1>1. Cost(x) = 0 /\ h + 0 = h
  BY DEF Cost
<1> QED BY <1>1, RepaysMore

LEMMA PlainPosted ==
    ASSUME SizesAssumption, StreamInv, NEW x \in Post, x.kind \in {"cancel", "cancelRead", "handler"},
           posts' = Append(posts, x),
           UNCHANGED <<arrived, credit, refused, chunks, terminal, told, drained, parked>>
    PROVE  posts' \in Seq(Post) /\ OneEnding' /\ EndsAgree' /\ QueueInOrder' /\ CreditComesBack' /\ NeverRefused'
<1>1. BodyTypeOK /\ OneEnding /\ EndsAgree /\ QueueInOrder /\ CreditComesBack /\ NeverRefused
  BY DEF StreamInv
<1>2. posts \in Seq(Post) /\ Len(posts) \in Nat
  BY <1>1 DEF BodyTypeOK
<1>3. /\ posts' \in Seq(Post) /\ Len(posts') = Len(posts) + 1 /\ posts'[Len(posts) + 1] = x
      /\ \A i \in 1 .. Len(posts) : posts'[i] = posts[i]
  BY <1>2, PostsGrow
<1>4. EndsAgree' /\ QueueInOrder' /\ NeverRefused'
  BY <1>1, EndsRun DEF QueueInOrder, NeverRefused
<1>5. OneEnding'
  <2>1. DOMAIN posts' = 1 .. (Len(posts) + 1) /\ DOMAIN posts = 1 .. Len(posts)
    BY <1>2, <1>3
  <2>2. \A i \in DOMAIN posts' : posts'[i].kind = "drained" => i + 0 \in DOMAIN posts /\ posts[i + 0].kind = "drained"
    BY <1>2, <1>3, <2>1
  <2> QED BY <1>1, <1>4, <2>1, <2>2, OneEndingKept
<1>6. CreditComesBack'
  <2>1. CASE terminal = "open"
    <3>1. arrived \in Nat /\ Handed \in Nat /\ credit \in Nat
      BY <1>1, <2>1, HandedFacts DEF BodyTypeOK, SizesAssumption
    <3>2. Repays(posts', credit, arrived, Handed)
      BY <1>1, <1>2, <2>1, <3>1, CreditPosted DEF CreditComesBack
    <3> QED BY <3>2 DEF CreditComesBack, Handed
  <2>2. CASE terminal # "open"
    BY <2>2 DEF CreditComesBack
  <2> QED BY <2>1, <2>2
<1> QED BY <1>3, <1>4, <1>5, <1>6

LEMMA StopKeeps ==
    ASSUME SizesAssumption, StreamInv, StopPull
    PROVE  StreamInv'
<1>1. /\ BodyTypeOK /\ Stops /\ posts' = Append(posts, Plain("cancelRead"))
      /\ UNCHANGED <<arrived, credit, refused, chunks, terminal, cancelled, told, drained, parked, given, teardown>>
      /\ pull' = [pull EXCEPT !.st = "stopped"]
  BY DEF StreamInv, StopPull, senderVars
<1>2. PICK x : x = Plain("cancelRead")
  OBVIOUS
<1>3. x \in Post /\ x.kind = "cancelRead"
  <2>1. 0 \in 0 .. MaxPulls /\ <<>> \in Bytes
    BY DEF SizesAssumption, Bytes
  <2> QED BY <1>2, <2>1 DEF Plain, Closure, Post
<1>4. posts' \in Seq(Post) /\ OneEnding' /\ EndsAgree' /\ QueueInOrder' /\ CreditComesBack' /\ NeverRefused'
  BY <1>1, <1>2, <1>3, PlainPosted
<1>5. BodyTypeOK'
  BY <1>1, <1>4 DEF BodyTypeOK
<1> QED BY <1>1, <1>4, <1>5 DEF StreamInv

LEMMA CancelKeeps ==
    ASSUME SizesAssumption, StreamInv, CancelStream
    PROVE  StreamInv'
<1>1. /\ BodyTypeOK /\ teardown' = TRUE /\ posts' = Append(posts, Plain("cancel"))
      /\ UNCHANGED <<arrived, credit, refused, chunks, terminal, cancelled, told, drained, parked, given, pull>>
  BY DEF StreamInv, CancelStream, senderVars
<1>2. PICK x : x = Plain("cancel")
  OBVIOUS
<1>3. x \in Post /\ x.kind = "cancel"
  <2>1. 0 \in 0 .. MaxPulls /\ <<>> \in Bytes
    BY DEF SizesAssumption, Bytes
  <2> QED BY <1>2, <2>1 DEF Plain, Closure, Post
<1>4. posts' \in Seq(Post) /\ OneEnding' /\ EndsAgree' /\ QueueInOrder' /\ CreditComesBack' /\ NeverRefused'
  BY <1>1, <1>2, <1>3, PlainPosted
<1>5. BodyTypeOK'
  BY <1>1, <1>4 DEF BodyTypeOK
<1>6. ASSUME ~Stops PROVE PullsAgree' /\ BytesInOrder'
  <2>1. PullsAgree /\ BytesInOrder /\ posts \in Seq(Post) /\ Len(posts) \in Nat
    BY <1>1, <1>6 DEF StreamInv, BodyTypeOK
  <2>2. /\ DOMAIN posts = 1 .. Len(posts) /\ DOMAIN posts' = 1 .. (Len(posts) + 1)
        /\ posts'[Len(posts) + 1] = x /\ \A i \in 1 .. Len(posts) : posts'[i] = posts[i]
    BY <1>1, <1>2, <1>3, <2>1, PostsGrow
  <2>3. \A i \in DOMAIN posts' : \/ i \in DOMAIN posts /\ posts'[i] = posts[i]
                                 \/ posts'[i] = x
    BY <2>1, <2>2
  <2>4. PullsAgree'
    <3>1. \A i \in DOMAIN posts' : \/ i + 0 \in DOMAIN posts /\ posts'[i] = posts[i + 0]
                                   \/ posts'[i].kind \notin {"handler", "cancelRead"}
      BY <1>3, <2>2, <2>3
    <3>2. DOMAIN posts' \subseteq Nat
      BY <2>2
    <3> QED BY <1>1, <2>1, <3>1, <3>2, PullsKept
  <2>5. Owed' = Owed
    <3>1. DOMAIN posts \subseteq DOMAIN posts' /\ \A i \in DOMAIN posts : posts'[i] = posts[i]
      BY <2>1, <2>2
    <3>2. \A i \in DOMAIN posts' : posts'[i].kind = "handler" => i \in DOMAIN posts
      BY <1>3, <2>3
    <3> QED BY <1>1, <3>1, <3>2 DEF Owed
  <2>6. \A i \in Owed' : i + 0 \in Owed /\ posts'[i] = posts[i + 0]
    <3>1. \A i \in Owed : i \in 1 .. Len(posts)
      BY <2>2 DEF Owed
    <3> QED BY <2>2, <2>5, <3>1
  <2>7. Handed' = Handed
    BY <1>1 DEF Handed
  <2>8. BytesInOrder'
    BY <1>1, <2>1, <2>5, <2>6, <2>7, BytesKept
  <2> QED BY <2>4, <2>8
<1> QED BY <1>4, <1>5, <1>6 DEF StreamInv

(* A pull that waits is given its one closure, at l: the others are no     *)
(* closures of that pull.                                                  *)
LEMMA NewClosure ==
    ASSUME PullsAgree, NEW s \in {0, 1}, DOMAIN posts' \subseteq Nat,
           NEW l \in DOMAIN posts', NEW b, NEW e,
           posts'[l].kind = "handler", posts'[l].pull = pull'.id, posts'[l].bytes = b, posts'[l].end = e,
           \A i \in DOMAIN posts' : \/ i = l
                                    \/ i + s \in DOMAIN posts /\ posts'[i] = posts[i + s]
                                    \/ posts'[i].kind \notin {"handler", "cancelRead"},
           \A i \in DOMAIN posts : ~(posts[i].kind = "handler" /\ posts[i].pull = pull'.id),
           \A i \in DOMAIN posts : posts[i].kind = "handler" => posts[i].pull <= pull'.id,
           pull'.id \in Nat, pull'.st = "waiting", parked' = 0, e # "started",
           e = "data" <=> b # <<>>, e = "eof" => Len(given') = arrived' /\ terminal' # "open"
    PROVE  /\ PullsAgree'
           /\ \A i \in DOMAIN posts' : Own(i)' => i = l
<1>1. /\ posts'[l].kind = "handler" /\ posts'[l].pull = pull'.id
      /\ posts'[l].bytes = b /\ posts'[l].end = e
  OBVIOUS
<1>2. \A i \in DOMAIN posts' : Own(i)' => i = l
  BY DEF Own
<1>3. \A i \in DOMAIN posts' : posts'[i].kind # "cancelRead"
  BY <1>1 DEF PullsAgree
<1>4. \A i \in DOMAIN posts' : posts'[i].kind = "handler" => posts'[i].pull <= pull'.id
  <2> SUFFICES ASSUME NEW i \in DOMAIN posts', posts'[i].kind = "handler" PROVE posts'[i].pull <= pull'.id
    OBVIOUS
  <2>1. CASE i = l
    BY <1>1, <2>1
  <2>2. CASE i # l
    BY <2>2
  <2> QED BY <2>1, <2>2
<1>5. \A i, j \in DOMAIN posts' : Own(i)' /\ Own(j)' => i = j
  BY <1>2
<1>6. \A i \in DOMAIN posts' : Own(i)' =>
        /\ parked' = 0 /\ pull'.st = "waiting" /\ posts'[i].end # "started"
        /\ posts'[i].end = "data" <=> posts'[i].bytes # <<>>
        /\ posts'[i].end = "eof" => Len(given') = arrived' /\ terminal' # "open"
  BY <1>1, <1>2
<1>7. /\ parked' # 0 => parked' = pull'.id /\ pull'.st = "waiting"
      /\ pull'.st = "eof" => Len(given') = arrived' /\ terminal' # "open"
  OBVIOUS
<1> QED BY <1>2, <1>3, <1>4, <1>5, <1>6, <1>7 DEF PullsAgree

LEMMA NewBytes ==
    ASSUME NEW l \in DOMAIN posts', NEW b \in Bytes,
           posts'[l].kind = "handler", posts'[l].pull = pull'.id, posts'[l].bytes = b,
           pull' = [id |-> pull'.id, st |-> "waiting"],
           \A i \in DOMAIN posts' : Own(i)' => i = l,
           given' \in Bytes,
           terminal' \in {"open", "eof"} => /\ \A k \in 1 .. Len(given') : given'[k] = k
                                            /\ \A k \in 1 .. Len(b) : b[k] = Len(given') + k
                                            /\ Len(given') + Len(b) = Handed'
    PROVE  BytesInOrder'
<1>1. /\ posts'[l].kind = "handler" /\ posts'[l].pull = pull'.id /\ posts'[l].bytes = b
  OBVIOUS
<1>2. \A i \in Owed' : i = l
  BY DEF Owed, Own
<1>3. b = <<>> \/ l \in Owed'
  BY <1>1 DEF Owed
<1>4. Len(given') \in Nat /\ (b = <<>> => Len(b) = 0)
  BY DEF Bytes
<1>5. Owed' = {} => b = <<>>
  BY <1>3
<1> SUFFICES ASSUME terminal' \in {"open", "eof"}
             PROVE  /\ \A k \in 1 .. Len(given') : given'[k] = k
                    /\ \A i \in Owed' :
                          /\ \A k \in 1 .. Len(posts'[i].bytes) : posts'[i].bytes[k] = Len(given') + k
                          /\ Len(given') + Len(posts'[i].bytes) = Handed'
                    /\ Owed' = {} => Len(given') = Handed'
  BY DEF BytesInOrder
<1>6. ASSUME NEW i \in Owed'
      PROVE  /\ \A k \in 1 .. Len(posts'[i].bytes) : posts'[i].bytes[k] = Len(given') + k
             /\ Len(given') + Len(posts'[i].bytes) = Handed'
  <2>1. posts'[i].bytes = b
    BY <1>1, <1>2
  <2> QED BY <2>1
<1>7. Owed' = {} => Len(given') = Handed'
  BY <1>4, <1>5
<1> QED BY <1>6, <1>7

(* What the executor still has to run, and a parked pull that is retired.  *)
Retired(p, e) == p \o (IF parked = 0 THEN <<>> ELSE <<Handler(parked, <<>>, e)>>)

LEMMA RetiredClosure ==
    ASSUME SizesAssumption, NEW p \in Seq(Post), parked \in 0 .. MaxPulls, parked # 0,
           NEW e \in {"eof", "failed", "aborted"}, NEW q, q = Retired(p, e)
    PROVE  \E x \in Post : /\ x.kind = "handler" /\ x.pull = parked /\ x.bytes = <<>> /\ x.end = e
                           /\ q = Append(p, x)
<1>1. PICK x : x = Handler(parked, <<>>, e)
  OBVIOUS
<1>2. x \in Post /\ x.kind = "handler" /\ x.pull = parked /\ x.bytes = <<>> /\ x.end = e
  <2>1. <<>> \in Bytes
    BY DEF Bytes
  <2>2. x.kind = "handler" /\ x.pull = parked /\ x.bytes = <<>> /\ x.end = e
    BY <1>1 DEF Handler, Closure
  <2> QED BY <1>1, <2>1, <2>2, ClosuresArePosts
<1>3. q = Append(p, x)
  BY <1>1, <1>2, PostsGrow DEF Retired
<1> QED BY <1>2, <1>3

LEMMA RetireFacts ==
    ASSUME SizesAssumption, NEW p \in Seq(Post), parked \in 0 .. MaxPulls,
           NEW e \in {"eof", "failed", "aborted"}, NEW q, q = Retired(p, e)
    PROVE  /\ q \in Seq(Post) /\ DOMAIN q \subseteq Nat
           /\ \A i \in DOMAIN q : (i \in DOMAIN p /\ q[i] = p[i]) \/ q[i].kind = "handler"
           /\ parked = 0 => q = p
<1>1. CASE parked = 0
  <2>1. q = p
    BY <1>1, ConcatEmptySeq DEF Retired
  <2> QED BY <1>1, <2>1
<1>2. CASE parked # 0
  <2>1. PICK x \in Post : x.kind = "handler" /\ q = Append(p, x)
    BY <1>2, RetiredClosure
  <2>2. /\ q \in Seq(Post) /\ Len(q) = Len(p) + 1 /\ q[Len(p) + 1] = x
        /\ \A i \in 1 .. Len(p) : q[i] = p[i]
    BY <2>1, PostsGrow
  <2>3. Len(p) \in Nat /\ DOMAIN p = 1 .. Len(p) /\ DOMAIN q = 1 .. (Len(p) + 1)
    BY <2>2
  <2>4. ASSUME NEW i \in DOMAIN q PROVE (i \in DOMAIN p /\ q[i] = p[i]) \/ q[i].kind = "handler"
    BY <2>1, <2>2, <2>3
  <2>5. DOMAIN q \subseteq Nat
    BY <2>3
  <2> QED BY <1>2, <2>2, <2>4, <2>5
<1> QED BY <1>1, <1>2

LEMMA RetiredPulls ==
    ASSUME SizesAssumption, PullsAgree, NEW p \in Seq(Post), parked \in 0 .. MaxPulls,
           NEW e \in {"failed", "aborted"}, posts' = Retired(p, e),
           NEW s \in {0, 1}, \A i \in DOMAIN p : i + s \in DOMAIN posts /\ p[i] = posts[i + s],
           UNCHANGED <<arrived, pull, given>>, parked' = 0, pull.id \in Nat,
           terminal # "open" => terminal' # "open"
    PROVE  PullsAgree'
<1>1. PICK q : q = posts'
  OBVIOUS
<1>2. /\ DOMAIN q \subseteq Nat
      /\ \A i \in DOMAIN q : (i \in DOMAIN p /\ q[i] = p[i]) \/ q[i].kind = "handler"
      /\ parked = 0 => q = p
  BY <1>1, RetireFacts
<1>3. DOMAIN posts' \subseteq Nat
  BY <1>1, <1>2
<1>4. CASE parked = 0
  <2>1. \A i \in DOMAIN posts' : i + s \in DOMAIN posts /\ posts'[i] = posts[i + s]
    BY <1>1, <1>2, <1>4
  <2>2. UNCHANGED <<arrived, parked, pull, given>>
    BY <1>4
  <2> QED BY <1>3, <2>1, <2>2, PullsKept
<1>5. CASE parked # 0
  <2>1. parked = pull'.id /\ pull'.st = "waiting" /\ pull'.id \in Nat
    BY <1>5 DEF PullsAgree
  <2>2. /\ \A i \in DOMAIN posts : ~(posts[i].kind = "handler" /\ posts[i].pull = pull'.id)
        /\ \A i \in DOMAIN posts : posts[i].kind = "handler" => posts[i].pull <= pull'.id
    BY <1>5 DEF PullsAgree, Own
  <2>3. PICK x \in Post : /\ x.kind = "handler" /\ x.pull = parked /\ x.bytes = <<>> /\ x.end = e
                          /\ q = Append(p, x)
    BY <1>1, <1>5, RetiredClosure
  <2>4. PICK l : l = Len(p) + 1
    OBVIOUS
  <2>5. /\ Len(q) = Len(p) + 1 /\ q[l] = x /\ Len(p) \in Nat
        /\ \A i \in 1 .. Len(p) : q[i] = p[i]
    BY <2>3, <2>4, PostsGrow
  <2>6. l \in DOMAIN q /\ \A i \in DOMAIN q : i = l \/ (i \in DOMAIN p /\ q[i] = p[i])
    <3>1. DOMAIN p = 1 .. Len(p) /\ DOMAIN q = 1 .. (Len(p) + 1)
      BY <2>3, <2>5
    <3> QED BY <2>4, <2>5, <3>1
  <2>7. /\ l \in DOMAIN posts' /\ posts'[l].kind = "handler" /\ posts'[l].pull = pull'.id
        /\ posts'[l].bytes = <<>> /\ posts'[l].end = e
    BY <1>1, <2>1, <2>3, <2>5, <2>6
  <2>8. \A i \in DOMAIN posts' : \/ i = l
                                 \/ i + s \in DOMAIN posts /\ posts'[i] = posts[i + s]
                                 \/ posts'[i].kind \notin {"handler", "cancelRead"}
    BY <1>1, <2>6
  <2> QED BY <1>3, <2>1, <2>2, <2>7, <2>8, NewClosure
<1> QED BY <1>4, <1>5

LEMMA FailKeeps ==
    ASSUME SizesAssumption, StreamInv, Fail
    PROVE  StreamInv'
<1>1. /\ BodyTypeOK /\ OneEnding /\ EndsAgree /\ terminal = "open" /\ terminal' = "failed"
      /\ chunks' = <<>> /\ parked' = 0 /\ posts' = Retired(posts, "failed")
      /\ UNCHANGED <<arrived, credit, refused, cancelled, told, drained, pull, given, teardown>>
  BY DEF StreamInv, Fail, Retire, Retired, senderVars, consumerVars
<1>2. posts \in Seq(Post) /\ parked \in 0 .. MaxPulls /\ pull.id \in Nat
  BY <1>1 DEF BodyTypeOK
<1>3. PICK q : q = posts'
  OBVIOUS
<1>4. /\ q \in Seq(Post) /\ DOMAIN q \subseteq Nat
      /\ \A i \in DOMAIN q : (i \in DOMAIN posts /\ q[i] = posts[i]) \/ q[i].kind = "handler"
  BY <1>1, <1>2, <1>3, RetireFacts
<1>5. BodyTypeOK'
  <2>1. chunks' \in Seq(Bytes) /\ parked' \in 0 .. MaxPulls
    BY <1>1 DEF SizesAssumption
  <2> QED BY <1>1, <1>3, <1>4, <2>1 DEF BodyTypeOK
<1>6. EndsAgree' /\ QueueInOrder' /\ CreditComesBack' /\ NeverRefused'
  BY <1>1 DEF StreamInv, EndsAgree, QueueInOrder, CreditComesBack, NeverRefused
<1>7. OneEnding'
  <2>1. \A i \in DOMAIN posts' : posts'[i].kind = "drained" => i + 0 \in DOMAIN posts /\ posts[i + 0].kind = "drained"
    <3> SUFFICES ASSUME NEW i \in DOMAIN posts', posts'[i].kind = "drained"
                 PROVE  i + 0 \in DOMAIN posts /\ posts[i + 0].kind = "drained"
      OBVIOUS
    <3>1. i \in DOMAIN posts /\ posts'[i] = posts[i] /\ i + 0 = i
      BY <1>3, <1>4
    <3> QED BY <3>1
  <2>2. DOMAIN posts' \subseteq Nat
    BY <1>3, <1>4
  <2> QED BY <1>1, <1>6, <2>1, <2>2, OneEndingKept
<1>8. ASSUME ~Stops PROVE PullsAgree' /\ BytesInOrder'
  <2>1. \A i \in DOMAIN posts : i + 0 \in DOMAIN posts /\ posts[i] = posts[i + 0]
    BY <1>2
  <2>2. PullsAgree'
    BY <1>1, <1>2, <1>8, <2>1, RetiredPulls DEF StreamInv
  <2> QED BY <1>1, <2>2 DEF BytesInOrder
<1> QED BY <1>5, <1>6, <1>7, <1>8 DEF StreamInv

LEMMA CancelReadKeeps ==
    ASSUME SizesAssumption, StreamInv, CancelReadRuns
    PROVE  StreamInv'
<1>1. /\ BodyTypeOK /\ OneEnding /\ EndsAgree /\ QueueInOrder /\ CreditComesBack
      /\ Next1("cancelRead") /\ posts' = Retired(Popped, "aborted") /\ parked' = 0
      /\ UNCHANGED <<arrived, credit, refused, chunks, terminal, cancelled, told, drained, pull, given, teardown>>
  BY DEF StreamInv, CancelReadRuns, Retired, senderVars, consumerVars
<1>2. /\ Popped \in Seq(Post) /\ parked \in 0 .. MaxPulls /\ 1 \in DOMAIN posts /\ posts[1].kind = "cancelRead"
      /\ posts[1] \in Post /\ DOMAIN Popped \subseteq Nat
      /\ \A i \in DOMAIN Popped : i + 1 \in DOMAIN posts /\ Popped[i] = posts[i + 1]
  BY <1>1, RunFacts DEF BodyTypeOK
<1>3. PICK q : q = posts'
  OBVIOUS
<1>4. /\ q \in Seq(Post) /\ DOMAIN q \subseteq Nat
      /\ \A i \in DOMAIN q : (i \in DOMAIN Popped /\ q[i] = Popped[i]) \/ q[i].kind = "handler"
      /\ parked = 0 => q = Popped
  BY <1>1, <1>2, <1>3, RetireFacts
<1>5. BodyTypeOK'
  <2>1. parked' \in 0 .. MaxPulls
    BY <1>1 DEF SizesAssumption
  <2> QED BY <1>1, <1>3, <1>4, <2>1 DEF BodyTypeOK
<1>6. EndsAgree' /\ NeverRefused' /\ QueueInOrder'
  BY <1>1 DEF StreamInv, EndsAgree, NeverRefused, QueueInOrder
<1>7. OneEnding'
  <2>1. \A i \in DOMAIN posts' : posts'[i].kind = "drained" => i + 1 \in DOMAIN posts /\ posts[i + 1].kind = "drained"
    BY <1>2, <1>3, <1>4
  <2>2. DOMAIN posts' \subseteq Nat
    BY <1>3, <1>4
  <2> QED BY <1>1, <1>6, <2>1, <2>2, OneEndingKept
<1>8. CreditComesBack'
  <2> SUFFICES ASSUME terminal = "open" PROVE Repays(q, credit, arrived, Handed)
    BY <1>1, <1>3 DEF CreditComesBack, Handed
  <2>1. /\ posts \in Seq(Post) /\ credit \in Nat /\ arrived \in Nat /\ Handed \in Nat /\ Handed <= arrived
        /\ Repays(posts, credit, arrived, Handed) /\ Len(posts) > 0
    BY <1>1, HandedFacts DEF BodyTypeOK, SizesAssumption, CreditComesBack, Next1
  <2>2. Repays(SubSeq(posts, 2, Len(posts)), credit - Cost(posts[1]), arrived, Handed)
    BY <2>1, RepaysNext
  <2>3. Cost(posts[1]) = 0 /\ credit - 0 = credit
    BY <1>2, <2>1 DEF Cost
  <2>4. Repays(Popped, credit, arrived, Handed)
    BY <2>2, <2>3 DEF Popped
  <2>5. CASE parked = 0
    BY <1>4, <2>4, <2>5
  <2>6. CASE parked # 0
    <3>1. PICK x \in Post : x.kind = "handler" /\ q = Append(Popped, x)
      BY <1>1, <1>2, <1>3, <2>6, RetiredClosure
    <3> QED BY <1>2, <2>1, <2>4, <3>1, CreditPosted
  <2> QED BY <2>5, <2>6
<1>9. Stops
  <2>1. ~Stops => PullsAgree
    BY DEF StreamInv
  <2> QED BY <1>2, <2>1 DEF PullsAgree
<1> QED BY <1>5, <1>6, <1>7, <1>8, <1>9 DEF StreamInv

LEMMA CancelRunKeeps ==
    ASSUME SizesAssumption, StreamInv, CancelRuns
    PROVE  StreamInv'
<1>1. /\ BodyTypeOK /\ OneEnding /\ EndsAgree /\ QueueInOrder /\ CreditComesBack /\ Next1("cancel")
      /\ UNCHANGED <<arrived, credit, refused, drained, pull, given, teardown>>
  BY DEF StreamInv, CancelRuns, senderVars, consumerVars
<1>2. /\ Popped \in Seq(Post) /\ parked \in 0 .. MaxPulls /\ 1 \in DOMAIN posts /\ posts[1].kind = "cancel"
      /\ posts[1] \in Post /\ DOMAIN Popped \subseteq Nat /\ pull.id \in Nat
      /\ \A i \in DOMAIN Popped : i + 1 \in DOMAIN posts /\ Popped[i] = posts[i + 1]
  BY <1>1, RunFacts DEF BodyTypeOK
<1>3. CASE drained # "no" /\ posts' = Popped /\ UNCHANGED <<chunks, terminal, cancelled, told, parked>>
  <2>1. BodyTypeOK'
    BY <1>1, <1>2, <1>3 DEF BodyTypeOK
  <2>2. EndsAgree' /\ NeverRefused'
    BY <1>1, <1>3, EndsRun DEF StreamInv, NeverRefused
  <2>3. OneEnding'
    BY <1>1, <1>3, <2>2, OneEndingRuns
  <2>4. CreditComesBack' /\ QueueInOrder'
    BY <1>1, <1>3, CreditRuns
  <2>5. ASSUME ~Stops PROVE PullsAgree' /\ BytesInOrder'
    <3>1. PullsAgree /\ BytesInOrder /\ ~Own(1)
      BY <1>2, <2>5 DEF StreamInv, Own
    <3> QED BY <1>1, <1>3, <3>1, OthersRun
  <2> QED BY <2>1, <2>2, <2>3, <2>4, <2>5 DEF StreamInv
<1>4. CASE /\ drained = "no" /\ cancelled' = TRUE /\ terminal' = "aborted" /\ told' = TRUE
           /\ chunks' = <<>> /\ parked' = 0 /\ posts' = Retired(Popped, "aborted")
  <2>1. PICK q : q = posts'
    OBVIOUS
  <2>2. /\ q \in Seq(Post) /\ DOMAIN q \subseteq Nat
        /\ \A i \in DOMAIN q : (i \in DOMAIN Popped /\ q[i] = Popped[i]) \/ q[i].kind = "handler"
    BY <1>2, <1>4, <2>1, RetireFacts
  <2>3. BodyTypeOK'
    <3>1. chunks' \in Seq(Bytes) /\ parked' \in 0 .. MaxPulls
      BY <1>4 DEF SizesAssumption
    <3> QED BY <1>1, <1>4, <2>1, <2>2, <3>1 DEF BodyTypeOK
  <2>4. EndsAgree' /\ QueueInOrder' /\ CreditComesBack' /\ NeverRefused'
    BY <1>1, <1>4 DEF StreamInv, EndsAgree, QueueInOrder, CreditComesBack, NeverRefused
  <2>5. OneEnding'
    <3>1. \A i \in DOMAIN posts' : posts'[i].kind = "drained" => i + 1 \in DOMAIN posts /\ posts[i + 1].kind = "drained"
      BY <1>2, <2>1, <2>2
    <3>2. DOMAIN posts' \subseteq Nat
      BY <2>1, <2>2
    <3> QED BY <1>1, <2>4, <3>1, <3>2, OneEndingKept
  <2>6. ASSUME ~Stops PROVE PullsAgree' /\ BytesInOrder'
    <3>1. PullsAgree'
      BY <1>1, <1>2, <1>4, <2>6, RetiredPulls DEF StreamInv
    <3> QED BY <1>4, <3>1 DEF BytesInOrder
  <2> QED BY <2>3, <2>4, <2>5, <2>6 DEF StreamInv
<1> QED BY <1>3, <1>4 DEF CancelRuns, Retired

(* After m closures that are no on_drained, on_drained is posted at most once. *)
LEMMA OneEndingPosted ==
    ASSUME OneEnding, EndsAgree', posts \in Seq(Post), posts' \in Seq(Post), NEW m \in Nat,
           \A i \in 1 .. Len(posts) : posts'[i] = posts[i],
           \A i \in (Len(posts) + 1) .. (Len(posts) + m) : posts'[i].kind # "drained",
           \/ Len(posts') = Len(posts) + m /\ drained' = drained
           \/ Len(posts') = Len(posts) + m + 1 /\ drained = "no" /\ drained' = "signalled"
    PROVE  OneEnding'
<1>1. PICK n \in Nat : n = Len(posts)
  OBVIOUS
<1>2. DOMAIN posts = 1 .. n
  BY <1>1
<1>3. CASE Len(posts') = n + m /\ drained' = drained
  <2>1. DOMAIN posts' = 1 .. (n + m)
    BY <1>3
  <2>2. \A i \in DOMAIN posts' : posts'[i].kind = "drained" => i + 0 \in DOMAIN posts /\ posts[i + 0].kind = "drained"
    <3> SUFFICES ASSUME NEW i \in DOMAIN posts', posts'[i].kind = "drained"
                 PROVE  i + 0 \in DOMAIN posts /\ posts[i + 0].kind = "drained"
      OBVIOUS
    <3>1. i \in 1 .. (n + m) /\ i \notin (n + 1) .. (n + m)
      BY <1>1, <2>1
    <3>2. i \in 1 .. n /\ i + 0 = i
      BY <3>1
    <3> QED BY <1>1, <1>2, <3>2
  <2>3. DOMAIN posts' \subseteq Nat
    BY <2>1
  <2> QED BY <1>3, <2>2, <2>3, OneEndingKept
<1>4. CASE Len(posts') = n + m + 1 /\ drained = "no" /\ drained' = "signalled"
  <2>1. DOMAIN posts' = 1 .. (n + m + 1)
    BY <1>4
  <2>2. \A i \in DOMAIN posts : posts[i].kind # "drained"
    BY <1>4 DEF OneEnding
  <2>3. ASSUME NEW i \in DOMAIN posts', posts'[i].kind = "drained" PROVE i = n + m + 1
    <3>1. i \in 1 .. (n + m + 1)
      BY <2>1, <2>3
    <3>2. i \notin 1 .. n
      <4> SUFFICES ASSUME i \in 1 .. n PROVE FALSE
        OBVIOUS
      <4>1. posts'[i] = posts[i] /\ i \in DOMAIN posts
        BY <1>1, <1>2
      <4> QED BY <2>2, <2>3, <4>1
    <3>3. i \notin (n + 1) .. (n + m)
      BY <1>1, <2>3
    <3> QED BY <3>1, <3>2, <3>3
  <2> QED BY <1>4, <2>3 DEF OneEnding
<1> QED BY <1>1, <1>3, <1>4

(* No closure of the pull: it was given all that was handed out.           *)
LEMMA NothingOwed ==
    ASSUME BodyTypeOK, BytesInOrder, terminal \in {"open", "eof"}, \A i \in DOMAIN posts : ~Own(i)
    PROVE  /\ Len(given) = Handed /\ Len(given) \in Nat
           /\ \A k \in 1 .. Len(given) : given[k] = k
<1>1. Owed = {}
  BY DEF Owed, Own
<1>2. Len(given) \in Nat
  BY DEF BodyTypeOK, Bytes
<1> QED BY <1>1, <1>2 DEF BytesInOrder

(* A pull that waits is told of an end, after all it was given.            *)
LEMMA EndClosure ==
    ASSUME BodyTypeOK, PullsAgree, posts' \in Seq(Post), NEW e \in {"eof", "failed", "aborted"},
           \A i \in 1 .. Len(posts) : posts'[i] = posts[i],
           posts'[Len(posts) + 1].kind = "handler", posts'[Len(posts) + 1].pull = pull'.id,
           posts'[Len(posts) + 1].bytes = <<>>, posts'[Len(posts) + 1].end = e,
           \/ Len(posts') = Len(posts) + 1
           \/ Len(posts') = Len(posts) + 1 + 1 /\ posts'[Len(posts) + 2].kind = "drained",
           \A i \in DOMAIN posts : ~(posts[i].kind = "handler" /\ posts[i].pull = pull'.id),
           \A i \in DOMAIN posts : posts[i].kind = "handler" => posts[i].pull <= pull'.id,
           pull'.id \in Nat, pull' = [id |-> pull'.id, st |-> "waiting"], parked' = 0,
           UNCHANGED <<arrived, given>>,
           e = "eof" => Len(given) = arrived /\ terminal' # "open",
           terminal' \in {"open", "eof"} => /\ \A k \in 1 .. Len(given) : given[k] = k
                                            /\ Handed' = Len(given)
    PROVE  PullsAgree' /\ BytesInOrder'
<1>1. PICK n \in Nat : n = Len(posts)
  BY DEF BodyTypeOK
<1>2. PICK m \in Nat : m = Len(posts')
  OBVIOUS
<1>3. m = n + 1 \/ (m = n + 2 /\ posts'[n + 2].kind = "drained")
  BY <1>1, <1>2
<1>4. DOMAIN posts = 1 .. n /\ DOMAIN posts' = 1 .. m
  BY <1>1, <1>2 DEF BodyTypeOK
<1>5. n + 1 \in DOMAIN posts' /\ DOMAIN posts' \subseteq Nat
  BY <1>3, <1>4
<1>6. /\ posts'[n + 1].kind = "handler" /\ posts'[n + 1].pull = pull'.id
      /\ posts'[n + 1].bytes = <<>> /\ posts'[n + 1].end = e
  BY <1>1
<1>7. \A i \in 1 .. n : posts'[i] = posts[i]
  BY <1>1
<1>8. ASSUME NEW i \in DOMAIN posts'
      PROVE  \/ i = n + 1
             \/ i + 0 \in DOMAIN posts /\ posts'[i] = posts[i + 0]
             \/ posts'[i].kind \notin {"handler", "cancelRead"}
  <2>1. i \in 1 .. n \/ i = n + 1 \/ (i = n + 2 /\ m = n + 2)
    BY <1>3, <1>4
  <2>2. CASE i \in 1 .. n
    <3>1. i + 0 = i
      BY <2>2
    <3> QED BY <1>4, <1>7, <2>2, <3>1
  <2>3. CASE i = n + 2 /\ m = n + 2
    <3>1. posts'[i].kind = "drained"
      BY <1>3, <2>3
    <3> QED BY <3>1
  <2> QED BY <2>1, <2>2, <2>3
<1>9. PICK b : b = <<>>
  OBVIOUS
<1>10. PullsAgree' /\ \A i \in DOMAIN posts' : Own(i)' => i = n + 1
  <2>1. posts'[n + 1].bytes = b /\ (e = "data" <=> b # <<>>) /\ e # "started" /\ pull'.st = "waiting"
    BY <1>6, <1>9
  <2>2. e = "eof" => Len(given') = arrived' /\ terminal' # "open"
    OBVIOUS
  <2> QED BY <1>5, <1>6, <1>8, <2>1, <2>2, NewClosure
<1>11. BytesInOrder'
  <2>1. b \in Bytes /\ Len(b) = 0 /\ posts'[n + 1].bytes = b
    BY <1>6, <1>9, EmptySeq DEF Bytes
  <2>2. given' \in Bytes /\ Len(given) \in Nat
    BY DEF BodyTypeOK, Bytes
  <2>3. terminal' \in {"open", "eof"} => /\ \A k \in 1 .. Len(given') : given'[k] = k
                                         /\ \A k \in 1 .. Len(b) : b[k] = Len(given') + k
                                         /\ Len(given') + Len(b) = Handed'
    BY <2>1, <2>2
  <2> QED BY <1>5, <1>6, <1>10, <2>1, <2>2, <2>3, NewBytes
<1> QED BY <1>10, <1>11

LEMMA FinishKeeps ==
    ASSUME SizesAssumption, StreamInv, Finish
    PROVE  StreamInv'
<1>1. /\ BodyTypeOK /\ OneEnding /\ EndsAgree /\ QueueInOrder /\ terminal = "open" /\ terminal' = "eof"
      /\ UNCHANGED <<arrived, credit, refused, cancelled, told, pull, given, teardown>>
      /\ posts \in Seq(Post) /\ parked \in 0 .. MaxPulls /\ pull.id \in Nat
  BY DEF StreamInv, Finish, senderVars, consumerVars, BodyTypeOK
<1>2. drained = "no" /\ ~told
  BY <1>1 DEF EndsAgree
<1>3. CASE chunks = <<>> /\ parked # 0 /\ FinishRead(parked, "eof") /\ parked' = 0
  <2>1. /\ posts' \in Seq(Post) /\ Len(posts) \in Nat
        /\ \A i \in 1 .. Len(posts) : posts'[i] = posts[i]
        /\ posts'[Len(posts) + 1].kind = "handler" /\ posts'[Len(posts) + 1].pull = parked
        /\ posts'[Len(posts) + 1].bytes = <<>> /\ posts'[Len(posts) + 1].end = "eof"
        /\ \/ Len(posts') = Len(posts) + 1 /\ drained' = drained
           \/ /\ Len(posts') = Len(posts) + 1 + 1 /\ posts'[Len(posts) + 2].kind = "drained"
              /\ drained = "no" /\ drained' = "signalled"
    BY <1>1, <1>3, FinishStep DEF Plain, Closure
  <2>2. UNCHANGED chunks
    BY <1>3 DEF FinishRead
  <2>3. BodyTypeOK'
    <3>1. parked' \in 0 .. MaxPulls /\ drained' \in {"no", "signalled", "called"}
      BY <1>2, <1>3, <2>1 DEF SizesAssumption
    <3> QED BY <1>1, <2>1, <2>2, <3>1 DEF BodyTypeOK
  <2>4. EndsAgree' /\ QueueInOrder' /\ CreditComesBack' /\ NeverRefused'
    BY <1>1, <1>2, <1>3, <2>2 DEF StreamInv, EndsAgree, QueueInOrder, CreditComesBack, NeverRefused
  <2>5. OneEnding'
    <3>1. \A i \in (Len(posts) + 1) .. (Len(posts) + 1) : posts'[i].kind # "drained"
      BY <2>1
    <3> QED BY <1>1, <2>1, <2>4, <3>1, OneEndingPosted
  <2>6. ASSUME ~Stops PROVE PullsAgree' /\ BytesInOrder'
    <3>1. PullsAgree /\ BytesInOrder
      BY <2>6 DEF StreamInv
    <3>2. parked = pull'.id /\ pull' = [id |-> pull'.id, st |-> "waiting"]
      BY <1>1, <1>3, <3>1 DEF PullsAgree, BodyTypeOK
    <3>3. /\ \A i \in DOMAIN posts : ~Own(i)
          /\ \A i \in DOMAIN posts : ~(posts[i].kind = "handler" /\ posts[i].pull = pull'.id)
          /\ \A i \in DOMAIN posts : posts[i].kind = "handler" => posts[i].pull <= pull'.id
      BY <1>1, <1>3, <3>1 DEF PullsAgree, Own
    <3>4. /\ Len(given) = arrived /\ Handed' = Len(given)
          /\ \A k \in 1 .. Len(given) : given[k] = k
      <4>1. Handed = arrived /\ Handed' = Handed
        BY <1>1, <1>3, <2>2 DEF Handed, Before
      <4> QED BY <1>1, <3>1, <3>3, <4>1, NothingOwed
    <3> QED BY <1>1, <1>3, <2>1, <3>1, <3>2, <3>3, <3>4, EndClosure
  <2> QED BY <2>3, <2>4, <2>5, <2>6 DEF StreamInv
<1>4. CASE ~(chunks = <<>> /\ parked # 0) /\ UNCHANGED <<chunks, posts, parked, drained>>
  <2>1. parked = 0
    BY <1>1, <1>4 DEF EndsAgree
  <2>2. BodyTypeOK' /\ EndsAgree' /\ QueueInOrder' /\ CreditComesBack' /\ NeverRefused' /\ OneEnding'
    BY <1>1, <1>2, <1>4, <2>1
       DEF StreamInv, BodyTypeOK, EndsAgree, QueueInOrder, CreditComesBack, NeverRefused, OneEnding
  <2>3. ASSUME ~Stops PROVE PullsAgree' /\ BytesInOrder'
    <3>1. PullsAgree /\ BytesInOrder
      BY <2>3 DEF StreamInv
    <3>2. DOMAIN posts \subseteq Nat /\ posts' = posts /\ Owed' = Owed /\ Handed' = Handed
      BY <1>1, <1>4 DEF Owed, Handed
    <3>3. \A i \in DOMAIN posts' : i + 0 \in DOMAIN posts /\ posts'[i] = posts[i + 0]
      BY <3>2
    <3>4. PullsAgree'
      BY <1>1, <1>4, <3>1, <3>2, <3>3, PullsKept
    <3>5. \A i \in Owed' : i + 0 \in Owed /\ posts'[i] = posts[i + 0]
      BY <3>2, <3>3 DEF Owed
    <3>6. BytesInOrder'
      BY <1>1, <3>1, <3>2, <3>5, BytesKept
    <3> QED BY <3>4, <3>6
  <2> QED BY <2>2, <2>3 DEF StreamInv
<1> QED BY <1>3, <1>4 DEF Finish

(* A pull that waits is given bytes that follow all it was given.          *)
LEMMA DataClosure ==
    ASSUME BodyTypeOK, PullsAgree, posts' \in Seq(Post), NEW b \in Bytes, Len(b) \in Nat \ {0},
           \A i \in 1 .. Len(posts) : posts'[i] = posts[i],
           posts'[Len(posts) + 1].kind = "consume",
           posts'[Len(posts) + 2].kind = "handler", posts'[Len(posts) + 2].pull = pull'.id,
           posts'[Len(posts) + 2].bytes = b, posts'[Len(posts) + 2].end = "data",
           \/ Len(posts') = Len(posts) + 2
           \/ Len(posts') = Len(posts) + 2 + 1 /\ posts'[Len(posts) + 3].kind = "drained",
           \A i \in DOMAIN posts : ~(posts[i].kind = "handler" /\ posts[i].pull = pull'.id),
           \A i \in DOMAIN posts : posts[i].kind = "handler" => posts[i].pull <= pull'.id,
           pull'.id \in Nat, pull' = [id |-> pull'.id, st |-> "waiting"], parked' = 0, given' = given,
           terminal' \in {"open", "eof"} => /\ \A k \in 1 .. Len(given) : given[k] = k
                                            /\ \A k \in 1 .. Len(b) : b[k] = Len(given) + k
                                            /\ Len(given) + Len(b) = Handed'
    PROVE  PullsAgree' /\ BytesInOrder'
<1>0. Len(posts) \in Nat
  <2>1. posts \in Seq(Post)
    BY DEF BodyTypeOK
  <2> QED BY <2>1
<1>1. PICK n \in Nat : n = Len(posts)
  BY <1>0
<1>2. PICK m \in Nat : m = Len(posts')
  OBVIOUS
<1>3. m = n + 2 \/ (m = n + 3 /\ posts'[n + 3].kind = "drained")
  BY <1>1, <1>2
<1>4. DOMAIN posts = 1 .. n /\ DOMAIN posts' = 1 .. m
  BY <1>1, <1>2 DEF BodyTypeOK
<1>5. n + 2 \in DOMAIN posts' /\ DOMAIN posts' \subseteq Nat
  BY <1>3, <1>4
<1>6. /\ posts'[n + 2].kind = "handler" /\ posts'[n + 2].pull = pull'.id
      /\ posts'[n + 2].bytes = b /\ posts'[n + 2].end = "data"
  BY <1>1
<1>7. (\A i \in 1 .. n : posts'[i] = posts[i]) /\ posts'[n + 1].kind = "consume"
  BY <1>1
<1>8. ASSUME NEW i \in DOMAIN posts'
      PROVE  \/ i = n + 2
             \/ i + 0 \in DOMAIN posts /\ posts'[i] = posts[i + 0]
             \/ posts'[i].kind \notin {"handler", "cancelRead"}
  <2>1. i \in 1 .. n \/ i = n + 1 \/ i = n + 2 \/ (i = n + 3 /\ m = n + 3)
    BY <1>3, <1>4
  <2>2. CASE i \in 1 .. n
    <3>1. i + 0 = i
      BY <2>2
    <3> QED BY <1>4, <1>7, <2>2, <3>1
  <2>3. CASE i = n + 3 /\ m = n + 3
    <3>1. posts'[i].kind = "drained"
      BY <1>3, <2>3
    <3> QED BY <3>1
  <2>4. CASE i = n + 1
    BY <1>7, <2>4
  <2> QED BY <2>1, <2>2, <2>3, <2>4
<1>9. PullsAgree' /\ \A i \in DOMAIN posts' : Own(i)' => i = n + 2
  <2>1. b # <<>> /\ pull'.st = "waiting"
    BY EmptySeq
  <2>2. PICK e : e = "data"
    OBVIOUS
  <2>3. /\ posts'[n + 2].end = e /\ (e = "data" <=> b # <<>>) /\ e # "started"
        /\ e = "eof" => Len(given') = arrived' /\ terminal' # "open"
    BY <1>6, <2>1, <2>2
  <2> QED BY <1>5, <1>6, <1>8, <2>1, <2>3, NewClosure
<1>10. BytesInOrder'
  <2>1. given' \in Bytes
    BY DEF BodyTypeOK
  <2>2. terminal' \in {"open", "eof"} => /\ \A k \in 1 .. Len(given') : given'[k] = k
                                         /\ \A k \in 1 .. Len(b) : b[k] = Len(given') + k
                                         /\ Len(given') + Len(b) = Handed'
    OBVIOUS
  <2> QED BY <1>5, <1>6, <1>9, <2>1, <2>2, NewBytes
<1> QED BY <1>9, <1>10

(* A pull that comes next has no closure yet.                              *)
LEMMA FreshPull ==
    ASSUME BodyTypeOK, PullsAgree, pull.st # "waiting", pull'.id = pull.id + 1
    PROVE  /\ parked = 0 /\ pull'.id \in Nat
           /\ \A i \in DOMAIN posts : ~Own(i)
           /\ \A i \in DOMAIN posts : ~(posts[i].kind = "handler" /\ posts[i].pull = pull'.id)
           /\ \A i \in DOMAIN posts : posts[i].kind = "handler" => posts[i].pull <= pull'.id
<1>1. pull.id \in Nat
  BY DEF BodyTypeOK
<1>2. parked = 0 /\ \A i \in DOMAIN posts : ~Own(i)
  BY DEF PullsAgree
<1>3. ASSUME NEW i \in DOMAIN posts, posts[i].kind = "handler"
      PROVE  posts[i].pull \in Nat /\ posts[i].pull <= pull.id
  <2>1. posts[i] \in Post /\ posts[i].pull <= pull.id
    BY <1>3, ElementOfSeq DEF BodyTypeOK, PullsAgree
  <2> QED BY <2>1 DEF Post
<1>4. ASSUME NEW i \in DOMAIN posts, posts[i].kind = "handler"
      PROVE  posts[i].pull # pull'.id /\ posts[i].pull <= pull'.id
  <2>1. posts[i].pull \in Nat /\ posts[i].pull <= pull.id
    BY <1>3, <1>4
  <2> QED BY <1>1, <2>1
<1> QED BY <1>1, <1>2, <1>4

LEMMA ReceiveKeeps ==
    ASSUME SizesAssumption, StreamInv, NEW k \in 1 .. Capacity, Receive(k)
    PROVE  StreamInv'
<1>1. /\ BodyTypeOK /\ OneEnding /\ EndsAgree /\ QueueInOrder /\ CreditComesBack /\ NeverRefused
      /\ terminal = "open" /\ arrived + k <= MaxBytes /\ credit + k <= Capacity
      /\ arrived' = arrived + k /\ credit' = credit + k /\ refused' = ~Fits(k)
      /\ UNCHANGED <<terminal, cancelled, told, pull, given, teardown>>
  BY DEF StreamInv, Receive, consumerVars
<1>2. /\ posts \in Seq(Post) /\ Len(posts) \in Nat /\ parked \in 0 .. MaxPulls /\ pull.id \in Nat
      /\ arrived \in Nat /\ credit \in Nat /\ chunks \in Seq(Bytes)
      /\ drained \in {"no", "signalled", "called"} /\ Capacity \in Nat /\ k \in Nat \ {0} /\ MaxBytes \in Nat
  BY <1>1 DEF BodyTypeOK, SizesAssumption
<1>3. InOrder(chunks, arrived) /\ Handed \in Nat /\ Handed <= arrived
  BY <1>1, HandedFacts
<1>4. drained = "no" /\ ~told
  BY <1>1 DEF EndsAgree
<1>5. Fits(k)
  <2>1. Len(FlattenSeq(chunks)) = arrived - Handed
    BY <1>2, <1>3, FlattenFacts DEF Handed
  <2>2. arrived - Handed <= credit
    BY <1>1, <1>2, <1>3, CreditCovers DEF CreditComesBack
  <2> QED BY <1>1, <1>2, <1>3, <2>1, <2>2 DEF Fits
<1>6. PICK c : c = [i \in 1 .. k |-> arrived + i]
  OBVIOUS
<1>7. PICK q : q = Append(chunks, c)
  OBVIOUS
<1>8. /\ q \in Seq(Bytes) /\ q # <<>> /\ InOrder(q, arrived') /\ Before(q, arrived') = Handed
  <2>1. /\ c \in Bytes /\ Append(chunks, c) \in Seq(Bytes) /\ Append(chunks, c) # <<>>
        /\ InOrder(Append(chunks, c), arrived + k)
        /\ Before(Append(chunks, c), arrived + k) = Before(chunks, arrived)
    BY <1>1, <1>2, <1>3, <1>6, ReceiveFacts
  <2> QED BY <1>1, <1>7, <2>1 DEF Handed
<1>9. \/ parked # 0 /\ Deliver(parked, q) /\ parked' = 0
      \/ parked = 0 /\ chunks' = q /\ UNCHANGED <<posts, parked, drained>>
  BY <1>5, <1>6, <1>7 DEF Receive
<1>10. Repays(posts, credit', arrived', Handed)
  BY <1>1, <1>2, <1>3, RepaysLater DEF CreditComesBack
<1>11. arrived' \in 0 .. MaxBytes /\ arrived' \in Nat /\ credit' \in 0 .. Capacity /\ credit' \in Nat /\ refused' = FALSE
  <2>1. refused' = FALSE
    BY <1>1, <1>5
  <2>2. arrived' = arrived + k /\ credit' = credit + k /\ arrived + k <= MaxBytes /\ credit + k <= Capacity
    BY <1>1
  <2> QED BY <1>2, <2>1, <2>2
<1>12. CASE parked # 0 /\ Deliver(parked, q) /\ parked' = 0
  <2>1. /\ chunks' \in Seq(Bytes) /\ InOrder(chunks', arrived')
        /\ posts' \in Seq(Post)
        /\ \A i \in 1 .. Len(posts) : posts'[i] = posts[i]
        /\ posts'[Len(posts) + 1].kind = "consume"
        /\ \E b \in Bytes : /\ posts'[Len(posts) + 2] = Handler(parked, b, "data")
                            /\ Len(b) \in Nat \ {0}
                            /\ \A i \in 1 .. Len(b) : b[i] = Handed + i
                            /\ Before(chunks', arrived') = Handed + Len(b)
        /\ Len(posts') = Len(posts) + 2 /\ drained' = drained
        /\ Repays(posts', credit', arrived', Before(chunks', arrived'))
    <3>1. terminal = "open" => Repays(posts, credit', arrived', Before(q, arrived'))
      BY <1>8, <1>10
    <3>2. terminal \in {"open", "eof"} /\ terminal # "eof"
      BY <1>1
    <3>3. PICK n \in Nat : n = arrived'
      BY <1>11
    <3>4. PICK d \in Nat : d = credit'
      BY <1>11
    <3>5. InOrder(q, n) /\ (terminal = "open" => Repays(posts, d, n, Before(q, n)))
      BY <1>8, <3>1, <3>3, <3>4
    <3> QED BY <1>1, <1>2, <1>8, <1>12, <3>2, <3>3, <3>4, <3>5, DeliverStep
  <2>2. BodyTypeOK'
    <3>1. parked' \in 0 .. MaxPulls
      BY <1>12 DEF SizesAssumption
    <3> QED BY <1>1, <1>11, <2>1, <3>1 DEF BodyTypeOK
  <2>3. EndsAgree' /\ QueueInOrder' /\ CreditComesBack' /\ NeverRefused'
    BY <1>1, <1>4, <1>11, <1>12, <2>1 DEF EndsAgree, QueueInOrder, CreditComesBack, Handed, NeverRefused
  <2>4. PICK b \in Bytes : /\ posts'[Len(posts) + 2] = Handler(parked, b, "data")
                           /\ Len(b) \in Nat \ {0}
                           /\ \A i \in 1 .. Len(b) : b[i] = Handed + i
                           /\ Before(chunks', arrived') = Handed + Len(b)
    BY <2>1
  <2>5. /\ posts'[Len(posts) + 2].kind = "handler" /\ posts'[Len(posts) + 2].pull = parked
        /\ posts'[Len(posts) + 2].bytes = b /\ posts'[Len(posts) + 2].end = "data"
    BY <2>4 DEF Handler, Closure
  <2>6. OneEnding'
    <3>1. \A i \in (Len(posts) + 1) .. (Len(posts) + 2) : posts'[i].kind # "drained"
      <4> SUFFICES ASSUME NEW i \in (Len(posts) + 1) .. (Len(posts) + 2) PROVE posts'[i].kind # "drained"
        OBVIOUS
      <4>1. i = Len(posts) + 1 \/ i = Len(posts) + 2
        BY <1>2
      <4> QED BY <2>1, <2>5, <4>1
    <3> QED BY <1>1, <1>2, <2>1, <2>3, <3>1, OneEndingPosted
  <2>7. ASSUME ~Stops PROVE PullsAgree' /\ BytesInOrder'
    <3>1. PullsAgree /\ BytesInOrder
      BY <2>7 DEF StreamInv
    <3>2. parked = pull'.id /\ pull' = [id |-> pull'.id, st |-> "waiting"] /\ pull'.id \in Nat
      BY <1>1, <1>12, <3>1 DEF PullsAgree, BodyTypeOK
    <3>3. /\ \A i \in DOMAIN posts : ~Own(i)
          /\ \A i \in DOMAIN posts : ~(posts[i].kind = "handler" /\ posts[i].pull = pull'.id)
          /\ \A i \in DOMAIN posts : posts[i].kind = "handler" => posts[i].pull <= pull'.id
      BY <1>1, <1>12, <3>1 DEF PullsAgree, Own
    <3>4. Len(given) = Handed /\ \A i \in 1 .. Len(given) : given[i] = i
      BY <1>1, <3>1, <3>3, NothingOwed
    <3>5. /\ \A i \in 1 .. Len(b) : b[i] = Len(given) + i
          /\ Len(given) + Len(b) = Handed'
      BY <2>4, <3>4 DEF Handed
    <3> QED BY <1>1, <1>12, <2>1, <2>4, <2>5, <3>1, <3>2, <3>3, <3>4, <3>5, DataClosure
  <2> QED BY <2>2, <2>3, <2>6, <2>7 DEF StreamInv
<1>13. CASE parked = 0 /\ chunks' = q /\ UNCHANGED <<posts, parked, drained>>
  <2>1. BodyTypeOK'
    BY <1>1, <1>8, <1>11, <1>13 DEF BodyTypeOK
  <2>2. Handed' = Handed
    BY <1>8, <1>13 DEF Handed
  <2>3. EndsAgree' /\ QueueInOrder' /\ CreditComesBack' /\ NeverRefused'
    BY <1>1, <1>4, <1>8, <1>10, <1>11, <1>13, <2>2 DEF EndsAgree, QueueInOrder, CreditComesBack, NeverRefused
  <2>4. OneEnding'
    <3>1. drained' # "called"
      BY <1>4, <1>13
    <3> QED BY <1>1, <1>13, <3>1 DEF OneEnding
  <2>5. ASSUME ~Stops PROVE PullsAgree' /\ BytesInOrder'
    <3>1. PullsAgree /\ BytesInOrder
      BY <2>5 DEF StreamInv
    <3>2. \A i \in DOMAIN posts : Own(i)' <=> Own(i)
      BY <1>1, <1>13 DEF Own
    <3>3. PullsAgree'
      BY <1>1, <1>13, <3>1, <3>2 DEF PullsAgree
    <3>4. DOMAIN posts \subseteq Nat /\ posts' = posts /\ Owed' = Owed
      BY <1>1, <1>2, <1>13 DEF Owed
    <3>5. \A i \in Owed' : i + 0 \in Owed /\ posts'[i] = posts[i + 0]
      BY <3>4 DEF Owed
    <3>6. BytesInOrder'
      BY <1>1, <2>2, <3>1, <3>4, <3>5, BytesKept
    <3> QED BY <3>3, <3>6
  <2> QED BY <2>1, <2>3, <2>4, <2>5 DEF StreamInv
<1> QED BY <1>9, <1>12, <1>13

LEMMA PullKeeps ==
    ASSUME SizesAssumption, StreamInv, Pull
    PROVE  StreamInv'
<1>1. /\ BodyTypeOK /\ OneEnding /\ EndsAgree /\ QueueInOrder /\ CreditComesBack /\ NeverRefused
      /\ pull.st \in {"idle", "data", "stopped"} /\ pull.id < MaxPulls
      /\ pull' = [id |-> pull.id + 1, st |-> "waiting"] /\ ReadSome(pull.id + 1)
      /\ UNCHANGED <<arrived, credit, refused, terminal, cancelled, told, given, teardown>>
  BY DEF StreamInv, Pull, senderVars
<1>2. /\ posts \in Seq(Post) /\ Len(posts) \in Nat /\ parked \in 0 .. MaxPulls /\ pull.id \in Nat
      /\ arrived \in Nat /\ credit \in Nat /\ chunks \in Seq(Bytes)
      /\ drained \in {"no", "signalled", "called"} /\ terminal \in {"open", "eof", "failed", "aborted"}
  BY <1>1 DEF BodyTypeOK, SizesAssumption
<1>3. PICK p \in 1 .. MaxPulls : p = pull.id + 1
  BY <1>1, <1>2 DEF SizesAssumption
<1>4. /\ pull' = [id |-> p, st |-> "waiting"] /\ pull'.id = p /\ p \in 0 .. MaxPulls /\ ReadSome(p)
      /\ pull' \in [id : 0 .. MaxPulls,
                   st : {"idle", "waiting", "data", "eof", "failed", "stopped", "started"}]
      /\ NeverRefused'
  BY <1>1, <1>3 DEF SizesAssumption, NeverRefused
<1>5. ASSUME ~Stops
      PROVE  /\ PullsAgree /\ BytesInOrder
             /\ parked = 0 /\ pull'.id \in Nat
             /\ \A i \in DOMAIN posts : ~Own(i)
             /\ \A i \in DOMAIN posts : ~(posts[i].kind = "handler" /\ posts[i].pull = pull'.id)
             /\ \A i \in DOMAIN posts : posts[i].kind = "handler" => posts[i].pull <= pull'.id
  <2>1. PullsAgree /\ BytesInOrder
    BY <1>5 DEF StreamInv
  <2>2. pull'.id = pull.id + 1 /\ pull.st # "waiting"
    BY <1>1
  <2> QED BY <1>1, <2>1, <2>2, FreshPull
<1>6. ASSUME ~Stops, terminal \in {"open", "eof"}
      PROVE  Len(given) = Handed /\ \A i \in 1 .. Len(given) : given[i] = i
  BY <1>1, <1>5, <1>6, NothingOwed
<1>7. CASE /\ parked # 0 /\ posts' = Append(posts, Handler(p, <<>>, "started"))
           /\ UNCHANGED <<parked, chunks, drained>>
  <2>1. PICK x : x = Handler(p, <<>>, "started")
    OBVIOUS
  <2>2. x \in Post /\ x.kind = "handler" /\ posts' = Append(posts, x)
    <3>1. <<>> \in Bytes
      BY DEF Bytes
    <3>2. x.kind = "handler"
      BY <2>1 DEF Handler, Closure
    <3> QED BY <1>4, <1>7, <2>1, <3>1, <3>2, ClosuresArePosts
  <2>3. posts' \in Seq(Post) /\ OneEnding' /\ EndsAgree' /\ QueueInOrder' /\ CreditComesBack'
    BY <1>1, <1>7, <2>2, PlainPosted
  <2>4. BodyTypeOK'
    BY <1>1, <1>4, <1>7, <2>3 DEF BodyTypeOK
  <2>5. Stops
    BY <1>5, <1>7
  <2> QED BY <1>4, <2>3, <2>4, <2>5 DEF StreamInv
<1>8. CASE parked = 0 /\ chunks # <<>> /\ Deliver(p, chunks) /\ UNCHANGED parked
  <2>1. terminal \in {"open", "eof"} /\ drained = "no" /\ ~told
    BY <1>1, <1>2, <1>8 DEF EndsAgree
  <2>2. InOrder(chunks, arrived) /\ Handed = Before(chunks, arrived)
    BY <1>1, <2>1, HandedFacts DEF Handed
  <2>3. terminal = "open" => Repays(posts, credit, arrived, Before(chunks, arrived))
    BY <1>1, <2>2 DEF CreditComesBack
  <2>4. /\ chunks' \in Seq(Bytes) /\ InOrder(chunks', arrived)
        /\ posts' \in Seq(Post)
        /\ \A i \in 1 .. Len(posts) : posts'[i] = posts[i]
        /\ posts'[Len(posts) + 1].kind = "consume"
        /\ \E b \in Bytes : /\ posts'[Len(posts) + 2] = Handler(p, b, "data")
                            /\ Len(b) \in Nat \ {0}
                            /\ \A i \in 1 .. Len(b) : b[i] = Before(chunks, arrived) + i
                            /\ Before(chunks', arrived) = Before(chunks, arrived) + Len(b)
        /\ \/ Len(posts') = Len(posts) + 2 /\ drained' = drained
           \/ /\ Len(posts') = Len(posts) + 3 /\ posts'[Len(posts) + 3] = Plain("drained")
              /\ drained = "no" /\ drained' = "signalled" /\ chunks' = <<>> /\ terminal = "eof"
        /\ terminal = "open" => Repays(posts', credit, arrived, Before(chunks', arrived)) /\ drained' = drained
    BY <1>2, <1>4, <1>8, <2>1, <2>2, <2>3, DeliverStep
  <2>5. PICK b \in Bytes : /\ posts'[Len(posts) + 2] = Handler(p, b, "data")
                           /\ Len(b) \in Nat \ {0}
                           /\ \A i \in 1 .. Len(b) : b[i] = Handed + i
                           /\ Before(chunks', arrived) = Handed + Len(b)
    BY <2>2, <2>4
  <2>6. /\ posts'[Len(posts) + 2].kind = "handler" /\ posts'[Len(posts) + 2].pull = p
        /\ posts'[Len(posts) + 2].bytes = b /\ posts'[Len(posts) + 2].end = "data"
        /\ Plain("drained").kind = "drained"
    BY <2>5 DEF Handler, Plain, Closure
  <2>7. BodyTypeOK'
    <3>1. drained' \in {"no", "signalled", "called"}
      BY <1>2, <2>4
    <3> QED BY <1>1, <1>4, <1>8, <2>4, <3>1 DEF BodyTypeOK
  <2>8. EndsAgree' /\ QueueInOrder' /\ CreditComesBack'
    BY <1>1, <1>8, <2>1, <2>4 DEF EndsAgree, QueueInOrder, CreditComesBack, Handed
  <2>9. OneEnding'
    <3>1. \A i \in (Len(posts) + 1) .. (Len(posts) + 2) : posts'[i].kind # "drained"
      <4> SUFFICES ASSUME NEW i \in (Len(posts) + 1) .. (Len(posts) + 2) PROVE posts'[i].kind # "drained"
        OBVIOUS
      <4>1. i = Len(posts) + 1 \/ i = Len(posts) + 2
        BY <1>2
      <4> QED BY <2>4, <2>6, <4>1
    <3>2. \/ Len(posts') = Len(posts) + 2 /\ drained' = drained
          \/ Len(posts') = Len(posts) + 2 + 1 /\ drained = "no" /\ drained' = "signalled"
      BY <1>2, <2>4
    <3> QED BY <1>1, <1>2, <2>4, <2>8, <3>1, <3>2, OneEndingPosted
  <2>10. ASSUME ~Stops PROVE PullsAgree' /\ BytesInOrder'
    <3>1. /\ \A i \in 1 .. Len(given) : given[i] = i
          /\ \A i \in 1 .. Len(b) : b[i] = Len(given) + i
          /\ Len(given) + Len(b) = Handed'
      BY <1>1, <1>6, <2>1, <2>5, <2>10 DEF Handed
    <3>2. \/ Len(posts') = Len(posts) + 2
          \/ Len(posts') = Len(posts) + 2 + 1 /\ posts'[Len(posts) + 3].kind = "drained"
      BY <1>2, <2>4, <2>6
    <3> QED BY <1>1, <1>4, <1>5, <1>8, <2>4, <2>5, <2>6, <2>10, <3>1, <3>2, DataClosure
  <2> QED BY <1>4, <2>7, <2>8, <2>9, <2>10 DEF StreamInv
<1>9. CASE parked = 0 /\ chunks = <<>> /\ terminal # "open" /\ FinishRead(p, terminal) /\ UNCHANGED parked
  <2>1. /\ posts' \in Seq(Post)
        /\ \A i \in 1 .. Len(posts) : posts'[i] = posts[i]
        /\ posts'[Len(posts) + 1].kind = "handler" /\ posts'[Len(posts) + 1].pull = p
        /\ posts'[Len(posts) + 1].bytes = <<>> /\ posts'[Len(posts) + 1].end = terminal
        /\ \/ Len(posts') = Len(posts) + 1 /\ drained' = drained
           \/ /\ Len(posts') = Len(posts) + 1 + 1 /\ posts'[Len(posts) + 2].kind = "drained"
              /\ drained = "no" /\ drained' = "signalled" /\ terminal = "eof"
    <3>1. PICK e \in {"eof", "failed", "aborted"} : e = terminal
      BY <1>2, <1>9
    <3>2. FinishRead(p, e)
      BY <1>9, <3>1
    <3> QED BY <1>2, <1>4, <3>1, <3>2, FinishStep DEF Plain, Closure
  <2>2. UNCHANGED chunks
    BY <1>9 DEF FinishRead
  <2>3. BodyTypeOK'
    <3>1. drained' \in {"no", "signalled", "called"}
      BY <1>2, <2>1
    <3> QED BY <1>1, <1>4, <1>9, <2>1, <2>2, <3>1 DEF BodyTypeOK
  <2>4. EndsAgree' /\ QueueInOrder' /\ CreditComesBack'
    BY <1>1, <1>9, <2>1, <2>2 DEF EndsAgree, QueueInOrder, CreditComesBack
  <2>5. OneEnding'
    <3>1. \A i \in (Len(posts) + 1) .. (Len(posts) + 1) : posts'[i].kind # "drained"
      BY <2>1
    <3>2. \/ Len(posts') = Len(posts) + 1 /\ drained' = drained
          \/ Len(posts') = Len(posts) + 1 + 1 /\ drained = "no" /\ drained' = "signalled"
      BY <2>1
    <3> QED BY <1>1, <1>2, <2>1, <2>4, <3>1, <3>2, OneEndingPosted
  <2>6. ASSUME ~Stops PROVE PullsAgree' /\ BytesInOrder'
    <3>1. PICK e \in {"eof", "failed", "aborted"} : e = terminal
      BY <1>2, <1>9
    <3>2. terminal \in {"open", "eof"} => /\ \A i \in 1 .. Len(given) : given[i] = i
                                         /\ Len(given) = arrived /\ Handed' = Len(given)
      <4> SUFFICES ASSUME terminal \in {"open", "eof"}
                   PROVE  /\ \A i \in 1 .. Len(given) : given[i] = i
                          /\ Len(given) = arrived /\ Handed' = Len(given)
        OBVIOUS
      <4>1. Handed = arrived /\ Handed' = Handed
        BY <1>1, <1>9, <2>2 DEF Handed, Before
      <4> QED BY <1>6, <2>6, <4>1
    <3>3. e = "eof" => Len(given) = arrived /\ terminal' # "open"
      BY <1>1, <1>9, <3>1, <3>2
    <3>4. posts'[Len(posts) + 1].end = e
      BY <2>1, <3>1
    <3> QED BY <1>1, <1>4, <1>5, <1>9, <2>1, <2>6, <3>2, <3>3, <3>4, EndClosure
  <2> QED BY <1>4, <2>3, <2>4, <2>5, <2>6 DEF StreamInv
<1>10. CASE /\ parked = 0 /\ chunks = <<>> /\ terminal = "open" /\ parked' = p
            /\ UNCHANGED <<chunks, posts, drained>>
  <2>1. BodyTypeOK'
    BY <1>1, <1>4, <1>10 DEF BodyTypeOK
  <2>2. EndsAgree' /\ QueueInOrder' /\ CreditComesBack' /\ OneEnding'
    BY <1>1, <1>10 DEF EndsAgree, QueueInOrder, CreditComesBack, OneEnding, Handed
  <2>3. ASSUME ~Stops PROVE PullsAgree' /\ BytesInOrder'
    <3>1. /\ \A i \in DOMAIN posts' : ~Own(i)'
          /\ pull'.st = "waiting" /\ parked' = pull'.id /\ posts' = posts
      BY <1>4, <1>5, <1>10, <2>3 DEF Own
    <3>2. PullsAgree'
      BY <1>5, <2>3, <3>1 DEF PullsAgree
    <3>3. Owed' = {}
      BY <3>1 DEF Owed, Own
    <3>4. Handed' = Handed
      BY <1>1, <1>10 DEF Handed
    <3> QED BY <1>1, <1>6, <1>10, <2>3, <3>2, <3>3, <3>4 DEF BytesInOrder
  <2> QED BY <1>4, <2>1, <2>2, <2>3 DEF StreamInv
<1> QED BY <1>4, <1>7, <1>8, <1>9, <1>10 DEF ReadSome

LEMMA StreamStarts ==
    ASSUME SizesAssumption, BodyInit
    PROVE  StreamInv
<1>1. /\ arrived = 0 /\ credit = 0 /\ refused = FALSE
      /\ chunks = <<>> /\ terminal = "open" /\ cancelled = FALSE /\ told = FALSE
      /\ drained = "no" /\ parked = 0 /\ posts = <<>>
      /\ pull = [id |-> 0, st |-> "idle"] /\ given = <<>> /\ teardown = FALSE
  BY DEF BodyInit
<1>2. DOMAIN posts = {} /\ Len(posts) = 0 /\ Len(given) = 0 /\ Len(chunks) = 0
  BY <1>1
<1>3. BodyTypeOK
  <2>1. Capacity \in Nat /\ MaxBytes \in Nat /\ MaxPulls \in Nat
    BY DEF SizesAssumption
  <2>2. 0 \in 0 .. Capacity /\ 0 \in 0 .. MaxBytes /\ 0 \in 0 .. MaxPulls
    BY <2>1
  <2>3. given \in Bytes /\ chunks \in Seq(Bytes) /\ posts \in Seq(Post)
    BY <1>1 DEF Bytes
  <2>4. pull \in [id : 0 .. MaxPulls,
                 st : {"idle", "waiting", "data", "eof", "failed", "stopped", "started"}]
    BY <1>1, <2>2
  <2> QED BY <1>1, <2>2, <2>3, <2>4 DEF BodyTypeOK
<1>4. OneEnding /\ NeverRefused /\ EndsAgree
  BY <1>1, <1>2 DEF OneEnding, NeverRefused, EndsAgree
<1>5. QueueInOrder
  BY <1>2 DEF QueueInOrder, InOrder
<1>6. Handed = 0
  BY <1>1 DEF Handed, Before
<1>7. CreditComesBack
  <2>1. PICK at : at = [i \in 1 .. (Len(posts) + 1) |-> 0]
    OBVIOUS
  <2>2. at \in [1 .. (Len(posts) + 1) -> Nat] /\ \A i \in 1 .. (Len(posts) + 1) : at[i] = 0
    BY <2>1
  <2>3. Returns(at, posts, credit, arrived, Handed)
    BY <1>1, <1>2, <1>6, <2>2 DEF Returns
  <2> QED BY <2>2, <2>3 DEF CreditComesBack, Repays
<1>8. PullsAgree
  BY <1>1, <1>2 DEF PullsAgree
<1>9. BytesInOrder
  BY <1>1, <1>2, <1>6 DEF BytesInOrder, Owed
<1> QED BY <1>3, <1>4, <1>5, <1>7, <1>8, <1>9 DEF StreamInv

LEMMA StreamKept ==
    ASSUME SizesAssumption, StreamInv, [BodyNext]_bodyVars
    PROVE  StreamInv'
<1>1. CASE Pull
  BY <1>1, PullKeeps
<1>2. CASE StopPull
  BY <1>2, StopKeeps
<1>3. CASE CancelStream
  BY <1>3, CancelKeeps
<1>4. ASSUME NEW k \in 1 .. Capacity, Receive(k) PROVE StreamInv'
  BY <1>4, ReceiveKeeps
<1>5. CASE Finish
  BY <1>5, FinishKeeps
<1>6. CASE Fail
  BY <1>6, FailKeeps
<1>7. CASE HandlerRuns
  BY <1>7, HandlerKeeps
<1>8. CASE ConsumeRuns
  BY <1>8, ConsumeKeeps
<1>9. CASE DrainedRuns
  BY <1>9, DrainedKeeps
<1>10. CASE CancelReadRuns
  BY <1>10, CancelReadKeeps
<1>11. CASE CancelRuns
  BY <1>11, CancelRunKeeps
<1>12. CASE UNCHANGED bodyVars
  BY <1>12 DEF bodyVars, StreamInv, BodyTypeOK, NeverRefused, OneEnding, EndsAgree, QueueInOrder,
               CreditComesBack, Handed, PullsAgree, Own, BytesInOrder, Owed
<1> QED BY <1>1, <1>2, <1>3, <1>4, <1>5, <1>6, <1>7, <1>8, <1>9, <1>10, <1>11, <1>12
        DEF BodyNext, Sender, RunPost

(* Given, on the way and queued: every byte that arrived, in order.        *)
LEMMA StreamIsSound ==
    ASSUME SizesAssumption, StreamInv
    PROVE  BodyIsSound
<1> SUFFICES ASSUME ~Stops PROVE NothingLost /\ EofIsComplete
  BY DEF StreamInv, BodyIsSound
<1>1. BodyTypeOK /\ QueueInOrder /\ PullsAgree /\ BytesInOrder
  BY DEF StreamInv
<1>2. EofIsComplete
  BY <1>1 DEF PullsAgree, EofIsComplete
<1>3. NothingLost
  <2> SUFFICES ASSUME terminal \in {"open", "eof"}
               PROVE  given \o InFlight \o FlattenSeq(chunks) = [i \in 1 .. arrived |-> i]
    BY DEF NothingLost
  <2>1. PICK fly : fly = InFlight
    OBVIOUS
  <2>2. PICK queued : queued = FlattenSeq(chunks)
    OBVIOUS
  <2>3. /\ arrived \in Nat /\ Handed \in Nat /\ queued \in Seq(Nat) /\ Len(queued) = arrived - Handed
        /\ \A i \in 1 .. Len(queued) : queued[i] = Handed + i
    <3>1. chunks \in Seq(Bytes) /\ arrived \in Nat /\ InOrder(chunks, arrived) /\ Handed \in Nat
      BY <1>1, HandedFacts DEF BodyTypeOK
    <3> QED BY <2>2, <3>1, FlattenFacts DEF Handed
  <2>4. /\ given \in Seq(Nat) /\ Len(given) \in Nat
        /\ \A i \in 1 .. Len(given) : given[i] = 0 + i
    <3>1. MaxBytes \in Nat /\ given \in Seq(1 .. MaxBytes)
      BY <1>1 DEF SizesAssumption, BodyTypeOK, Bytes
    <3>2. given \in Seq(Nat)
      BY <3>1, SeqMonotonic
    <3>3. \A i \in 1 .. Len(given) : given[i] = i
      BY <1>1 DEF BytesInOrder
    <3> QED BY <3>2, <3>3
  <2>5. /\ fly \in Seq(Nat) /\ Len(given) + Len(fly) = Handed
        /\ \A i \in 1 .. Len(fly) : fly[i] = 0 + Len(given) + i
    <3>1. CASE Owed = {}
      <4>1. fly = <<>> /\ Len(fly) = 0 /\ fly \in Seq(Nat)
        BY <2>1, <3>1 DEF InFlight
      <4>2. Len(given) = Handed
        BY <1>1, <3>1 DEF BytesInOrder
      <4> QED BY <2>4, <4>1, <4>2
    <3>2. CASE Owed # {}
      <4>1. PICK j \in Owed : fly = posts[j].bytes
        BY <2>1, <3>2 DEF InFlight
      <4>2. /\ \A i \in 1 .. Len(fly) : fly[i] = Len(given) + i
            /\ Len(given) + Len(fly) = Handed
        <5>1. /\ \A i \in 1 .. Len(posts[j].bytes) : posts[j].bytes[i] = Len(given) + i
              /\ Len(given) + Len(posts[j].bytes) = Handed
          BY <1>1 DEF BytesInOrder
        <5> QED BY <4>1, <5>1
      <4>3. fly \in Seq(Nat)
        <5>1. posts \in Seq(Post) /\ j \in DOMAIN posts
          BY <1>1 DEF BodyTypeOK, Owed
        <5>2. posts[j] \in Post
          BY <5>1, ElementOfSeq
        <5>3. fly \in Seq(1 .. MaxBytes) /\ MaxBytes \in Nat
          BY <4>1, <5>2 DEF Post, Bytes, SizesAssumption
        <5> QED BY <5>3, SeqMonotonic
      <4> QED BY <2>4, <4>2, <4>3
    <3> QED BY <3>1, <3>2
  <2>6. PICK one : one = given \o fly
    OBVIOUS
  <2>7. /\ one \in Seq(Nat) /\ Len(one) = Handed
        /\ \A i \in 1 .. Len(one) : one[i] = 0 + i
    <3>1. /\ given \o fly \in Seq(Nat) /\ Len(given \o fly) = Len(given) + Len(fly)
          /\ \A i \in 1 .. Len(given \o fly) : (given \o fly)[i] = 0 + i
      BY <2>4, <2>5, Joined
    <3> QED BY <2>5, <2>6, <3>1
  <2>8. PICK all : all = one \o queued
    OBVIOUS
  <2>9. all \in Seq(Nat) /\ Len(all) = arrived /\ \A i \in 1 .. Len(all) : all[i] = 0 + i
    <3>1. \A i \in 1 .. Len(queued) : queued[i] = 0 + Len(one) + i
      BY <2>3, <2>7
    <3>2. /\ one \o queued \in Seq(Nat) /\ Len(one \o queued) = Len(one) + Len(queued)
          /\ \A i \in 1 .. Len(one \o queued) : (one \o queued)[i] = 0 + i
      BY <2>3, <2>7, <3>1, Joined
    <3> QED BY <2>3, <2>7, <2>8, <3>2
  <2>10. all = [i \in 1 .. arrived |-> i]
    <3>1. DOMAIN all = 1 .. arrived /\ \A i \in 1 .. arrived : all[i] = i
      BY <2>3, <2>9
    <3>2. all = [i \in 1 .. arrived |-> all[i]]
      BY <2>9, <3>1
    <3> QED BY <3>1, <3>2
  <2> QED BY <2>1, <2>2, <2>6, <2>8, <2>10
<1> QED BY <1>2, <1>3

(* Whatever the sizes: every byte receive() accepted reaches the consumer  *)
(* once and in order and the end after the last, a session that stays      *)
(* within the credit on_consume gives back is never refused, and it is     *)
(* told of one end of the body only.                                       *)
THEOREM SoundBody == SizesAssumption => (BodySpec => []BodyIsSound)
<1> SUFFICES ASSUME SizesAssumption PROVE BodySpec => []BodyIsSound
  OBVIOUS
<1>1. BodyInit => StreamInv
  BY StreamStarts
<1>2. StreamInv /\ [BodyNext]_bodyVars => StreamInv'
  BY StreamKept
<1>3. StreamInv => BodyIsSound
  BY StreamIsSound
<1> QED BY <1>1, <1>2, <1>3, PTL DEF BodySpec
=============================================================================

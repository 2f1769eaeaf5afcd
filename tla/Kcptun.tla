------------------------------ MODULE Kcptun -------------------------------
(***************************************************************************)
(* src/transport/shadowsocks/kcptun_session.cpp, in two parts with         *)
(* variables of their own.                                                 *)
(*                                                                         *)
(* A session: smux over the KCP carrier.  Its streams read, write and keep *)
(* to their windows as those of WebSocketMux do, from which their steps    *)
(* are taken; opening, closing, keepalive and the frames it accepts are    *)
(* its own.                                                                *)
(*                                                                         *)
(* The pool of such sessions (KcptunClientPool): a fixed number of slots   *)
(* used in turn, sessions that expire, the scavenger, and an endpoint that *)
(* may change.  Carriers may fail to be made.                              *)
(***************************************************************************)
EXTENDS Integers, Sequences, FiniteSets

CONSTANTS Streams, Frame, Window, Buffer, MaxUnits,
          MaxNops    \* bound: keepalive frames

VARIABLES str, slots, out, closed, peer,  \* as in WebSocketMux; no open is pending
          nops       \* keepalive frames sent

sessionVars == <<str, slots, out, closed, peer, nops>>

Mux == INSTANCE WebSocketMux WITH Version <- "smux2", MaxStreams <- Cardinality(Streams) + 1,
           pending <- {}
KcptunAssumption == Mux!MuxAssumption /\ MaxNops \in Nat

Nop == [kind |-> "nop", s |-> 0, n |-> 0]
SessionTypeOK ==
    /\ slots \subseteq Streams /\ closed \in BOOLEAN /\ nops \in 0 .. MaxNops
    /\ \A i \in 1 .. Len(out) : out[i].kind \in {"syn", "push", "fin", "update", "nop"}

SessionInit == Mux!Init /\ nops = 0

-----------------------------------------------------------------------------
\* open_stream(): the handle is there at once; the frame that opens it is queued.
OpenStream(s) ==
    /\ str[s].open = "none" /\ UNCHANGED <<closed, peer, nops>>
    /\ IF closed THEN str' = [str EXCEPT ![s].open = "refused"] /\ UNCHANGED <<slots, out>>
       ELSE /\ str' = [str EXCEPT ![s].open = "open"] /\ slots' = slots \cup {s}
            /\ out' = Append(out, Mux!Frm("syn", s, 0))

\* async_read_some(), async_write(), cancel_read(), cancel_write(), shutdown_send().
AsyncReadSome(s) == Mux!ReadSome(s) /\ UNCHANGED nops
AsyncWrite(s) == \E n \in 1 .. MaxUnits : Mux!WriteSome(s, n) /\ UNCHANGED nops
CancelRead(s) == Mux!CancelRead(s) /\ UNCHANGED nops
CancelWrite(s) == Mux!CancelWrite(s) /\ UNCHANGED nops
ShutdownSend(s) == Mux!ShutdownSend(s) /\ UNCHANGED nops

\* close(): the peer is told unless a half close was asked for, which may not have
\* been sent.  Mutant: it is told in any case.
CloseTells(s) ==
    /\ Mux!Usable(s) /\ ~str[s].closed
    /\ str' = [str EXCEPT ![s] = [Mux!Released(str[s]) EXCEPT !.closed = TRUE, !.local = TRUE,
                                                              !.endEnq = TRUE]]
    /\ out' = Append(out, Mux!Frm("fin", s, 0))
    /\ slots' = slots \ {s} /\ UNCHANGED <<closed, peer, nops>>
Close(s) ==
    /\ Mux!Usable(s) /\ ~str[s].closed
    /\ str' = [str EXCEPT ![s] = [Mux!Released(str[s]) EXCEPT !.closed = TRUE, !.local = TRUE,
                                                              !.endEnq = @ \/ ~str[s].local]]
    /\ out' = (IF str[s].local THEN out ELSE Append(out, Mux!Frm("fin", s, 0)))
    /\ slots' = slots \ {s} /\ UNCHANGED <<closed, peer, nops>>

\* run_keepalive(): a frame per interval for as long as the session lives.
Keepalive == /\ ~closed /\ nops < MaxNops /\ nops' = nops + 1 /\ out' = Append(out, Nop)
             /\ UNCHANGED <<str, slots, closed, peer>>

\* pump_write(): the completion of the frame being written.
FrameWritten == /\ UNCHANGED nops
                /\ \/ out # <<>> /\ out[1] # Nop /\ Mux!FrameWritten
                   \/ out # <<>> /\ out[1] = Nop /\ out' = Tail(out)
                      /\ UNCHANGED <<str, slots, closed, peer>>

\* read_header(), read_payload(), handle_frame(): a frame for one of the streams.
OnPush(s) == Mux!OnData(s) /\ UNCHANGED nops
OnFin(s) == Mux!OnRemoteEnd(s) /\ UNCHANGED nops
OnUpdate(s) == Mux!OnUpdate(s) /\ UNCHANGED nops
HandleFrame(s) == OnPush(s) \/ OnFin(s) \/ OnUpdate(s)
\* fail(), close(): of the carrier, by a frame nobody may send, or by the pool.
Fail == Mux!SessionEnds /\ UNCHANGED nops

SessionNext ==
    \/ FrameWritten \/ Fail \/ Keepalive
    \/ \E s \in Streams : OpenStream(s) \/ AsyncReadSome(s) \/ AsyncWrite(s) \/ CancelRead(s)
                          \/ CancelWrite(s) \/ ShutdownSend(s) \/ Close(s) \/ HandleFrame(s)
SessionSpec == SessionInit /\ [][SessionNext]_sessionVars

-----------------------------------------------------------------------------
\* The streams that have an entry are those in use.
EntriesExact == slots = {s \in Streams : ~closed /\ str[s].open = "open" /\ ~str[s].closed}
\* The peer is told of a stream that was closed, unless its half close still waited
\* behind a write, which the close cut off.
ClosedIsTold == \A s \in Streams : (~closed /\ str[s].open = "open" /\ str[s].closed)
                                       => str[s].endEnq \/ (str[s].endReq /\ str[s].cut)
KcptunIsSound == /\ SessionTypeOK /\ Mux!EndIsLast /\ Mux!WindowKept /\ Mux!WaitsRightly
                 /\ Mux!PeerMaySend /\ Mux!ReadsExact /\ EntriesExact /\ ClosedIsTold

-----------------------------------------------------------------------------
(* The pool.                                                               *)

CONSTANTS Slots,       \* connection_count
          Endpoints,   \* addresses of the server
          Expire,      \* auto_expire_seconds, in ticks; 0 for never
          Ttl,         \* scavenge_ttl_seconds
          Period,      \* kScavengePeriod
          MaxSessions, \* bound: sessions made
          MaxClock     \* bound: ticks

PoolAssumption == /\ {Slots, Period} \subseteq Nat \ {0} /\ {Expire, Ttl, MaxClock} \subseteq Nat
                  /\ MaxSessions \in Nat

VARIABLES
    slot,      \* slot -> its session, or 0
    session,   \* session -> [state, born, to]
    made,      \* sessions made
    robin,     \* round_robin
    endpoint,  \* remote_endpoint, or "none"
    poolClosed, \* closed
    clock,     \* ticks
    wakes      \* when run_scavenge() wakes, or 0 when it has returned

poolVars == <<slot, session, made, robin, endpoint, poolClosed, clock, wakes>>

Numbers == 0 .. Slots - 1
SessionIds == 1 .. MaxSessions
PoolTypeOK ==
    /\ slot \in [Numbers -> 0 .. MaxSessions] /\ made \in 0 .. MaxSessions
    /\ robin \in Numbers /\ endpoint \in Endpoints \cup {"none"} /\ poolClosed \in BOOLEAN
    /\ \A i \in SessionIds : session[i].state \in {"none", "live", "closed"}

PoolInit ==
    /\ slot = [i \in Numbers |-> 0] /\ made = 0 /\ robin = 0 /\ endpoint = "none"
    /\ session = [i \in SessionIds |-> [state |-> "none", born |-> 0, to |-> "none"]]
    /\ poolClosed = FALSE /\ clock = 0 /\ wakes = Period

-----------------------------------------------------------------------------
Shut(ss) == [i \in SessionIds |->
                IF i \in ss THEN [session[i] EXCEPT !.state = "closed"] ELSE session[i]]
Held == {slot[i] : i \in Numbers} \ {0}
Age(i) == clock - session[i].born
Expired(i) == Expire > 0 /\ Age(i) >= Expire

\* open_stream(): the slots of another endpoint are emptied; the next slot in turn, its
\* session replaced if it is gone or has expired.
OpenPooled(e) ==
    /\ ~poolClosed
    /\ LET moved == endpoint # e
           held == IF moved THEN 0 ELSE slot[robin]
           old == IF moved THEN Held ELSE IF held # 0 /\ Expired(held) THEN {held} ELSE {}
           usable == held # 0 /\ session[held].state = "live" /\ held \notin old
           base == IF moved THEN [i \in Numbers |-> 0] ELSE slot IN
       \/ /\ usable /\ slot' = base /\ made' = made /\ session' = Shut(old)
       \/ /\ ~usable /\ made < MaxSessions /\ made' = made + 1
          /\ slot' = [base EXCEPT ![robin] = made']
          /\ session' = [Shut(old) EXCEPT ![made'] = [state |-> "live", born |-> clock, to |-> e]]
       \* no carrier
       \/ ~usable /\ slot' = [base EXCEPT ![robin] = 0] /\ session' = Shut(old) /\ made' = made
    /\ robin' = (robin + 1) % Slots /\ endpoint' = e /\ UNCHANGED <<poolClosed, clock, wakes>>

\* The session fails, or its carrier does.
SessionFails(i) == /\ session[i].state = "live" /\ session' = Shut({i})
                   /\ UNCHANGED <<slot, made, robin, endpoint, poolClosed, clock, wakes>>

\* run_scavenge(): sessions that are closed, or past expiry and grace, leave their slots.
\* Mutant: only those that are closed.
StaleWhenClosed(i) == slot[i] # 0 /\ session[slot[i]].state = "closed"
Stale(i) == slot[i] # 0 /\ (\/ session[slot[i]].state = "closed"
                            \/ Expire > 0 /\ Age(slot[i]) >= Expire + Ttl)
Scavenge == /\ wakes = clock /\ wakes # 0
            /\ IF poolClosed THEN wakes' = 0 /\ UNCHANGED <<slot, session>>
               ELSE /\ wakes' = clock + Period
                    /\ session' = Shut({slot[i] : i \in {j \in Numbers : Stale(j)}})
                    /\ slot' = [i \in Numbers |-> IF Stale(i) THEN 0 ELSE slot[i]]
            /\ UNCHANGED <<made, robin, endpoint, poolClosed, clock>>

ClosePool ==
    /\ ~poolClosed /\ poolClosed' = TRUE
    /\ session' = Shut(Held) /\ slot' = [i \in Numbers |-> 0]
    /\ UNCHANGED <<made, robin, endpoint, clock, wakes>>

Tick == /\ clock < MaxClock /\ wakes # clock /\ clock' = clock + 1
        /\ UNCHANGED <<slot, session, made, robin, endpoint, poolClosed, wakes>>

PoolNext ==
    \/ Scavenge \/ ClosePool \/ Tick
    \/ \E e \in Endpoints : OpenPooled(e)
    \/ \E i \in SessionIds : SessionFails(i)
PoolSpec == PoolInit /\ [][PoolNext]_poolVars

-----------------------------------------------------------------------------
Live == {i \in SessionIds : session[i].state = "live"}
\* A live session is in one slot: none is forgotten, none used by two slots.
SessionsHeld == /\ Live \subseteq Held
                /\ \A i, j \in Numbers : slot[i] = slot[j] /\ slot[i] # 0 => i = j
\* Sessions lead to the endpoint in use.
SameEndpoint == \A i \in Live : session[i].to = endpoint
\* None outlives its time, its grace and a round of the scavenger.
LifeIsBounded == Expire > 0 => \A i \in Live : Age(i) <= Expire + Ttl + Period
\* A closed pool holds nothing.
ClosedIsEmpty == poolClosed => Live = {}
PoolIsSound == PoolTypeOK /\ SessionsHeld /\ SameEndpoint /\ LifeIsBounded /\ ClosedIsEmpty
=============================================================================

---------------------------- MODULE Socks4Request ----------------------------
(***************************************************************************)
(* run_socks4_request() and read_socks4_cstring() of                       *)
(* src/proxy/proxy_session_socks4.cpp, after the fixed header: the user id *)
(* and, in a SOCKS4a request, the domain are read as strings that end with *)
(* a zero byte.  TCP delivers the client's bytes in pieces of any size.    *)
(***************************************************************************)
EXTENDS Integers, Sequences, SequencesExt

CONSTANTS UserIds, Domains, \* the strings a client may send
          Terminator,       \* the zero byte
          MaxString         \* kSocks4MaximumStringLength

StringsAssumption ==
    /\ MaxString \in Nat
    /\ \A s \in UserIds \cup Domains : s \in Seq(ToSet(s)) /\ Terminator \notin ToSet(s)

VARIABLES
    request,  \* what the client asked for: [user, domain, is4a]
    wire,     \* the client's bytes that were not read yet
    payload,  \* socks4_payload_
    stage,    \* "user", "domain", "open", "rejected", "closed"
    user,     \* socks4_user_id_
    domain    \* socks4_domain_

socks4Vars == <<request, wire, payload, stage, user, domain>>

Bytes(r) == r.user \o <<Terminator>> \o (IF r.is4a THEN r.domain \o <<Terminator>> ELSE << >>)

Socks4Requests == [user : UserIds, domain : Domains, is4a : BOOLEAN]

Socks4TypeOK ==
    /\ request \in Socks4Requests /\ IsSuffix(wire, Bytes(request))
    /\ Len(payload) <= MaxString + 1
    /\ stage \in {"user", "domain", "open", "rejected", "closed"}

\* The header was read and run_socks4_request awaits the first string.
Socks4Init ==
    /\ request \in Socks4Requests /\ wire = Bytes(request)
    /\ payload = << >> /\ stage = "user" /\ user = << >> /\ domain = << >>

Reading == stage \in {"user", "domain"}
Complete == Contains(payload, Terminator)

\* async_read_some delivers the next n bytes; a string that is too long
\* closes the session.
Pull(n) ==
    /\ Reading /\ ~Complete
    /\ n \in 1 .. Len(wire) /\ wire' = SubSeq(wire, n + 1, Len(wire))
    /\ IF Len(payload) + n > MaxString + 1
         THEN stage' = "closed" /\ UNCHANGED payload
         ELSE payload' = payload \o SubSeq(wire, 1, n) /\ UNCHANGED stage
    /\ UNCHANGED <<request, user, domain>>

\* The read fails, or the client closed its end.
PullFails ==
    /\ Reading /\ ~Complete /\ stage' = "closed"
    /\ UNCHANGED <<request, wire, payload, user, domain>>

\* Mutant: the terminator is part of the text.
TextWithTerminator == SubSeq(payload, 1, SelectInSeq(payload, LAMBDA b : b = Terminator))
Text == SubSeq(payload, 1, SelectInSeq(payload, LAMBDA b : b = Terminator) - 1)

\* The user id is complete; an unknown user is rejected.  The next call of
\* read_socks4_cstring begins by clearing socks4_payload_, so what was read
\* beyond the terminator is gone.
TakeUser ==
    /\ stage = "user" /\ Complete
    /\ user' = Text
    /\ \/ stage' = "rejected" /\ UNCHANGED payload
       \/ stage' = "open" /\ ~request.is4a /\ UNCHANGED payload
       \/ stage' = "domain" /\ request.is4a /\ payload' = << >>
    /\ UNCHANGED <<request, wire, domain>>

\* The domain is complete: an empty one is rejected, another one opened.
TakeDomain ==
    /\ stage = "domain" /\ Complete
    /\ domain' = Text /\ stage' = IF Text = << >> THEN "rejected" ELSE "open"
    /\ UNCHANGED <<request, wire, payload, user>>

Socks4Next == (\E n \in 1 .. Len(wire) : Pull(n)) \/ PullFails \/ TakeUser \/ TakeDomain

Socks4Spec == Socks4Init /\ [][Socks4Next]_socks4Vars

(***************************************************************************)
(* Properties                                                              *)
(***************************************************************************)
\* However TCP cuts the request, the user id is the client's.
UserIdExact == stage \in {"domain", "open"} => user = request.user

\* However TCP cuts the request, the target that is opened is the one the
\* client asked for.
OpensWhatWasAsked == (stage = "open" /\ request.is4a) => domain = request.domain
=============================================================================

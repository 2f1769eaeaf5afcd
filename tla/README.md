# TLA+ models of clash-native

This directory holds a verification project for clash-native, a proxy client in
C++23: TLA+ modules translated from the code under `src/` and `include/`, TLC
configurations that check them on small instances, and TLAPS proofs for every
value of the constants. `PROJECT.json` maps every definition to the lines it
translates and lists runs, mutants, hazards, findings and theorems.

Paths in this document are relative to the repository's root.

## 1. The system

clash-native accepts connections on a local SOCKS/HTTP port, decides by rules
through which outbound each one goes, resolves names through its own DNS stack,
and relays bytes and datagrams. Everything runs on one `AsioRuntime` (a pool of
threads around an `io_context`); a component that needs order owns a strand, on
which its closures run one at a time and in the order of their posting.
Asynchrony is written with `stdexec` senders and coroutine tasks; stop requests
travel through stop tokens and may come from any thread.

### 1.1 Components, their state and their operations

| Component | State it keeps | Operations | What makes it correct |
|---|---|---|---|
| `async::mpsc` (`include/clash_native/async/mpsc.hpp`) | buffer, list of parked sends, one parked receive, sender count, closed | send, try_send, recv, try_recv, close, handle copies and drops, stop, destruction of an operation | each operation is completed once; values leave in the order accepted; a parked send is woken when a slot is free; no value is lost |
| `async::watch`, `async::broadcast` | latest value and version; ring buffer with sequence numbers, a cursor per receiver; list of parked pulls | send, pull, close, subscribe, copy, drop, stop, destruction | a waiter has nothing to read; what a receiver got and what it was told it missed add up |
| `async::callback_sender` | a reference-counted block shared by start(), the terminal, the stop callback and the destructor | those four | first of the parties wins, once; nobody touches the block or the operation after its end; aborted work ends |
| `dns::DnsQueryService` | coalescing table, cache with LRU list, waiters per operation, gate and stopped flags | query, cancel, clear_cache, stop, destruction | every query is answered once, under its own id; equal questions share one exchange; a cancel hurts only its own request; a stopped service is silent |
| `dns::DnsUpstreamGroup` | operations with their member list and deadline, health and backoff per member, round-robin position | exchange, abort, stop; the retry loop | it implements `DnsExchange`; a member is given time; a failing member is left alone for its backoff |
| `dns::AsioDnsTransport` | transaction ids in use, UDP operations, the shared TCP session: write queue, pending requests, generation, timers | exchange, cancel, stop, write loop, read loop, deadlines | it implements `DnsExchange`; ids are unique; a request is failed by its own deadline only; a broken session strands nobody |
| `proxy::ProxyServer`, `ProxySession`, `ConnectionRegistry` | acceptor, sessions, registry records, drain state; per session phase, handles and relay | start, stop, accept, route, open, relay, close_connection | stop() returns only when nothing is left; the registry has the record of every open connection, and no record outlives its connection but in the race of section 6 |
| `proxy::TcpRelay` | byte counters, `last_activity_`, `finished_`, both handles | two pumps, idle watchdog, stop, finish | ends follow data; statistics are true and reported once; an idle relay ends |
| SOCKS5 UDP associations and `Socks5UdpListener` | pinned client, pending packets, paths with their response loops | datagram in, route, send, respond, stop | replies go to the client that asked; a bounded number of paths; stop reaches every path |
| SOCKS4/SOCKS4a request | bytes read past the previous field | read user id, read domain | what is opened is what was asked |
| HTTP proxy session | request being parsed, forwarding exchange, request body stream, registry record | read, authenticate, forward, upgrade, CONNECT, keep-alive, close | answers in the order of the requests; a body is never parsed as a request; keep-alive means alive |
| HTTP/1.1 client session | queue of exchanges, active exchange, parser and buffer, deadline timer | exchange, streamed exchange, tunnel, cancel, stop | a response belongs to its request; each exchange is told its end once; a connection goes back to idle only when it is clean |
| `io::QueuedExchangeBodyStream` | queue of bytes, parked pull, end or error | receive, finish, fail, pull, abort a pull, cancel | bytes arrive once and in order; the end comes after the last byte; every pull completes |
| HTTP/2 client session | pending exchanges, streams, exchanges that wait for the peer's settings, keepalive, read and write in progress, retired and stopped flags | exchange, streamed exchange with upload, tunnel, cancel, stop; GOAWAY, SETTINGS, resets, PING, deadlines | each exchange is told its end once; GOAWAY, drain and loss of the connection forget nobody; one exchange's end leaves the others alone; a silent peer is noticed |
| `io::HttpTunnelStreamState` | queue of bytes, parked read and write, half close requested, ends | read, write, half close, close, stop of a read or a write; receive, remote end, failure | bytes in order; a half close neither overtakes a write nor is forgotten; whoever waits is told of the end |
| HTTP/3 client session | exchanges that wait, are open, are over; what nghttp3 has to send; the one write that is with QUIC | exchange, streamed exchange with upload, tunnel, cancel, stop; stream limit, blocked streams, resets, deadlines | as for HTTP/2; an exchange waits for a stream only while there is none |
| QUIC client | writes per stream, the queue of ready streams, blocked streams, datagrams, the pass that writes packets; handles of streams and datagrams | open, write, shut down, credit, read, close, stop; receive, timers, failure | writes complete in order, once; a stream with data is in the queue or blocked; whoever waits is told of the end |
| WebSocket client | handshake with the carrier it owns; messages and bytes of a stream | handshake with early data, deadline, cancel; read, write, stop, close | the carrier is handed over or closed, once; bytes in order |
| gRPC call, gun streams and their pool | request body, frames being read, what does not fit; transports and their reserved streams | open, read, write, half close, close, stop; dial | frames in order; the body within its limit; reserved streams are given back |
| `async` stream combinators, `async::oneshot` | the item and count of a stage, drivers and sentinels of a merge, children of a map; value, waiter and stop | pull, push, stop, drop; send, receive | order is kept, nothing is lost; an end is an end; a receiver completes once |
| WebSocket multiplexer, kcptun sessions and pool | streams with windows and parked operations, the write queue; slots of sessions | open, read, write, half close, close, stop; frames in, keepalive, scavenger | windows are respected; ends follow data; whoever waits is told; a session is in one slot |
| DoT, DoH1, DoH2, DoQ and DoH3 transports | exchanges by id, a shared session or a pool of them, deadlines, idle timers | exchange, cancel, stop; connect, read, write, failure, retirement | they implement `DnsExchange`; a session that has exchanges lives, one that has none ends |
| bootstrap resolver and transport | the request being driven through servers and system; the inner transport and the exchanges before it | resolve, exchange, cancel, stop | an answer is found while a server would give one and there is time; stop leaves nothing behind |
| `dns::DnsServer` | the UDP and accept loops, UDP tasks, TCP connections | start, stop, restart; receive, answer, read, write | an answer for each query; stop closes every connection |
| address and ECH resolvers, FakeIpStore, codec | lookups in progress, name and address tables | resolve, map | not modelled yet |
| TLS, REALITY, Shadowsocks, Trojan and KCP transports | ciphers, record buffers | read, write, handshake | not modelled yet; the cryptography never |
| outbounds, dialer, router | configuration, groups | open a stream or a datagram for a target | seen by the proxy models as an open that succeeds, fails or is stopped |
| runtime, application, core | threads, lifetime | start, stop, join | taken as the meaning of a strand |

`PROJECT.json` lists all of them under `components` with the reason for what is
left out.

### 1.2 How the components interact

* A `ProxySession` reads a request, asks the server to route it (which may ask
  the resolver), opens the target through an outbound and hands both handles to a
  `TcpRelay`, or forwards HTTP exchanges over an `Http1` session whose response
  body is a `QueuedExchangeBodyStream`. The HTTP/2 session offers the same
  exchanges, and tunnels over `HttpTunnelStreamState`, and so does the HTTP/3
  session over a QUIC connection. gRPC calls and gun streams are exchanges of such a
  session with a body of frames.
* The management thread calls `ProxyServer::stop()` and `close_connection()`
  while the sessions run on their strands.
* `DnsQueryService` posts each query to its strand, joins or starts an exchange
  of a `DnsUpstreamGroup`, which tries its members; a member is a `DnsUpstream`
  over a transport: plain, DoT, DoH or DoQ, or a bootstrap transport in front of one,
  which asks the bootstrap resolver for the address first. All of them offer the same
  promise, `DnsExchange`. `DnsServer` puts clients of the local network in front.
* Channels and `callback_sender` are what the other components wait on. A stop
  request, a completion and a destructor may meet in any of them.

### 1.3 What is hard

Completion, stop and destruction of one operation race on three threads; a
closure that was posted before stop() runs after it; a timer that belongs to an
ended request fires; a member fails at the very end of the time of an exchange;
a transaction id is reused; a half-closed direction, the watchdog and an explicit
stop all finish one relay; a kept-alive connection carries the state of the
previous exchange into the next one; a TCP segment holds the end of one field
and the beginning of the next. The `hazards` of `PROJECT.json` are this list, at
the lines where they bite.

## 2. Modules

Every component has a module of its own. State variables keep the names of the
members they stand for; an action is one critical section, one closure on a
strand, or one step between two suspension points of a coroutine, with all the
calls it makes. A block of definitions whose comment says `mutant` is a wrong
variant used to see that a property can fail; no action uses it.

| Module | Models | Remarks on the abstraction |
|---|---|---|
| `MpscChannel` | `async::mpsc` | An operation is a model value, which is also the value it sends. `owed` holds the completions collected under the lock and delivered after it. `stage` is the arbitration state, `phase` the progress of start(). |
| `WaitOp` | the operation states of watch and broadcast | Stop callbacks, deregistration and destruction of a parked pull, shared by the two channels. |
| `WatchChannel`, `BroadcastChannel` | `async::watch`, `async::broadcast` | Values of watch are versions; broadcast keeps values and numbers apart, since a wrong copy is a possible error. |
| `CallbackSender` | `async::callback_sender` | Four parties with program counters over `done`, the aborter and `refs`; the initiation may throw before or after it hands out its handler. Which of the known races a behaviour met is recorded in `raced`. |
| `DnsExchange` | what group and transport promise | Exchanges wait, begin, and end once with a response, an error or their cancellation. |
| `DnsUpstreamGroup` | `dns::DnsUpstreamGroup` | Integer time; a member ends with one of the outcomes a transport has. Implements `DnsExchange`. |
| `DnsPlainTransport` | `dns::AsioDnsTransport` | The network loses, delays, truncates and breaks; ids come from a small set. Implements `DnsExchange`. |
| `DnsQueryService` | `dns::DnsQueryService` | The strand is a queue of closures; TTLs are small integers with the 32-bit maximum as a constant. |
| `ProxyServer` | `ProxyServer`, `ProxySession`, `ConnectionRegistry` | Session phases; management calls interleave with every step of a session. |
| `TcpRelay` | `proxy::TcpRelay` | Chunks are counted; time is in ticks. |
| `SocksUdp` | associations and `Socks5UdpListener` | One module, parameterised by the form. |
| `Socks4Request` | reading of SOCKS4 fields | A request is a sequence of letters, cut into segments anywhere. |
| `HttpForward` | the HTTP proxy session | A request is one of nine kinds. |
| `Http1Session` | the HTTP/1.1 client session | Responses carry the exchange they answer. |
| `ExchangeBody` | `QueuedExchangeBodyStream` | Bytes are numbered. |
| `Http2Session` | the HTTP/2 client session | nghttp2 is external: what it holds to send is a set of frames with its priorities, a read brings one frame, and it closes a stream that both sides ended or one side reset. |
| `TunnelStream` | `HttpTunnelStreamState` with the closures of accept_tunnel() | Bytes are numbered; the executor is a queue of posts. |
| `Http3Session` | the HTTP/3 client session | nghttp3 is external: it has a set of frames to send and hands out one at a time; the QUIC connection consumes a write later, or never. |
| `QuicClient`, `QuicHandles` | the QUIC connection; a stream's or the datagrams' handle with its user | ngtcp2 is external: it takes a write in parts, blocks, or sends nothing for now; a packet carries one event. `QuicHandles` abstracts the connection to a queue of writes that complete in order. |
| `WebSocket` | the handshake operation; the two streams it hands over | Beast is external. |
| `GrpcCall`, `Gun` | a gRPC call; a gun stream and the pool of gun sessions, with variables of their own | The session is external: it opens, pulls and delivers. A frame is a prefix and a payload. |
| `StreamOps`, `StreamMerge` | the stream adaptors; merge with its push subscription and, with variables of its own, the map of polled sources (`StreamMap`) | Sources are external and may fail or stop. |
| `OneshotChannel` | `async::oneshot` | Steps as in `MpscChannel`. |
| `WebSocketMux`, `Kcptun` | streams over one WebSocket in two protocols; a kcptun session, which takes the reads, writes and windows of `WebSocketMux`, and the pool of sessions | Data is counted in units. |
| `DotTransport`, `DohTransport`, `QuicDnsTransport` | the encrypted DNS transports; the second is DoH over HTTP/2 and, with actions of its own, over HTTP/1.1, the last one DoQ or DoH3 | Upstream, TLS and the HTTP or QUIC session are external. `DohTransport` has the queue of closures posted to the strand of DoH2. They implement `DnsExchange`. |
| `Bootstrap` | the transport that resolves first, and the resolver, each with variables of its own | They implement `DnsExchange` too. |
| `DnsServer` | `dns::DnsServer` | Answers, failures and failures without a question are told apart. |
| `MpscProofs`, `DnsGroupProofs`, `DnsQueryProofs`, `DnsPlainProofs`, `Http1Proofs`, `SessionProofs` | | Theorems, see section 5. `SessionProofs` is about the inbound side (the server with its registry, relay, UDP paths, HTTP requests, SOCKS4 fields), `Http1Proofs` about the HTTP/1.1 session and the body of a response. |

Layers: `MCAsync` (primitives), `MCDns` (resolver), `MCProxy` (inbound side, and the
carriers of outbound streams) and `MCHttp` (HTTP client, QUIC) compose the components of a layer for TLC, and
`MCLive` those of all layers that owe somebody progress, within closer bounds. A layer's state
is the state of its components and a variable `subject`, which says which
component a behaviour is about; the others stay in an initial state. A layer's
run therefore explores each of its components completely, and in several
instances of their constants or scopes (for example `tcp`, `udp` and `quiet` are three
scopes of `DnsPlainTransport`, the last two without `PreferTcp`; `stopping`, `sharing`, `caching` and `serving` are four
scopes of `DnsQueryService`, in each of which callers and upstreams do a part of what
the constants allow). Components that are never explored
together share the variables `q1`, `q2`, ... of the layer module, to which their
`INSTANCE` gives their names. A layer `EXTENDS` the components whose properties it checks
under their own names (`MCProxy`: the server, the relay, the UDP association, the HTTP
session, the SOCKS4 request; `MCDns`: the group, the query service, the plain transport;
`MCHttp`: the HTTP/1.1 session and the body of a response; `MCLive`: the mpsc channel and the
HTTP session), so that the formula of a run is the formula of a theorem. `DnsExchange` relates components of a
layer by refinement: the group, the transports and the bootstrap resolver are shown
to implement it.

## 3. Runs

| Run | Question |
|---|---|
| `async` | Do claim, close, stop, destruction and handle drops of the channels and the adaptor leave every operation completed once and every value accounted for? Do streams keep their order through every stage (`StreamsKeepOrder`)? |
| `dns` | Does the resolver answer each query once and as asked, while it shares, caches, cancels, retries, reuses ids and stops? Do the encrypted transports, the bootstrap and the server forget no exchange, strand none and keep no session for nobody (`ResolversAreSound`)? |
| `proxy` | Is the inbound side consistent: server and registry, relay, datagram paths, SOCKS4 fields, HTTP requests? Are the multiplexed carriers of the outbounds (`CarriersAreSound`), and do WebSocket, gRPC and gun streams keep their order and their ends (`MessagesAreSound`)? |
| `http` | Do exchanges on one connection, in sequence or multiplexed, and the bytes of a body and of a tunnel stay apart and in order? Does that hold for HTTP/3 and QUIC (`QuicIsSound`)? |
| `live` | What must happen, does it? Close and stop release whoever waits in a channel, an adaptor or a merge (`EveryoneReleased`); stop() of the server returns, a silent relay ends, an HTTP session gets on, a handshake is answered by its deadline (`EverythingEnds`); every exchange of the three HTTP versions is told its end and every pull and tunnel operation completes (`EverythingCompletes`); every query is answered (`QueryAnswered`); the group, the transports and the bootstrap keep the promise of `DnsExchange` (`PromisesKept`). Also the two safety properties that need a one-slot channel and an HTTP session without bodies. |
| `dns_group_cancel`, `proxy_server_restart`, `socks4a`, `http_forward_post`, `http3_siblings`, `unsubscribe`, `callback_throw` | The findings of section 6. |

### 3.1 Bounds

* `async`: two sends, two receives, two sender handles, a rendezvous channel
  (capacity 0) and an unbounded one. Two of each side are enough for a race of
  claim, close and stop; with capacity 0 every send parks, which is where the
  arbitration lives. In `live` it has one slot. Watch and broadcast have
  two receivers, or one with two overlapping pulls, and a buffer of one or two
  values, so that eviction and lag occur with the second send.
* `dns`: three members and two exchanges with a timeout of 3 and a clock up to 3,
  so that an exchange meets members in backoff and runs out of time in the middle
  of its list; three exchanges with two ids over TCP, where either the connection is
  lost or an id is given again while a timer of its previous owner is pending
  (`TcpScope`), and two with ids to spare, stray packets and stop() over
  UDP; two queries as the service stops, three that share an
  exchange of which two are cancelled, three over a cache of one entry,
  so that eviction occurs with the second name; `clear_cache()` only as the service stops.
* `proxy`: two sessions, three registry ids and two starts of the server; two
  clients, two destinations, four datagrams; requests of up to three messages;
  SOCKS4 requests of short fields cut everywhere; two chunks per direction, a
  timeout of 3 with slices of 2, so that the last slice is a shorter one; three datagrams
  for the listener, whose limit is two paths.
* `http`: four exchanges of any kind over HTTP/1.1; a body larger than its queue,
  with chunks larger and smaller than the reads, whose pulls are not stopped on their own (in
  `live` they are); two HTTP/2 exchanges (streaming
  or tunnels), since what one stream does to another takes two, and one of any other
  kind (buffered, upload, extended CONNECT) with keepalive; a tunnel with two reads and two
  writes of zero to two bytes over a window of two, and one with a read that may
  be stopped. `silent` counts four ticks, one more than the keepalive needs.
* `http`, continued: two HTTP/3 exchanges whose peer allows one stream, and one
  exchange with an upload, a streamed body or a tunnel; two QUIC streams with two writes
  each and flow control, or one stream with two datagrams; three operations on a handle,
  of which the reads may be stopped.
* `async`, continued: sources of up to two items, every stage, a merge and a map of
  two sources, two sends into a oneshot channel.
* `proxy`, continued: a multiplexer with windows and frames of one unit, so that
  every write meets the window; a pool of two slots with three sessions and a clock
  that outlasts expiry, grace and a round of the scavenger. Three operations on a
  WebSocket stream or a gRPC call, of which the reads may be stopped; gun reads of two
  frames, and writes of which the second does not fit behind the first; three dials of a
  pool of two transports.
* `dns`, continued: three exchanges over DoT and DoH1, with two sessions, so that
  a session is replaced under exchanges; two over DoH2, DoQ and DoH3, whose queue of
  closures or pool of sessions is what takes the states (over DoH2, before stop() an exchange
  is cancelled or one is late, not both: `Doh2Scope`); an idle limit of one, so that eviction occurs; four DoT ids for
  three exchanges, so that no id comes back while a timer of its last owner sleeps.
  A bootstrap request has two servers and two questions.
* `live`: TLC keeps a behaviour graph for each liveness property, so the instances are
  the smallest in which the obligation can still be missed: one send, two receiver handles
  and overlapping close for watch and broadcast; one slot, two sends and a receive for mpsc;
  a body larger than its queue with two pulls, stopped or not; one write on a tunnel that
  may be stopped; an HTTP/2 extended CONNECT with keepalive, three HTTP/1.1 exchanges, one
  HTTP/3 exchange of each kind; a group of two members with a timeout of 2; two exchanges
  for DoT, DoH1 and the transport that resolves first, one for the plain transport, DoH2,
  DoQ and the bootstrap resolver.

Deadlock is not checked in the layer runs: each component has states in which it
is rightly at rest (closed, stopped, or with its bounds used up).

### 3.2 Fairness

Fairness is stated once for `live`, over one action `Due` per subject: what is owed in a
state, someone does. `Due` holds only steps of the code and of its runtime, and each is one
that the component can take finitely often, or that leads to the end of what is waited
for, so that weak fairness of the disjunction is no stronger than of each part.
(`FairSpec` of a component's module names the parts.)

* A thread or a strand that has something to do does it: each thread's next step
  (`ThreadStep`), the strand's next closure, a coroutine's resumption. `AsioRuntime` runs
  until it is stopped and asio starves no handler.
* Timers fire and time passes: `Tick`, `TimePasses` and the expiries.
* An HTTP/2 session's socket write ends, with or without an error (`Written`): asio
  completes it, and the peer's flow control is not part of it. Its keepalive timer runs
  (`Pinged`). Both recur beside everything else and are weakly fair of their own. A
  tunnel's bytes may wait for the peer's window for ever.
* `stop()` of the server and the exit of its accept loop wait for the strand, which
  sessions take time and again: they are strongly fair (`StrandFrees`), which is what the
  first-in-first-out order of a strand gives.
* A resolver or an inner transport that was given an exchange ends it (`Ends` of
  `Bootstrap`): that is what its resolver part and the transports are shown to do.
* Nothing else is assumed of the environment: peers, upstreams and clients need not
  send, answer or close; users need not stop. Where an exchange nevertheless ends,
  a deadline of the code ends it. An operation that was aborted (a closed socket)
  does complete, which asio guarantees.

### 3.3 Mutants

For each property of each passing run `PROJECT.json` names a mutant: a definition
of the model replaced by a wrong variant, as a plausible bug would have it, under
which TLC finds the property violated.

## 4. Properties

Every property has a comment in its module. The ones to read first:

* `ExactlyOnce`, `NoValueLost`, `VerdictIsTrue`, `NoOvertaking` (`MpscChannel`);
* `FirstWins`, `RefsAccounted`, `OpUntouched` (`CallbackSender`);
* `EveryValueAccounted` (`BroadcastChannel`), `WaitersHaveSeen` (`WatchChannel`);
* `AnsweredOnceAsAsked`, `CancelIsIsolated`, `AnswersAreFresh` (`DnsQueryService`);
* `PromisesKept` (the refinement of `DnsExchange`), `EveryMemberHasTime`,
  `BackoffHonoured` (`DnsUpstreamGroup`), `TimesOutByOwnDeadline`,
  `NoRequestStranded` (`DnsPlainTransport`);
* `StopIsComplete`, `RegistryAgrees`, `StopReachesAll` (`ProxyServer`), `StatsAreHonest`,
  `IdleIsBounded` (`TcpRelay`), `RepliesGoHome`, `OldPathsHarmless` (`SocksUdp`),
  `RepliesInOrder`, `BodyIsNoRequest` (`HttpForward`);
* `IdsAgree`, `NoRequestStranded` (`DotTransport`), `ConnectionComes`,
  `CancelledIsExplained` (`DohTransport`), `PoolIsSound`, `NoneLeftWaiting`
  (`QuicDnsTransport`);
* `LifeIsBounded`, `SessionsHeld` (`Kcptun`), `MergeIsSound`,
  `MapIsSound` (`StreamMerge`), `QuicIsSound` (`MCHttp`) and
  `MessagesAreSound` (`MCProxy`), which join those of `Http3Session`, `QuicClient`, `WebSocket`, `Gun`
  and others;
* `ResponsesAreOwn`, `IdleIsClean` (`Http1Session`), `NothingLost`,
  `EofIsComplete` (`ExchangeBody`), `NobodyForgotten`, `HostagesFreed`,
  `SiblingsUntouched` (`Http2Session`), `ReadsInOrder`, `HalfCloseWaits`
  (`TunnelStream`).

A layer's run checks conjunctions of these named parts (`StreamsAreSound`,
`ServerIsSound`, ...): when one fails, the part that fails tells what went wrong.

## 5. Proofs

The theorems hold for every value of the constants that the named assumptions
allow, with any number of exchanges, clients or requests; the runs show the same
formulas on small instances. The inductive invariants were checked by TLC before
they were proved. An argument has the same form everywhere: the invariant is a conjunction
of named parts, each part says how two pieces of the state agree, and
there is a lemma for each action.

### 5.1 `MpscProofs`

For any finite or infinite sets of sends and receives, any capacity and any
number of sender handles: `TypeCorrect`, `CompletesAtMostOnce` (`ExactlyOnce`),
`SlotAlwaysDeliverable` (`SlotIsDeliverable`), `NoMissedWakeup`
(`WaitersMeanFull`), the two together as `WaitsHaveReasons`
(`NobodyWaitsInVain`), `ParkedSendsGoFirst` (`NoOvertaking`), and `NoValueAstray`
(`ValuesAccounted`: `Fifo`, `NoValueLost`, `VerdictIsTrue`).

None of them is inductive. That an operation is completed once depends on the
agreement of three places (the arbitration stage, the lists an operation is in,
and the completions owed to it): an operation that is in a list is waiting and is
owed nothing, an operation that is owed something has been claimed and is in no
list, and nobody is twice in the wait list. That parked sends mean a full buffer
needs that a receive is never parked while a value is there. The invariant is the
conjunction of these named parts; the step lemma has one step per action and, for
each, one per part the action can disturb.

Where the values are needs a second invariant, `ValueInv`, over the first: what was
accepted is, in order and once, what was taken followed by the buffer; each value that
was taken is with `try_recv` or held by exactly one receive, and a receive
holds one exactly when that is what it is told. An action is then one of five things
to the values (it leaves them, hands one over, pushes one, or pops one for a receive or
for `try_recv`), and the preservation of `ValueInv` is proved once for each.

### 5.2 `DnsGroupProofs`

For any exchanges, number of members, timeout and backoff (`GroupAssumption`):
`SoundGroup` (`GroupIsSound`), the action property `FairRetries` (`RetriesAreFair`), and
`KeepsExchangePromise`: the group's `Spec` implements `DnsExchange!Spec`.

The invariant adds to the properties that an exchange is done exactly when its one
outcome was delivered (`Settled`) and that the loop runs over members that exist
(`InMembers`). Two facts about operators carry the argument. A turn around the list from
any index finds a member of any set of members that is not empty (`FirstFromFinds`), so
that `SelectMember` finds none only when all were attempted. And the share of the time
that is left is less than the whole while another member is to come
(`ShareFacts`), so that each attempt leaves time for the next (`EveryMemberHasTime`).
The refinement is proved step by step: each action of the group begins exchanges, ends
one, ends several, or is a stutter under the mapping. That a
group with fairness implements `DnsExchange!FairSpec` (`PromisesKept`) stays with TLC.

Two details of the model come from this work. `Multiplier` is the table of the code's
powers instead of a recursion, for failure counts of at most eight, and
`None` is assumed to be no exchange and no member.

### 5.3 `DnsQueryProofs`

For any packets, transaction ids, answers, lifetimes and capacity of the cache
(`DnsQueryAssumption`), any number of requests, and a runtime that stops and starts:
`EveryQueryIsAnswered` (`RequestsAnswered`), `SharedExchanges` (`SharingIsSound`) and
`CacheStaysSound` (`CacheIsSound`), all from one inductive invariant
(`IndexesStayInStep`).

The invariant says where everything is. A request is posted, or waits, or was answered, and
only one of them (`InOnePlace`); an operation is not opened, live or completed, and live
is the same as being in `in_flight_` and having a waiter (`OperationsLive`); each live
operation has an exchange or a `finish()` on the strand (`LiveEnds`); a waiter asked for
what its operation asks for, and `requests_` points to it (`WaitersAgree`). What is
harder is what the closures on the strand carry (`TasksAgree`), since they run long after
they were posted: a `finish()` belongs to an operation that was opened, bears its key, and is
"cancelled" only for one that is completed already, which is why the `finish()` of a
cancelled exchange cannot tell a later waiter "cancelled". `OneExchangePerKey` follows:
what runs is live, and `in_flight_` has one operation per key. For the cache,
`CacheAgrees` says that the list holds each key of the index once and that an entry expires
after `cache_ttl()` of what it holds; the lemmas on `Erased` and `ToFront` say what
erasing and splicing do to such a list.

Two details come from this work. The bound on the life of an entry had to be stated by
kind of answer: `cache_ttl()` takes the records of a positive answer and the SOA of
a negative one, so that an NXDOMAIN that carries records is served beyond their TTLs (the
`dns` run has such a packet, and a lifetime longer than its record's). And only a
positive answer is refused a lifetime of 2^32 - 1.

### 5.4 `DnsPlainProofs`

For any exchanges, number of ids, lost connections and stray packets, with and without
`PreferTcp` (`TransportAssumption`): `SoundTransport` (`TransportIsSound`) and
`KeepsTransportPromise`: the transport's `TransportSpec` implements `DnsExchange!Spec`.

`IdsUnique`, `SessionAgrees` and `NoRequestStranded` are not inductive. What must be added is
what the asynchronous parts carry while the state moves on under them. What runs, and what
waits for the session, has an id, and what has not begun has neither id nor task (`HaveIds`,
`NotBegun`); a deadline task names an exchange together with the id it has (`TimersAgree`);
reads and writes of older connections complete without harm, and a connection reads one frame
and writes one request at a time (`ConnectionAgrees`); whoever waits has a connection that is
there or on its way, and one that has nothing to write has nothing queued that anybody waits
for (`QueueServed`). The last part is what fails when a connection is given up and its queue
is not. Three facts about operators carry the steps: `NextIdFree` (the turn around the ids
from `next_query_id_` finds one that is free, when there is one), `LiveQueueFacts` and
`WithoutFacts` (what erasing leaves in the queue and in the table).

That an exchange times out by its own deadline only is a second invariant over the first.
A task of the session names an id, and ends whoever has it. As long as no more exchanges
were given an id than there are ids, they were given in order and each once (`IdsInOrder`),
so that the id names the exchange the task was started for (`Thrifty`). The hypothesis
`IdsToSpare` is part of the property: when an id comes back the property fails, see
section 6.

The refinement is proved step by step: an action begins exchanges, ends one, ends all that
depend on a connection or on stop(), or is a stutter. That the transport with fairness implements
`DnsExchange!FairSpec` stays with TLC.

### 5.5 `Http1Proofs`

For any exchanges of any kinds on one connection: `EveryCallerIsTold` (one terminal
each, nobody forgotten, a tunnel shares its connection with nobody), and, unless
interim responses are handed out (`~Interims`), `ResponsesReachTheirRequests`
(`ResponsesAreOwn`) and `SoundExchanges` (`ExchangesAreSound`). With interim
responses `ResponsesAreOwn` is false, see section 6.

That nobody is forgotten needs to know who will come to whom: a pending exchange whose
body is not drained is the active one, or is queued behind one, with its timer armed
(`TurnInv`); the queue lists it once and not yet begun (`QueueInv`), though some in
the queue may have left; the body tells how far the active exchange is (`BodyInv`). The
lemma `StartNextFacts` says what `start_next()` makes of such a queue. That responses,
which carry no identifier, reach their requests is a second invariant over the first:
what is unread on a connection in use is the one response the active exchange waits for
(`WireInv`), because an exchange that ends early takes the connection with it.

That a body arrives whole is a theorem about `ExchangeBody`: `SoundBody` (`BodyIsSound`),
for any capacity, buffer, body and number of pulls (`SizesAssumption`), and every order in
which the closures that the stream posts run between the session's calls. A session that
stays within the credit `on_consume` gives back is never refused, and it is told of one end
of the body only; as long as no pull is stopped on its own (`~Stops`, the finding of section
6), the consumer gets every accepted byte once and in order, and the end after the last.

Each part needs to know what the posted closures will do when they run. The queue holds
consecutive bytes up to the last one that arrived (`QueueInOrder`), so that one number,
`Handed`, says how far the stream has handed them out. The credit is returned by closures: a
function from the places in the queue of closures to bytes says how many are returned
before each one runs, from what the session has back already to `Handed`
(`CreditComesBack`); it follows that what is queued never exceeds the session's count
(`CreditCovers`), which is why `Fits` holds in `receive()`. A pull that waits is
parked or has exactly one closure (`PullsAgree`), and the bytes of that closure are those
between what was given and `Handed` (`BytesInOrder`). The lemmas say what `deliver()`
does to a queue in order (`DeliverFacts`), what `receive()` does (`ReceiveFacts`), and what the
pieces are when they are put together (`FlattenFacts`). That every pull completes, a stopped one included
(`EverythingCompletes`), is a liveness property and stays with TLC.

### 5.6 `SessionProofs`

The relay. For every timeout, poll interval and number of chunks: `RelayTypeCorrect`,
`IdleBounded` (`IdleIsBounded`), `EndAfterData` (`EndFollowsData`), `HonestStats`
(`StatsAreHonest`), `OneReport` (`ReportsOnce`), the last three together as
`HonestRelay` (`RelayIsHonest`), and the action property `QuietEnd`
(`QuietEndIsComplete`).

`IdleIsBounded` is not inductive: the watchdog may be asleep with the deadline in
front of it. `WatchInv` says that the rest of its nap ends at the deadline at the
latest, which the rule for the slice preserves and touch() can only relax.
`FlowInv` ties the four counters to the position of the pump, `FinishInv` and
`ReportInv` describe the passage of `finished_`, the handles and the handler, and
`RaceInv` says that a race which is over with the watchdog asleep was decided by
two pumps that reached the end of their streams.

The server. For any sessions, starts, registry ids and calls of `close_connection()`: `SoundServer`
(`ServerIsSound`). Once `stop()` returned, the accept loop is gone, every session that was
accepted has had `close()` return or has the management thread in it, and no resolver
request is registered (`StopIsComplete`); no open session is ever out of reach of `stop()`
(`StopReachesAll`); the registry has the record of every open connection, under the id its
session answers to (`RegistryAgrees`); and a session whose `close()` returned has no
outbound handle, no running relay and no record, and never gets one again
(`ClosedMeansGone`). The last two parts except one race, which the model names by the
history `overtaken`: a `close()` on the management thread that runs whole between a
handler's check of `closed_` and what the handler does then. `open_target()`
then adds the record of a closed session (`src/proxy/proxy_session.cpp:117`, 140-141), a result
handler keeps a handle, `start_relay()` assigns a relay, and nothing takes them back,
see section 6. Every other record, handle and relay goes with its session, whichever thread
closes it and whenever.

`stop()` works in two steps on two threads, and a handler of a session in two steps on the strand
with stop() or close_connection() in between. The invariant says which handler may be
between its steps in which phase (`StrandAgrees`), what a server that is down can still have
(`DownIsEmpty`), that an id is recorded only after it was given out and a session without
a target has none (`IdsAgree`), and that a listed session belongs to the latest start, so
that its close handler finds the gate of that start (`ListedAgree`, `GateAgrees`). A
session is claimed before it is torn down (`TornIsClosed`); one that is torn down while a
handler of it is between its steps counts as overtaken, and one that is not overtaken has
nothing left and gets nothing (`TornAgrees`).

The UDP paths. For both forms (an association and the listener), any clients, destinations and limit of
paths: `SoundPaths` (`PathsAreSound`) and the action property `OldPathsAreHarmless`
(`OldPathsHarmless`).

A key has a listed path or a batch that waits, never both (`OnePlacePerKey`), and a path is
listed under the key it was opened for: a route that opens never takes the place of a
path, which is why a late failure of an old path finds either itself or nothing to
remove. That replies go home needs that a batch, a route and a path carry the datagrams of
one client (`OneOwner`): the one in the key, or for an association the pinned one.
`PendingHasRoute` is part of the invariant only unless routes throw. `NoClient` is
assumed to be no client.

The HTTP side. For any number of requests: `RequestsKeptApart` (`RequestsStayApart`) for kinds of
requests without an OPTIONS * that has a body, and `PromisesAreKept` (`PromiseKept`)
when in addition no request has a body that the session passes on. The conditions are
those of the runs: with a body, OPTIONS * leaves it to be parsed as a request, and a
passed-on body ends in the finding `http_forward_post`.

What was not parsed yet is in order: the rest of the request being handled, then every later
one, its head before its body (`InputInOrder`), and there is one final reply for every
request before the one being handled (`Progress`). The body at the front of the input
belongs to somebody who will take it, or else the connection will not be used again
(`BodyHasOwner`): this is what every path of the session must respect, and it
fails at once in a path that answers keep-alive without having read the body.

SOCKS4 fields. For every set of user ids and domains (`StringsAssumption`) and every way in
which TCP cuts a request: `ExactUserId` (`UserIdExact`). While the user id is read, what was
read and what is still on the wire are together the client's bytes (`Socks4Inv`); the first
terminator of those is the one behind the user id (`BytesFacts`), wherever it was found.

### 5.7 Assumptions, and what is only model-checked

The assumptions are those stated in the modules that declare the constants, which TLC
evaluates in the runs: times and bounds are naturals, sets are of the stated kinds, and
the value that stands for nobody is nobody. Some theorems have a further hypothesis about
the environment, named in the theorem or in its property: no interim responses
(`~Interims`), the kinds of requests of an HTTP session, no throwing route, no pull
stopped on its own (`~Stops`), ids to spare (`IdsToSpare`). Each is the condition under which the runs pass, and section 6 says
what happens otherwise.

With TLC stay: liveness under fairness and everything about ENABLED (the run
`live`); what recursive definitions compute for every input;
the fair half of the refinements of `DnsExchange`; and the safety of the components
without a proof module: `StreamsAreSound`, `TunnelIsSound`, `QuicIsSound` and
`SiblingsUntouched` (HTTP/2, tunnels, HTTP/3, QUIC), `CarriersAreSound` and
`MessagesAreSound` (multiplexers, WebSocket, gRPC, gun), `ResolversAreSound` (the encrypted
transports, the bootstrap, the server), `PullsAreSound`, `NothingSkipped`,
`SettlesCleanly` and `StreamsKeepOrder` (the other primitives). The plan below says which of
them are to be proved next.

## 6. Findings

Seven runs show a disagreement between the code and its documentation; the
quotations are in `PROJECT.json`.

* `dns_group_cancel`: a member that fails with `ErrorCode::cancelled` by itself
  ends the task of the group without an answer (`src/dns/dns_upstream.cpp`).
* `proxy_server_restart`: a stopped server that is started again runs and accepts
  nothing, since its accept scope stays stopped (`src/proxy/proxy_server.cpp`).
* `socks4a`: the part of a SOCKS4a domain that comes in the segment of the user id
  is dropped (`src/proxy/proxy_session_socks4.cpp`).
* `http_forward_post`: a request with a body is answered keep-alive, and the
  connection is closed after it (`src/proxy/proxy_stream.cpp`).
* `http3_siblings`: `shutdown_stream()` of the QUIC connection drops a queued write without
  completing it, and the HTTP/3 session has one write outstanding for all streams.
  Cancelling the exchange whose write that is leaves `writing` set: no sibling sends
  anything more, until deadlines end them (`src/transport/quic_client.cpp`). The passing
  property `QuicIsSound` only says that a write is lost in no other way.
* `unsubscribe`: a pull that is under way when `unsubscribe()` returns is handed to a
  callback all the same (`async_stream.hpp`). What holds is that one call follows at most,
  or two when the first is an `on_next()` that throws (`OneCallFollows`).
* `callback_throw`: an initiation that throws after a stop settled, or after it handed out
  its handler, completes the receiver twice or releases a reference twice
  (`callback_sender.hpp`). `SettlesCleanly` holds for every other interleaving of throws
  with stops, terminals and destruction.

Further deviations met while modelling. A passing run states the condition under
which its properties hold by the value of a constant, or a property excepts what a history
variable records; with the other value, or without the exception, TLC shows the deviation:

| Where | Model | What happens |
|---|---|---|
| `callback_sender.hpp` | `CallbackSender`, `"register"` and `"destroy"` in `raced` (`SettlesCleanly`) | a stop that fires between the registration of the callback and the end of start(), or a terminal that runs into the destructor, touches an operation that is gone |
| `dns_query_service.cpp` | `DnsQueryService` with `OwnerDrains = FALSE` | a closure posted before the destruction answers through a member of the destroyed service |
| `dns_query_service.cpp` | two spellings of one name in `Wires` | the cache key keeps the case of the name, so the two are exchanged and cached apart (`OneExchangePerQuestion`) |
| `dns_transport.cpp` | `DnsPlainTransport` without `IdsToSpare` | once an id is given a second time, the deadline of an answered request fails the request that took over its id; in the code this needs the ids to wrap around within one deadline (`TimesOutByOwnDeadline`) |
| `proxy_session.cpp` | `ProxyServer` with `MaxKills > 0`, `overtaken` (`RegistryAgrees`, `ClosedMeansGone`) | `close_connection()` that runs whole between the check of `closed_` in `open_target()` (line 117) and the record (140-141) finds no id to remove: the record of the closed connection is then added and stays for ever. In the same window of the other handlers, a handle is kept, or `relay_` is assigned and runs on, in a session that is closed and not listed any more |
| `proxy_server.cpp` | `ProxyServer` with `MaxKills > 0`, between `KillFinds` and `KillTears` | the session found by its id may be on its next kept-alive exchange when it is stopped |
| `proxy_session_socks.cpp` | `SocksUdp`, loop `"cut"` (`PathsAndLoopsAgree`) | a receive that the outbound aborts ends the response loop although the session did not close the path: the path stays listed, takes datagrams and brings no reply any more |
| `proxy_session_http.cpp` | `HttpForward`, awaited `"nobody"` (`Unanswered`) | a pull of the response body that is aborted from the other side ends the loop without closing: nobody goes on with the session, which keeps its connection until it is closed from outside |
| `proxy_session_socks.cpp` | `SocksUdp` with `RoutesThrow` | a route that throws leaves the datagrams of its key pending for ever (`PendingHasRoute`) |
| `exchange_body_stream.hpp` | `ExchangeBody` with `Stops = TRUE` | a stopped pull swallows bytes that arrive before its posted cancel_read() runs, and that cancel_read() may retire the next pull (`NothingLost`, `AbortRetiresOnlyItsPull`) |
| `http1_client.cpp` | `Http1Session` with `Interims = TRUE` | an interim response is handed out as the response, and the final one goes to the next exchange (`ResponsesAreOwn`) |
| `exchange_tunnel_stream.hpp` | `TunnelStream` with `Stops = {"write"}` and two writes | the comment at cancel_write() says that a late completion "finds no parked handler in finish_write and is dropped"; a write parked in the meantime is completed by it, as if its own bytes had been sent (`SuccessMeansSent`). A half close that waited for the stopped write is not carried out (`HalfCloseWaits`) |
| `http2_client.cpp` | `TunnelStream`, condition of `HalfCloseIsSafe` | RST_STREAM with NO_ERROR ends a tunnel's reads only; a half close after the session was lost then resumes a stream of a deleted nghttp2 session |
| `http2_client.cpp` | `Http2Session`, condition `retired` of `HostagesFreed` | GOAWAY ends the keepalive, so that a peer that falls silent after it holds tunnels and responses with `head_deadline_only`; the comment at arm_ping() says "dead peers cannot hold multiplexed streams hostage". |
| `http2_client.cpp` | `TunnelStream`, `Occupied` | after GOAWAY an established tunnel, which the session keeps open, can no longer write |
| `http2_client.cpp` | `Http2Session`, `Cancel` after `AcceptTunnel` | a caller stopped after its tunnel was accepted and before it was told leaves the stream open without an owner |

Further behaviour that a reader of the code should know. The
modules do what the code does; the properties are stated so that they hold of it.

* HTTP/3 (`Http3Session`). A pass over the waiting requests that finds itself blocked
  returns without sending what it queued; only when new settings opened it does
  `on_stream_data()` pump afterwards. GOAWAY is not acted on.
* QUIC (`QuicClient`, `QuicHandles`). STOP_SENDING for a stream with data queued fails
  the whole connection. A stopped write whose completion comes late ends the next
  write early, as in `TunnelStream`; WebSocket, gun and multiplexed streams share the
  pattern. A half close with two writes queued does not complete. A read after a reset
  loses what was buffered.
* WebSocket. An http-upgrade stream drops bytes that came with the response head; a
  write after a stopped one gives Beast two writes at a time.
* gRPC and gun. A read after a cancellation that preceded the opening parks for ever. A
  gun frame larger than 256 KiB is never admitted; a small write overtakes what was held
  back; a truncated payload is reported as a clean end; a stopped read may lose its
  place in the frames. The pool does not replace a dead session, and two
  first dials of a transport each make one.
* Streams. A pull is lost when the upstream completes on another thread between the
  check of the frame and the request to repeat: the models have one completion thread.
  `take` counts a pull that was stopped; `zip` loses the item it holds when the pull is
  stopped; a source that is always ready starves those registered after it. A oneshot
  value that was settled after the stop was requested and before the arbitration is
  lost, though `send()` returned true.
* Multiplexers. In the v2ray framing the status of an error equals that of a keepalive,
  so that a keepalive without data ends the stream. A pending open that is cancelled
  sends no end although its SYN is queued. Closing a kcptun stream after a half close
  with a write pending sends no end at all.
* DoT and DoH2 timers name a request by its id only, as the plain transport's do: with
  `MaxId = 2` `DotIsSound` fails. A DoT upstream that never answers keeps its
  connection. An exchange given to a DoH2 session that is retired before the closure runs
  ends as `cancelled` though nobody cancelled it (`CancelledIsExplained` names the
  case); the group of `dns_group_cancel` then ends without an answer.
* Bootstrap. A addresses that were found are dropped when AAAA fails at every server;
  after the overall deadline the system is asked with a deadline that has passed. A
  cancelled exchange of the bootstrap transport leaves its inner exchange running; an
  inner transport made after `stop()` looked for one is not stopped.
* `DnsServer`. A server that is started again runs and is deaf, as `ProxyServer` is
  (`proxy_server_restart`); one failed receive or accept ends a loop for good.
  The TCP failure answer is made from a query that was moved from, so it has no question.
* The map entry of a DoQ exchange that was cancelled stays until its stream is closed.

## 7. Not modelled, and why

* Cryptography, compression, checksums and the wire formats: no protocol state, or
  out of TLC's reach. The protocol libraries (ngtcp2, nghttp2, nghttp3, BoringSSL,
  Beast, ikcp) are external.
* Data races below the level of a critical section, except where the code uses
  atomics on purpose (`finished_`, gates, stop flags), which are separate steps.
* Logging, statistics and configuration parsing.
* Parts of the HTTP/3 and QUIC sessions that the libraries decide: priorities, loss
  recovery, congestion control, path migration; the TLS handshake under QUIC.
* The components of the plan below, until they are modelled: their code is framing,
  ciphers or wiring (TLS clients, Shadowsocks, Trojan, outbounds, application), or a
  pure function (router, codec).

## 8. Plan

Done: the primitives with the stream combinators; the resolver's group, query service,
transports, bootstrap and server; the inbound side; the HTTP/1.1, HTTP/2 and HTTP/3
clients with QUIC, WebSocket, gRPC and gun; the multiplexed carriers; proofs of the mpsc
channel, the DNS group, the plain transport, both with their refinement, the query service,
the HTTP/1.1 session and the body of a response, the server with its registry, the relay, the UDP
paths, the SOCKS4 fields and the HTTP side of a proxy session. Next, in this order:

1. Proofs: the pulls of `WatchChannel` and the accounts of `BroadcastChannel`; the slots of
   `Kcptun`; the transport of `DotTransport`, whose queue and timers are those of the plain one.
2. Resolver layer: A and AAAA joined, `FakeIpStore` with an inductive proof that it is a
   bijection, the resolver graph.
3. Outbounds and transports: the dialer's race of addresses, outbound groups, UDP over
   TCP, Trojan packets, the record pumps of the TLS clients.
4. Runtime and application lifecycle; the router's rules as operators with a reference
   definition.

New components join the run of their layer.

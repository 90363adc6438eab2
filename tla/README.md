# nodelink-js: formal model

TLA+ models of the concurrent core of nodelink-js, a client library for Reolink
cameras: the reliable stream over UDP, the discovery handshakes that set it up,
the client connection with its login and idle disconnect, the pool of sockets
above it, and the machinery that shares one camera stream among many viewers and
lets a battery camera sleep. Small instances are model-checked with TLC; the safety of
the UDP stream, of the client's login state, of the fanout's queues, of the always-on
windows and of the shared native stream is proved with TLAPS for every size.

File names below are relative to the repository unless they end in `.tla` or `.cfg`.
`RS` stands for `src/baichuan/stream/BaichuanRtspServer.ts`, `CLI` for
`src/client/BaichuanClient.ts`, `API` for `src/reolink/baichuan/ReolinkBaichuanApi.ts`.

## 1. The system

| part | state it keeps | operations | hard because |
|---|---|---|---|
| **BCUDP data path** `src/bcudp/BcUdpStream.ts` | next ids, `sent` and `received` maps, in-order queue, prepared ACK, peer address | `write`, `handlePacket`, ACK (10 ms) and resend (500 ms) timers, deferred `data` events, `close` | loss, reordering, duplication, stale sessions, peer address that follows the last packet, listeners that throw |
| **BCUDP discovery** same file | bound socket, four timers, ids and session id, handshake flags | `connect`, answers CR / T / CFM, timeouts, `close` | outcome depends on which timer fires first; `close` while an `await` is pending |
| **BCUDP P2P lookup** same file | positive, negative and in-flight caches shared by instances | lookup, register, connect through Reolink's servers | merged concurrent lookups, retries |
| **Framing** `src/protocol/framing.ts` | partial frame | `push` | chunk boundaries, resynchronisation |
| **BaichuanClient** `src/client/BaichuanClient.ts` | sockets (TCP/UDP), login state, pending requests by message number, video subscriptions, permits, per-device registries | `connect`, `login`, `sendXml`, keep-alive, idle disconnect, `close` | handlers of a replaced socket, TCP/UDP race, siblings of one device, timers against late answers |
| **Socket pool** `src/reolink/baichuan/ReolinkBaichuanApi.ts` | tag -> client, reference count, pending login, idle timer, permit on the general client, cool-down of the host | acquire, release, preempt, idle close, forced close, reconnection of the general socket | counts changed on both sides of an `await`; releases and timers look the entry up by its tag, whoever has it now |
| **Always-on stream** `src/baichuan/stream/AlwaysOnController.ts`, `ContinuousVideoStream.ts`, `BaichuanVideoStream.ts` | window flag and timer; live stream, placeholder interval, cached keyframe; `active` flag and watchdog of each live stream | trigger events, window end, `goLive`, `goIdle`, `stop`, watchdog restart, close of the socket | every step awaits the camera or ffmpeg and is overtaken by events and timers |
| **Fanout** RS 69-153, `asyncBoundedQueue.ts` | one bounded queue per client, waiting consumers | pump, subscribe, overflow, stop, end | slow clients, wake-ups, several ways to end |
| **RTSP native stream** RS | active flag, fanout, session handle, timers, clients | DESCRIBE priming, SETUP, leave, end and restart, idle stops, server stop | start, stop and restart overlap at their awaits |
| **Other servers** HLS, MJPEG, WebRTC, RFC 4571, replay | viewers, ffmpeg processes | start, stop, viewers come and go | processes; same streams underneath |
| **Manager** `app/src` | settings, cameras, servers | routers, events, MQTT | mostly glue |

The parts call each other downwards: the RTSP server asks the API for a
dedicated session (a pooled `BaichuanClient`), starts a video stream on it, and
that client's bytes travel through TCP or a `BcUdpStream`. Frames come back up
as events: datagram, `data`, parsed frame, `videoAccessUnit`, fanout queue,
client pipeline. Node runs one callback at a time, so all interleaving happens
at awaits, timers and events; each model action is the code between two of them.

What makes each part correct:

* *data path*: the listener sees the camera's bytes once, in order, without gaps;
  nothing is acknowledged that was not received, nothing is forgotten that was
  not acknowledged; with a fair network everything arrives.
* *discovery*: an answering camera is used, `connect()` settles, nothing of the
  discovery survives its end or `close()`.
* *P2P lookup*: concurrent lookups do the work once and agree on its outcome;
  `connect()` settles, also on a stream closed after `bind()`.
* *client*: `loggedIn` is true of the socket in use; whatever a call awaits can
  still come; an unused client is disconnected, one in use or with a streaming
  sibling is not; a half-open connection is found.
* *socket pool*: a socket is closed by its timer only when nobody uses it, and
  then it is; the general client stays while a streaming socket needs it; a
  consumer that waits for a login is answered.
* *always-on*: a window lasts `windowMs` after the last trigger and then ends;
  the camera sleeps outside windows; the consumer always gets frames.
* *fanout*: a slow client loses only its own oldest frames and the loss is
  counted; the end of the stream reaches everyone.
* *native stream*: one camera stream for all clients unless it failed or ended under
  them, no stream without clients, no session lost or released twice, `stop()` ends it all.

The hazards of the code, at their lines, are listed in `PROJECT.json`.

## 2. Modules

| module | models | state and actions |
|---|---|---|
| `BcUdpStream.tla` | data path of `class BcUdpStream` | variables carry the field names; one action per handler: `Write`, `RecvData` (with `flushReceived` and `updateAckPacket`), `RecvAck`, `RecvProbe`, `RecvDisc`, `RecvStale`, `AckTick`, `ResendTick`, `Drain`/`DrainThrow` (the `setImmediate`), `Close`. The camera (`Cam...`) and the network (`Lose...`, `Send`, `Take`) are external: the same protocol from the other end, bags of datagrams as sets |
| `ReliableChannel.tla` | what the stream promises | two FIFO channels, one per direction, and a connection closed once |
| `BcUdpDiscovery.tla` | `connect()` + `discoveryUidLocal()` | one tick is 250 ms; a timer is the ticks left; `Bound` and `BindFails` are the two ends of `bind()`; answers `RecvCr`, `RecvT`, `RecvCfm`; `Fire...` one action per timer callback |
| `BcUdpP2p.tla` | `connect()` + `discoveryUidP2p()` of several streams with one uid | per stream ("lane") its place in `connect()` and its two racing exchanges; the three caches at module scope; `Lookup`, `Register`, `Recv...`, one action per timeout; `Bound`, `BindFails` as above; relay servers answer or not, and the 15 s of a lookup leave time for `MaxProbes` of them |
| `BaichuanClient.tla` | `class BaichuanClient`: connection, login, keep-alive, idle disconnect | a request, a login or the logout of an idle disconnect is a `call` with its place: waiting for TCP or UDP, `ready` or `failed` (a continuation that runs next), `pending`, `backoff`. TCP and UDP sockets side by side, as auto mode has them; permits, video subscriptions and siblings as flags; `Teardown` is `close()` |
| `SocketPool.tla` | `acquirePooledSocket()` and all that removes from the pool | entries are numbers that outlive their tag; a consumer's `at` is the await it is in; actions for acquiring a new, pending, idle or active socket, preempting a replay, `Relogin`, the end of a login, `Release`, the idle timers, D2C_DISC, stream timeouts, reconnection of the general socket, `Close` |
| `AlwaysOn.tla` | controller, continuous stream, live stream with its watchdog, teardown | every async call is a process in `call`, `idling`, `restarting` or `teardown` that may be overtaken at each await; a trigger's number names the call, the timer and the stream it leads to |
| `StreamFanout.tla` | `NativeStreamFanout`, `AsyncBoundedQueue` | pump, per-client queue and generator (`fresh`, `asking`, `yielded`, `done`), overflow |
| `RtspNativeStream.tla` | the native stream's life in RS | a call of `startNativeStream()` is a number that also names its session, fanout and source; clients with their pipelines, on the fanout's queue or on a camera stream of their own (`own`); idle timers; restart; server stop; `lost` records that clients were left without the shared stream |
| `MCBcUdpStream.tla`, `MCSocketPool.tla` | | the specifications, keys and symmetry that the configurations use |
| `BcUdpStreamProofs.tla` | | theorems about `BcUdpStream`, and its refinement of `ReliableChannel` |
| `BcUdpDiscoveryProofs.tla`, `BcUdpP2pProofs.tla`, `BaichuanClientProofs.tla`, `SocketPoolProofs.tla`, `StreamFanoutProofs.tla`, `AlwaysOnProofs.tla`, `RtspNativeStreamProofs.tla` | | theorems about the module each is named after |

Abstractions. The payload of a packet is its number, so a chunk can be
recognised; on the wire it carries `number % IdSpace`. Datagrams are kept in a
set: reordering and (with `MayDuplicate`) duplication are free, and a full
network loses the whole batch. XML, encryption, MTU arithmetic, logging and
statistics are left out. Heartbeats (`C2D_HB`) change nothing in the client. The modules
are linked by what they know of each other: in `RtspNativeStream` a session is a
handle that is held or not, in `SocketPool` it is an acquired entry whose client
is up, down or closed, in `BaichuanClient` the connection is modelled and a
sibling is its share in the device's registries. History variables (`delivered`,
`written`, `stale`, `got`, `first`, `torn`, `unkicked`, `orphaned`, `lost`, ...) are marked as such; no
action reads them in a guard, except through the bounds (`MaxRx`, `MaxTx`,
`MaxTriggers`, `MaxFaults`, `MaxRuns`, `MaxTorn`, ...).

Simplifications of `BaichuanClient`: the two round trips of a login are one; the
destruction of a TCP socket and its `close` event, one phase of the event loop
apart, are one step; a UDP reconnection does not register the client again (as in
the code); a logout whose `connect()` gives up is over. A TCP connection may fail
because there is no route to the host, which ends a login without its other attempts. Of `SocketPool`: `cool`
keeps the failures and the block of one host, without durations, so that any
cooldown may expire at any time.

Definitions marked "Mutant" are faulty variants of the definition that follows
them. They are not part of a specification: replacing the definition by one of
them must make the property named in `PROJECT.json` fail, which shows that the
property depends on that piece of code.

## 3. Runs

Passing runs:

| run | question | bounds and why they suffice |
|---|---|---|
| `MCBcUdpStream_stream` | is the stream delivered in order, is nothing forgotten or acknowledged too early in either direction, does it implement `ReliableChannel`? what does a throwing listener cost? | 3 packets in all, in either direction or both, writes of 1 or 2, ids mod 5, ACK table of 1 entry: a gap, a buffered packet beyond it, and a table cut by its limit all occur; one throw at any chunk; close at any time; 2 datagrams in flight, duplication |
| `MCBcUdpStream_live` | does everything arrive? | 2 packets in, or 1 out with a change of port; the network may lose any datagram but not all of them |
| `BcUdpDiscovery` | does `connect()` settle, clean up and use an answer? | the code's delays (250 ms, 500 ms, 1.5 s, 15 s) in ticks of 250 ms, 3 answers of any kind, close at any time |
| `BcUdpP2p` | is the lookup shared and its outcome consistent? does `connect()` settle, even when closed after `bind()`? | 2 lanes (one works, one shares, retries or finds the cache), 3 relay addresses of which the 15 s allow 2, so that one lies beyond the budget, 2 expiries, a failed bind, close at any time |
| `BaichuanClient` | is the login state true? can what is awaited still come? is an idle client disconnected, a half-open one found? | all three modes; 2 callers, so that a request meets another's login, connection attempt or close (in auto mode one, next to the logout); 3 login attempts as in the code |
| `MCSocketPool` | do users keep their socket, are idle ones closed, are waiters answered? | 2 consumers of a streaming and a replay tag (the two kinds differ in preemption and permits), 3 entries, one tag torn from its users. Consumers are interchangeable and no property is temporal, so their symmetry is sound |
| `AlwaysOn` | what survives every interleaving, and what holds while no transition is overtaken? | 3 triggers (one that opens, one that overtakes, one that finds the result), 2 silences or closes, start failures, server stop |
| `StreamFanout` | loss and end | 2 clients, queues of 2, 4 frames: overflow, both ends |
| `RtspNativeStream` | is the stream shared and stopped, its session released, and once? | 2 clients, a start that fails at either await, 3 starts, at most 2 at once; `overlap` chooses whether the environment overtakes transitions or waits for them |

Runs that show where the code departs from what its comments and documentation
say (each checks one property that fails; `PROJECT.json` quotes the sentence):

| run | what happens |
|---|---|
| `BcUdpDiscovery_sid` | after a CR with a session id `finalizeTimer` stays set and blocks `maybeFinalize()`: discovery times out although the camera answered |
| `BaichuanClient_logout` | whether an idle client may be closed is decided before its logout is awaited: a stream that starts on another client of the device meanwhile does not prevent the close |
| `RtspNativeStream_resume` | the restarted stream has no subscribers: the clients it is started for stay without frames |

Where a property fails in some circumstances, the passing run checks it under a
condition that names them:

* `throws = 0`: a chunk a listener threw on is delivered again.
* no `cr_timeout` window (`AnswerUsedUnlessWindow`).
* no closed lane (`AnswerFound`): the lookup shared by all runs on the socket of
  one, and its failure answers later lookups for 15 s. Nor does the property speak of a
  relay beyond `MaxProbes`: the code stops after 15 s, five silent relays at 3 s each.
* not closed during `bind()` (both `ConnectSettles`): Node never calls the callback of
  `bind()` on a socket that was closed meanwhile, so that `connect()` stays pending.
  `ConnectSettles` of the local discovery leaves out every closed stream, as it also
  stays pending when its timers are stopped.
* `~overtaken` (`AlwaysOn`): with two triggers during one wake-up, two timers exist and
  the unreachable one closes the window early; a window that closes while
  `goLive()` is in progress leaves the camera streaming; a placeholder that was
  being rendered starts on top of the live stream.
* `orphaned` (`SleepsUnlessOvertaken`): the watchdog, and a start over UDP, ask the
  camera for video after an await without looking whether their stream was
  stopped or its socket closed meanwhile, or fail although the camera got the
  request; nobody then asks it to stop before the next window.
* `overlap = FALSE` (`RtspNativeStream`): a stop while a start awaits its session
  is undone by the rest of the start.
* `~lost` (the last part of `OneSource`): clients that are there, or wait for the stream,
  when a start fails or the stream ends or is stopped find no fanout, and each of them
  opens a camera stream of its own; whoever comes later may too, until all have gone.
  A start that `startKeepAlive()` rejects (`LaunchFails`; the general socket went while
  the session was acquired) has the same effect on everybody who comes while
  `nativeStreamActive` stays set without a fanout.
* `torn` (`SocketPool`): after an entry was taken from its users (preemption,
  D2C_DISC, forced close, reconnection of the general client), their releases
  act on the successor of the tag.
* `mode # "auto"` (`LoginTruth`, and the clause of `WaitsForSomething` about pending
  requests): each `connect()` tries TCP again next to the UDP
  session, and its late success or failure changes the state of that session.
* `registered`, `~unkicked` (`IdleIsTimed` of the client): after a `close()` a UDP
  client is not told that a sibling's stream ended; a request that ends without a
  reply does not restart the timer. A client whose video subscriptions outlived their
  session counts as streaming.
* a call at `"hung"` (`WaitsForSomething`): a login whose UDP stream was taken away
  by another call waits for ever.

A condition means that nothing is claimed of the case it leaves out. The hazards in
`PROJECT.json` name a property only where it catches them; for the others the note says
that the code does not prevent the case, and which property leaves it out.

Deadlock checking is off where a run can come to rest (a closed stream, a settled
`connect()`, no more triggers or clients), which each `.cfg` says.

### Fairness

Node runs due timers, queued callbacks and settled promises, hence weak fairness
on them. For the UDP runs: the 10 ms and 500 ms intervals (`AckTick`,
`ResendTick`) and the drain run; the camera retransmits, acknowledges and
probes, which is how the class assumes it behaves; a datagram that is sent again and
again is eventually received (strong fairness per packet, as for any lossy
channel). For the client: continuations run
before the next event (weak fairness, and guards that let them), the keep-alive
ticks, and the ping to a vanished peer ends (strong fairness, because a
continuation may be in the way at any time). The pool's properties are safety
properties. Events that need not happen have no fairness: triggers, clients,
frames, `close()`, a camera that ends its stream or falls silent, a socket that closes. A source that was told to
return returns (its abort signal wakes it up).

## 4. Proofs

Every invariant and action property of a passing run is proved for all values of
the constants; the runs check them, and liveness, on small instances. Each
module of proofs has one inductive invariant, `Inv`, a lemma per action (or per
group of actions that touch the same part of it) and the theorems that follow from it.

### The UDP stream

`BcUdpStreamProofs.tla` proves for every `IdSpace`, `MaxAck`, set of ports, network capacity and bound:

| theorem | statement |
|---|---|
| `Invariance` | `Spec => []Inv`, the inductive invariant |
| `TypeCorrect` | `TypeOK` |
| `InOrder` | `DeliveredInOrder`, until a listener throws |
| `RxLossless`, `TxLossless` | `NoRxLoss`, `NoTxLoss` |
| `AcksTruthful` | `AckTruthful` |
| `DrainScheduled` | `DrainPending`, until a listener throws |
| `Implementation` | `ImplementsChannel`: the data path implements `ReliableChannel`, whatever chunks the listener throws on |

They assume `NoWrap`: the bounds on packets do not exceed `IdSpace`. The
assumption is needed, because `packetsWant` is never reduced modulo 2^32 while
ids are; with 2^32 ids it covers every stream the program carries in practice.

The argument. The properties are not inductive: that nothing is lost depends on
which acknowledgements are on their way, and those depend on what was buffered
when they were prepared. The invariant therefore adds: every entry of `sent`,
`received` and of a datagram in flight of this connection carries the id of its
packet (`data % IdSpace`); `pendingData` beyond its offset together with
`delivered` is exactly the run below `packetsWant`; the prepared ACK and each
ACK in flight cover only ids that are below `packetsWant` or buffered, and the
camera's ACKs only packets it got. These facts are monotone: a packet once
received stays received, so an ACK that was truthful when sent stays truthful
however late or often it arrives. The first lemmas supply the facts about `CHOOSE`d
least elements and `Max`/`Min` that the ACK arithmetic needs.

`Implementation` rests on that invariant and on a second one, `HeardOK`, which holds
also when listeners throw. What a listener heard counts from 0 up to its repetitions
(`Counts`), and the drain continues after the last chunk that was heard, or with that
one again (`First + pendingDataOffset`). So whatever a drain hands over, with or
without a throw at its end, is a run that prolongs such a sequence (`RunHeard`), and
the mapping, which keeps the first occurrence of each chunk, sees 0, 1, ... up to the
last one (`SeenCounts`); all of them are below `packetsWant`, hence were offered.
`StepShapes` sorts the actions by the fields of the mapping they touch, and
`CamInOrderGrows` shows that the run of packets at the camera can only be extended, by
packets the client wrote.

### Local discovery

`BcUdpDiscoveryProofs.tla` proves for all delays (with the order of them that the
assumption states) and any number of answers:

| theorem | statement |
|---|---|
| `TypeCorrect` | `TypeOK` |
| `AnswersCount` | `AnswerUsedUnlessWindow` |
| `TimersStop` | `TimersMatchOutcome` |
| `ConnectIsBounded` | `connect()` never waits on an open stream without its timeout: the safety half of `ConnectSettles` |

That a camera which answered in time is used is a fact about two timers, and not
inductive: `InStep` adds that the finalize delay, from the answer that armed it on,
has run exactly as long as the timeout since then, so that the timeout cannot
come first unless the answer was that late; `Bounded` and `Outcome` say which
timers exist in which phase.

### P2P discovery

`BcUdpP2pProofs.tla` proves for every set of streams ("lanes"), number of relay
addresses, of those the 15 s leave time to ask, and of cache entries that expire:

| theorem | statement |
|---|---|
| `TypeCorrect` | `TypeOK` |
| `LookupsShared` | `LookupsBounded` |
| `RelayFound` | `AnswerFound`: a relay that answers, and is among the first `MaxProbes`, is found |
| `NobodyWaitsForNothing` | who shares a lookup shares one that is under way, and who awaits an exchange has its timeout to come |

`Accounted` charges each lookup to the entry it is going to leave, or has left, in a
cache; `AnswerAhead` says that no lane has gone past the relay that answers, if it
lies within the budget. The last
theorem is the safety half of `ConnectSettles`, whose other half, that timeouts fire, is
fairness and stays with TLC.

### The client

`BaichuanClientProofs.tla` proves for every number of callers and of login attempts,
in all three modes:

| theorem | statement |
|---|---|
| `TypeCorrect` | `TypeOK` |
| `LoginIsTrue` | `LoginTruth`, with one transport |
| `NothingAwaitedIsGone` | `WaitsForSomething` |
| `IdleTimerRuns` | `IdleIsTimed` |

`LoginTruth` and `WaitsForSomething` are proved together: a reply may set `loggedIn` because the socket
a pending call was sent on is still there, and a call may be sent because a call that
is ready has its socket. That in turn needs `CallsOK`'s last part: no call is about to
go on while another is about to fail, so that the `close()` of a failed login,
which runs among continuations, takes the socket from nobody who is about to use it. A socket is
otherwise lost only between two events, when there are no continuations left.
`Settled` covers every way of losing it: each call either keeps waiting for something that
is left alone, or is over, hung, or on its way to UDP.

`IdleIsTimed` needs `TimerInv`: until a user was active there is no idle timer, and
nothing but logins (`OnlyLogins`), one of which is still going on when the UDP stream
is open (`UdpInUse`) - so whatever makes the client idle for the first time also marks
it active and starts the timer. From then on each action either keeps the client
busy or is one of those that look at the timer.

### The socket pool

`SocketPoolProofs.tla` proves for every finite set of consumers, all keys, multi-focal
or not, and any number of sockets:

| theorem | statement |
|---|---|
| `TypeCorrect` | `TypeOK` |
| `WaitersAreServed` | `WaiterHasCreator` |
| `OwnersCounted` | `UsersOwnEntry`, until an entry of the tag is torn away |
| `PermitsMatchSockets` | `StreamHoldsGeneral`, likewise |
| `IdleSocketsTimed` | `IdleIsTimed`, likewise |

No two of these are inductive without the others. `Account` is what they have in
common: of each user, that its entry has its tag and is pending exactly while the user
waits or creates; of each entry, that its refCount is the number of its users, with
the one reference of the constructor on the general entry, that its idle
timer runs only without users, and which permit it holds. After a tag was torn
releases and timers act on the successor of an entry; then only the tags, the
creators and an upper bound of refCount survive, and that bound is needed by
`TypeOK`. `Created` says that a pending entry has exactly one creator:
a preemption or a forced close leaves the entry to its creator, whose login ends it, and
a new acquire of the tag gets a new entry, so that no waiter changes over.
`Room` is about the numbers that stand for entries and clients: whoever closes
a client in order to create another one (`relogin`, `closing`) was promised a
number, and there are at least as many free ones as promises. Without it the
`CHOOSE` of `Fresh` could be over the empty set and nothing would be known of the new entry. The
free numbers are counted, which is why the assumption says that `Users` is finite: the
consumers that have a session, or ask for one, are callers within one process.

### The fanout

`StreamFanoutProofs.tla` proves for every set of clients, queue limit and number
of frames (`StreamFanout`'s assumptions on its constants):

| theorem | statement |
|---|---|
| `TypeCorrect` | `TypeOK` |
| `LossIsCounted` | `LossCounted` |
| `EndIsSeen` | once the source has ended nobody waits, and the next request of every client ends it: the safety half of `EndReachesAll` |

`LossCounted` says nothing of a client before it subscribes, and does not exclude that
a frame was handed over before it was read, so by itself it is not preserved.
`Inv` adds `Untouched` (a client that has not subscribed has an empty account),
`OpenQueues` (a queue in the map is open, hence a push reaches it) and `Seen`
(nobody has a frame beyond the last one read). What one client got, buffered and lost is
one `Account`, and there is one lemma for each way it changes: a frame is handed
to a waiting consumer, buffered, buffered with an eviction, or taken.
`EndIsSeen` rests on `Attached`: a client that has not ended has its queue in the map or
closed, it waits only at one in the map, and a fanout that has stopped has an empty map.

### The always-on stream

`AlwaysOnProofs.tla` proves for every number of triggers and of faults:

| theorem | statement |
|---|---|
| `TypeCorrect` | `TypeOK` (with it, that `starting` is set exactly while a call is in `goLive()`) |
| `WindowsEnd` | `OpenWindowEnds`, for every interleaving |
| `OneProducerOnly` | `OneProducer` |
| `WindowsExtended` | `WindowExtended`, an action property: what a timer that fires may never do |
| `SleepsOutsideWindow` | while the camera is asked for video the window is open and its stream attached, unless a transition was overtaken or a stream orphaned: the safety half of `SleepsUnlessOvertaken` |
| `RepeatsBetweenWindows` | between windows the placeholder is repeated or a `goIdle()` is about to start it, unless a transition was overtaken: the safety half of `StaysContinuous` |

`OneStart` strengthens the types: the guard at the head of `goLive()` lets one
call through, so that its `finally` clears the flag of nobody else. `Serial` is what
`OneProducer` rests on: as long as no transition is overtaken, the only timer is the one
`windowTimer` refers to, a call under way is alone, with no timer armed and no
`goIdle()` unfinished, and an attached stream has no `goIdle()` of an earlier one
beside it. An awaited step that ends, a timer that fires and a trigger each
re-establish it or set `overtaken`. `WindowExtended` follows: as there is
no other timer than the one `openWindow()` clears, none is left that was armed
before the latest trigger (`NoneStale`).

The last two theorems need one invariant more each. `Attended`: an attached stream
and a call under way belong to an open window, so that a request for video that is not late
(it sets `orphaned`) comes during one, and the end of the window stops the
stream it finds. `Shown`: an open window has its stream attached as soon as
`wakeUp()` has settled, so that its end finds a stream to detach and `goIdle()` goes on to
the placeholder.

### The native stream

`RtspNativeStreamProofs.tla` proves for every number of clients, starts and
overlaps:

| theorem | statement |
|---|---|
| `TypeCorrect` | `TypeOK` |
| `SessionReleasedOnce` | `ReleasedOnce`, for every interleaving |
| `SharedStream` | `OneSource`, as long as transitions are not overtaken: at most one source, with the one session, no client at a dead queue, and no client with a camera stream of its own unless clients were left without the shared one |
| `UnwatchedIsTimed` | a source nobody watches is being stopped or has the auto-stop timer, as long as transitions are not overtaken: the safety half of `NoViewerSleeps` |

`OneSource` follows from four facts that hold together: `OneTransition` (a start, a
stop and a restart exclude each other), `OneFanout` (a stream that is active and not
being started has a fanout with a running source, and a source survives `active`
only while it is being stopped), `OneSession` (so does a session), and `Sharing`
(unless the stream was `lost`, whoever attends it has one that is active or being
started, and an active one that is not being started has its fanout, so that nobody
subscribes in vain). A transition begins at rest, where they say that a stream that is not active has neither source
nor session; each step of one keeps the others out.
`UnwatchedIsTimed` adds `Timed`: a fanout without clients has the auto-stop timer, which
the start that made it armed, and which is armed again when the last client leaves.

Only model-checked: the liveness properties (`EverythingDelivered`,
`EverythingAcknowledged`, `ConnectSettles` of both discoveries, `HalfOpenDies`,
`StaysContinuous`, `SleepsUnlessOvertaken`, `EndReachesAll`, `NoViewerSleeps`), because the
prover treats neither fairness nor `ENABLED`; and sessions whose packet ids wrap,
where `NoWrap` is false. Of each liveness property but `HalfOpenDies` a theorem states
what does not rest on fairness: for delivery that nothing unacknowledged is forgotten and
that a drain is scheduled, for the others that whatever is waited for has a timer or a
step to come.

## 5. Not modelled, and the plan

Not modelled: encodings (packets, XML, encryption, media containers), because
they are arithmetic on bytes; ffmpeg, HTTP and WebRTC servers, the CGI client and the
web interface, which are input and output; and device commands, which send one
request and keep no state. The replay's idle timer keeps its permit on the general
client and a cooldown record is written by whoever comes last; the model follows
the code in both, and no property says what should hold instead.

Planned, in this order:

1. Proofs: what the keep-alive promises of a half-open connection, and the data path when
   packet ids wrap.
2. The RFC 4571 server and the replay sessions, composed with `SocketPool`.
3. The framing parser and the media parser's resynchronisation against a
   reference definition.
4. The application's stream pool and settings store.

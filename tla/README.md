# AimDB in TLA+

AimDB is an in-memory data layer for Rust programs, from microcontrollers to servers. A *record*
holds typed values in a buffer (ring, latest value, mailbox); producers write, consumers, transforms
and connectors read. Connectors move values to brokers and buses, the session layer (AimX) lets
another process read, write and subscribe to records. Nothing is spawned: every engine is one future
that multiplexes its work by hand, so most of what can go wrong is in the order of polls, wake-ups,
queue overflows and disconnects. That is what this project models.

Everything was translated from the Rust source; `PROJECT.json` maps each definition to its lines.

## 1. Inventory

| component | state | operations | talks to |
|---|---|---|---|
| Outbound routes (`outbound/routes.rs`, `ready.rs`) | one buffer reader per route, a bit set of ready routes with its waker, per-route lanes of coalesced wakes, a round-robin cursor | poll, wake, drain, skip, drop | buffers (wakers), connectors (one sink) |
| Session client engine (`session/client.rs`) | bounded command queue, pending-call table, subscription sinks, last sequence numbers, reconnect counter | call, subscribe, write, cancel, sweep, deliver, redial, exit drain | handles (any task), one connection |
| Session server engine (`session/server.rs`) | connections, per connection the subscription table, pumps, event funnel, generation counter | accept, authenticate, dispatch, subscribe, pump, forward, reap, reset | listener, dispatch, connection |
| AimX dispatch, record update stream (`session/aimx/dispatch.rs`, `remote/stream.rs`) | per session drain readers, per stream a lag accumulator | read, write, subscribe, snapshots, drain, query | records, server engine |
| Buffers (Tokio, Embassy, WASM adapters) | ring, latest value or slot; reader cursors; wakers, on Embassy a fixed number of waker slots | subscribe, push, poll_recv, try_recv, drop | producers, every reader above |
| Typed records, builder, dependency graph | registrations, validation results, the futures to run; frozen after build | configure, register, validate, order, spawn | all |
| Transforms | per join a bounded trigger queue with one forwarder per input | run on input, forward, end | buffers |
| Router and inbound dispatch | route table, per record a key table | dispatch, look up or add a key, produce | connectors, records |
| Synchronous API (`aimdb-sync`) | runtime thread, shutdown signal, parked threads, fork mark | attach, get, set, detach, drop | records |
| KNX tunnel (`aimdb-knx-connector/src/tunnel.rs`) | socket, channel id, sequence counters, pending acknowledgements, timers | connect, send, acknowledge, repeat, keep alive, tear down | outbound routes, router, gateway |
| Embedded MQTT session (`aimdb-mqtt-connector/src/embedded`) | write ring (a bipbuffer), session stage, deadlines | connect, subscribe, publish, acknowledge, ping, flush | outbound routes, router, broker |
| Browser bridge (`ws_bridge.rs`) | socket, frame funnel with a byte budget, engine, status and its callback, pumps, pending promises | connect, dial, frame, disconnect, subscribe, query | page, session client engine, a WASM database |
| MQTT (native), WebSocket, Zenoh connectors | driven by their libraries; client table | connect, publish | outbound routes, router |
| Remote client library (`aimdb-client`) | handles, watch cache | call, watch | session client engine |
| Persistence (+ SQLite) | writer queue, database, retention | insert, query, clean up | buffers |
| Serial, TCP, UDS transports, session I/O, codecs | partial frames | frame, encode | sessions |
| Topic matching, profiling, metadata, contracts, macros, tools | counters, none | | |

The hard behaviours are wake-ups that race a poll (outbound routes, buffers), bounded queues that drop
something somebody waits for (client commands, event funnel, subscription sinks), biased selects that
can starve an arm (all engines), ids that are used again while something of their first use is still
under way (server, KNX), losses that must be counted exactly once across five queues (subscriptions),
answers that never come (KNX, MQTT, client), callbacks that run inside the call that causes them
(browser bridge), threads that shut down while others are parked (synchronous API), and registrations
in any order that must add up to a graph that can run (builder). `PROJECT.json` lists them as hazards,
each at its line.

What makes each part correct:

* *Outbound routes*: no wake is lost; nothing is delivered twice or dropped uncounted; a route with a
  value is polled however busy the others are; the end is reported only when every route is drained.
* *Client engine*: every caller gets an answer, its own, in every order of abandonment, eviction,
  disconnect and stop; the pending table does not leak.
* *Server engine*: a live subscription keeps its pump; an ended one frees its slot and reports its
  end, last; nothing of an old session reaches a new one; a failing or closed listener starves nobody.
* *Subscriptions*: received plus skipped updates add up to what was produced; late joining leaves no
  hole, whatever kind of buffer a record has; the final snapshot and the terminal error always fit.
* *Buffers*: a reader sees a contiguous run of the written values or is told how many it missed; no
  waiting reader sleeps through a push or a close; the three adapters keep one contract.
* *Builder and graph*: every mistake that would make the built database misbehave is reported; tasks
  start after the tasks that feed them; every registered stage has a task.
* *Inbound dispatch, transforms*: a name has one key and a key one name; a value is counted once on its
  way through transforms and joins, and no input of a join is silenced by another one's end.
* *Synchronous API*: attach returns, a parked thread is woken by the shutdown unless the application
  keeps the record alive, the thread ends, a forked child touches nothing of its parent's.
* *KNX tunnel*: every telegram's fate is told, once; a silent gateway is noticed; the tunnel is asked
  for again; a busy direction does not starve the other.
* *Embedded MQTT*: CONNECT is the first frame of every socket; the ring returns what was committed,
  in order, and has room in the end for what fits; a missing answer ends the session.
* *Browser bridge*: after disconnect nothing is called, dialled or reported any more; the status tells
  the truth; an overflowing funnel ends the socket instead of leaving a hole.

## 2. Plan

Done, in the order of importance:

1. `OutboundRoutes`, with its proofs.
2. `SessionClient`, `ServerSession`, `Serve`, and `Subscription`, which composes the loss accounting of
   record stream, server and client.
3. The buffers: `BufferContract` states what `buffer/traits.rs` promises; `TokioBuffer`,
   `EmbassyBuffer` and `WasmBuffer` are shown to implement it.
4. The database: `RecordGraph`, `Builder`, `InboundDispatch`, `Transforms`, composed in `Database`.
5. The bridges to the outside: `SyncHandle`, `KnxTunnel`, `MqttSession` over `WriteRing`, `WsBridge`.

6. Proofs, for every value of the constants: every safety property of the passing runs, and the
   refinement of the buffers (section 5).

Left: the WebSocket connector's client manager and the drain readers of the AimX dispatch, if they come
to hold more than a queue per client; topic matching as an algorithm against a reference.

## 3. Modules

### OutboundRoutes
Each route is a ring with one reader, one writer and one bit. A writer's wake-up is four steps
(`Push` or `CloseBuffer` takes the reader's waker, `SetBit`, `WakeBegin`, `WakeEnd`), the transport
task's scan is one step per word of bits, one per clear and one per poll, so every interleaving of the
lock-free code is there. `RegisterTask` and `WakeTask` model the `AtomicWaker` of futures-util, whose
register and wake can meet. A reader that returned a value keeps no waker: that is why `Served` sets
the bit again, and what `NoLostWake` would catch. `stats` is `RouteStats`; `staged` and `inHand` follow
the message through `take_staged` to `reject`. The outcome of serializing a value is carried by the
value, since only its kind matters. `PollBudgetSpent` and `FireDeferred` are Tokio's cooperative
budget: a reader that pretends to be pending and fires its waker when the task yields.

### SessionClient
The state is the bounded command queue, the one-slot prune signal, the pending table, the id counter
and the connection; `caller` records what every calling task is doing. Actions of the callers (`Call`,
`Subscribe`, `Write`, `Abandon`, `DropStream`, `DropHandle`), of the engine (`Dial`, `Redial`,
`HelloDone`, `Recv`, `PollPrune`, `PollCmd`, `Sent`, `Disconnect`, `Stop`) and of a server that may
answer, refuse, repeat itself, send events or close. The arms of the biased select are separate
stages, so that a caller can act between two of them. A task's handle and its stream are two things: it
may drop the handle and read on, and the engine stops when no task `holds` one. Milliseconds (backoff, keepalive) are left out:
a keepalive that fails is an action that may happen.

### ServerSession
One connection: `cancels` (subscription id to generation), `pumps`, `funnel`, the late-join `burst`.
The stages of `epc` are the arms of the biased select and the places where the task awaits a send.
Pumps run only inside the third arm, as in the code. A stream is abstracted to updates with a skip
count and an end that may come at any time. `out` is the last frame sent; the properties about what
the client sees are action properties over it. `newest` is, per id, the newest generation an update has
gone out for. `EndIsReported` is about every pump that is `Over`, cancelled or exhausted: it goes away,
and where the client still holds the id, with a report.

### Serve
The accept loop: what the listener answers is free (how often its failures are logged is left out),
connections are woken by their environment and polled in the order of the `FuturesUnordered` queue.
A connection may be woken anew while it is polled, and a poll of the queue gives up after two of those.
The wrapper that makes an accept yield once after an error is `yieldFirst`. `missed` counts, per woken
connection, the failed accepts it has waited through: what `FailuresPassBy` bounds.

### Subscription
Composes the parts an update passes: record buffers, `record_updates`, `pump_subscription`, the funnel,
the wire, `deliver`, the sink, the subscriber. Every record is a ring, a SingleLatest or a mailbox, and
that decides what a subscription gets of it. A ring has no current value (`HasCurrent`, from `peek`), so
no snapshot, and its stream starts at its end; a SingleLatest has a snapshot, and its fresh stream yields
the current value once more (`StartsAfter`, from `subscribe`); a mailbox has its value
until a reader takes it, this stream or another one (`TakenByAnother`). The topic is exact, without snapshots, or a
wildcard, which leaves out the records that cannot stream (`fan`); a value that does not serialize ends
the stream of its record (`EndStream`).

Values of a record are 1, 2, 3, ...; `made` is, as history, the sequence of updates made: the burst,
then what the streams yielded, each value behind those of its record that a ring had lost before it.
`upTo` is how long `made` was when an update was made, `opened` where a stream began, `passed` the last
value it has yielded, `known` the last value the subscriber received. Server details that
`ServerSession` covers (ids, generations, other subscriptions) are left out.

### BufferContract, BufferState, TokioBuffer, EmbassyBuffer, WasmBuffer, Buffers
`BufferContract` is the abstract buffer: how many values were pushed, per reader how far it is and
whether it sleeps, the mailbox slot, and what the last call answered. Its actions (`Push`,
`Subscribe`, `Receive`, `Lag`, `Empty`, `End`, ...) are all the traits promise. `BufferState` holds
the state the adapters share (readers, their polls and wakers, producers); each adapter module gives
subscription, push, poll, `try_recv` and close for ring, latest and mailbox, over tokio's broadcast
and watch, Embassy's pub-sub channel, watch and channel, or the WASM adapter's own queues. `Buffers`
chooses adapter and kind in its initial state and instantiates `BufferContract`: a reader sleeps if it
waits and no push has its waker in hand, it is cut off if nobody at all has its waker (`CutOff`), and
the capacity is what the runtime makes of the configured one; `ContractKept` is that specification,
checked as a property of all nine.

The contract is what the adapters keep, which is less than `traits.rs` promises at two places (section
6), and it says so by name: a fresh mailbox reader may receive the value that waits (`Has` ignores where
it came in), and where `try_recv` polls with a no-op waker (`noop`, Tokio) it may cut its own reader off
until that reader polls again. Everything else holds without exception: a push or a close leaves nobody
asleep but those (`WakeAll`), and without `noop` there are none.

### RecordGraph, Builder, InboundDispatch, Transforms, Database
Each extends the one before, so that `Database` is their composition. `RecordGraph` is
`build_and_validate`: edges, missing inputs, Kahn's order, the cycle that is named. `Builder` is the
registrar (source, tap, link, transform, join, buffer, remote access, in any order), `configure`,
`build` with its checks in their order, and the futures every record contributes. `Mistaken`, `Unfed`,
`Unheard`, `Stuck` and `DuplicateScheme` say which mistakes were made, from the bag of calls alone;
`MistakesReported` compares them with what `build` says, kind by kind, since not all kinds come
together (section 6). `InboundDispatch`
routes a message to the records that link its topic, and turns the name captured from it into a small
key, by several tasks at once. `Transforms` runs the single transform, and the join with its
forwarders, its bounded trigger queue and its end. `Database` runs what was built: values enter by
sources, connectors and remote writes, and pass the stages.

### SyncHandle
The runtime thread, the threads that set, get and detach, and the process that may fork. Each blocking
call is the steps at which another thread can come between: reading the handle, entering, parking,
being woken. A detach with a timeout may give up while the thread is still ending; a panic of the
runtime thread is an action. The handle's reference to the database is not the only one there may be:
`AimDb` is `Clone`, and a runner or a producer keeps the record as well. `outside` says that the
application holds it by one of these; it may write by it (`PublishBeside`) and drop it at any time, or
never (`LetGo`), and the buffer closes only with the last (`buffersOpen`). A fork may happen while any
other thread is anywhere in a call; those threads do not exist in the child (`"gone"`). Left out is a
fork at the moment another thread holds the handle's mutex.

### KnxTunnel
The tunnelling engine and the task that drives it over one UDP socket after another. The network and
the gateway are the environment: a datagram of any kind may be there or never come, a send may fail.
Time is a number of ticks per timer (heartbeat, sweep, acknowledgement, connect, backoff); sequence
numbers wrap at `SeqSpace`; the pending map gives an entry up when full. Frame layouts are left out.

### WriteRing, MqttSession
`WriteRing` is the bipbuffer: grant, commit, read, release with its two pointers and its watermark.
`MqttSession` is the embedded backend over it: dial, run a session, wait, repeat. The three arms of a
session (one lifts chunks off the socket, one writes the ring out, one holds the client's state) run in
their order whenever the task is polled. A packet is its kind, its length and the place in the ring its
grant gave it, so that `RingHoldsQueue` can say the packets lie end to end where the reader will find
them. A poll of the writer that finds nothing still moves the reader back to the start when the data
before a wraparound is gone (`Polled`).

### WsBridge
The socket with its browser events, the bridge's dialer and its closures, the frame funnel with its
slots (the channel's own and the one futures' `mpsc` adds for its sender) and its byte budget, the engine (its part that the bridge sees), the status with the page's
callback and the microtasks that run it, one subscription pump and one pending call. The page may
disconnect at any moment, also inside a callback. `ReplayReenters` says whether the page's callback
changes the status while the current one is being replayed to it.

## 4. Runs

| run | bounds | shows |
|---|---|---|
| `outbound_routes` (OutboundRoutes.cfg): `NoLostWake`, `Accounting`, `FinalMeansDrained`, `RoundRobin`, `HungryRouteIsPolled` | 2 routes in one word, ring of 1, 2 values in all, skip budget 2 | No wake-up of an outbound route is lost under any interleaving of writers, deferred wakes and the transport task's scan; routes are served round robin and every value is counted once. A route with something to return is eventually polled. |
| `session_client` (SessionClient.cfg): `NoLeakedCall`, `NoCallerHangs`, `OwnReply`, `AbandonedIsReclaimed` | 2 tasks, queue of 1, 3 ids, 2 attempts, handshake and keepalive | With two tasks, a one-slot queue and a server that answers, refuses, repeats itself or closes: no abandoned call stays in the table, whatever the other task does, and no caller is left without its sender or, once the engine has stopped, without an answer. |
| `server_session` (ServerSession.cfg): `SlotsMatchPumps`, `UpdatesInOrder`, `EndIsReported` | 2 ids, 1 live subscription, 2 in all, funnel of 1, 2 updates each, burst of 1, 3 frames | Ids used again while their old pump still runs, streams that end, handshakes on a connection that never closed and a full funnel: a live subscription keeps its pump and its handle, an ended one frees its slot and has said its last word, an old session is silent, and a stream that ends under a client that still holds it is reported. |
| `serve` (Serve.cfg): `FailuresPassBy`, `WokenIsPolled` | 3 connections of 4, 4 accepts, errors without bound | A listener that succeeds, fails once or for ever, or closes: the cap holds, failed accepts of either kind cost a woken connection at most one turn of the queue each, and an endlessly failing listener starves none. |
| `subscription` (Subscription.cfg): `EveryLossCounted`, `NothingInBetween`, `ReservedSlotsHold` | 3 records of any kind, 3 values in all, ring 1, funnel 1, sink 3 | With losses at the ring, the funnel, the encoder and the sink in any combination, the subscriber's received and skipped updates add up to what was made, who was told of none knows the current values whatever buffer a record has, no write falls between streams and snapshots, and the last snapshot of a burst and the terminal error always fit. |
| `buffers` (Buffers.cfg): `NeverEmptied`, `NoWakerLeft`, `ContractKept` | 3 adapters, 3 kinds, 2 readers with 2 wakers each, 2 producers, capacity 1, 3 pushes, 2 subscriptions, 1 registration slot | The ring, latest and mailbox buffers of the Tokio, Embassy and WASM adapters, with concurrent producers and readers that change wakers, re-poll, call try_recv in between, drop and subscribe again, all implement one buffer contract, which says where it is less than the traits document. |
| `sync_handle` (SyncHandle.cfg): `ChildTouchesNothing`, `NobodyHangs`, `DownMeansDown`, `LatestIsNewest` | 2 closing threads, 2 producing, 1 reading, 1 other holder, ring 1, 3 values | The blocking API: attach, producers and a consumer on their own threads, concurrent shutdowns with and without a timeout, a dropped handle, a panicking runtime thread, an application that holds the database by other means, and a fork while any thread is anywhere. |
| `knx_tunnel` (KnxTunnel.cfg): `HandshakeFitsSocket`, `EveryFateTold`, `TunnelRecovers`, `OutboundServed` | 3 sequence numbers, 2 pending, 1 repetition, 3 telegrams, deadlines of 1 or 2 ticks | The KNX/IP tunnel through handshakes, refusals, silence, failed sends, retransmissions and teardowns: the fate of every telegram is told, the tunnel is asked for again, and neither direction starves the other. |
| `mqtt_session` (MqttSession.cfg): `ConnectFirst`, `RingHoldsQueue`, `NoEndlessWait` | ring of 4, frames of 1 or 2, 1 topic, burst of 1, sessions without bound | The embedded MQTT session and its write ring, over reconnects: CONNECT comes first on every socket, the bipbuffer keeps what was committed and always has room in the end for what fits, and an answer that never comes ends the session. |
| `ws_bridge` (WsBridge.cfg): `StatusIsTrue`, `NoFreedCallback`, `NoHole`, `GivenUpEnds` | 2 sockets, 1 and 3 frames, channel of 1 (and 1 for its sender), 3 bytes, 1 pump, 1 pending call | The browser's bridge under every order of socket events, engine polls and a page that disconnects at any moment, also from inside a status event: disconnect is final and ends everything, the reported status is true, no freed callback is called, and a funnel over its limit never leaves a hole. |
| `database` (Database.cfg): `MistakesReported`, `TasksInOrder`, `OneKeyPerName`, `EveryValueCounted`, `WorkedOff` | 3 records of 2 types, 2 registrations beyond plain records, 2 writes, ring 1, trigger queue 1, 2 dispatchers | A database from its first configure() to its running tasks: every order of registrations within the bounds, the mistakes build() reports, the start order it finds, and the messages, transforms and joins of the databases it builds. |
| `database_remote` (DatabaseRemote.cfg) **violation**: `NoProducerOverride` | 1 record, 2 registrations, 1 write | A record with a running source (or transform) and remote access accepts a remote write. |

Bounds. Two routes, two tasks, two ids or two threads are the least with which one can disturb the
other, three records the least with a cycle that has a record downstream or a burst that overflows;
queues have one slot (sinks three, one more than `deliver` reserves) so that every overflow happens;
counters are capped in the guards and every cap is a named constant. In `ws_bridge` the second socket
gets three frames (`FramesOn`): one of two bytes fits beside one of one but not beside another of two,
and three of one byte are more than the channel has slots, so that now the bytes and now the slots end
the stream, and frames that wait together are read in order. The type invariant of a module,
which also states the bounds of its queues and tables, is a conjunct of one of its safety invariants.
`outbound_routes` lets the first route carry two values, or each one: enough for a lag, a skip and a
turn of the other route. One route more, one more update or a longer funnel only repeats what these
instances do; that is a judgement, and only the proofs of section 5 do without it.

Symmetry is used in `buffers` and `subscription`, over readers, producers and records, which no
definition there orders or tells apart.

Fairness is what an executor, an operating system or a browser gives; nothing is assumed of callers,
producers, peers and networks unless said here.

* *Engines* (`SessionClient`, `ServerSession`, `Serve`): weak fairness of the engine's own steps: a
  woken task is polled again. A client does not send frames for ever (`MaxFrames`) and a listener does
  not hand out connections for ever (`MaxAccepts`); both would starve the later arms of a biased
  select, which the source says and accepts. Errors of the listener are not bounded.
* *OutboundRoutes*: weak fairness of the running task and of the wake-ups under way; strong fairness of
  a poll that is not cut short by Tokio's budget, which is refilled whenever the task yields.
* *SyncHandle*: weak fairness of every thread inside a call: the OS runs its threads. That the
  application lets go of the database is not assumed: a consumer in get() is owed an end only if nobody
  outside holds the record.
* *KnxTunnel*: weak fairness of the loop, strong fairness of the clock, and a bind that succeeds in the
  end. The gateway may stay silent for ever.
* *MqttSession*: weak fairness of the executor; strong fairness of an awaited answer's deadline, and of
  a pending socket write completing or failing. The broker may stay silent for ever.
* *WsBridge*: weak fairness of engine, pump and microtasks, and of the close event the browser owes a
  closing socket. Nothing is assumed of the server or of a query's timeout.
* *Database*: weak fairness of `build` once it was called and of the tasks it started.

## 5. Proofs

Eight modules hold theorems, and each theorem is about every value of its constants. A component has
one inductive invariant, a conjunction of named parts: `IInv`, and beside it `NoLostWakeInv` and its
companions in `OutboundRoutes`, `FullInv` in `Subscription`, `ServeInv`, `TunnelInv`, and the parts of `Database`, which build on
each other. TLC has checked every one on the run's instance. A lemma per action, or per part and
action, shows that the step keeps it.

Where a fact needs induction (Kahn's algorithm, the sweep of the pending map, how many elements of a
sequence are alike), it is stated as a set of numbers that has 0 and with every number the next: the
least number outside it (`WFMin` over `<`) would contradict that. A function defined by recursion over
the numbers is shown to exist in the same way (`RecursionExists`). The library's own induction and
recursion theorems, which take an operator, are not used.

### OutboundRoutesProofs

For any number of routes and any word size:

* `TypeCorrect`: `Spec => []TypeOK`.
* `NoWakeIsLost`: `Spec => []NoLostWake`. A route whose buffer has something to read, or whose end
  is to be seen, is known to the scheduler or its waker is still registered.
* `EveryValueCounted`: `Spec => []Accounting`. Inductive with the types alone: a write that finds the ring
  full moves a value to `missed`, every poll moves values from the ring or from `missed` to exactly one
  counter (`BookedCount`), and a rejected message was counted as sent before.
* `EndMeansDrained`: `Spec => []FinalMeansDrained`, from `FinalInv`: the final answer comes from `open`
  being empty, so the invariant must carry, for each route that left `open`, that its buffer was closed
  and drained then and still is, and that a staged message keeps the task from polling.
* `ServedInTurn`: `Spec => RoundRobin`. What a route owes the others is measured against the route
  served last, while a pass counts positions from its own start. `RoundRobinInv` relates the two: the
  routes owed a turn are still ready, come before the route that owes it in the order of turns
  (`OwedComeFirst`), and the scan has not gone past them (`PassInOrder`). `TurnsInOrder` shows that
  the two orders agree when the pass starts after the route served last, and
  `NothingOwedWhenPolled` that nothing can be owed by a route whose position the scan has reached.

`NoLostWake` alone is not inductive: it speaks of a sleeping task only, and the steps that could put
the task to sleep too early happen long before. The invariant is `NoLostWakeInv`, of four parts. A task that
scans or sleeps can be reached (`TaskReachable`: its waker is stored or has been fired). Every set bit
of an open route is ahead of the scan or the task is being woken for it (`BitsAreSeen`). Every open
route will set its bit when something happens (`RoutesArmed`: its waker is with the buffer and the
buffer has nothing to return, or the bit is set, about to be set, or the route is being polled). The
scan holds only open routes (`ScanSound`). `WakeNext` shows that every action keeps all four, with
`ScanStep` for the one hard case, that a scan of one word never passes over a set bit; asleep, without
a wake under way, the four leave only a waker with a drained buffer. All
five assume only `RoutesAssumption`: positive numbers of routes, word size, skip budget and capacity.

### SessionClientProofs

`AbandonedIsRemembered` (`NoLeakedCall`), `EveryCallerServed` (`NoCallerHangs`) and `RepliesMatch`
(`OwnReply`), from `ClientAssumption`: a queue of at least one slot. `NoLeakedCall` looks at one entry
whose caller has gone; to keep it, the invariant must know whose every id is. An id in use is below the
counter, is one request of one owner, and nobody waits for it once its cancellation is on its way
(`IdsOwned`). A request has one sender, queued, in the engine's hand or in a table (`SenderOnce`); whoever
waits has its answer or that sender, never both (`AnswerOrSender`); an entry nobody waits for is about to
be freed, by a cancellation, the prune signal or a sweep (`AllFreed`).

### ServerSessionProofs

`HandlesMatchPumps` (`SlotsMatchPumps`) and `UpdatesSentInOrder` (`UpdatesInOrder`, an action
property). Ids are reused, so everything is stated per generation: the handle of a live id names a
pump of that id (`Slots`), a generation is handed out once and one that is over has neither pump nor
anything in the funnel (`GensOnce`), and the numbers of a generation grow from what was sent last over
the funnel to the pump (`NumbersGrow`). That the uses of an id come one after the other is a second
invariant (`UseByUse`): the funnel holds an id's generations in the order they were handed out, behind
the newest one sent, and the use that is live is none of the older ones. `SessionAssumption` asks for one subscription id and one funnel
slot at least.

`WokenInTime` (`FailuresPassBy` of `Serve`), from `ServeInv`: a connection at place i of the queue has
waited through so few failed accepts that i more keep it within the limit (`InTime`). A failed accept
costs everybody one and must be paid for by a poll, which moves the queue on: between the two one more
is owed (`PassOwed`), and the accept that yields first is what makes sure of the order. The queue is no
longer than the connections, which the soft cap bounds.

### SubscriptionProofs

`OneDeltaCountsAll` (`EveryLossCounted`), `SlotsWhenNeeded` (`ReservedSlotsHold`) and
`CurrentWhenComplete` (`NothingInBetween`, and with it the types and the queues' bounds), from
`SubscriptionAssumption`: finitely many records, and a sink of two slots at least. The invariant
follows an update on its way: its number is how many had been made by then (`Numbered`: the server's
number is the length of `made`, and a ring's stream is ahead of what it has yielded by the lag that
waits for a value to carry it), numbers grow
from the sink over the wire and the funnel to the server (`Ordered`), and an item in the sink has the
number of the one before it, its own gap and one (`Chained`). For the slots: the burst is ahead of
every event and its end behind its body (`BurstFirst`), and as long as it is ahead one slot more is
free (`SlotsKept`).

`CurrentWhenComplete` needs more, `FullInv`. A record's values never go back among the updates made
(`Ascending`): this is where the streams must be opened before the snapshots are read. What a stream
has read past its beginning is among them, and a lag has a value behind it (`Yielded`). An update on its
way is the one it says it is (`InTransit`, `Dated`), in the order made and behind what was received
(`SinkOrdered`). Then what is known of a record is one of its updates, and without a loss nothing newer
was received (`Kept`): whoever has accounted for all that was made knows the newest of each record.

### BuffersProofs

`MailboxNeverEmptied` (`NeverEmptied`), `WakersOfTheLiving` (`NoWakerLeft`), and the refinement
`BuffersImplementContract`: `Spec => ContractKept`. The initial states map to initial states of
`BufferContract`, and each step of each of the nine combinations of adapter and kind to a step of it or
to a stutter. The invariant says which runtime's push can be where (`PushShape`) and that one under way
has not taken effect (`PushesCounted`), that a reader that is not subscribed has no position and waits
for nothing (`Away`), whose entry a waker key names (`KeysOwned`), and that the latest waker of a reader
that waits is registered or on its way, but for Tokio's ring and latest buffers, where a `try_recv` may
have taken it (`Registered`). There each step's lemma shows that nobody is cut off by it but the caller
of `try_recv`, and that a poll ends that. `RoundedUpAssumption`, that the ring tokio rounds up to holds
something, is arithmetic with powers of two that the provers lack; TLC evaluates it.

### DatabaseProofs

Of the synchronous handle: `ChildIsInert` (`ChildTouchesNothing`), `JoinMeansDown` (`DownMeansDown`) and
`LatestReturned` (`LatestIsNewest`). `JoinMeansDown` is about the caller that took the thread and joined
it; a second caller's `Ok` comes at once and may come before the thread has ended (`handle.rs:531-534`).
It holds whoever else keeps the database. The last two are action properties about the moment a call
returns, so the invariant says what holds of every call under way. It accounts for the strong
references: who holds one and what its owner is doing (`References`), so that none is left once the
caller that took the thread has joined it, and the producers' weak upgrade fails from then on. One
caller gets the thread (`OneTakes`), nothing happens on a handle that does not exist yet (`Attaching`),
a child has no call in progress (`ChildIdle`), and a drain holds the last value read or has one ahead
(`DrainHolds`). `SyncAssumption` says the threads are finitely many, and that no two holders of a
reference have the same name.

Of the database: `KeysAreStable` (`OneKeyPerName`), `ValuesAccountedFor` (`EveryValueCounted`),
`TasksFollowInputs` (`TasksInOrder`) and `EveryMistakeNamed` (`MistakesReported`), for any number of
records, any registrations in any order, any graph. The invariants follow a database through its life,
and each rests on the ones before.

* `Shapes` and `Graphed`: the types of the registry, what belongs to which phase, and that a build past the
  sort has no error, has every record once in its order and its inputs before it. The second needs
  Kahn's algorithm to be right for every graph. `Kahn` says that the degree of a record that was not
  reached is the number of its inputs not yet placed, and that the queue has exactly the reached records
  that are not placed (`KahnStarts`, `KahnPlaces`). When the queue is empty, the records left over all
  wait for one another (`StuckIs`), so that they are what the cycle error names (`NoneStuck` is the
  other side: where there is an order, nothing is stuck).
* `Tables`: a record's table has no name twice and never more names than the least capacity its links
  declare, a delivered message's key names it in the table of now, and nothing is routed before the
  database runs. Tables only grow at their end, so a key that was right stays right.
* `Collected` and `Flow`: which futures a record has contributed, and where the values of an input are.
  Something in a join's channel is of an input that has a reader, and only a join's readers wait to send.
  `Counted` is the property itself; a channel is a sequence whose elements of one input are counted
  (`HitsAppend`, `HitsTail`, `AlikeCount`), so that a value which moves from reader to channel to handler
  is in one place before and after every step.
* `Accounted`: until `build`, the registrar keeps what the calls said. Per record and kind of call (`NotedSource`,
  ... `NotedInbound`): it is there if the call was made, and it is blamed if it was made twice, was of
  another type, or could not be served. Calls are a bag, because a call made twice is a mistake;
  `CallsGrow`, `TimesGrow` and `CopiesAre` say how a bag counts.
* `Complete`: the tasks so far are those of the records asked so far, in order, each record's as often as
  `Accounted` says it was registered.
* `Reports`: from then on, the errors name the records with a mistake. `ValidatedNames` compares the pass over the
  records with the calls, by kind of mistake (`SchemasBlamed`, `InboundBlamed`, `WritersBlamed`, ...); a
  failure behind it finds no error, so no mistake either (`FailsLate`), and a link without a buffer has
  been refused before a connector's factory could meet it.
* `Checked`: the kinds of mistake that come alone. A missing input or a tap that is reported was made; the sort is
  reached without an error only if no input is missing, a record is past the collection only without a
  deaf tap, and the database is connected only if every scheme has one owner.

Of the constants only what the modules assume is used.

### WsBridgeProofs

`PageIsToldTheTruth` (`StatusIsTrue`), `CallbacksOfTheLiving` (`NoFreedCallback`) and
`FramesWithoutHole` (`NoHole`). The first has the hypothesis `ReplayReenters = FALSE`: a page whose
callback changes the status while it is being replayed to hears the older one (section 6); the other
two do not need it. For the frames, a running total of the lengths is part of the invariant and is
carried along by each push and take, since no prover here adds up a sequence.

### ConnectorProofs

Of the embedded MQTT session: `ConnectIsFirst` (`ConnectFirst`), `RingKeepsPackets` (`RingHoldsQueue`), and `EmptyRingGrantsHalf`,
what `fits` rests on: with nothing queued, and wherever the pointers are, a ring that the writer has
looked at grants half its capacity. `EndToEnd` relates neighbours only. The invariant adds what
follows by adding up (`Segment`: packets stay within the bytes they fill and come one after the other),
that the watermark is behind both pointers (`Laid`), that what is being written was in one piece when
it began, still is, and ends with a packet (`InFlight`), and that the CONNECT is the first packet
queued until the broker has seen something (`ConnectAhead`). `PutKeeps`, `ProbeKeeps`, `RewindKeeps` and
`ReleaseKeeps` show that grant, early wraparound, read and release keep it; `ProbeFinds`, that the
room a probe found is still there for the put behind it. Only `MqttAssumption` is assumed, which is
what `prepare_outbound` checks.

Of the KNX tunnel: `OneHandshakeEach` (`HandshakeFitsSocket`) and `NoTelegramDropsOut`, for any deadlines,
number of retransmissions and size of the pending map. `OneAsk` says that a socket is asked on only after
it was bound: once a reset is on its way through the action queue (`Doomed`), the engine waits in backoff
and its timer runs until the loop has given the socket up. `Tracked` says that the pending map has an entry
per sequence number and that every telegram is in it or was told its fate; for the sweep, which
retransmits some entries, gives up others and tears everything down when a send fails, this is an
induction over the entries swept (`SweptSoFar`). `NoTelegramDropsOut` is what `EveryFateTold` rests on,
without the fairness: nothing drops out. Like it, it is about `Overrun = FALSE` (section 6).

### Only model-checked

* The liveness properties of all modules: fairness and ENABLED are out of the prover's reach.
* `NoProducerOverride`, which is a violation (section 6).
* `RoundedUpAssumption` of the buffers, evaluated by TLC for the capacities of its run.

## 6. Findings

1. `NoProducerOverride` (run `database_remote`), src/aimdb-core/src/typed_record.rs:1031. remote_write_codec refuses a remote write when has_producer() or has_transform(), but both ask whether the registration is still stored, and build() has taken it out (collect_producer_future: `let service = lock(&self.producer).take();`, collect_transform_futures likewise). On a built database the check never refuses: a remote client writes into a record whose source or transform is running. src/aimdb-core/src/builder.rs:253 says: "**SAFETY:** Enforces the "No Producer Override" rule: - Only works for records with `producer_count == 0` - Returns error if the record has active producers". The run reaches such a write in a database with one source.

Smaller disagreements between the source and what it says of itself, met while modelling. The models
do what the code does; no run is spent on these.

* *Session client*: with redials unlimited, the engine keeps dialling after the last handle was dropped
  (`session/client.rs:540`; the doc at `:325` says it ends). The limit on redials counts one attempt
  more than its name says. A stream dropped by its subscriber while its sink is full is not pruned
  at all: its length never falls again (`:447`, `:462`).
* *Session server*: an update of a cancelled subscription that is already in the funnel goes out under the
  id's second use with the old sequence number (`session/server.rs:364`), although an unsubscribe is to
  stop delivery and numbers are to grow per subscription (docs `008-M3-remote-access.md:159`,
  `session/mod.rs:344-348`): an event carries the id and not the generation. `UpdatesInOrder` states what
  the code does keep: numbers grow per generation, and such a straggler goes out before any update of
  the new use, never after one.
* *Record streams*: a value that does not serialize ends its record's stream, and the lag before it is never
  told (`remote/stream.rs:95-101`). A SingleLatest or a mailbox overwrites without a word; only a ring's
  losses are counted.
* *Buffers*: two promises of `buffer/traits.rs` that the adapters do not keep, and that `BufferContract`
  therefore does not make. `try_recv` between two polls replaces the registered waker by one that does
  nothing on Tokio's ring and latest buffers, so a task that waits is not woken by the next push (`:198`). A
  new mailbox reader takes a value written before it subscribed (`:64`).
* *Synchronous API*: "Released after the join, closing the buffers: that wakes a parked consumer"
  (`handle.rs:149`) holds only if the application keeps no clone of the `AimDb` (`builder.rs:1037`), no runner
  and no producer (`builder.rs:672`, `typed_api.rs:104`): with one, the buffers stay open and a consumer in
  get() stays parked. `NobodyHangs` claims it for the other case only.
* *Builder*: `build` is said to surface every mistake in one run (`builder.rs:677-684`). It does not: a missing
  input ends the pass before cycles are sought, and hides further missing inputs (`graph.rs:199-209`,
  `builder.rs:858-863`); a tap on a record without a buffer and a second connector of one scheme are
  reported alone, by a later run. `MistakesReported` says which come together, and that none of them gets
  past `build`. The check for duplicate schemes depends on the order of the connectors
  (`builder.rs:940`); a transform whose input has no buffer is accepted and never runs
  (`builder.rs:802` checks the types only). After `build` a record's metadata says it has no producer, for
  the reason of the finding above.
* *KNX*: a full pending map gives up its first slot, which is not "the oldest entry" (`tunnel.rs:375`):
  removal moves the last entry there, so the others can stay for long. A sequence number that comes
  round to such an entry replaces it, and its telegram is never reported, against "no unacknowledged
  telegram is ever silently untracked". It takes 256 telegrams within one acknowledgement timeout;
  with `Overrun = TRUE` and `SeqSpace = 2` in `KnxTunnel.cfg`, `EveryFateTold` fails.
* *Browser bridge*: a page whose status callback changes the status while it is being replayed is left
  with the older one (`on_status_change`: "Replay the current status so late registrations don't miss a
  transition that already fired"); `ReplayReenters = TRUE` in `WsBridge.cfg` shows it.

## 7. Not modelled

* **AimX dispatch** (partly): Opening a subscription, its wildcard fan-in and its snapshots are steps of Subscription, record.set is RemoteWrite of Database. Reads, drains and queries change nothing but a session's own drain readers and are not modelled.
* **Buffer traits and counters** (partly): What the traits promise of push, recv and try_recv is BufferContract. The metrics counters, peek and the JSON readers are not modelled: statistics and views beside the data path.
* **Typed records and builder** (partly): The registrar's setters, configure, build with its checks, the futures a record contributes and remote writes. Left out: type ids and key lookup, profiling, extensions, on_start tasks and the read-only views (peek, latest, metadata).
* **Router and inbound dispatch** (partly): Collecting the routes of a scheme, claiming and looking up, with duplicate names, empty tables and failed conversions. The list of subscriptions a connector asks for is a read-only view, the key types are encodings.
* **Topic matching** (not modelled): A pure function of two strings, tested exhaustively where it is; Subscription takes the set of matched records as given.
* **Session wiring** (not modelled): Traits, URL parsing, configuration and log events of the engines that are modelled; no state of its own.
* **Session I/O and codec** (not modelled): Framing of byte streams and JSON envelopes; a frame is one message in the models.
* **Remote access metadata** (not modelled): Data types and read-only views.
* **Profiling and signals** (not modelled): Statistics beside the data path.
* **Remote client library** (not modelled): Typed calls over the session client engine, one request each, and file system discovery; what can go wrong in a call or a watch goes wrong in the engine (SessionClient, Subscription).
* **Persistence** (not modelled): A writer thread that executes one SQL statement per command, in order; the guarantees are SQLite's.
* **KNX connector** (partly): The tunnel: connect, sequence numbers, acknowledgements, retransmission, the pending table, heartbeats, disconnects and reconnects over a network that loses and duplicates. Frame layouts, group addresses and datapoint types are encodings.
* **MQTT connector** (partly): The embedded backend: sessions, the three arms of a session and the write ring. The native backend drives rumqttc, whose event loop holds all its state.
* **WebSocket connector** (not modelled): Its sessions run on the server engine (ServerSession); the client manager on top of it forwards each broadcast into the clients' queues. HTTP and authentication are I/O.
* **Zenoh connector** (not modelled): Drives the Zenoh library; key grammars are text.
* **Serial, TCP and UDS transports** (not modelled): Byte framing and socket I/O.
* **Runtime adapters** (not modelled): Thin layers over clocks, tasks and sockets.
* **Data contracts, derive macros, build info, CDR** (not modelled): Code generation and encodings without run-time state.
* **Tools and benchmarks** (not modelled): Front ends and measurements.

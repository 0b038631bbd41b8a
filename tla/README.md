# hyper4k in TLA+

A model of hyper4k's client, server and Kotlin layer, the TLC runs that check it on small
instances, and TLAPS proofs of the main results for every value of the
constants. Paths and line numbers refer to `src/`.

## The system

hyper4k is an HTTP engine in Rust (`lib/src`) behind a C ABI
(`lib/include/hyper4k.h`), with a Kotlin/Native layer on top
(`src/nativeMain/kotlin/hyper4k`).

| part | code | state | operations |
|---|---|---|---|
| client bridge | `client/bridge.rs` | per request: gate, pause flag and guard, permit, bounded queue, terminal, scheduling flags | deliver a slice, pause/resume, settle (cancel, close, end, failure), produce |
| bridge executor | `client/executor.rs` | ready queue, stop flag | schedule, worker loop, shutdown |
| client handle | `client/handle.rs` | request map, limits, bridge count, closed flag | new, send, resume, cancel, close, free |
| attempts and retry | `client/handle.rs`, `client/retry.rs` | attempt budget, committed flag | acquire, send, retry or settle, deliver the response |
| connection pool | `client/pool.rs` | connections per key, leases, pause counts, dial locks | acquire, drop a lease, pause guard, shutdown |
| connectors | `client/{plaintext,tls,proxy}.rs` | proxy, timeout, trust roots, ALPN offer | dial, CONNECT, TLS and HTTP handshakes |
| client ABI | `client/mod.rs`, `abi.rs` | the caller's structs | initialisation, header check, prefix copy |
| server responders | `lib.rs` | pending and streaming registries, thread-local slot | handle, respond, begin, write, finish |
| server listener | `lib.rs` | runtime, shutdown channel | start, start_tls, stop |
| Kotlin server | `Hyper4kServer.kt` | accepting flag, slots, active count | start, submit, finish, drain, stop |
| Kotlin client | `Hyper4kClient.kt` | life cycle, queued count, paused flag | send, next, cancel, close, C callbacks |

How they interact. `hyper4k_client_send` registers a request, spawns a Tokio
task that acquires a connection, sends, and feeds the response events to the
request's slot through `EventSink`. Executor workers run the slot and call the
user's callbacks. Any thread may resume, cancel or close meanwhile. A response
whose terminal is set gets its `OnDone` from the worker that finds the queue
empty; `free` waits for the count of requests that have not had theirs.

What is hard about it: the slot is a hand-made scheduler on single atomics
(`scheduled`, `running`, `paused`, `permit`, `in_callback`, the gate), read and
written in several steps by three kinds of threads; every promise about
callbacks (serial, in order, exactly one `OnDone`, nothing after it) rests on
the order of those steps.

## Modules

| module | what it is |
|---|---|
| `Bridge` | one outbound request: `bridge.rs`, the part of `executor.rs` that runs its slot, and the calls of `handle.rs` that act on it |
| `RequestContract` | what a request promises its callbacks, as an abstract state machine |
| `MCBridge` | `Bridge` with model values for TLC |
| `Bridge_typing` | proof that every step of `Bridge` preserves its types |
| `Bridge_proofs` | the rest of the inductive invariant and the theorems |
| `Pool`, `MCPool` | the connections of one key with their leases, dial lock, pause guards and shutdown (`pool.rs`), and the attempt loop with the retry rules (`handle.rs`, `retry.rs`) |
| `Pool_proofs` | the inductive invariant of `Pool` and its theorems |
| `Transport`, `MCTransport` | from the caller's structs to the request on the wire: the versioned structs (`mod.rs`), `client_new` and the checks of `send` (`handle.rs`), the connectors (`plaintext.rs`, `proxy.rs`, `tls.rs`) and the form of the request target |
| `Transport_proofs` | the inductive invariant of `Transport` and its theorems |
| `Client`, `MCClient` | the life of a client: send against close, the limits, the bridge count and free, the executor's threads (`handle.rs`, `executor.rs`) |
| `ClientContract` | what a client promises, as an abstract state machine: admission, one `OnDone` each, free |
| `Client_proofs` | the first part of the inductive invariant of `Client`: where requests are and what the workers hold |
| `Client_refines` | the rest of it (bytes, the dispatch of workers) and the theorems, with the refinement of `ClientContract` |
| `Server`, `MCServer` | the engine's `handle()` and responder calls (`lib.rs`) driven by the Kotlin dispatcher (`Hyper4kServer.kt`), with `start`, the accept loop, the TLS handshake and `stop` |
| `Server_proofs` | the inductive invariant of `Server` and its theorems |
| `Stream` | the Kotlin consumer of one response: `onChunk`, `onDone` and `next` (`Hyper4kClient.kt`) |

### Bridge

The variables are the fields of `RequestState` and `Slot` (the comment at each
names the field), the number of times the slot is in the ready queue, whether
the id is still registered, and for each thread a label `pc` (the statement it
is about to execute) and `ret` (where `settle_slot` returns to). `sent`,
`delivered` and `done` record what the callbacks have seen. Events are named by
their position in the response; event 1 is the headers.

Each action is one access to shared state, in program order. Threads are:

- **workers**: `TakeReady`, `Bounce`, then `run_owned` from `BeginSlice` to
  `LeaveSlice`, and the recheck and re-queue of `run_slice`;
- **callers** of the C ABI: `CallResume`, `CallCancel`, `CallClose`;
- **the network task**: `Receive`, `EndOfBody`, `Fail` for what the peer or a
  timeout does, `Acquire` to `WakeSlot` for `EventSink::send`, `Aborted` for the
  task being dropped at an await;
- `settle_slot` (`Claim` to `ScheduleSlot`, and `Abort`) is run by all three.

Two accesses are one step only where no other thread can tell: a ready-queue pop
with the `running.swap` that follows it, the recheck of the queue with the push
onto the ready queue, `scheduled.swap` with its push, the terminal with
`done_ready` and the extra permit (the terminal is only read after `done_ready`),
`terminal.take` with `OnDone` and `finished_flag` (only the owner runs them), a
pop with the return of its permit. The two pause checks before the first event
are one. Left out: `set_abort` racing a settle that comes before it, and the
executor's shutdown.

A callback's answer, the calls other threads make and what the peer does are
choices of the environment, taken from `Verdicts` and `Ops`. `Capacity` is
`queue_capacity` (8 in `client_new`), `Slice` the executor's `SLICE` (8).

### Pool

A connection is a number in dialling order; `kind`, `idle`, `active`, `paused`
and `dead` are the fields of its `ConnEntry`, `open` says whether the socket is
up. A task goes through `acquire` (`Acquire`, the scan and the take of `reuse`
as separate steps, `LockDial`, the second scan under the lock, `CountLive`,
`Dial`, `Insert`, `TakeNew`) and then through `attempt_loop` (`CheckSender`,
`SendFails`, `Respond`, `EndBody`); `AbortTask` drops it at any of its awaits.
`PeerCloses` may happen between any two steps. `Pool::shutdown` is modelled on
both sides of the single flight, down to `Notify`, which keeps no memory of a
wake-up. A request that has been answered may be parked and released by two
threads: `enter_pause` and `leave_pause` are two steps each (the flag, then the
guard), and `DropState` drops a guard that is left when the request's state goes.
The guard counts on the connection the request is bound to, which is where the
bridge and the pool meet. A send that fails hands the request back unsent or
not; only on an open H1 connection is it always unsent, because hyper then
refused it before writing. `reuse` reads the map under a shard lock, so the steps that write the
map wait for readers (`Reading`).

Reductions: the live connections are counted in one step and `Lease::drop` is
one step; keys share nothing but the shutdown, so one key stands for all.
`reached` counts how often the peer may have seen the request; it is the only
history variable.

### Transport

One client and one request after another. A caller's struct is a row of numbered
fields, each marked with who wrote it (nobody, the caller, the library, or memory
that is not the struct's), and a caller may have been built against any struct
size. `OptionsInit`, `ClientNew`, `RequestInit` and `Send` are the C calls with
their checks in the code's order; the callee's copy decides what it sees. An
attempt then reuses a connection of its scheme's pool or sets one up: `Connect`,
`Dialled`, `Exchange` (the CONNECT exchange, read by read), `TlsHandshake`,
`HttpHandshake`, `Write`. `Tick` advances the timer of the phase that has one.
`sent` records the last request as written and the connection it went on.

Reductions: one origin per scheme; certificates are reduced to the root that
validates them; proxy urls, CA bundles and request targets to good and bad ones;
failures of the peer to the cases `classify` tells apart. The closed check and
the reservation of `send` are in `Client`, leases and retries in `Pool`.

### Client

Threads are senders, one that calls close, one that calls free, and executor
workers. `try_reserve` is modelled as its separate counter updates (count, look,
take back), and the worker loop as its checks, its lock and its condition
variable. Of a request only what these see is kept: its gate is open (`running`),
claimed, or settled with `done_ready` set (`ended`); its slot is in the ready
queue or not; it has had its `OnDone` or not. `settle` is two steps, the claim
(`Claim`, or `SweepRequest` for close) and the publication of the terminal
(`Publish`, `PublishSwept`). When the slot is then queued is left open: `Push` may
come at any time, also late or never, and a slice may end without `OnDone`
(`EndSlice`), as it does for a slot that is paused, bounced or run for an event
that came after `OnDone`. So `Client` allows every schedule that `Bridge` has, and
its safety properties do not rest on the bridge delivering what it should. The
one liveness property names what it takes from the bridge: **`FreeDrains` says that
free's wait ends if every settled request gets its `OnDone`.** The violated
`bridge_settled_gets_on_done` shows that this is not always so, and then free
hangs (see below). Other reductions: the id list of close is read in one step,
callers respect the exclusive ownership that free demands, the ready queue is a
set whose pop may leave a second entry of the slot behind, and the pool's
shutdown and the drop of the runtime are one step of free (`DropRuntime`),
detailed in `Pool`.

`ClientContract` has three variables: the requests that have been admitted and
not had their `OnDone`, those that have had it, and whether free is past its
wait. `Admit` keeps both ceilings, `OnDone` comes once, `Free` needs that nothing
is open, and after it nothing is admitted. `Client` maps to it by `Admitted`,
`done` and the label of the thread in free; the sum of the costs of a set of
requests is the number of pairs (request, unit of its cost), `Weight`.

### Server

`CreateRef` and `StartServer` are Kotlin's `start`: the dispatcher's ref first,
then the engine, which comes up or fails and takes the ref away. A connection
waits in the backlog, is accepted, and with `Tls` does its handshake on its own
task; the run has `Tls` set, so that the plaintext listener, which goes from the
backlog straight to the request, is a shorter path of the same module. Each
request is a connection task of the engine and, once admitted, a coroutine.
`inline` holds the requests whose coroutine still runs inside the callback: there
a delivery goes to the thread-local slot, elsewhere to the oneshot channel. The
handler may begin, write and finish a stream, suspend, return or throw at any
point, and `submit` may throw before it has taken a slot (`CatchThrow`, the catch
of `onRequest`); clients read or disconnect, timeouts fire and `stop` runs at any time.

Reductions: one request per connection, no errors of accept, no overlapping calls
of `start` and `stop`, one coroutine per responder (a handler that shares its channel
between threads is not modelled), handlers follow the channel's contract,
`failureResponse` does not throw, a registry removal and the send on the removed channel are one step. External: the
drop of a Tokio runtime waits for the poll each worker is in.

### Stream

`onChunk` and `next` run on two threads and share `queued`, `paused` and the
channel; each access is a step. The engine below is reduced to one callback at a
time, a pause that takes effect after the callback returned, and a one-step
`resume` that answers OK, ALREADY_DONE or NOT_PAUSED.

## Runs

| run | result | what it shows |
|---|---|---|
| `bridge` | holds | `TypeOK`; `OneOwner`: one worker at a time runs the slot; `QueueBounded`: the queue stays within its capacity even with the permit `settle_slot` adds; `SlicesNeverStick`: a worker in a slice can always go on, except in the cleanup, where it waits for callers that can; `ImplementsContract`: every step is a step of `RequestContract` |
| `bridge_done_is_last` | violated | an event can be delivered after `OnDone` |
| `bridge_bounce` | violated | a wake-up can be lost and an event stranded |
| `bridge_settled_gets_on_done` | violated | CANCEL from the last callback of a completed response loses its `OnDone` |
| `pool` | holds | `LeasesBalance`: no lease is leaked or given twice; `ConnCap`: concurrent dials respect the cap; `AttemptsBounded`: a request may have reached the peer `max_retries + 1` times at most; `DialLockInUse`: who holds the dial lock is inside `acquire` and one task at a time dials; `DriversJoined`: a complete shutdown has no driver of a closed entry left; `NeverReplayed`: a committed request, or a non-idempotent one that may have reached the peer, is not sent again |
| `pool_liveness` | holds | `ShutdownReturns`: both of two racing shutdowns return; `AcquireReturns`: nobody is left waiting for the dial lock |
| `transport` | holds | `OwnPrefixOnly`: no version of a struct is written or read past its end; `NoDowngrade`: HTTP2_REQUIRED is kept on every path; `Routed`, `FormFitsReader`: the route, the tunnel and the form of the target fit one another; `TrustAsAsked`: the roots are the ones asked for; `IdleAsAsked`; `PhasesBounded`: the dial, and the proxy exchange after it, have one timeout each whatever arrives; `ConnectEnds`: a timed dial ends |
| `transport_connect_bounded` | violated | dial and CONNECT together can take two connect timeouts, where one is documented |
| `client` | holds | `ReservationsBalance`: the counters are what is held, on every exit path; `CeilingsHold`; `FreeIsSafe`: free goes past its wait only when every accepted request has had its `OnDone` and nothing of it is left in the map and the counters, and returns only when no worker is in a slice; `QueueIsWatched`: while a request is queued some worker is up; `ImplementsContract`: every step is a step of `ClientContract`; `FreeDrains`: that wait ends, also with requests an earlier close missed, if every settled request gets its `OnDone` |
| `client_free_returns` | violated | free can hang joining a worker that missed the stop |
| `server` | holds | `NobodyWaitsInVain`: a finished coroutine leaves no connection without an answer; `RefusedOnlyWhenOver`; `StreamsReleased`: no responder leaks; `SlotsBalance`: admission is exact; `DrainIsQuiet`: after a successful drain no handler runs or starts; `CallbackHasDispatcher`: no callback outlives the dispatcher, a failed start leaves none; `FirstAnswerCounts`: a delivery is not replaced by a later one; `BacklogMoves`: an unfinished handshake does not keep others from being accepted; `StopReturns` |
| `stream_reader_finishes` | violated | a fast consumer can leave the engine parked |

**Bounds.**

- *Bridge*: two workers, one calling thread that may call any number of times,
  capacity 1, slices of 1 event, 2 events (3 for `bridge_bounce`, which needs one
  event per slice of two overlapping slices). Capacity 1 makes the producer wait,
  slices of 1 make every slice end with work left, two workers suffice for any
  race on the slot because at most one of them owns it; the theorems remove the
  bounds for the safety properties.
- *Pool*: two tasks, one idempotent and one not, cap 1 and 2 dials, so that a
  second dial at the cap, a stolen new connection and a retry on a fresh one all
  happen; one retry; both protocols; one task pauses. `pool_liveness` has two shutdowns, only H1
  and one dial.
- *Transport*: struct sizes below the minimum, at it, of 4.0 (options without a
  proxy) and of a caller newer than this build; all flags, CA bundles and proxies; timeouts of none and one tick, a
  header limit of one read; two requests, so that the second may reuse the
  connection of the first or find it gone. `transport_connect_bounded` has only the
  timeout of one tick.
- *Client*: three senders against limits of two requests and two bytes, one of
  them costing two; one worker. Both limits refuse sends, the request limit while
  two others are counted, but with these costs the byte limit alone already
  admits at most two: that `max_inflight` is kept where it is the tighter of the
  two rests on the theorem `CeilingsKept`.
  The hang of `client_free_returns` needs one request and one worker.
- *Server*: two TLS connections for one slot, stream channels of one chunk, any number
  of writes: one request can be rejected for want of a slot, take over a slot
  just given back, or arrive during the drain of the other.
- *Stream*: high-water mark 2 and 4 chunks, enough to pause twice.

Deadlock is not checked in any run: a finished request, a freed client and a
stopped server legitimately stop. The runs with one worker show behaviours that
larger executors have too.

**Fairness.** In `Bridge`, weak fairness for every thread inside the library: the
OS schedules executor threads and callers, Tokio polls a task that can proceed.
Not assumed: that anybody calls the library, that the peer sends, ends or fails.
Strong fairness only for `Cleanup`, which needs the write lock of the request
map's shard: callers hold it in read mode for the length of a call, and the lock
is granted in one of the gaps between calls. The others are of the same kind:

- *Pool*: tasks that can proceed are polled, and a dial ends. The second is an
  assumption about the environment: `connect_timeout` is optional and covers the
  TCP connection and the proxy exchange, not the handshakes after them; those end
  with the peer, the socket or the request's own timeout (`AbortTask`). The peer
  need not answer, nobody need call shutdown.
- *Transport*: only the timers run (`Tick`, `TimesOut`); peers and proxies may say
  nothing for ever.
- *Client*: weak fairness for threads inside the library, for who has claimed a
  request to publish it, and strong fairness for a worker that needs the ready
  queue's lock, which is held for a few instructions. Not assumed: that a settled
  request is queued or that a slice delivers `OnDone`.
- *Server*: the accept loop, the engine and the dispatcher run, and a handler does not keep the
  callback's thread for ever. Not assumed: that a peer finishes its
  handshake, that a suspended handler goes on, that a client reads or stays.
- *Stream*: the peer sends the whole response, the executor runs the slot, the
  consumer keeps calling `next`; the violation is under these assumptions.

### What the violations mean

Each states a sentence of the header or of a comment in the code and is refuted
by a short trace:

1. *Nothing follows OnDone* (`bridge.rs:218`). `run_owned` sees the queue empty
   (357), the network task queues the last event and settles, `done_ready` is
   read true (358), `OnDone` runs; the event is delivered by the next slice.
2. *Nothing is lost* (`bridge.rs:286`). The loser of `running.swap` clears
   `scheduled` (289) at its leisure; a producer's schedule in between is absorbed.
3. *OnDone exactly once* (`hyper4k.h:130`, and 246: "A cancelled request still
   gets OnDone."; `handle.rs:314` says the same of close). `SettledGetsOnDone` fails
   in three ways. The CANCEL branch (342)
   returns false without asking for another slice when `settle_slot` finds the
   request settled: this is the trace of the run. And `settle_slot` looks at
   `paused` (449) before the worker's `enter_pause`, so that a cancel just before
   the worker parks releases nobody; TLC shows it with verdicts of continue and
   pause only, and calls of cancel. The third needs no cancel at all: the response is
   complete (the gate is at DRAIN) and its events are being delivered, close goes
   past the request and finds it not paused (437), and then the callback answers
   PAUSE. `run_owned` parks whatever the gate is (344), nobody releases the pause,
   and `hyper4k_client_free` waits for the `OnDone` for ever. This is what the
   premise of `FreeDrains` stands for.
4. *free blocks until nothing can call back, then frees* (`hyper4k.h:228`).
   `BridgeExecutor::shutdown` stores `stopped` and notifies without the ready
   queue's lock (`executor.rs:64`). A worker that has looked at `stopped` under
   the lock and not yet entered `cv.wait` misses both, and the join never ends.
5. *next calls resume once the consumer has caught up* (`Hyper4kClient.kt:357`).
   `onChunk` sends the chunk (455) before it sets `paused` (457). A consumer that
   drains the channel in between sees `paused = 0`; the engine then parks and
   `next` waits on an empty channel.
6. *connect_timeout covers the whole phase* of connecting to the proxy and the
   CONNECT round trip (`docs/ABI_V4_CLIENT_TLS.md:216`). `tunnel` gives the dial
   its timeout (`proxy.rs:64`) and the exchange another (98).

Statements of the code or its documents that the code does not keep, seen while
modelling and without a run of their own:

- `bridge.rs:121`, of a permit: "leaking it forward would release a later pause".
  `resume` reads `in_callback` and stores `permit` in two steps (406), so a permit
  can outlive its chunk and take back a later pause.
- `bridge.rs:115`, of a paused slot: "it occupies no thread". A paused slot
  with events in its queue is put back on the ready queue by every slice (298).
- `bridge.rs:123`, of the pause guard: it holds a unit of the connection's budget
  "while parked", and `hyper4k.h:255` calls the sum of the units "parked streams".
  `enter_pause` and `leave_pause` are two stores each, on two threads (174-188):
  interleaved they leave a running stream with a unit, or a parked one without,
  until its next pause or its end.
- `bridge.rs:86`, of the count free waits for: "zero really does mean no callback
  can still be running". By 1 above an event can be delivered after `OnDone` and
  the count. It is the join of the workers, later in free, that makes it safe to
  return (`FreeIsSafe`).
- `pool.rs:318`, of shutdown: "this must be exhaustive". A dial that has passed
  the closed check inserts its connection after the map was collected and cleared.
- `Hyper4kServer.kt:163` and 273, of refused answers: "Any value above zero is a
  bug", and the client waits for what never arrives. The engine also refuses the
  answer to a client that has left (the test at `lib.rs:965` asks it to), which is
  counted although nobody waits; `RefusedOnlyWhenOver` states what a refusal does mean.
- `handle.rs:261`: a bad CA bundle fails at construction. Without platform roots
  `build_tls_config` returns TLS_OTHER before it looks at the bundle, and the
  client is made without TLS; a good bundle is then not used either.
- `tls.rs:56`: an empty trust store is refused at construction. With
  CA_REPLACE_SYSTEM and no bundle it is not.
- `pool.rs:204`: paused streams "can never starve the live ones". The cap is
  looked at when a lease is taken, so more streams than the cap can be parked.
- `abi.rs:54`: HYPER4K_ERR_DNS is never produced; a failed lookup is CONNECT.

## Proofs

`Bridge_typing` and `Bridge_proofs` prove, from the three named assumptions of
`Bridge` only (threads of different kinds are different, the bounds are positive,
verdicts and calls are the ones the ABI has):

- `TypeCorrect`: `Spec => []TypeOK`
- `SerialCallbacks`: `Spec => []OneOwner`
- `BoundedQueue`: `Spec => []QueueBounded`
- `RefinesContract`: `Spec => ImplementsContract`

None of these invariants is inductive alone. `IInv` (theorem `Inductive`) adds:

- `Returns`, `Budgets`, `Producing`: where a settle returns to, that a worker
  past the budget check has budget, that the producer only queues what the peer
  sends. Typing needs them.
- `Exclusive`: `running` is true whenever a worker owns the slot. Without it
  `TakeReady` could create a second owner.
- `Terminal`: between the claim and the publication there is no terminal and no
  `OnDone`; one thread publishes; after `OnDone` the terminal is gone. This gives
  at most one `OnDone`.
- `Completing`: only the network task drains, and it sends nothing afterwards.
- `Ordered`: the queue is the tail of what was sent, and until a discard what is
  missing from it is delivered or in the one owner's hands.
- `Permits`: while running, free permits, queued events and the event being
  queued add up to the capacity; afterwards the producer at most finishes the
  event it had already been let through for.

Each `...Step` lemma shows one conjunct preserved, action by action; most actions
hand no event over (`Quiet`) and keep `Ordered` for that reason alone. For the
refinement, `Accept`, `Settle`, `Pick`, `Deliver` and `Done` are matched by
`AppendEvent`, `Claim`, `CheckGate`, `Deliver` and `DeliverDone`; all other steps
leave the contract's variables alone (`...Idle` lemmas).

`Pool_proofs` proves, from the assumptions `PoolThreads` (finitely many tasks,
different from the closers), `PoolChoices` and `PoolBounds`:

- `TypeCorrect`, `LeasesKeptInBalance`, `CapKept`, `RetriesEnd`,
  `DialLockComesBack`, `DriversEnd`: `TypeOK`, `LeasesBalance`, `ConnCap`,
  `AttemptsBounded`, `DialLockInUse` and `DriversJoined` always hold, and `NoReplay`: `Spec => NeverReplayed`.

Its `IInv` adds: `Places` (what a task holds at each label; who dials has the
dial lock), `Progress` (a committed request is bound to a connection and past its
sending; a non-idempotent one that may have reached the peer is too), `Fresh`
(a connection not yet dialled is neither up nor dead), `Leases` (an idle H1
sender has no user even when its connection is dead), `PausesBalance` (a pause
count is the number of guards held, so that it never goes below zero), `Room` (between the count
under the lock and the insertion the key is below its cap) and `Ending` (one
shutdown at most does the work, and has the driver of every entry it marked).
Counts are cardinalities of the sets of holders; the `...Kept`, `...Taken` and
`...Dropped` lemmas say how they move.

`Transport_proofs` proves, from `TransportConstants` only, `TypeCorrect`,
`StructsKept`, `Http2Kept`, `RouteKept`, `FormKept`, `TrustKept`, `IdleKept` and
`DialsBounded` (`TypeOK`, `OwnPrefixOnly`, `NoDowngrade`, `Routed`,
`FormFitsReader`, `TrustAsAsked`, `IdleAsAsked`, `PhasesBounded`). Its `IInv`
says that the client is the one asked for (`ClientFits`), the request is the
template of the one asked for and has passed `send` (`RequestFits`), every pooled
connection fits its scheme and the client (`PoolFits`: a reused connection is
only as good as the one that was set up), how far the connection being set up is
(`DialFits`), and what the phases have used of their timeouts (`ClockFits`). The
lemmas `ReadsOptions` and `ReadsRequest` show that what the callee reads from its
copy is what the caller meant, for every struct size.

`Server_proofs` proves, from `ServerBounds` only (finitely many requests, a
positive ceiling and capacity), all the safety properties of `Server`:
`TypeCorrect`, `EveryRequestIsAnswered`, `AnswersAreTaken`,
`RespondersAreReleased`, `AdmissionBalances`, `DrainHolds`,
`DispatcherOutlivesCallbacks` and the action property `NoAnswerIsReplaced`
(`FirstAnswerCounts`). Its `IInv` says of each request by itself that the
registration is there exactly while `handle()` can take a delivery
(`Registered`), that nothing has been delivered before the coroutine answers and
the delivery is there afterwards (`Answers`), and that a claimed responder is
claimed by a running handler (`Claims`); and of the server what each phase of
start and stop implies (`Listening`: from the drain on the gate is shut, and
callbacks happen only while it serves). `Here` shows that a step of a request
keeps what is known of it, `Elsewhere` that it leaves the others alone.
`SlotsBalance` is carried as cardinalities of the sets of coroutines at a label.

`Client_proofs` and `Client_refines` prove all the safety properties of `Client`
and the refinement, from `ClientThreads` (finitely many senders, at least
one worker, all threads different; `client_new` starts two to eight workers) and `ClientBounds`. The `IInv` of `Client_proofs`
says that only an accepted request is registered, queued or finished (`Placed`),
what a worker has in hand (`InHand`: several may be in slices of one request, but
one at most delivers its `OnDone` and cleans up), that a finished request is in
the map only until its worker has removed it (`Mapped`), that free has the client
to itself (`Alone`), and that `bridges` counts the requests between `enter` and
`leave` (`Counts`). At `bridges = 0` there is then no accepted request without its
`OnDone` and no worker in a cleanup (`ZeroIsQuiet`), which no later step undoes
(`Quiet`); `Joined` adds that the workers have exited when free returns. The ceiling
rests on `Passed`: a send that passes the look at the counter was itself counted.
`Client_refines` adds, in `Whole`:

- `ByteCount`: `bytes` is the weight of the sends and requests that hold bytes,
  and a send that passes the look was itself weighed. The weight is a
  cardinality, so that `WeightGains`, `WeightLoses` and `WeightShrinks` follow
  from the library's theorems on finite sets, where a recursive sum would not be
  in reach. This gives `NothingLeaks` and `CeilingsKept`.
- `FreeWaitsForEveryCallback` (`Spec => []FreeIsSafe`), from `Quiet`, `Joined`,
  `Mapped` and the counters.
- `Dispatch`: the worker that looks at the queue, or is about to sleep, holds its
  lock, and one about to sleep has seen it empty. `QueueIsWatched` needs both: a
  push takes the lock, so it cannot come between the look and the sleep
  (`NoWakeupLost`). Workers exit only once `stopped` is set, where it says nothing.
- `RefinesContract`: `Admit` is matched by the step of `try_reserve` that
  passes the byte limit (`ReserveBytes`), `OnDone` by `RunDone` and `Free` by `WaitZero`; all other steps stutter.

Some theorems state the safety that a liveness property rests on, for every value
of the constants, where the liveness itself is left to TLC, and some state what no
run of its own asks:

- `Pool_proofs`: `AcquireReturns` rests on `DialLockComesBack`. `NoShutdownSleepsOn`: a
  shutdown that sleeps has been woken or the winner has yet to notify, and one that
  has returned leaves the pool closed and complete (for `ShutdownReturns`); its
  invariant `Elected` says that from the first call to completion there is a
  winner. `RetriesEnd` is inductive as `Spent`, attempts and budget left together.
  `DialsAreListed`: until a shutdown clears the map, every connection that has
  been dialled is in it or about to be inserted. The clear ends this: a connection
  inserted between the collection of the drivers and the clear is in neither.
- `Server_proofs`, `WorkersComeBack`: inside the callback a coroutine neither waits
  for a reader nor is suspended (for `StopReturns`).
  `StopIsFinal`: after the runtime is dropped nothing is served or registered
  again.

Only model-checked: everything with fairness (`ShutdownReturns`, `AcquireReturns`,
`ConnectEnds`, `FreeDrains`, `BacklogMoves`, `StopReturns`), `SlicesNeverStick`, which
is about what is enabled, and the refutations. Every other invariant, action
property and refinement of a passing run has its theorem. TLAPS does not do
`ENABLED`, fairness or induction over data.

## Not modelled

- `set_abort` racing a settle that comes before it (`Bridge`).
- The Kotlin client's send and cancel against its close. `Client` assumes the
  exclusive ownership the header demands for free; `Hyper4kClient.kt:79` says the
  wrapper provides it, its look at `lifecycle` (139) does not. What a call on a
  freed handle does is undefined, so there is no state to go on from.
- A `failureResponse` that throws (it is the user's). At `Hyper4kServer.kt:195` the
  slot and the count are then not given back, and in the coroutine's catches (212)
  `finish` is not reached and the client is not answered: `SlotsBalance`,
  `DrainIsQuiet` and `NobodyWaitsInVain` hold for handlers of failures that return.
- That a slice, and the cleanup after `OnDone`, in the end get their turn
  (`SlicesNeverStick` says that they can always take it).
- Handlers that break the response channel's contract or use one responder from
  several threads, errors of accept, overlapping `start` and `stop` (`Server`).
- An accept error that persists: the accept loop goes round without a pause
  (`lib.rs:424`). And entries of dead connections, which stay in a key's list
  until the shutdown (`pool.rs:309`): `ConnCap` counts live ones, the length of
  the list is bounded in the model by `MaxDials` only.
- TLS and HTTP handshakes that never end: no timeout covers them (`tls.rs:192`),
  and `AcquireReturns` assumes that a dial ends.
- Name resolution, certificate checking and HTTP framing (tokio, rustls, hyper),
  header and url text, ABI offsets, version and capability queries, the PEM
  files of the TLS listener, Kotlin model types: data or libraries without state
  of this program.

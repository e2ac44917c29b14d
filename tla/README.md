# folk-core: TLA+ models, model checking and proofs

folk-core is a PHP application server in Rust. A tokio runtime inside a PHP
extension accepts work from plugins and hands it to PHP: the main PHP thread is
worker 1, further workers are ZTS threads. This project models the parts of it
that carry state and run concurrently, checks them with TLC on small instances,
and proves their safety properties with TLAPS for all instances.

`PROJECT.json` lists components, runs, mutants, the source lines of each
definition, findings, hazards and theorems.

## 1. Inventory

| Part | State | Operations | Talks to |
|---|---|---|---|
| **Worker pool** `folk-core/src/worker_pool.rs`, `worker_slot.rs` | semaphore of `workers.count` permits; request channel (1024); per slot an inbox (8), a `SlotInfo`, the generation its worker was booted with; the reload generation (watch channel) | `dispatch_streamed`, `trigger_reload`, `pool_main`, `slot_supervisor`, `boot_worker`, `collect_stream` | runtime (`spawn`, `terminate`, `execute_streaming`), callers through reply streams |
| **Extension runtime** `folk-ext/src/runtime.rs`, `worker.rs` | the pre-connected channel of the main thread; the counter of worker ids; per worker a task channel (8), a ready signal, a join handle | `spawn`, `ready`, `execute`, `execute_streaming`, `terminate`, `is_recyclable` | worker threads |
| **PHP bridge** `folk-ext/src/bridge.rs` | thread-local `WorkerState`: task receiver, current request's reply and done senders, `stream_started`, body receiver, leftover bytes, part cursor | `folk_worker_recv/send/run`, `folk_write_head/write/write_end`, `folk_read*`, `folk_next_part`, `folk_part_read*` | caller (chunks), supervisor (done) |
| **Hot reload** `folk-core/src/watch.rs` | debouncer | callback, spawned reload task | worker pool |
| **Server and plugins** `folk-core/src/server.rs`, `plugin_registry.rs`, `folk-ext/src/lib.rs` | list of plugins, shutdown watch channel, the tokio thread, `ZTS_WORKERS` | `run`, `boot_all`, `shutdown_all`, `wait_for_signal`, end of the main thread | everything |
| **Method registry, `folk_call`** `folk-ext/src/registry.rs`, `lib.rs` | map of plugin methods behind an RwLock | `register_raw`, `call` | plugins (booting), PHP threads (`block_on`), and the pool through handlers that dispatch |
| Health, metrics, config, logging, value conversion, ZTS shim | maps, values, FFI | | |

What is hard here:

- *Ownership.* A request carries its permit and the only sender of its reply
  stream through five places (caller, request channel, pool task, inbox,
  supervisor) and, separately, a task into a sixth (the worker). Each can vanish
  under it: a cancelled caller, a panicking supervisor, a dead PHP thread, a
  timeout, the drop of the pool.
- *A select of two channels* decides between a reload and a request, while
  reloads arrive at any time, the boot of a worker included.
- *Blocking calls inside async tasks and PHP threads*: `SyncSender::send`,
  `blocking_send`, `join` of a thread.
- *A stateful cursor* over a request body that PHP may use in any order.
- *Timeouts* that drop a future while the work it stood for goes on.
- *Partial failure at boot and shutdown* of a list of plugins, with hanging ones.
- *PHP threads that wait for the pool they belong to*: `folk_call` runs a
  plugin's handler on the PHP thread, and the handler may dispatch.
- *Check-then-act across lock scopes* when slots race for the main thread.

The properties that make each part correct:

- pool: permits are conserved; a request runs at most once and is answered;
  requests are given up only when no slot is left; a slot has one thread; the
  main thread is never recycled; no reload is lost; nobody blocks for ever;
- bridge: bytes of a body are neither lost, repeated, reordered nor mixed
  between parts or requests; a response is one well-formed stream that the
  caller gets whole, complete before `done`;
- runtime: every slot gets a worker whatever the race for the main thread does,
  and no ZTS thread takes itself for the main one;
- registry: nobody waits for its lock for ever, hung methods or not;
- `folk_call`: a nested call is answered unless it is behind threads that wait
  for each other;
- hot reload: every edit reaches every ZTS worker, old code serves at most one
  more request after the reload;
- server: exactly the booted plugins are shut down, in reverse order, once, and
  the process ends although one of them hangs.

## 2. Modules

| Module | Models | Uses | Runs |
|---|---|---|---|
| `Dispatch` | abstract: what the pool promises a caller | | as a property of `WorkerPool` |
| `WorkerPool` | callers, `pool_main`, supervisors, worker handles, worker threads | instance of `Dispatch` | through `MCWorkerPool` |
| `HotReload` | `watch.rs` over the pool | extends `WorkerPool` | through `MCHotReload` |
| `FolkCall` | nested dispatch: `folk_call` over the pool | extends `WorkerPool` | through `MCFolkCall` |
| `RequestBody` | the body half of the bridge | | itself |
| `ResponseStream` | the response half of the bridge, `collect_stream`, `execute`, one supervisor | | itself |
| `WorkerSpawn` | `ExtensionRuntime::spawn` lock scope by lock scope | | in `ServerLifecycle` |
| `MethodRegistry` | `InProcessRegistry` and the queue of its RwLock | | in `ServerLifecycle` |
| `ServerLifecycle` | `start_server`, `FolkServer::run`, `PluginRegistry`, the end of the process | instances of `WorkerSpawn`, `MethodRegistry` | itself |
| `WorkerPool_proofs` | theorems about `WorkerPool`: types, permits, slots, reloads, joins, `pool_main`'s round robin | extends `WorkerPool` | |
| `WorkerPool_reply_proofs` | theorems about what happens to a call | extends the one above | |
| `WorkerPool_refinement_proofs` | `WorkerPool` implements `Dispatch` | extends the one above | |
| `FolkCall_proofs` | theorems about `FolkCall` | extends `FolkCall`, `WorkerPool_reply_proofs` | |
| `HotReload_proofs` | theorems about `HotReload` | extends `HotReload`, `WorkerPool_proofs` | |
| `RequestBody_proofs` | theorems about `RequestBody` | extends `RequestBody` | |
| `ResponseStream_proofs` | theorems about `ResponseStream` | extends `ResponseStream` | |
| `ServerLifecycle_proofs` | theorems about `ServerLifecycle` | extends `ServerLifecycle` | |

Operators named `Mut...` are plausible wrong versions of the operator defined
right after them; they are used nowhere in the specifications. Each stands for a
bug the property listed with it in `PROJECT.json` ("mutants") catches.

### WorkerPool

One action per step between two awaits.

- *Caller*: `Call`, `Acquire` (semaphore), `Enqueue` (request channel), `Cancel`
  (future dropped), `Return` (the identity of the request is used again once
  nothing refers to it).
- *pool_main*: `PoolRecv`, then one step per attempt of the round robin:
  `PoolSkipDead`, `PoolSendOk`, `PoolSendErr` (the request comes back out of the
  `SendError`), `PoolGiveUp`; `PoolDrained` and `PoolEnd` at shutdown.
- *Supervisor* of slot `s`, by `pc[s]`: `boot` reads the generation; `spawning`
  takes the main thread's channel or spawns a thread, fails, or panics;
  `booting` waits for ready; `select`/`polled`/`parked` are the two polls of the
  biased select and its sleep; `sending`/`exec` execute one request;
  `terminating` joins the thread, and `resume[s]` says what comes next.
- *Worker thread* `w`: `WorkerReady`, `WorkerRecv`, `WorkerFinish`,
  `WorkerExit`, and two ways to end early (`WorkerBootFails`, `WorkerDies`).
  `WorkerReplaces` is `folk_worker_recv` called while a request is not answered:
  `do_recv` puts the new request's senders in the place of the old one's, which
  closes the old stream without an end. Until a task arrives the thread is just
  busy, and without a timeout none does, because the supervisor still waits.
- *Environment*: `TtlElapses`, `TriggerReload`, `DropPool`.

Everything that may go wrong (`FaultKinds`) is drawn from one budget,
`MaxFaults`, so that all mixtures of that many faults are explored. The one
exception is `replace`, which a script may do at any time and which costs nothing.

Abstractions: payloads are left out and a reply stream is just open, ended or
dropped (chunks are in `ResponseStream`). `jobs_handled` saturates at `max_jobs`,
the only value it is compared with. Time is left out: timeouts are faults that
may fire whenever the future is pending, so a run covers every duration. A
thread that has answered is idle although PHP may still run code of the handler;
it takes its next task at any later moment. The check and the pop of the
pre-connected channel are two lock scopes in the code; the losing side of that
race is the fault `spawn` here, and `WorkerSpawn` has the race itself. The inbox
arm of the select never sees a closed channel, because `pool_main` keeps the
senders while it awaits the supervisors. A supervisor panics only in `spawn`: the
panics inside `execute` that `MockRuntime` can be told to make have no counterpart
in `ExtensionRuntime`.

### Dispatch

The pool seen by its callers: a call waits for a permit, is held by the pool, is
run, answered and let go of. At most `Count` calls are held; a call is run at
most once; a stream ends only because PHP ran the call; a stream is closed
without an end only after something was lost (a thread, a supervisor or
the pool itself), or, once a timeout made the pool let go of it, because PHP ran
another call instead of answering it (`Replace`); a call that has no answer is let
go of only after a timeout, or because its caller left. There are no queues, slots, workers or channels in it.

`WorkerPool` implements it (`ImplementsDispatch`) under the mapping `Stage`, which
forgets where a request is while it holds its permit, and `Excuses`, which maps
the faults that have happened to what the promise allows for them. A bug that
touches two of the pool's counters in a consistent way (a permit released early
together with the slot that would block the next request) breaks no invariant
about either, but shows here.

### FolkCall

Extends `WorkerPool` with `waits[w]`, the nested call the handler in thread `w`
waits for. `PoolNext` is a step of the pool in which no thread inside `folk_call`
finishes, ends or takes another task, and no nested call is dropped: `call_method`
sits in `block_on` until the plugin's handler has its answer. Every handler may nest,
at any depth the requests allow. Calls from outside a request, by a boot script, are
left out here; `ServerLifecycle` has them, against the registry.

Nested dispatch can deadlock, and that is what the code does, not a bug of the
model: with one worker any nested call waits for its own thread. The question is
when it happens and that nothing else goes wrong. `UnansweredOnlyInCircle` looks
at states where the process has nothing left to do (`Quiescent`): every call
without an answer is behind a set of threads that wait for each other, in a slot
one of them serves or for permits that all of them hold. `Quiescent` says task by
task what each would need to move (`CallerMoves`, `PoolMoves`, `SupMoves`,
`ThreadMoves`), so that theorems can speak of it, and `StopsOnlyQuiescent` ties it to
the actions: a state in which none of them is enabled is quiescent, so no wake-up
is lost and no task waits for one that has stopped. `CircleIsForEver` says
the code has no way out of a circle once it is closed through slots:
`exec_timeout` frees the permit and not the thread, and a recycle would join the
thread first. A circle through permits only can be broken by `exec_timeout`, which
is why `Circle` and `PermitCircle` are different.

### HotReload

Extends `WorkerPool` with the version of the files, the debouncer, reload tasks
in flight, and the version each ZTS worker has loaded. Its `PoolNext` is a step
of the pool that is no reload; `TriggerReload` is taken by `ReloadTask` only.
Code is loaded when the thread starts, the earliest moment possible, so a
version is never taken for newer than it is.

### RequestBody

The channel of a body is the sequence of all that will be sent on it, because
`blocking_recv` waits for the next item or the close. Every sequence of items up
to a bound is an input: cut and malformed multipart streams and empty chunks
too. A byte is named by (request, item, place), so lost, repeated and foreign
bytes are told apart. `DataRun` is the run of data items that the loops of
`do_next_part` and `do_part_read_all` consume, `AfterRun` starts with the item that
ends them. `headers` records with each header how much PHP had been given before
it, so `Given(i)` is what PHP got for part `i`. A length of zero or less stands for the default of the
`folk_read` and `folk_part_read` wrappers (`Length`), so that an empty answer to a
read means the end (`EmptyReadMeansEnd`). Raw reads on a multipart body are
included: they return the buffered rest of the current part.
`BytesOfCurrentPart` is about membership, also in streams that are not well formed;
that bytes come once and in order is `PartsWhole` for parts and `RawConservation` for
raw bodies.

### ResponseStream

Both PHP styles are modelled: `loop` (`folk_worker_run`) and `manual`
(`folk_worker_recv` and `_send` by the script); a handler under `folk_worker_run` may
call `folk_worker_recv` itself. A bridge call that sends chunks
puts them in `out` and is at `sending` until all are in the channel or the
receiver is gone. The caller is one of two, by `style`: `pool` is
`collect_stream`, which reads while PHP writes; `execute` is the worker handle's
own `execute()`, which waits for `done` first, returns an error when `done` is
dropped, and then stops at a value (`collect_stream_to_value`).

### ServerLifecycle, WorkerSpawn and MethodRegistry

Plugins may take for ever to boot or to shut down, or fail. `Signal` before the
handlers exist kills the process. After `run()` returns the pool is dropped
(`PoolDropped`, thread by thread) and then the runtime (`RuntimeDropped`); the
main thread leaves its loop, joins what is registered (nothing) and exits. Tasks
still in a channel when it is closed are served first; here they are part of the time
the thread is busy.

`WorkerSpawn` has the steps of `spawn()` of each supervisor: look at the list of
channels (one lock scope), take an id from the counter, pop the channel (another
scope), or spawn a thread. The supervisors run them while the plugins boot. A
thread's own idea of its id decides in `LoopEnds` whether it joins the others.

`MethodRegistry` has the queue of tokio's RwLock, which is granted in order: a
reader behind a waiting writer waits as well. Plugins register while they boot
(`BootRegisters`, `Registered`); any PHP thread calls, from its script or in a
request (`FolkCall`, `FolkCallLocks`, `FolkCallReturns`). Both are instances whose
actions are conjoined with what the lifecycle changes in the same step.

## 3. Runs

| Run | Bounds | Distinct states | Shows |
|---|---|---|---|
| `pool_one_fault` | 2 slots, main thread, 2 callers, 1 reload, any 1 fault but the drop, replacements | 1 366 193 | types, permits, at-most-once, `SlotInfo` assertions, one thread per slot, main thread kept, no silent loss, no lost reload; the pool implements `Dispatch` |
| `pool_fatal` | 2 slots, 3 callers, task channel of 1, up to 3 of panic, death, drop | 604 679 | give up only if all slots are gone; `pool_main` and `send` never block; the permit covers PHP's work |
| `pool_live` | 2 slots, main thread, 2 callers, 1 reload | 145 701 | every call is answered, a reload reaches every recyclable worker |
| `pool_shutdown` | 1 slot, 2 callers, 1 reload, any 2 faults, replacements | 225 934 | every call is answered under faults; the pool ends after its drop |
| `hot_reload` | 1 slot, 2 callers, 2 edits, 1 slow or failing boot or request | 237 218 | no edit is lost, stale code serves at most one request, every edit arrives |
| `request_body` | first body up to 5 items, second up to 2, chunks of 0 to 2 bytes, lengths -1 to 2 (default 3) or all | 112 481 | conservation and order of raw bytes, no foreign bytes, part reads stay in their part, parts whole and in order and none skipped, an empty read is the end |
| `response_stream` | 2 requests, channel of 2 chunks, 2 writes per request, both callers | 462 769 | well-formed streams, `done` after `End`, answers delivered, no stuck send |
| `server_lifecycle` | 2 plugins with a method each, 2 slots, 3 PHP threads | 248 364 | reverse order, nobody left, once only, the process ends; every slot is served, only the main thread joins; the registry's lock is granted |
| `folk_call` | 2 slots, main thread, 4 calls nested at will, 1 reload, 1 execution timeout, replacements | 1 635 574 | which nested calls are never answered, that nothing ends such a wait, and that the process stops for no other reason |
| `pool_timeouts` | 1 slot on the main thread, task channel of 2, 3 timeouts | | *violated*: finding 1 |
| `response_death` | 1 request | | *violated*: finding 2 |
| `server_join` | 1 plugin, 2 slots | | *violated*: finding 3 |

Why the bounds are enough to be interesting. Two slots are the fewest with a
retry on another slot, a round robin and a main thread beside a ZTS worker. With
three callers for two permits one waits. `max_jobs` is reached within a run.
`TaskCap = 1` is the smallest channel, so `SendNeverBlocks` in `pool_fatal` says
that without timeouts a channel of one would do; `TaskCap = 2` with three
timeouts overflows like 8 with nine. Channels longer than the number of
requests are never full: `QueueCap = 2` is as good as 1024 for two permits.
`StreamCap = 2` is less than the longest response (headers, two bodies, value,
End), so sends do block. Five items hold a two-part body with data in both
parts. A second request is what shows a missing reset. Two slots are the fewest
that race for the main thread's channel, and two plugins the fewest with a reverse
order and a writer of the registry behind a reader whose method hangs. Four calls
over two permits let both threads nest, one of them wait for a permit, and an
outside call be stuck behind the circle or served beside it. Calls are
interchangeable in the pool runs, hence the symmetry set there; runs with
liveness properties do not use it.

`CHECK_DEADLOCK FALSE` is set where the system may stop: after the drop of the
pool, after the death of the only PHP thread, after the exit of the process, and
with bounded requests.

### Fairness

- tokio tasks and OS threads that can run do run: weak fairness of `Enqueue`,
  `PoolStep`, `SupStep(s)`, `WorkerStep(w)`. `WorkerStep` includes the return of
  a PHP handler: a handler that never returns is stopped by nothing in this
  code, and `terminate()` would wait for it for ever (hazard list). The same goes for
  a script that waits in `folk_worker_recv` with a request unanswered: it is assumed
  to answer in the end, or to be sent another request. Replacing is not assumed.
- tokio's semaphore serves waiters in order, so a waiting caller gets a permit
  if permits keep becoming free: strong fairness of `Acquire(r)`.
- the debouncer delivers and spawned tasks run (`HotReload`).
- callers drain their stream until they leave, as the doc of
  `dispatch_streamed` demands of them (`ResponseStream`).
- the timer of `shutdown_timeout` fires; supervisors take their steps of `spawn`;
  the RwLock is granted in order and a lookup under it ends. The main thread's
  PHP code returns to the dispatch loop (strong fairness, because its
  `folk_call`s come and go), and so do the methods the main thread calls: its end
  is the end of the process, and nothing in the code could end it otherwise.
  Nothing is assumed of plugins' boot and shutdown, or of methods other threads
  call.
- `folk_call` states no fairness: its question is what can be stuck, so it asks
  it of quiescent states, as an invariant. Only `StopsOnlyQuiescent` uses
  `ENABLED`.
- nothing is assumed of faults, new calls, reloads, edits or signals.

### Findings

1. `pool_timeouts`: `execute_streaming` says its send "never blocks", because
   the semaphore bounds the requests in flight. On `exec_timeout` the permit is
   released while the task is still in the worker's channel; enough timeouts on
   one stuck worker fill it, and the next send blocks a tokio thread, where no
   timer of that task can fire.
2. `response_death`: `collect_stream` takes a stream closed without `End` for a
   finished response and returns status 200 when a worker died during the
   request. `WorkError`'s variant for it is never constructed.
3. `server_join`: the README promises that workers finish requests in flight at
   shutdown; nothing registers ZTS threads for the join, so the main thread
   exits the process under them. The property does not count the requests an
   expired `shutdown_timeout` aborts, which the README allows for.

Seen while modelling, without a run of its own:

- the docs of `do_read` and `do_read_all` (`bridge.rs:321`, `:348`) say they return
  nothing for a multipart body. Both look at the buffer before the kind of body, so
  once a part read has left the rest of a chunk there, they return that rest. The
  model does the same: `BytesOfCurrentPart` shows that the bytes are the current
  part's, `PartsWhole` that they are given in order and once.
- the pool task never ends after a drop if a slot has the main thread (its
  supervisor does not listen to the closed reload channel).
- `execute()` of the worker handle waits for ever on a response longer than the
  channel (`Overlong` in `ResponseStream`); the pool does not call it.
- with an NTS build and `workers.count > 1`, `start_server` warns that "only 1
  worker will be used" (`lib.rs:78`), while `spawn` decides by the count alone
  (`runtime.rs:105`) and starts ZTS threads.
- the SAFETY comment of `set_var` (`server.rs:64`) overlooks the main PHP thread,
  which is running by then.

## 4. Proofs

The theorems hold for all values of the constants that satisfy the named
assumptions of the module they are about. For the pool (`RequestsAssumption`,
`CountAssumption`, `CapAssumption`, `ConfigAssumption`, `BoundAssumption`) that is
every `Count`, 0 included, every finite set of requests, all channel capacities of
at least 1, every `max_jobs`, with and without a main thread, every set of faults
and every bound on faults and reloads. `HotReload` adds `EditsAssumption`,
`RequestBody` has `BodyBounds`, `ResponseStream` has `StreamAssumption`,
`ServerLifecycle` has `LifecycleAssumption`. TLC evaluates all of them in the runs.

| Module | Theorem | States |
|---|---|---|
| `WorkerPool_proofs` | `TypeInvariant` | `Spec => []TypeInv` |
| | `PermitSafety` | `Spec => []PermitConservation` |
| | `TypeSafety` | `Spec => []TypeOK` |
| | `SlotSafety` | `Spec => []SlotAssertions` |
| | `ReloadSafety` | `Spec => []NoLostReload` |
| | `MainSafety` | `Spec => []MainNeverRecycled` |
| | `JoinSafety` | `Spec => []JoinBeforeRespawn` |
| | `GiveUpSafety` | `Spec => []GiveUpOnlyIfAllDead` |
| | `NeverBlocksSafety` | `Spec => []PoolMainNeverBlocks` |
| `WorkerPool_reply_proofs` | `ServedOnceSafety` | `Spec => []ServedOnce` |
| | `NoSilentLossSafety` | `Spec => []NoSilentLoss` |
| | `PermitHeldSafety` | `Spec => []PermitHeldWhilePhpRuns` |
| | `SendSafety` | `Spec => []("exec_timeout" \notin happened => SendNeverBlocks)` |
| `WorkerPool_refinement_proofs` | `PoolImplementsDispatch` | `Spec => ImplementsDispatch` |
| `FolkCall_proofs` | `FolkCallUsesPool` | `FolkSpec => Spec` |
| | `CircleSafety` | `FolkSpec => CircleIsForEver` |
| | `UnansweredSafety` | `FolkSpec => [](Usable => UnansweredOnlyInCircle)` |
| `HotReload_proofs` | `HotInvariant` | `HotSpec => []HotInv` |
| | `NoEditLost` | `HotSpec => []FreshOrPending` |
| | `StaleOnceSafety` | `HotSpec => []StaleAtMostOnce` |
| `RequestBody_proofs` | `BodyInvariant` | `Spec => []BodyInv` |
| | `RawSafety` | `Spec => []RawConservation` |
| | `ForeignSafety` | `Spec => []NoForeignBytes` |
| | `PartsWholeSafety` | `Spec => []PartsWhole` |
| | `PartByteSafety` | `Spec => []BytesOfCurrentPart` |
| | `NoPartSkippedSafety` | `Spec => []NoPartSkipped` |
| | `EmptyReadSafety` | `Spec => []EmptyReadMeansEnd` |
| `ResponseStream_proofs` | `StreamInvariant` | `Spec => []StreamInv` |
| | `WellFormedSafety` | `Spec => []StreamWellFormed` |
| | `DoneSafety` | `Spec => []DoneAfterEnd` |
| | `DeliverySafety` | `Spec => []AnswerDelivered` |
| `ServerLifecycle_proofs` | `BootInvariant` | `Spec => []BootInv` |
| | `ReverseOrderSafety` | `Spec => []ReverseOrder` |
| | `NoPluginLeftSafety` | `Spec => []NoPluginLeft` |
| | `StopsBootedOnceSafety` | `Spec => StopsBootedOnce` |
| | `IdInvariant` | `Spec => []IdInv` |
| | `OnlyMainJoinsSafety` | `Spec => []OnlyMainJoins` |

Hardly any of these properties is inductive. What each needs, and why:

*Types and permits.* `TypeInv` is the types of all variables, with channel
capacities, and `JobWhileExecuting`: a supervisor owns a request exactly at
`sending` and `exec`. Without the latter `SupSend` could put `None` in a task
channel. `PermitConservation` needs more: dropping an inbox gives back as many
permits as the set of requests in it has elements, which is right only if they all
hold a permit and no request is in two places. `Places` says so: the request
channel, the routing variable, the inboxes and the jobs hold distinct requests,
each in the phase of its place. `PermitInv` is `TypeInv`, `Places` and
`PermitConservation`. `TypeOK` bounds the permits by `Count`, which follows from
conservation only, hence a theorem after it.

*Slots, reloads, joins.* `SlotAssertions` needs that a slot whose boot failed
(`terminating` with `resume = "retry"`) is still `Spawning`; a recycle resets it.
`NoLostReload` becomes `ReloadInv`: neither what a receiver has seen nor what a
boot has read is newer than the counter, and from `spawning` on the boot generation
is at least the seen one. `JoinBeforeRespawn` becomes `JoinInv`: a slot owns no
worker but its own or the main one, and where it does not own its own thread that
thread does not exist or is gone.

*Round robin.* `RoutingInv` says that a slot marked dead is dead and that the
attempts made for the current request met dead slots only: `(next + k) % Count`
for every `k` below `attempt`. With `ModOneTurn` (one turn of the round robin
modulo `Count`) these are all slots once `attempt = Count`. `PoolMainNeverBlocks`
is a counting argument on `PermitInv`: the requests of an inbox and the one in
`pool_main`'s hands hold different permits, so an inbox it sends to has fewer than
`Count`.

*Calls.* `PoolInv` is what a call needs: where a request can be beyond the task
channels (`TaskInv`: in one worker only, once, with its stream still to be closed,
and its supervisor waiting for it unless a timeout fired), what its caller has
seen in each phase (`CallInv`, `JobInv`), who holds the sender of which channel and
what a thread's state says of it (`OwnerInv`, `ThreadInv`), and which faults
explain an inbox that was closed (`DropInv`). `ServedOnce`, `NoSilentLoss` and
`PermitHeldWhilePhpRuns` follow from it at once. `NoSilentLoss` lets a replaced request
be lost only after a timeout, and that needs `InOrder`: a supervisor sends one task at
a time, so of the requests in a worker only the last one sent may still have its
supervisor; all before it, and so the one that is replaced, were given up at an
`exec_timeout`. So does `SendSafety`: a task in a
channel belongs to a supervisor that waits for it, and no other supervisor has a
handle of that worker, so before the first `exec_timeout` the channel is empty at
every send. With finding 1 this settles the comment in `execute_streaming`: it is
right in every execution without a timeout and wrong with enough of them.

*Refinement.* Under `PoolInv` every step of `WorkerPool` is a step of `Dispatch` or
leaves `Stage`, `reply`, `ran` and `Excuses` alone. `Acquire` is `Admit`, whose
guard (fewer than `Count` held) is `PermitConservation`; a dropped stream needs the
excuse that `NoSilentLoss` gives; a request let go of unanswered needs the
timeout. `WorkerReplaces` is `Replace`, whose guard (the pool no longer holds the call
that is given up) is `InOrder`.

*Nested calls.* Every step of `FolkSpec` is one of the pool or leaves it alone, so
all theorems of `WorkerPool` hold of it. `CircleIsForEver` looks at a set `D` of
busy threads and an open request that is with them. `LocatedWhere`: such a request
is nowhere else, so nobody outside `D` answers or drops it. `HandleInv`: a
supervisor lets go of a handle only when its thread does not run PHP. For a ZTS
thread that is the join; the main thread is not joined, so the invariant has to
follow its channel from the start of the process and through failed boots.

*Unanswered calls.* `UnansweredSafety` exhibits one circle for all open calls of a
quiescent state: `Waiters`, all threads inside `folk_call`. `FoundInv` is the converse
of `Places`: a request is in the place its phase names, and one that has left the
pool has its stream closed or is in a worker. `RestInv` is what is needed of tasks
that do not move: a supervisor with a handle has a thread, which knows it is ready
and sees its channel closed when it is to end; a closed inbox is empty; the pool
task leaves its loop with nothing to route; the main thread is let go of only at a
boot timeout. Then a request in a worker, in a job or in an inbox leads to a
thread that can only be inside `folk_call`; `pool_main` has nothing in its hands,
because it finds room in every inbox; and a caller waits for a permit only if all
permits are with those threads. `Usable` excludes three instances in which a call can
wait without a circle, all of them real: `workers.count = 0`; more permits than an
inbox holds, where a full inbox holds up `pool_main`; and a single worker, the main
thread, whose boot timed out (its channel is gone and no thread is spawned).

*Request bodies.* `BodyInv` has two halves. `FlowInv` follows the bytes: the channel is
an ending of what was sent, buffers are empty except in a raw body and inside a
part, headers divide what PHP got, and what was given since the last header, the
buffer and the data up to the next mark are the current part (`PartInv`). `CursorInv`
follows the position in the stream: inside a part everything since its start is
data; outside, the last item received is an end; the headers given are the starts
received, if the stream is well formed. The bytes need the cursor, because without it
nothing says where the current part ends. `Content` flattens a sequence of chunks; the
two facts used of it (from the front, and of an append) are proved from its recursive
function by the least counterexample in a set of numbers (`Least`, `UpTo`), since the
library's induction theorems take an operator. Concatenations are compared only
through `Whole` (given, buffer and rest are all) and `Moves` (a step moves bytes from
one to the next).

*Hot reload.* `SlotMoves` says what one step of the pool can do to one slot: start a
thread, leave the slot without a live worker, move the supervisor on, and get it
back to its select only if no reload is pending. `StaleInv` adds to
`StaleAtMostOnce` that a worker in its select has taken no request after a
reload, and that one that has taken one executes it with a reload pending.

*Response streams.* The three properties speak of what was read and what is in the
channel; the invariant speaks of `Full(r)`, which has the chunks PHP is about to
send as well. `Sound(r)`: as long as somebody reads, `Full(r)` is well formed, has
as many body chunks as PHP wrote, is unfinished while PHP handles `r` (with headers
only if `started` says so) and ends in `End` once PHP answered. `PhpInv` says that a
pending request is in one place. `ReturnInv` keeps what a caller that returned has.

*Server.* `BootInv`: `at` is the border between the plugins that are up and the ones
that are not, in each phase of the server. `IdInv`: the channel pair of the main
thread is popped after an id was taken, and threads are spawned after it was
popped, so no ZTS thread has id 1.

Only model-checked, and why:

- all liveness properties (`EveryCallAnswered`, `ReloadReachesSlots`,
  `PoolShutsDown`, `EditReachesWorkers`, `SendCompletes`, `ShutdownCompletes`,
  `EverySlotServed`, `LockIsGranted`): fairness is outside the prover's reach;
- `StopsOnlyQuiescent`, because of its `ENABLED`. It is the link between the guards of
  the actions and `Quiescent`, which `UnansweredSafety` starts from;
- `SendNeverBlocks` after a timeout: it does not hold (`pool_timeouts` refutes it).

## 5. Not modelled

- *Metrics*: constructors of third-party collectors. *Health*: the lock protocol
  of `MethodRegistry` over another map; `check_all` awaits all checks without a
  timeout, and nothing in the repository calls it.
- *Configuration, logging*: merged and set up once, by libraries, before anything
  runs. The values are constants of the models.
- *Value conversion* (`zval_convert.rs`): structural recursion over payloads, by
  FFI; payloads are abstract in the models.
- *ZTS shim*: FFI around TSRM and Zend; here a thread that starts, runs, ends.
- *Warm-up*: compiles files in a thread that ends before the pool starts.
- *MockRuntime*: a test double; `HasMain = FALSE` stands for such runtimes.
- *Plugins* (HTTP and others) are not in the repository: callers, bodies, methods
  and shutdown hooks are modelled by what the core lets them do.

## 6. Plan

Done: `WorkerPool`, `Dispatch` and the refinement, `HotReload`, `FolkCall`,
`RequestBody`, `ResponseStream`, and `ServerLifecycle` with `WorkerSpawn` and
`MethodRegistry`. The order was the importance of the behaviour: the pool is what
everything else runs through. What is left of the code is listed in section 5. Every
invariant and every safety property of steps that a run checks is proved, except
`StopsOnlyQuiescent`, and so is the refinement.

Worth doing next, where the code changes: a check of the thread behind a handle
before a request is sent to it, which would sharpen `NoSilentLoss`; a bound on the
tasks of a worker after timeouts, which would make `SendNeverBlocks` hold without its
condition; and a registration of ZTS threads for the join at the end of the process
(finding 3).

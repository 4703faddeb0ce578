# A formal model of ngx-tickle

ngx-tickle runs Rust futures on the nginx event loop: tasks are polled on the
nginx main thread only, may be woken from any thread, and bring the event loop
to life through an eventfd or a self-pipe. This directory holds TLA+ modules
translated from its source, the TLC configurations that check them on small
instances, and proofs that TLAPS checks for every instance. Paths below are
relative to the repository; `spawn.rs`, `finalize.rs`, `lib.rs` and `notify/`
are those of `src/`.

## Inventory

| Component | State it keeps | Operations | Status |
|---|---|---|---|
| Executor, `spawn.rs:20-127` | channel `SCHEDULER`, statics `BATCH_SIZE`, `TICKLED`; the async-task state of each task | `spawn`, `schedule` (any thread), `async_handler` (main thread), `set_batch_size` | modelled: `Tickle`, `Executor` |
| Wakeup descriptor, `notify/` | eventfd counter or bytes in the pipe | `signal`, `drain`, `tickle`, `on_tickled` | modelled: `Tickle` |
| Request-bound tasks, `spawn.rs:129-260` | `RequestTask` in the request pool (its `Task`, or taken by `cancel`) | `RequestSpawn::spawn`, `RequestTask::poll`, `cancel`, its drop as a pool cleanup | modelled: `Request` |
| Finalization, `finalize.rs` | a `Finalization` in the pool, its posted event | `finalize_request`, `fini`, its drop as a pool cleanup | modelled: `Request` |
| Worker life cycle, `lib.rs:103-151`, `notify/mod.rs:37-98` | `CTX`, `INIT` (copied by fork) | `init`, `notify::init`, `expect_init`, `tickle_abort!` | modelled: `Worker` |
| nginx peer connection, `examples/nginx_acme/net`, `util.rs` | `ngx_peer_connection_t`, wakers `rev`/`wev`, event timers, an owned pool | `connect`, `poll_read`, `poll_write`, `poll_shutdown`, event handlers, `Drop` | modelled: `PeerConn`, `Lease` |
| Lookup without a future, `examples/benchmark.rs:67-211` | resolver context shared by callback and pool; name counter | `resolve_sync`, `resolve_sync_done`, the drop of `SyncResolve` | modelled: `Resolve`, `Lease` |
| Async benchmark handlers, `examples/benchmark.rs:83-474` | one request task, a detached hyper driver task | `resolve`, `hyper_client`, `reqwest`, the request macros | modelled: `Handlers`, over `PeerConn` |
| Example modules `yielding`, `compat`, `sidecar` | one request task, its children or subtask, tokio side tasks | `handler`, its awaits and error paths, `init_process` | modelled: `Handlers`, `Request`, `Worker` |
| The `/ngx` variants of the benchmark | `ngx::async_`'s executor | `ngx_request_handler!`, `Spawn::Ngx` | not modelled: that executor is a dependency |
| Boilerplate, logging, `prelude`, C macros | none | configuration tables, formatting | not modelled: no behaviour |
| `build.rs`, `xtask`, packaging, benchmark report | none at run time | build-time tools | not modelled; the cfg `build.rs` sets is `Tickle`'s constant `Backend` |

**How they interact.** `spawn` and every `Waker` end in `schedule`, which sends
the runnable into the channel, tries to set `TICKLED`, and, if it was the one
to set it, writes to the descriptor. nginx's event loop sees the descriptor
readable and calls `async_handler`, which drains it, clears `TICKLED`, and runs
runnables until the channel is empty or `BATCH_SIZE` of them ran; in the latter
case it writes to the descriptor itself. A polled future may spawn, wake,
cancel or await other tasks and call `finalize_request`, which only posts an
nginx event: `fini` runs later, from the event loop, and may destroy the
request's pool. Destroying the pool runs its cleanups, which cancel the
request's tasks and unpost its `Finalization`. Cancelled tasks come back
through the channel once more, to have their futures dropped. nginx forks its
workers, so the statics a worker starts with are the master's.

The examples add resources of nginx's that a future or a callback holds by raw
pointers. A `PeerConnection` is the `data` of an `ngx_connection_t` whose events
and timer wake a task: first the request's own, which connects, then the
detached driver's, which speaks HTTP and outlives the request. A `SyncResolve`
lies in the request's pool, is the `data` of a resolver context, and is dropped
with the pool, while the resolver may call back from the event loop or from
inside `ngx_resolve_name`.

**What is hard.**

- Threads interleave with `async_handler` at every atomic operation and system
  call. A skipped signal leaves a task that nobody will ever run; an extra
  runnable polls a task twice.
- The store `TICKLED = false` is `Relaxed`: the processor may delay it past the
  loads that follow (below, *Findings*).
- nginx can tear a request down between any two calls of the main thread, also
  between `finalize_request` and `fini`, while tasks are queued, idle, awaiting
  a subtask or cancelled.
- `ngx_http_finalize_request` frees the request at once, or posts a handler
  that will, or leaves it until the response is out; `fini` must be right in
  all three cases.
- Tasks that always have work must not starve nginx, nor each other.
- A peer may answer late, half, never, or for ever; a timeout, a reset and data may be
  pending together; the connection changes owners with wakers and a timer left
  behind by the first; closed slots are handed to other sockets.
- A callback frees the object it was called with, or the request, or both, and
  nginx may have freed them before.
- Handlers fail at any await, and may be torn down at any await, with results
  from other threads still on their way.
- A forked child has its parent's `INIT`, `CTX` and `TICKLED`; threads may
  schedule before, while and after `init` runs.

**What makes each component correct.** The executor: a woken task is polled,
once for all the wakes since its last poll, never inline, never concurrently; nginx
gets control back. The descriptor: it is readable whenever somebody must be
brought back, and never fills. Request-bound tasks: no poll on a freed request,
no leaked future, `cancel().await` returns. Finalization: no use of freed
memory, and a finalized request is freed. Life cycle: a process signals its own
event loop, and misuse fails loudly instead of hanging. Peer connection: closed,
whoever owns it, and left alone once another socket has it; no handler on freed
memory; whoever waits is registered and timed. Lookup: the context is given back
once (with one exception, below), no callback on a freed request, every lookup
ends. Handlers: no request without somebody who will finalize it, nobody asleep
on what is there, no task left behind but a detached one. `PROJECT.json` lists
the hazards behind each of these, line by line.

## Modules

### `Executor.tla` - what users are promised

Three sets: tasks that live, tasks owed a poll, tasks being polled. No channel,
no descriptor, no threads. Wakes coalesce until the poll starts; a wake during
the poll earns another one; polls do not overlap; every task owed a poll gets
it.

### `Tickle.tla` - executor and descriptor

| Code | Action |
|---|---|
| `spawn`, `runnable.schedule()` | `Spawn` |
| `Waker::wake` (async-task): idle task / task being polled | `WakeIdle` / `WakeRunning`; a wake of a scheduled task changes nothing |
| `schedule`: `tx.send`, `compare_exchange`, `tickle()` | `Send`, `Cas`, `Signal` |
| `signal`: written / `EAGAIN` | `Written` / `AlreadyFull` |
| epoll calls `async_handler` | `Deliver` |
| `drain`, eventfd / self-pipe | `EventfdDrain` / `PipeRead`, `PipeEmpty` |
| `TICKLED.store(false)` | `Clear`, and `FlushStore` when it was delayed |
| `BATCH_SIZE.load()`, `rx.is_empty()` | `Check` |
| `rx.try_recv()`, `Runnable::run` | `RecvEmpty`, `RecvRun`, `PollReady`, `PollPending` |
| `cnt >= limit`, the re-tickle | `Count`, `Retickle` |
| `set_batch_size` | `set_batch_size`, at any time |

A task is in one of async-task's states: `none` (a free slot), `idle`, `sched`,
`run`, `rerun` (woken while it is polled). The main thread's place in
`async_handler` (`hpc`) and its place in `schedule` (`pc[Main]`) are separate
variables, because a future or an nginx handler may itself spawn and wake.
A completed task frees its slot, which is used again: tasks are unbounded in
number, slots are not.

### `Request.tla` - request-bound tasks and finalization

Every request has a main task, spawned by its handler, which may spawn one
subtask, cancel it, await it, and call `finalize_request` (once, as nginx's
reference counting demands). `Teardown` is nginx ending a request by itself.
`DestroyPool` runs the pool's cleanups newest first: a `RequestTask` that still
holds its `Task` cancels it, a `Finalization` unposts its event. `fini` is
three steps, since the request is freed, or not, in the middle: read the
request and its connection (`fini`), `ngx_http_finalize_request`
(`FiniFinalize`), `ngx_http_run_posted_requests` (`FiniRunPosted`). `Spawn` also
models the pool refusing the cleanup. The run queue is `Tickle`'s with
`schedule` as one step: what `Tickle` establishes (nothing is lost, nothing is
polled inline) is used here. Batches are of one runnable, so posted events and
teardowns may come between any two polls.

### `Worker.tla` - processes, `fork`, `init`

One copy of the statics per process; `Fork` copies them. `init_process` runs in
workers and, as in nginx, in the cache manager and loader too (`helper`).
`CallInit` is a second module's `init`, or, with `Misuse`, one from the master.
With `Misuse`, threads may also schedule before `init`, in any process. The
channel is reduced to "something is queued".

### `Lease.tla` - a resource behind a raw pointer

Two functions: the owner's memory (absent, alive, gone) and the resource (free,
held, released, reused). It is acquired at most once, by a living owner, never
outlives it, is given back once, is not touched once it was given to somebody
else, and what is held is released in the end (`Fairness`). `PeerConn` implements
it with `ngx_connection_t` and `PeerConnection`, where a second close of a slot
nobody has is invisible and one of another socket's slot would be a wrong step;
the liveness is conditional on a peer that stops sending. `Resolve` implements it
with the resolver context and the request pool, but for one named step: the
double release of a refused allocation (`AllocateRefused`).

### `PeerConn.tla` - one peer connection

| Code | Action |
|---|---|
| the peer sends | `PeerSends`, as long as the receive buffer has room, any number of times |
| kernel and peer: connected, refused, end, reset, room to send | `Peer` |
| `ngx_peer_conn_read_handler`, `..._write_handler` | `ReadEvent`, `WriteEvent`, and `TimerFires` with `timedout` set |
| nginx gives a closed `ngx_connection_t` to another socket | `OtherConnection` |
| `PeerConnection::new`, `get_nginx_io` | `new`, `get_nginx_io` |
| `poll_connect`, first call | `connect_error`, `connect_ok`, `connect_again` |
| `poll_connect`, second call | `connect_timedout`, `test_connect` |
| `hyper_client`: handshake, `spawn().detach()`, the reply | `spawn_driver`, `AwaitReply`, `Return` |
| `poll_read` | `read_again`, `read_data`, `read_eof`, `read_error` |
| `poll_write` | `write_done`, `write_again`, `write_error`, `NothingToWrite` |
| `poll_shutdown`, `close`, `Drop` | `poll_shutdown`, and in every step that ends the owner (`Finish`) |
| teardown of the request, `async_handler` | `Teardown`, `Run` |

The socket as the kernel has it (`sock`, `inbox`, `room`) and what epoll still
has to report of it (`edges`) are separate, so that an event may be late, or
stale when it comes. `slot` is the `ngx_connection_t`: ours, free, or another
socket's. A poll is several steps (`cur`, `at`, `step`); events, timers, other
connections and teardowns come between polls, the peer acts at any time. The
driver's poll is hyper's: read as long as there is something to read, then
write what there is room for.

### `Resolve.tla` - resolve_sync

| Code | Action |
|---|---|
| `resolve_sync` until the name is chosen | `resolve_sync` |
| `ngx_resolve_start`, its failure | `ResolveStart` |
| `pool.allocate(SyncResolve)` / the pool refuses its cleanup | `AllocateState` / `AllocateRefused` |
| `ngx_resolve_name`: kept, called back at once, failed | `ResolveName`, `ResolveFailed`, `ReturnAgain` |
| `resolve_sync_done` up to `ngx_resolve_name_done`, with the locals `run_posted` and `c` | `resolve_sync_done` |
| `ngx_http_finalize_request`, `ngx_http_run_posted_requests` | `Finalize`, `RunPosted` |
| resolver: an answer for all who wait, a timeout, cache expiry | `Answer`, `Timeout`, `Expire`, `Call` |
| pool destruction with `SyncResolve::drop` | `DestroyPool`, in `Teardown`, `ResponseSent`, `Finalize`, `RunPosted`, `ReturnAgain` |

An answer calls all waiting contexts one after the other, in any order. A
context that is freed a second time is in state `twice`. That happens on one
path: `pool.allocate` takes the `SyncResolve` by value and drops it when the pool
refuses the cleanup, so its `Drop` (`benchmark.rs:117`) gives the context back,
and then `resolve_sync` does (`:145`).

### `Handlers.tla` - the request handlers of the examples

A handler is a short program, the sequence of its awaits (`yielding_handler`,
`compat_handler`, ... are these sequences), followed by `finalize_request`. The
main task goes from one await to the next (`NextAwait`), returns Pending
(`Await`), finalizes (`Finalize`) or leaves with an error (`Error`): the
benchmark's macro turns it into a 500, the other examples drop it. Results
arrive from threads or events (`Arrive`) with the request alive or gone.
Children spawned by `yielding_handler` are plain tasks held by `join_all`;
`compat_handler`'s subtask is anchored in the pool. `hyper_client` awaits its
connection, spawns the driver, detached, and awaits the reply, which comes
through the driver: the connection's events wake it (`DriverEvent`), it reads
(`DriverReads`) or finds nothing (`DriverIdle`), wakes the main task, and ends
some day after that one is gone. Nothing cancels it. Tasks follow `Executor`,
the end of a request follows `Request`, and a connection over nginx I/O
has its events because `PeerConn`'s `TasksEnd` says so. The tasks of tokio's own
runtime appear by their results only.

### Modules for checking and proving

`MCTickle`, `MCRequest`, `MCWorker` add model values and symmetry sets.
The theorems are in a module per component: `TickleProofs`, `ExecutorProofs`
(the refinement), `RequestProofs`, `WorkerProofs`, `PeerConnProofs`,
`ResolveProofs`, `HandlersProofs`. Operators commented
*Broken* are plausible bugs of the code; no specification uses them. Each
property is shown to notice one of them (`PROJECT.json`, "mutants").

## Runs

| Run | Instance | Question |
|---|---|---|
| `eventfd_safety` | 3 threads and the main one, 3 task slots, batch size 0 or 2 | Can a wakeup be lost, a task be polled twice or inline, signals pile up? |
| `selfpipe_fair` | 2 threads, 2 slots, a pipe of 2 bytes read 1 byte at a time, fair | With the chunked drain and a full pipe: is every woken task polled, does nginx get control back, is `Executor` implemented? |
| `delayed_store_fair` | 2 threads, 2 slots, eventfd, delayed stores, fair | Is a wakeup lost to a delayed store made good by later ones? |
| `delayed_store_lost_wakeup` | 1 thread, 2 slots, delayed stores | Violated: see *Findings*. |
| `request_safety` | 2 requests of 2 tasks | Can a freed request be polled on, or finalized? Can a finalized one be forgotten? |
| `request_liveness` | 1 request, fair | Is a finalized request freed, is every future dropped, does `cancel().await` return? |
| `request_drop_doc` | 1 request | Violated: see *Findings*. |
| `worker_safety` | 3 process slots, 2 threads, misuse | Can a process signal another's loop, or lose work silently? |
| `worker_helper_doc` | 2 process slots, no misuse | Violated: see *Findings*. |
| `peer_conn` | one connection, a receive buffer of 2 chunks, 2 writes, fair | Can a connection be closed or used after it was given away, a handler run on freed memory, a waiter be forgotten or wait for ever? |
| `resolve` | 3 requests, a ring of 2 names, fair | On which paths is a context given back twice? Can one be lost, a callback meet a freed request, a lookup never end? |
| `handlers` | 1 request, any handler, 3 children, fair | Which paths leave a request, or a task, that nobody will end? Can a task sleep on what it waits for? |

**Properties.** Each is stated in words above its definition.

- `NoStuckTickle`: `TICKLED` set without anyone left to clear it would kill the
  executor. `NoLostWakeup`: queued runnables always have an event, a running
  handler or an undecided thread behind them.
- `RunnableConservation`: exactly one runnable per scheduled task.
  `NoReentrantPoll`: a poll happens only inside the handler's `run()`.
- `SignalsBounded`: unread signals, plus those threads are about to write,
  never exceed the number of threads plus three, so the descriptor's limit is
  out of reach in practice.
- `WokenIsPolled`, `NginxNotStarved`, `LostWakeupRepaired`,
  `ImplementsExecutor`.
- `PollsOnLiveRequest`, `TornDownTasksClosed`, `FiniUsesLiveMemory`.
  `FinalizationInFlight`: until a finalized request is freed, its event is
  posted, or `fini` has it, or nginx has its response to send.
  `FinalizedIsFreed`, `FuturesDropped`, `CancelReturns`.
- `SignalsOwnLoop`, `NoSilentLoss`.
- `ConnectionOwned`: whenever nginx may hand out connections, a set
  `pc.connection` is ours. `HandlersOnLiveMemory`: an open connection's `data`
  is a live `PeerConnection`. `WaiterRegistered`, `WaitsAreTimed`: every Pending
  has its waker where the event looks for it, and the read timer running.
  `TasksEnd` (of `PeerConn`): both tasks end unless the peer sends for ever.
- `ReleasedOnce`: only a refused allocation gives a context back twice.
  `CallbackOnLiveRequest`, also for the connection read before the request is
  finalized; `NoneLeaked`; `LookupEnds`, from the start of `resolve_sync` on; and
  `ImplementsLease` for both resources.
- `RequestOwned`: a live request has a main task that will finalize it, or
  nginx was told to end it, or `?` let it go. `NoLostWake`: a task that nobody
  is going to poll still lacks what it waits for, and a reply it lacks has a
  driver. `NoOrphans`: no subtask or child outlives the main task uncancelled.
  `TasksEnd` (of `Handlers`): a freed request's tasks end, but for a driver over
  tokio. `HandlerEnds`.

`NoStuckTickle` and `NoLostWakeup` are checked on the eventfd only: the proofs
below cover both backends, and `NoStuckTickle` delayed stores too.

**Bounds, and why they are enough.** Nothing in `Tickle` needs a state
constraint: the channel holds at most one runnable per slot, signals are
bounded, counters are reset. Three threads cover a winner of the flag that is
preempted before it writes, a loser that relies on it, and a third that
schedules after the drain. Three slots cover one task being polled, one queued
behind it and one woken meanwhile. Batch size 2 makes both the limit and
the exhausted channel happen; 0 is the boundary case, and behaves as 1.
Capacity 8 is never reached on the eventfd (which `SignalsBounded` shows);
capacity 2 makes the self-pipe fill. Two requests suffice because requests
share only the run queue and nginx's posted events. Three process slots give a
master and two children with the second forked after the first has run.

`PeerConn` bounds the receive buffer (`MaxChunks`), not what the peer sends in
all, and what the request takes to write (`MaxWrites`). Room for two chunks makes
data arrive before, with and after the hand-over and the timeout, and while
earlier data is being read; two writes make the first succeed and the second
block. One connection suffices: another one meets it only by taking its slot,
which is `OtherConnection`. In `Resolve` three requests on two names give a
name that two requests share, one that has wrapped round and one of its own;
`RingSize` is 100000 in the code. In `Handlers` three children stand for 100:
one ended, one yielded and one not polled yet. One request suffices there,
since requests share only the main thread, and the order in which `Handlers`
runs tasks is arbitrary already; `Request` has the interplay of two.

Deadlock checking is on wherever the system cannot stop; it is off where
requests end or a process may abort (all modules but `Tickle`), and where a wakeup
lost to a delayed store really leaves the system at rest.

**Fairness.** Weak fairness of `schedule` (the operating system runs threads
that are inside it), of `Deliver` (epoll is level-triggered: a readable
descriptor keeps being reported), of `async_handler` (straight-line code), of
polls (a future must not block
the event thread, `examples/sidecar.rs:59`) and of the store buffer. Nobody is
obliged to spawn or wake. In `Request`: weak fairness of the queue, of polls
returning and of `fini`'s steps; strong fairness of posted events and of sent
responses, because they are enabled only while the main thread is in the event
loop, to which it returns for ever. `Executor` asks for strong fairness of each
task's poll, for the same reason: `StartPoll(t)` is disabled while another task
is polled.

In `PeerConn`: weak fairness of events and timers (reported once they are
there, for the loop always comes round), of runs of woken tasks, and of polls.
The peer owes nothing: it may stop for ever in any state, and then both tasks end
by the read timer alone. If it sends for ever, a chunk within every 60 s, they do
not, since each chunk starts the timer anew; `TasksEnd` and the liveness of
`ImplementsLease` therefore assume that it stops some day (`StopsSending`).
In `Resolve`: the main thread goes on, the
resolver's timer (`ctx->timeout`) expires, responses get sent; no name server
has to answer. In `Handlers`: woken tasks are polled (`Executor`), a finalized
request is freed (`Request`), sleeps end, and results arrive, except those of
network clients that set no timeout: `HandlerEnds` leaves out `compat`,
`reqwest` and `hyper_client` over tokio for that reason, and `TasksEnd` the
driver of the last. That `hyper_client` over nginx I/O gets its connection and
its driver's events is what `PeerConn` establishes, for a peer that does not
send for ever.

**Assumptions.** A locked instruction drains the store buffer (x86-64).
`EINTR` retries are stutters. An abort ends the process. `send` on the
unbounded channel does not fail. No thread of the master is inside `schedule`
at `fork` (such a call ends in `abort`). A request is finalized once. Events are edge-triggered, as with epoll. A
`PeerConnection` stays where it is (it is pinned in a box). hyper reads before it
writes in each poll, so that a writer has a read timer. A location has a
resolver. A task is not polled while it connects unless it was woken. Panics
(`expect`, `unwrap`) abort. async-task and nginx are modelled from how this code uses
them; `PROJECT.json` marks those definitions external.

## Findings

1. **A wakeup can be lost on x86-64** (`spawn.rs:43-51`, run
   `delayed_store_lost_wakeup`). `TICKLED.store(false, Relaxed)` may sit in the
   store buffer while `rx.is_empty()` reads an empty channel. A thread that
   sends in between still sees `TICKLED = true`, skips its signal, and
   `async_handler` returns: the runnable stays queued until the next
   `schedule`. The damage is limited: `TICKLED` never sticks
   (`TickleNeverSticks`), and any later `schedule` repairs the loss
   (`delayed_store_fair`).
   Without delayed stores nothing is ever lost (`eventfd_safety`, and proved).
2. **Futures outlive their request** (`spawn.rs:140-141`, run
   `request_drop_doc`). The documentation says the future is dropped when the
   request is torn down; the teardown cancels the task, and the future is
   dropped when the runnable comes round in the run queue. It is never polled
   again (`PollsOnLiveRequest`), and it is dropped in the end
   (`FuturesDropped`), but its destructor runs after the request is freed.
3. **`init()` ends nginx's cache helpers** (`lib.rs:106-111`, run
   `worker_helper_doc`). nginx calls `init_process` in the cache manager and
   loader as well; a module that calls `init()` there, as documented, aborts
   them.

**Noticed on the way**, and no contradiction to anything the repository says:

- The comment on `TICKLED` (`spawn.rs:36-37`) describes it as true while a
  tickle is pending; after the re-tickle at the batch limit one is pending and
  the flag is false, which costs one extra write.
- When the pool refuses the `SyncResolve` (`benchmark.rs:139-146`), the resolver
  context is given back twice: by the `Drop` of the value that `Pool::allocate`
  did not keep (`:117`), and by `resolve_sync` (`:145`). `ReleasedOnce` names
  this as the only such path.
- The driver of `hyper_client` is detached on purpose (`benchmark.rs:372-374`).
  Over nginx I/O the read timer ends it once its peer falls silent. Over tokio
  (`:238`) nothing does: it can stay after its request for as long as the peer
  keeps the connection.
- A peer that sends a byte a minute keeps a request of `hyper_client` and its
  driver for ever: `poll_read` starts the 60 s timer anew with every chunk
  (`peer_conn.rs:60`), and `collect()` (`benchmark.rs:383`) has no limit.
- A connect that times out is closed by `poll_connect` (`peer_conn.rs:187`) and
  again by `Drop`. Nothing runs in between (`ConnectionOwned`), so the
  second close finds a free slot, of which nginx logs an alert.
- `compat` and `sidecar` leave a request unfinalized when `?` ends the handler
  (`Escaped` in `RequestOwned`); the benchmark's macro does not.
- `poll_write` sets no timer (`peer_conn.rs:91`); a peer that stops reading is
  noticed by the read timer, hence after 60 s without data from it.

## Proofs

For every value of the constants: any threads, task slots, batch sizes, either
backend, any capacity and read size (`Tickle`); any requests (`Request`,
`Resolve`, `Handlers`), processes (`Worker`), ring sizes (`Resolve`), numbers of
children (`Handlers`), chunks and writes (`PeerConn`).

| Theorem | States |
|---|---|
| **TickleProofs** `TypeCorrect` | `Spec => []TypeOK` |
| `TickleNeverSticks` | `Spec => []NoStuckTickle`, delayed stores included |
| `WakeupsNotLost` | without delayed stores, `Spec => []NoLostWakeup` |
| `PollsNotReentrant` | `Spec => []NoReentrantPoll` |
| `RunnablesConserved` | `Spec => []RunnableConservation` |
| `SignalsAreBounded` | `Spec => []SignalsBounded`, for any finite set of threads |
| `SignalsNeverDropped` | a descriptor with room for threads + 3 signals is not full when `signal` writes |
| **ExecutorProofs** `TickleImplementsExecutor` | the initial states and steps of `Tickle` are those of `Executor`, or stutters |
| **RequestProofs** `RequestTypeCorrect` | `Spec => []TypeOK` |
| `RequestPollsOnLiveRequest` | `Spec => []PollsOnLiveRequest` |
| `RequestTornDownTasksClosed` | `Spec => []TornDownTasksClosed` |
| `RequestFiniUsesLiveMemory` | `Spec => []FiniUsesLiveMemory` |
| `RequestFinalizationInFlight` | `Spec => []FinalizationInFlight` |
| `RequestCancelInFlight` | whoever awaits a subtask it cancelled has that subtask's last runnable in the channel |
| **WorkerProofs** `WorkerTypeCorrect` | `Spec => []TypeOK` |
| `WorkerSignalsOwnLoop` | `Spec => []SignalsOwnLoop` |
| `WorkerNoSilentLoss` | `Spec => []NoSilentLoss` |
| **PeerConnProofs** `PeerTypeCorrect` | `Spec => []TypeOK` |
| `PeerHandlersLive` | `Spec => []HandlersOnLiveMemory` |
| `PeerConnectionOwned` | `Spec => []ConnectionOwned` |
| `PeerWaiterRegistered` | `Spec => []WaiterRegistered` |
| `PeerWaitsAreTimed` | `Spec => []WaitsAreTimed` |
| `PeerImplementsLease` | `Spec => LeasedSlot!Safety`: the initial states and steps of `PeerConn` are those of `Lease`, or stutters |
| **ResolveProofs** `ResolveTypeCorrect` | `Spec => []TypeOK` |
| `ResolveReleasedOnce` | `Spec => []ReleasedOnce` |
| `ResolveCallbackOnLiveRequest` | `Spec => []CallbackOnLiveRequest` |
| `ResolveNoneLeaked` | `Spec => []NoneLeaked` |
| `ResolveImplementsLease` | the initial states of `Resolve` are those of `Lease`, and so are its steps, or stutters, but for `AllocateRefused` |
| `ResolveLookupInFlight` | a live request of a lookup has somebody who still has to act on it |
| **HandlersProofs** `HandlersTypeCorrect` | `Spec => []TypeOK` |
| `HandlersRequestOwned` | `Spec => []RequestOwned` |
| `HandlersNoOrphans` | `Spec => []NoOrphans` |
| `HandlersNoLostWake` | `Spec => []NoLostWake` |

They rest on the modules' named assumptions on their constants and on nothing
else: `None` and `Dangling` are no task and no request, sizes are natural
numbers, the main thread is not one of the wakers, the root process is a
process; `Threads` is finite in `Tickle`, where signals are counted per thread,
and `Requests` in `Resolve`, where one answer calls all who wait in some order.

**The arguments.** TLC finds every inductive invariant below to hold on the
instances of the runs.

*Tickle.* `NoLostWakeup` is not inductive: a thread that loses the
compare-exchange leaves its runnable to whoever set `TICKLED`, and only
`NoStuckTickle` says that somebody is still going to signal or to drain. The
inductive invariant is `TypeOK /\ NoStuckTickle /\ NoLostWakeup`. `TypeOK`
carries more than types: a thread in `send` holds a task, `hpc = "run"` means a
current task, `async_handler` takes a further runnable only below its batch
limit, and a delayed store is pending only between `Clear` and the next
locked instruction of the main thread, hence never without `StoreBuffering`
(`StoresAreImmediate`). `NoStuckTickle` is inductive with `TypeOK` alone, since
`async_handler` drains before it clears: in the other order the drain could
take the signal of a thread that had just set the flag. `NoReentrantPoll` is an
equivalence between task state and handler state, which makes it inductive.
`RunnableConservation` needs it: a runnable created when a poll returns is the
only one, since the task was being polled and so had none. With those two,
every step of `Tickle` is matched: `RecvRun` is `StartPoll` of a task that is
owed a poll while no other is polled, and the channel, the flag, the descriptor
and the batches are invisible. `SignalsBounded` follows from a budget
(`SignalsInv`): signals written and about to be written never exceed one per
thread, one for a set `TICKLED`, and up to two for where `async_handler` is.
Winning the flag or hitting the batch limit raises the budget by what it adds,
and a drain pays back all but the signals threads are late with.

*Request.* `TaskInv` relates the parts of a task: it has a future exactly while
it has a state, it runs exactly while it is polled, once closed it is
scheduled, and open it is still anchored in its pool - the last is what makes a
teardown reach every task that `cancel` has not taken. `QueueMatches` adds that
the channel holds each scheduled task once, so that a closed task always has
the runnable that will drop its future. Whatever destroys a pool does so from
the event loop or from `fini`, with nothing polled; hence `PollsOnLiveRequest`.
`FinalizationInFlight` needs `FlightInv`: while `fini` runs its saved
connection is that of the request it finalizes, and a terminate handler is
posted only then. `AwaitInv` says that an awaited subtask has its future; with
`TaskInv`, a cancelled one then has its last runnable in the channel.

*Worker.* `InitInv` follows `CTX` through `fork`: a process that is past
`init`, or in it with its descriptor open, holds one it opened itself, and only
workers and single processes get there. `TickledInv`: a set `TICKLED` has a
written signal or a thread about to write behind it, also across `fork` and for
threads that schedule before or during `init`. `NoSilentLoss` then is
inductive.

*PeerConn.* None of the four invariants is inductive. `SlotInv` adds who has
what when: the driver exists only after the hand-over (`HandedOver`); until
then the request's task has a live `PeerConnection` (`ConnectsOnLiveMemory`),
and has had no connection before (`ConnectsOnce`); `pc.connection` dangles only
between `connect_timedout` and the end of that poll (`DanglesInPoll`), which is
why the second close hits no other socket. `WaitInv` adds what each task can wait for:
the request's task for the connect or the reply, and for the connect only
before there is a driver, so its wakers are never overwritten while it needs
them; the driver waits to write only if it waits to read, and has its waker and
the timer set by then (`ReadsBeforeWriting`). The refinement needs `SlotInv`
only: of a state `Lease` sees `mem` and `slot`.

*Resolve.* A context that is out belongs to a live request whose `SyncResolve`
points to it, but for two places inside `resolve_sync` (`ContextInv`,
`HandlerInv`); the callback gives its context back before it finalizes
(`CallbackInv`); and the callbacks an answer still owes are for different
contexts, none of them the current callback's (`CallsInv`). That last part lets
a callback free its own request and leave the others' alone. A context given
back twice belongs to a `SyncResolve` that the pool refused, and to no later
step. Lemma `SequenceOfSet` says what the order of an answer's callbacks has to
satisfy; the refinement of `Lease` needs the same invariant. `LookupInFlight` needs in
addition that the flag read before the context is freed says truly who called
back (`FlightInv`).

*Handlers.* `LifeInv` ties tasks to the life of their request: none before it,
its two cancellable ones cancelled after it, and the main task cancelled in no
other way. With `PolledInv` (a cancelled task is not polled) and each other,
`RequestOwned` and `NoOrphans` are inductive. For `NoLostWake`, `CancelledInv`
says that subtasks are cancelled only with their request and children only once
their main task is gone, so nobody who will be polled again awaits a task that
ends without waking it. `ReplyInv` says that nobody cancels a driver and that
one exists for every main task that lacks its reply: it ends only when it has
read the reply or nobody waits for it.

**Only model-checked** are the properties that need fairness or ENABLED, which
the prover does not handle: `WokenIsPolled`, `NginxNotStarved`,
`LostWakeupRepaired`, `FinalizedIsFreed`, `FuturesDropped`, `CancelReturns`,
`LookupEnds`, `HandlerEnds`, both `TasksEnd`, and the fairness part of
`ImplementsExecutor` and of both `ImplementsLease`. Of most of them
the safety half is proved: somebody who can take the next step is always there
(`NoLostWakeup`, `FinalizationInFlight`, `TornDownTasksClosed`,
`RequestCancelInFlight`, `ResolveLookupInFlight`, `WaitsAreTimed`,
`NoLostWake`); that the step is taken in the end is what TLC checks.

## Plan

The model covers every component with behaviour of its own that this repository
contains, and every invariant the runs check is proved. The join of `Request`
with `Tickle`'s queue is left out on purpose: `Request` lets posted events and
teardowns come between any two polls, which includes every batch of `Tickle`'s.
What is left is to prove more:

1. `Tickle`: when exactly a delayed store loses a wakeup - only that of a thread
   whose compare-exchange failed between `Clear` and the flush - as an invariant.
2. `PeerConn`: the safety half of `TasksEnd`, that a live request's task is
   polled, woken, or waits for something that is timed or a driver that lives.
3. Action properties: a task is polled at most once per runnable, a closed task
   never again; the batch limit bounds what one `async_handler` runs.

## Not modelled, and why

Payloads and wording: HTTP headers, names, log lines. Configuration parsing and
the modules' tables: static data. Futures' contents: a poll may do anything the
API allows. The benchmark's variants on `ngx::async_`, whose executor is not in
this repository. `log_handler` of the peer connection: it formats. The resolver's
timers at worker exit (`set_cancelable`), other event mechanisms than
epoll, and TLS, which these examples do not use. Build scripts, packaging, CI and the benchmark report: not part of
the running program. Memory models weaker than x86-64's: `flake.nix` builds for
x86-64, where only a delayed store can be observed. Exit of a worker in the
middle of `async_handler`: nothing of this library survives it.

## Running

    tlc -workers 2 -config eventfd_safety.cfg MCTickle
    tlc -workers 2 -config peer_conn.cfg PeerConn
    tlapm TickleProofs.tla

and likewise for the other configurations and the other `*Proofs` modules.

`PROJECT.json` pairs every configuration with its module and properties, maps
each definition to the source lines it models, and lists the hazards.

# A TLA+ verification of the Alitycs Python SDK

This directory specifies the SDK (`src/src/alitycs/`) in TLA+: how events are
recorded, admitted, queued, sent, logged on disk and handed over at exit and fork.
The modules are model-checked with TLC, and all of their safety properties are
proved with TLAPS for every number of threads, events and batches.
All of it is about one promise, made in `src/README.md` ("Delivery guarantees") and in the module
comment of `batch.py`: **an event given to the SDK is never lost silently, never
duplicated inside the SDK, and the results the SDK reports are honest**, whatever
the interleaving of application threads, the flusher thread, timeouts, failing
requests, failing writes of the write-ahead log, signals, forks and crashes.  Where
the code does not keep it, section 6 says so.

## 1. Inventory of the system

| Part | State it keeps | Operations | Talks to |
| --- | --- | --- | --- |
| `BatchManager` (`batch.py`) | `_queue`, `_inflight`, `_closed`/`_stopping`, `_finite_shutdown_complete`, `_next_tick`, the totals, one condition variable `_cv`, the flusher thread | `add`, `flush`, `shutdown`, the worker `_run`, `_send_batch`, `_deliver`, `reset_for_child` | calls the transport's `send`, `recover`, `persist` as plain functions, always outside `_cv` |
| `HttpTransport` (`transport.py`) | `_delivery_lock`; per call: attempt, `retry_after`, `retry_after_until` | `send`, `persist`, `recover`, `close` | the store, the HTTP endpoint, the clock |
| `FileBatchStore` (`persistence.py`) | `_records` in memory, the file, the temporary file, path ownership (`_OWNED_PATHS` and `flock`) | `put`, `acknowledge`, `pause`, `snapshot`, `_load`, `close`, `reset_for_child` | the file system |
| `Alitycs` (`client.py`) | `_closed`, `_inline_inflight`, user id, global properties, `_LIVE_INSTANCES` | `track` and its variants, `identify`, `reset`, `flush`, `shutdown`, exit, fork and signal handlers | the manager, or the transport directly when `batching=False` |
| `SessionManager` (`session.py`) | session id, last activity, anonymous id | `touch`, `get_session`, `reset`, `set_user_id` | the client |
| Event validation (`types.py`, `utils.py`) | none | `validate_event`, `RevenuePayload`, property serialization | the client |
| `AlitycsConfig` (`config.py`), `context.py`, `__init__.py` | constants | range checks, platform description | |

How an event travels: `track` builds and validates it, `add` appends it to the
queue, the worker or a `flush()` pops up to `flush_size` events into a batch and
raises `_inflight`.  Before the batch is sent the log is replayed (`recover`).
`_deliver` sends the batch, splits it on a 400, and puts what fails transiently
back at the head of the queue; with a log, the failed batch stays in the log
instead.  `shutdown` with a deadline joins the worker for that long, then takes
what is still queued and writes it to the log event by event.  With
`batching=False` there is no manager: `track` sends the event itself, outside every
lock of the client, and `shutdown` waits for the sends that have been admitted.

What is hard here, and what the properties are aimed at:

* **several dispatchers**: the worker and every flushing thread pop batches of one
  queue, share one counter of events in flight, one log and one delivery lock;
* **one condition variable for everything**: a lost wake-up is a hang;
* **partial outcomes**: a batch is half delivered, half refused, half put back;
* **a log shared with memory**: an event is in the queue, in a batch, in a
  shutdown's hands, in the log, or both on the wire and in the log;
* **deadlines** that cut every one of these short, with late answers after them;
* **a shutdown that races the worker**, which may fail after everyone has left;
* **crashes** at any point of a write, and restarts that replay the log;
* **identity in two places**: the user id and the session have a lock each, and an
  event reads both;
* **`fork()`**, which copies queues, counters, held locks and the descriptor that
  carries the advisory lock, and repairs only the clients that are still live;
* **handlers** that run at exit, or on top of whatever the main thread was doing.

`PROJECT.json` ("hazards") lists each of them at its line with the properties that
would catch it.

## 2. Modules

| Module | What it is |
| --- | --- |
| `BatchManager` | the manager, with its transport reduced to what it can observe |
| `EventCustody` | the abstract promise of the SDK: where an event may be, and where it may go |
| `EventLedger` | `EventCustody` with what the totals count |
| `BatchProperties` | invariants, action properties, fairness, liveness and the refinement of `EventLedger` |
| `MCBatch` | model-checking instance of the above |
| `BatchManagerProofs` | proofs about `BatchManager`: its types, its batches, its delivery lock, its shutdown |
| `CustodyProofs` | proofs about where its events are: conservation, the ledger, counters, `flush`, forks |
| `OrderProofs` | the proof that one dispatcher sends events in order |
| `BatchStore` | `FileBatchStore`: the log in memory and its file, in the three steps of a write |
| `HttpTransport` | `send`, `persist` and `recover` over `BatchStore` (which it extends), with a clock and crashes |
| `DurableLog` | the abstract promise of the log on disk |
| `TransportProperties` | invariants, action properties and the refinement of `DurableLog` |
| `MCTransport` | model-checking instance of the above |
| `TransportProofs` | proofs about `BatchStore`, alone and under `HttpTransport`: types, memory and file, promises |
| `LogProofs` | proofs about the log and the wire, what calls return, deadlines and `Retry-After`, and the refinement of `DurableLog` |
| `ForkedManager` | `BatchManager` in a process that forks: the repair in the child |
| `InputRules` | what `types.py`, `utils.py` and `config.py` accept, as operators |
| `ClientEvents` | `track`, `identify`, `reset` over the session and the identity |
| `ClientProperties`, `MCEvents`, `ClientEventsProofs` | properties, instance and proofs of the two above |
| `ClientLifecycle` | an inline client: sends, `pending`, `flush`, `shutdown`, exit, signals, fork |
| `LifecycleProperties`, `MCLifecycle`, `LifecycleProofs` | its properties, instance and proofs |
| `PathOwnership` | who owns a persistence path, over processes, forks and deaths |
| `OwnershipProperties`, `MCOwnership`, `OwnershipProofs` | its properties, instance and proofs |

`BatchManager` and `HttpTransport` are two views of the same transport code: the
first keeps what the manager can observe of it and many interleavings of the
manager's threads, the second keeps time, attempts and the file, and replaces the
manager by threads that call the transport in any order.  `ClientLifecycle` uses
the first view, with the client in the place of the manager.  `ClientEvents` ends
where an event is handed over.

### 2.1 `BatchManager`

One action is one critical section of `self._cv`, one network exchange or one call
of the store; between two actions of a thread every other thread may run.  `pc[t]`
says where a thread is.

| Model | Code |
| --- | --- |
| `queue`, `inflight`, `finite`, `delivered`, `lost` | `_queue`, `_inflight`, `_finite_shutdown_complete`, `_delivered_count`, `_lost_count` |
| `closed` | `_closed` and `_stopping`, only ever set together |
| `tickDue` | `time.monotonic() >= _next_tick` |
| `enabled` | whether the store has a path; without one, and in the child of a fork, no log is kept |
| `wal`, `todo` | the store's records, and what is left of `recover()`'s snapshot of them |
| `job[t]` | the arguments and locals of `_send_batch` and of the recursion `_deliver`: the batch, how much of it is resolved, the right ends of the halves still to be sent, the shared budget `remaining_sends[0]`, the combined outcome |
| `call[c]` | the public call a thread is in, its deadline, `all_delivered`, and (history) what it owed |
| `taken[c]` | the local list of `_persist_queued_for_shutdown` |
| `submitted`, `fate` | history: what has become of each event |
| `..._wait` places | a thread inside `cv.wait`; `Notified` is `notify_all` |
| `LockFree` | `_delivery_lock`, held from `replay` to its end and during `post` |

The recursion of `_deliver` is an explicit stack: it walks the batch from left to
right, so "how far" and "the right ends of the pending segments" are its whole
state.  Batches are numbers in sequence; wording, payloads, debug output and
`requeued_total` are left out.  The batch ids behind `pending` are left out too.
A request has one *final* answer here, after its retries: 2xx, 400, another
refusal, or none in time.

Places where the model is deliberately liberal, because the code is: a request
already sent may be answered after the deadline; a write of the log may fail
before or after the request; the answer of the server is arbitrary.

### 2.2 `EventCustody`, `EventLedger` and their refinements

`EventCustody` has one variable, `where`: each event is outside, in memory, in the log,
settled, or left to the parent of a fork.  It leaves memory only by being settled or
retained in the log, leaves the log only by being settled, and never comes back; a fork
gives everything that is owed to the parent at once.  `EventLedger` adds `counted`: what is
settled out of memory is counted, what is settled from the log is not.

Both ways of sending keep the promise.  `KeepsLedger` says that `BatchManager` implements
`EventLedger`, `KeepsCustody` that `ClientLifecycle` implements `EventCustody`.  In both
the custody is read off what holds the event (queue, batches, a shutdown's list, calls, the
log) and **not** off the history variable, except for what belongs to a parent, which
nothing in the child holds.

### 2.3 `BatchStore`

| Model | Code |
| --- | --- |
| `records` | `_records`: a dictionary in insertion order, here a sequence |
| `file` | what `_path` holds; no file is the empty log, as for `_load` |
| `survivors` | what `_path` may hold once the machine has stopped and started |
| `write` | the mutation in progress, inside `with self._lock`, and `previous` |
| `PutBegins`, `AcknowledgeBegins`, `PauseBegins` | a mutation up to the synced temporary file |
| `WriteFails` | the `except` that restores `previous` |
| `ReplaceFile` | `os.replace`, or `unlink` of the last record |
| `WriteReturns` | the sync of the directory, and the return |
| `Opens`, `Loadable` | the constructor, and what `_load` accepts |

A batch id is made for each batch and never given twice, and a record is only
acknowledged or paused by the thread that holds the delivery lock, so the early
returns for an id that is already there, or no longer there, are not reached.
`paused_until` is 0 for `None`: neither makes a replay wait.  `survivors` grows by
the new contents when the file is replaced and shrinks to them when the directory
is synced; a platform that cannot sync directories (`DirectorySync = FALSE`) keeps
both, and the properties then speak of a crash of the process only.  A temporary
file left behind by a crash is litter that nothing reads; it is not modelled.

### 2.4 `HttpTransport`

| Model | Code |
| --- | --- |
| `call[t]` | a call's arguments and locals: `deadline`, `attempt`, `after` (`retry_after`), `until` (`retry_after_until`), `todo` (the rest of the snapshot), `wake` (when a sleep or request ends) and its outcome |
| `pc[t]` | where it is: waiting for the lock, in a mutation of the store, sleeping, on the wire |
| `SendCalled`, `RecoverCalled`, `PersistCalled` | the callers, with or without a deadline |
| `LockTaken`, `LockTimesOut` | `_acquire_delivery_lock` |
| `PutStarts`, `PutRefused`, `MutationReturns`, `MutationRaises` | `put`, `acknowledge`, `pause`, and what each caller does when they return or raise |
| `NextRecord`, `PauseOver`, `RecoverDone` | the loop of `recover` |
| `RetryWaits`, `PostStarts`, `PostTooLate` | the head of the attempt loop of `_send_record` |
| `FinalAnswer`, `RetryableStatus`, `NetworkError` | the answers to a request |
| `PersistConfirms` | the `contains` that ends `persist` |
| `Crash`, `Restart`, `Tick` | the process or the machine stops; a client is made again on the same path; time passes |

Time is a small integer that stands for both clocks of the code, `time.time()` and
`time.monotonic()`; a wall clock that is set back or forth is not modelled.
Computing takes no time: the clock moves only when every thread sleeps, is on the
wire, waits for the lock or is idle.  That is what makes `DeadlineKept` say
something: a deadline is exceeded only if the code adds up its waits wrongly.
A request ends by its timeout, as the property assumes of the HTTP library.
`send` outcomes are "success", "rejected", "failed" and "retained", the last two
being `SendFailed` with `durable` false or true; an exception that leaves
`recover` is "false", which is what the manager makes of it.

The transport without a log sends in the same way and touches no store; it is
covered by `BatchManager` (where `enabled` is FALSE), not here.

### 2.5 `DurableLog` and the refinement

The log on disk is a queue of batches: a batch enters at the end, at most once
ever, the server sees only batches in it, and a batch leaves only once the server
has answered for it.  `KeepsLog` says that `HttpTransport` implements it, crashes
of the process at any point of a write included (the step of a mutation that the
queue sees is `ReplaceFile`; everything else stutters).

### 2.6 `ForkedManager`

`Fork` is `fork()` followed by `reset_for_child` (`batch.py:243-256`), after which the
behaviour is that of the child: the threads of the parent are wherever they were, in
a batch, a retry or a flush, and only the forking one goes on.  The events the
parent had accepted and not settled get the fate `"parent"`, and
`ParentKeepsItsEvents` says that the child never holds or settles one.  The child's store
forgets its records and its path (`persistence.py:165-183`): `enabled` is FALSE from then
on, `put` does nothing, failed batches go back to the queue, and a bounded shutdown counts
what is queued as lost.  A closed manager does not fork here:
whether it is repaired depends on the registry of live clients, which
`ClientLifecycle` has.

### 2.7 `InputRules` and `ClientEvents`

`InputRules` has no state: `RevenueAccepted`, `EventAccepted` and `ConfigAccepted`
are FALSE where the code raises.  A text is reduced to what the rules ask of it
(blank, length in characters, length in bytes, matching a pattern), and the properties of
an event are what they are in Python, a mapping from keys.  The limits of
`utils.py:24-35` and `types.py:16-18` are CONSTANTS, small in the run so that inputs
on both sides of each of them can be enumerated.

| Model of `ClientEvents` | Code |
| --- | --- |
| `user` | `_user_id` |
| `session` | `SessionManager._session`: ids are numbered as they are minted |
| `now`, `Tick` | `now_ms()`, for the session; event timestamps are compared with `Today` |
| `Called` | the public methods: all of `track`, `track_revenue`, `capture_error` and `page` are `"track"` with or without a user id |
| `SetUser`, `SetSessionUser` | `identify`, in its two sections |
| `ForgetUser`, `NewSession` | `reset`, in its two sections |
| `Touch`, `GetSession`, `ReadUser`, `Build`, `Admit` | `_enqueue` |
| `closed`, `Shutdown` | `_closed`; the rest of `shutdown` is in `ClientLifecycle` |

`Admit` stands for the section under the lifecycle lock that checks `_closed` and
hands the event over; what becomes of it there is the business of `BatchManager`,
or of `ClientLifecycle`.  `user.since` is history: how many resets had begun when the
id was given.

`touch` reads the clock twice, to see whether the session has expired and to stamp it
(`session.py:39, 46, 72, 75`); time may pass in between, so `Touch` has two readings too.
`SessionRotation` goes by the first one, and openly exempts `identify`, which stamps a session
without looking whether it has expired (`session.py:50-58`; section 6).

### 2.8 `ClientLifecycle`

One client with `batching=False`.  A *frame* is an activation of the SDK: one per
thread, and `Handler`, which runs on top of the main thread.

| Model | Code |
| --- | --- |
| `closed`, `inflight`, `ids`, `live` | `_closed`, `_inline_inflight`, `_inline_batch_ids`, membership in `_LIVE_INSTANCES` |
| `log`, `durable` | the store's records, and whether it has a path |
| `holders` | the frames inside `_delivery_lock`: an `RLock`, so the handler gets in when the main thread is inside |
| `frame[f]` | the call, its place, its deadline (`bounded`, `late`) and its locals |
| `Admit`, `SendLocked`, `PutRaises`, `Answered`, `SendFails`, `Settle` | an inline send |
| `FlushCalled`, `Recover` | `flush`, and the `recover` under it |
| `Leaves`, `Raises` | how a call ends whose `recover` is over: it returns, or it raises because an acknowledgement or a pause could not be written (`transport.py:225-242`); a `shutdown` that raises does not reach the line that takes the client out of the registry (`client.py:258`), so it stays there and a later fork repairs it |
| `stuck`, `SnapshotHangs`, `CallHangs` | locks of a copied client that nobody will release, and the calls that wait for them |
| `ShutdownCalled`, `Drain`, `Exits` | `shutdown`, and the exit handler that calls it with its default deadline |
| `PendingCounts`, `PendingReturns` | `pending`, in its two sections |
| `SignalArrives`, `Killed` | the handler of SIGTERM and SIGINT: a bounded flush, then the end |
| `Fork` | `fork()` and the hook; the behaviour goes on in the child |

A signal can arrive between any two steps of the main thread, so the handler meets
it inside a send, a replay or a shutdown.  A client that has left the registry is
not repaired: `forked = "inherited"`, and what other threads had locked stays so.  `MayHold`
says what that may be: the delivery lock, which is held over many steps, and the lifecycle
lock and the lock of the store, which are held for a section that is one step of the model,
and in whose middle the fork may come.  Only the delivery lock is waited for with a deadline
(`transport.py:273-278`); the other two make even a bounded call wait for ever, which is
where `BoundedCallsReturn` ends.  The step that makes such a child copies the log and is left
out of `KeepsCustody`; all that the child does after it is not.  The properties say where they
do not speak of such a child, whose `_inline_inflight` may never come down (section 6).  The
locks of the identity and the session, which no call with a deadline takes, are in
`ClientEvents`, which does not fork.

### 2.9 `PathOwnership`

Several processes, each with its registry `_OWNED_PATHS` and its lock, several stores
in each, and one path.  `holder` is the open file that has the advisory lock.

| Model | Code |
| --- | --- |
| `owned`, `mutex` | the path is in `_OWNED_PATHS`; who is inside `_OWNED_PATHS_LOCK` |
| `file` | `_lock_descriptor`, as the open file it refers to; a fork shares it |
| `New` ... `Loaded`, `LoadFails` | the constructor: registry, opening the file, `flock`, `_load` |
| `Shutdown` | the client leaves `_LIVE_INSTANCES`; its store stays open |
| `Collect`, `Unregister` | `__del__`, hence `close` and `_release_ownership` |
| `CollectInside` | the same, run by the collector in the thread that is inside the registry: both wait for ever |
| `Fork`, `Repair`, `HookDone` | `fork()`, and `reset_for_child` of each live client |
| `Start`, `Dies` | processes come and go; the descriptors of a dead one are closed |

`flock` is modelled as POSIX has it on Linux: the lock belongs to the open file,
`LOCK_UN` through any copy of its descriptor releases it, and so does closing the
last copy.  An object that another thread was building or closing at a fork is
`"frozen"` in the child; a fork between opening the file and locking it leaves the child a
copy of the descriptor that nothing closes, so that the lock outlives the parent.

`__del__` runs wherever the last reference is dropped, or wherever the collector happens to
run.  Most of these places are no different from a thread of its own, which is `Collect`.
One is: inside `with _OWNED_PATHS_LOCK` the finalizer waits for a lock that is not reentrant
and that its own thread, suspended under it, has.  Nobody gives that lock back, in this
process or in its children: `mutex` is `Ghost`, as it is in the child of a fork during which
another thread was inside.

## 3. Runs

The bounds are chosen so that the interesting cases do happen: batches of two
events so that they split, a split budget small enough to run out, queues small
enough to overflow, as many application threads as the property is about.

| Run | Instance | Shows |
| --- | --- | --- |
| `manager` | one caller, 3 events, batches and queue of 2, budget 2, log with failing writes, 2xx/400/none, `add`, bounded `flush`, both shutdowns, a fork at any point after which no log is kept | conservation through splits, retries and forks, write-ahead, the ledger, exact counters, nothing stranded behind a shutdown, a child that leaves its parent's events and log alone, and that a bounded shutdown returns |
| `shared` | two callers, 2 events, batches of 2 that split to the end (budget 3), log, 2xx/400/none, unbounded `flush` and shutdown, a worker that may fail for ever | deliveries exclude each other, a `flush` that returns True has drained what it owed, among concurrent flushes, every call returns |
| `worker` | the worker alone dispatches, 5 events, batches and queue of 2, timer, log, 2xx/4xx/none | order of events at the server while no batch is split; the queue exceeds its limit by at most what was being dispatched; every event leaves memory |
| `transport` | two threads, 2 batches, log, one retry, timeout 2, clock to 4, `Retry-After` longer than its cap, `send` without and `recover` with a deadline, `persist`, process crashes | deadlines bound the sum of all waits; `Retry-After` holds for later calls and over restarts; replays are in order; the log is `DurableLog` |
| `disk` | two threads, 3 batches, room for 2, failing writes, crashes of process and machine at every step of a write, no retries, clock at 0 | promised batches survive, acknowledged ones stay gone, the log can be loaded, outcomes are honest |
| `events` | two threads, two users (both symmetric), 4 calls, session timeout 1, clock to 2; all payloads, events and configurations around each limit | no forgotten user is joined to a later visitor; sessions rotate when idle for too long, `identify` apart, and only then; the rules are the documented ones |
| `client` | main thread and another, 2 events, log with failing writes, every operation | exact counts of inline sends, conservation, `EventCustody`, one sender per event, `pending` within its bounds, no send after a shutdown, calls that keep their word, bounded calls return where no lock was inherited |
| `ownership` | two processes, two stores each | one store per process and one live owner of all; the hook, the constructors and the finalizers end, unless the registry's lock is lost |
| `halves_swapped`, `queue_persisted`, `fork_unlocks`, `flush_refused` | smallest instance that shows it | disagreements between comments and code, section 6 |

Why the bounds suffice: every interaction in the code is between the worker, one
or two callers and the log; a batch of two is the smallest that splits, a third
event is what is left in the queue meanwhile, a fourth and a fifth fill the queue while
a batch is being sent that will be put back.  The split budget of the code is 64; three is what a batch of two
needs, and two lets it run out, which with 64 takes a batch of more than 32 events.
`worker` has no 400 in it, because a 400 ends the order of events (section 6, 1); batches
that split are in all the other runs.  In `transport` a timeout of two and a clock to four leave
room for a pause, an attempt, a backoff and a second attempt before, at and after a
deadline of two; the clock stopping at its bound is why deadlock is not checked.
In `disk` a clock that moves would only repeat what `transport` shows.  In `events`
four calls are two threads that each identify, reset or track twice, and a clock to
two lets a session with a timeout of one expire.  In `client` a second event is what
one thread sends while the other replays, waits or is interrupted over the first.
In `ownership` two processes are a parent and a child, or two strangers; a process
that dies starts again, so generations are unbounded, and `Files` has one open file
for each store.  The proofs of section 5 do not depend on the bounds.

Deadlock is checked in every passing run of the manager and in `ownership`.
`transport` and `disk` end where the clock or the batches do, `events` where the calls
do, and `client` where the process exits; they say `CHECK_DEADLOCK FALSE`.

`JobsWellFormed` of the manager and `TypeOK` of `ClientEvents` are in no run: they are
proved for every instance (section 5).

## 4. Fairness

* `ShutdownFairness`: only the shutting-down thread runs, and its deadline passes.
  Under nothing more, a bounded shutdown returns.
* `ThreadFairness`: each thread runs (weak fairness), which the operating system
  provides, and every request ends, because attempts are finite and each has a
  timeout.  Strong fairness only where threads compete: for the delivery lock, and
  for the condition's lock at a moment at which a flush can go on.  To get the delivery
  lock and find the log full counts as getting it.  The worker
  sleeps `_WORKER_RETRY_BACKOFF_SECONDS` after a failure, so it cannot hold a
  flush off for ever; an `RLock` that starves one thread for ever is excluded.
* `ServiceFairness`: the timer runs, and the endpoint answers again and again.
  Only `EventsLeaveMemory` assumes it.
* `Deadlines` (`ClientLifecycle`): a thread that can run runs, and deadlines pass.  It
  is not assumed that a request ever ends, or that anyone gets the delivery lock: the
  calls that were given a deadline return all the same.
* `Fairness` (`PathOwnership`): constructors, finalizers and the hook run; strongly for
  the registry's lock, which threads compete for and hold for one test and one write.

## 5. Proofs

Eight modules hold proofs.  They speak of every number of callers, threads, events,
batches, processes and files, every size and limit, every set of answers, with or without
log, timer and failing disk, under the assumptions on the constants that the modules
declare (`ManagerAssumption`, `StoreAssumption`, `TransportAssumption`,
`EventsAssumption`, `RulesAssumption`, `InputsAssumption`, `LifecycleAssumption`,
`OwnershipAssumption`: sizes that the configuration makes positive, sets that are finite,
inputs that have their fields).  Three more are made where a theorem
names them:

* `PowerMayFail => DirectorySync` (`PromisesKept`, `WireFollows`, `NeverSentAgain`,
  `CallsAreHonest`, `ServersAreHeard`): where the machine, and not just the process, may
  stop, directories can be synced.  Without that these properties are about `file` only,
  which a power failure may set back.
* `OneDispatcher` (`EventsSentInOrder`): batches are not split, either because the server
  does not answer 400 or because a batch is one event; the calls are `add` and an
  unbounded `shutdown`; and if `shutdown` is among them, one thread makes them all.  So
  the worker dispatches until it exits, and the shutdown after it.  With two dispatchers,
  or a bounded shutdown beside a worker in the middle of a request, newer events do
  overtake older ones; `halves_swapped` shows it of a split.
* `~PowerMayFail` (`TransportKeepsLog`): only processes stop.  `DurableLog` is about what
  `_path` holds; a machine that stops may go back to the contents before the last
  replacement, which is not a step of a queue.  `NeverSentAgain` and `PromisesKept` say
  what remains true then.

### 5.1 The manager: `BatchManagerProofs`, `CustodyProofs` and `OrderProofs`

| Theorem | Property |
| --- | --- |
| `InductiveInvariant` | `IInv`, the conjunction of the five below |
| `TypeCorrect` | `TypeOK` |
| `BatchesWellFormed` | `JobsWellFormed` |
| `OneDeliveryAtATime` | `OneDelivery` |
| `LogWrittenAhead` | `WriteAhead` |
| `ShutdownStrandsNothing` | `NothingStranded` |
| `EventsConserved` | `Conservation` |
| `ManagerKeepsLedger` | `KeepsLedger`, the refinement of `EventLedger` |
| `InflightCounts` | `InflightExact` |
| `QueueStaysBounded` | `QueueBounded` |
| `FlushesDrain` | `FlushDrains` |
| `ForksKeepInvariants` | the parts of `IInv`, in a process that forks |
| `ParentsKeepTheirEvents` | `ParentKeepsItsEvents` |
| `EventsSentInOrder` | `SentInOrder` |

None of the five parts of `IInv` is inductive alone.  `TypeOK` needs `JobsWellFormed`:
that a segment is a non-empty slice of the batch is what keeps `lost`, `delivered` and
`done` numbers and the queue a sequence of events.  `WriteAhead` needs `OneDelivery`:
what a replay acknowledges is the head of the log, and it is only because nobody else is
posting that the record of a posted batch cannot be it.  `OneDelivery` carries "a replay
has no more to do than the log holds", because shutdowns append to the log without the
lock.  `NothingStranded` needs the places of the shutdown (`join` and `mark` only in a
closed manager) to know that nothing is added once the mark is set.  The proofs go action
by action: `TypeStep` and one lemma per invariant.

`CustodyProofs` is about where events are.  An event is in the hands of a *holder*: the
queue, the unresolved part of a thread's batch, or a shutdown's list (`Holding`); the log
is beside them.  `Moved` says in eleven cases how a step can move events between these
places, each with what it does to the totals, to the log and to what is on the wire, and
the lemmas named `...Moves` show, action by action, that every step of the manager is one
of them.  What follows is then proved once per case and not once per action:

* `Conservation` with two strengthenings (`CustodyInv`).  `NewEvents`: events are numbered
  as they come, so one that comes is nowhere yet.  `Written`: what a shutdown has just
  written is not in memory, not in a larger record and not a parent's, since between its
  write and its check (`transport.py:132-136`) a replay may remove the record, and the
  shutdown then counts the event and gives up the rest.
* `KeepsLedger`: the custody of an event is a function of its fate (`CustodyByFate`, from
  `Conservation`), each case of `Moved` is a step or a stutter of the ledger, and the
  totals grow by the number of events that are settled.
* `InflightExact`: `inflight` is the size of a finite set of (thread, place in its batch),
  and each case adds to the set or removes from it what it adds to or takes from the
  counter.  Batches are bounded (`BatchesBounded`), which makes the set finite.
* `QueueBounded`: a batch put back moves from one term of the sum to the other; an event
  is only admitted below the limit, by a caller that has no batch of its own.
* `FlushDrains` needs two histories tied to the present (`FlushInv`): `MineDelivered`, that
  what a flush dispatched without failing is delivered or still to be sent by it, and
  `OwedKnown`, that what it owed had been accepted.  That the last check of `flush` sees
  nothing queued, nothing in flight and an empty log is enough only because of
  `InflightExact` and `Conservation`.  What the theorem does not say is that everything owed
  was delivered: that is `FlushDelivers`, and false (section 6, 4).

All of this holds of a process that forks (`SpecFork`), the refinement included: the child
is as a new manager is (`Blank`), but for what has been settled, whatever the parent's
threads were doing, it keeps no log, and the fork itself is the ledger's `Fork`.
`WriteAhead` says of a manager without a log, the child among them, that nothing is written
to one; `InflightExact` counts a batch as a whole until it is finished, since `_inflight`
is lowered once for all of it (`batch.py:365`).

`OrderProofs` puts what the SDK owes in one line: the log, then the one hand that has events
(a batch, or a shutdown's list), then the queue.  `OrderInv` says that it is one line:

* `Turns`: one thread at a time dispatches, because a shutdown that has passed `join` finds
  the worker gone and nobody starts another.  Hence at most one hand has events.
* `Whole`: a batch is one segment, so it is answered as a whole.
* `LogEmptied`: the thread that sends has the log to itself.  The snapshot a replay walks
  *is* the log, and a batch is on the wire with nothing but its own record in the log.
* `InLine`, `Rises` and `StoredFirst`: each part of the line ascends, and each is before the
  next one.  A failed batch goes back to the head of the queue, and a shutdown writes the
  queue to the log from its head: both keep the line, and both would break it at the other
  end.

What is answered then is the head of the line, which is `SentInOrder`.  It goes along the
cases of `Moved`, one lemma per case.

### 5.2 The log: `TransportProofs` and `LogProofs`

| Theorem | Property |
| --- | --- |
| `StoreConsistent`, `TransportConsistent` | `MemoryMatchesFile` |
| `TransportTypeCorrect` | `TypeOK` |
| `PromisesKept` | `LogKeepsPromises` |
| `LogCanBeLoaded` | `LogLoads` |
| `WireFollows` | `WireFollowsLog` |
| `NeverSentAgain` | `NeverResent` |
| `CallsAreHonest` | `HonestOutcome` |
| `TransportKeepsLog` | `KeepsLog`, the refinement of `DurableLog` |

`MemoryMatchesFile` is proved twice: of `BatchStore` alone, whatever is put, acknowledged
or paused, and of the store under the transport's threads.  It is inductive as it stands
(the clause about `previous` is what makes it so); both theorems rest on
`StoreStepMatches`, the second also on `TransportStep`: the transport changes the store
through its operations only.

`TypeOK` of `HttpTransport` is inductive with `CallsInPlace`, what a call has in hand at
each place: that a replay has records left while it sends is what makes its rest a
sequence, and that a request is only made with at most `MaxRetries` failures before it
bounds the attempts.

Four parts make `LogKeepsPromises` inductive (`PromiseInv`).  `OneMutation`: at most one
thread is inside a mutation, and `write` knows of it, which is the store's lock.
`PutIsThere`: what is being put is in memory, hence on disk once the file is replaced, by
`MemoryMatchesFile`.  `AnsweredFirst`: only a batch that was answered for is acknowledged.
`MemoryKeepsPromises`: what is promised is in memory as well as on disk; it is the part one
would forget, and without it the next put could write a file without the batch.

`LogLoads` needs that the limits hold of every version of the log there is: memory, file,
what a rollback goes back to, and what a power failure may leave (`AllFine`).

`LogInv` adds what the calls know, for the other four.  `OneHolder` is the delivery lock;
`OwnBatch`, `UsedFirst` and `FreshPuts` say that a batch that is not written yet is nowhere;
`SendersKept`, that the record of a batch being sent stays until its own send removes it;
`ReplaysOldest`, that what a replay has still to do is the oldest part of the log, in
memory and on disk, although other threads append to it; `Removed` and `GoneForGood`, that
what was acknowledged is in no version of the log any more; `ToldTruly`, what a call knows
when it is about to return.  For the refinement `Shaped` is added: the mutation that is
about to replace the file appends the batch of the thread that puts, removes the one of
the thread that acknowledges, or changes no batch.

### 5.3 Time: the second part of `LogProofs`

| Theorem | Property |
| --- | --- |
| `DeadlinesKept` | `DeadlineKept` |
| `ServersAreHeard` | `RetryAfterHonoured` |

A deadline is kept because whatever a call sleeps for ends before it (`OnTime`), and the
clock does not pass the time at which somebody wakes.  For `Retry-After` the invariant
(`PatienceInv`) says where the time the server asked for is written down at every moment:
in the call while it works on the batch, in the record of the log when no call does, in
the part of the snapshot that a replay comes to later, and in the file as in memory, so
that a crash does not lose it.  What could not be written down is forgotten, in the model
as in the code: a pause whose write fails, and the `Retry-After` being waited for when the
process stops (section 6).  `ServersAreHeard` claims nothing of these.

### 5.4 The client: `ClientEventsProofs` and `LifecycleProofs`

| Theorem | Property |
| --- | --- |
| `EventsTypeCorrect` | `TypeOK` of `ClientEvents` |
| `ForgottenStaysForgotten` | `ForgottenUserStaysForgotten` |
| `SessionsRotate` | `SessionRotation` |
| `RulesAreExact` | `RulesExact` |
| `InflightIsExact` | `InflightExact` |
| `ShutdownIsAwaited` | `Awaited` |
| `LifecycleTypeCorrect` | `TypeOK` of `ClientLifecycle` |
| `InlineConserved` | `InlineConservation` |
| `EventsHaveOneSender` | `OneSender` |
| `PendingIsBracketed` | `PendingBracket` |
| `ReturnsAreHonest` | `ReturnsHonest` |
| `InlineKeepsCustody` | `KeepsCustody`, the refinement of `EventCustody` |

Four parts make `ForgottenUserStaysForgotten` inductive: `UserCurrent`, that a user id that
is set was given since the last reset began; `VisitorsCounted` and `Minted`, that each reset
mints one visitor, so that no visitor is ahead of the resets, and that no session id is
ahead of those minted; and `ReadInOrder`, that what a call has read of the user is not older
than what it has read of the session.  `SessionRotation` rests on `Minted`: a new session
is another one because its id is.  It says that a session is replaced only when it was idle
for longer than the timeout, or by `reset`, and that an idle one is carried on by `identify`
only; it is not "when, and only when".

`RulesAreExact` needs no invariant: it compares definitions, for whatever sets of inputs and
limits.  `Constructors` says which records the three constructors build; `SentSerializable`,
that the second check of the properties refuses nothing the first one let through; and
`SizeOfWire`, that the size estimated after serialization is that of what is sent.  The sum
over the properties is not expanded: both sides add up the same function.

In `LifecycleProofs` the first invariant, `IInv`, carries the counters.  `SendsDistinct`, that
two threads never send the same event, lets the set of batch ids and the count move
together; `FramesConsistent`, that a frame in `post` or `settle` is a send, lets every other
step leave both alone; `Awaited` follows from the count.  The second, `LInv`, says of each
call what it has in hand and still owes: what is true of a frame at each place
(`CallsPlaced`); that the frames inside the delivery lock are those that post or replay, all
of one thread (`OneInside`); that the rest of a replay *is* the log (`ReplaysLog`), except in a
main thread that a handler has interrupted for good; what a send, the log and the fate of an
event say of each other (`SendsOwed`, `LogOwed`, `FatesKept`); what a client that left the
registry, or that a child has inherited, no longer does (`Ended`); what a reading of `pending`
has counted so far (`Counted`); and that an unbounded shutdown replays when no send is left
(`ShutdownQuiet`).

For the refinement, the custody of an event depends on the calls that have it in hand, the
log and `tracked`.  Only admission, the steps of a send, a replayed record and a fork change
any of these (`OthersKeepCustody`), each for one event but the fork (`OneCustody`).  The case
that is easy to get wrong is the handler that replays the record its own thread is sending:
the event is answered, but the suspended send still has it in hand, so its custody is memory
until the process ends, and nobody takes it back to the log.

### 5.5 The path: `OwnershipProofs`

| Theorem | Property |
| --- | --- |
| `TypeCorrect` | `TypeOK` |
| `OneStore` | `OneStorePerProcess` |
| `LiveOwner` | `LiveOwnerHoldsLock` |

That a live owner holds the lock is not inductive: the step of a store elsewhere may
unlock the open file it shares.  `LockRelied` strengthens it: a store that is being
loaded, or whose client is live, has the lock, and every other copy of its descriptor
will not unlock it, because nothing goes on with that copy or the hook of a child is
about to close it.  The same is said of a file that is open and not locked yet, since a fork
may copy it there.  A copy that may unlock is therefore one that no live client relies
on, which is why `LiveOwner` holds although `OpenStoreKeepsLock` does not (section 6).
`OneStore` rests on `InsideLocked`: a thread between its two steps in the registry is the
one that has its lock.

### 5.6 Only model-checked

* Liveness (`EventsLeaveMemory`, `CallsReturn`, `BoundedShutdownReturns`,
  `BoundedCallsReturn`, `NothingHangs`), which is out of TLAPS's reach.
* The four disagreements of section 6, which are counterexamples.

## 6. Where the code and its documentation part

Four disagreements have a run that shows them:

1. `halves_swapped`: the halves of a batch refused with 400 put themselves back on their
   own when they fail, the left one first, so that the right one ends in front of it and
   newer events are sent before older ones (`batch.py:450-455, 474, 494`;
   `batch.py:15-16` "preserving order").  For the same reason a half that fails is
   overtaken by the other half when that is accepted; this is why `SentInOrder` speaks of
   batches that are not split.
2. `queue_persisted`: between writing a record and asking whether it is there, the
   record may be replayed and acknowledged by the worker; `persist` then reports a
   failed write, and the shutdown gives up the rest of the queue, and counts the
   delivered event as lost (`transport.py:133`, `batch.py:405-410`).
3. `fork_unlocks`: the hook after `fork()` repairs live clients only.  The child's copy
   of a client that was shut down is closed by the collector with `LOCK_UN`, which takes
   the advisory lock from the parent's store (`persistence.py:178-180, 185-196`,
   `client.py:504`).  No live client is harmed, which is `LiveOwnerHoldsLock`.
4. `flush_refused`: `flush()` returns `True` although an event it waited for was refused by
   the server in a batch of the worker, or of another `flush`: it knows the outcome of its
   own batches only.  A refused record of the log is gone in the same way
   (`batch.py:177-181`, `transport.py:154`; `batch.py:158`, `client.py:231` and `README.md:68`
   promise "only when every event was delivered").  What does hold is `FlushDrains`: all that
   was owed has been answered for, and what the `flush` sent itself was delivered.

What follows was met while modelling, is part of the model or of what it leaves out,
and has no run.  About the manager:

* A bounded shutdown of a durable manager may return while the worker holds a popped
  batch that is not in the log yet (`batch.py:235`; `batch.py:231-232`).
* What replaying the log delivers or loses is in no total (`transport.py:151`;
  `batch.py:123`).
* `pending` counts an event that moves from a batch to the log between its two sections
  once or twice, because the batch ids are read only for batches being sent
  (`batch.py:105-113`).
* A batch refused with a 400 is acknowledged before its halves are written: a crash in
  between loses them (`batch.py:446-457`).
* A record whose acknowledgement cannot be written stays in the log and is sent again
  (the server removes duplicates by batch id); a crash while sleeping forgets the
  `Retry-After` being waited for; a request on the wire may be answered after the
  deadline of the `flush()` that made it; and an event that is older than seven days
  when it is replayed is refused and dropped.

About the client:

* An inline `flush()` waits for sends only through the delivery lock: it may return
  `True` while an admitted send has not taken the lock yet, or after sends without a log
  have failed (`client.py:234-236`).
* The termination handler runs inside whatever the main thread was doing; the locks
  are re-entrant, so it may send the record being sent once more, and it does not
  persist the queue (`client.py:455-476`).
* A copied client that was shut down keeps `_inline_inflight` of the parent's sends and
  locks that nobody can release: `shutdown(None)` in the child may hang, and if the lock is
  that of the lifecycle or of the store (`client.py:102, 243`, `persistence.py:38, 199`), so
  may `shutdown` and `flush` with a deadline.  `BoundedCallsReturn` exempts these two locks.
* `recover` raises when an acknowledgement or a pause cannot be written
  (`transport.py:225-242`): `flush` then raises where it documents `False`, and
  `shutdown(None)` leaves the client in `_LIVE_INSTANCES` (`client.py:236, 257-258`).
* `__del__` of a store may run inside the registry's section of the same thread and
  wait for a lock that is not re-entrant (`persistence.py:192-196, 266-303`): that thread
  hangs, and so does every constructor and finalizer after it.  A fork while another thread
  is inside has the same effect in the child.  `NothingHangs` exempts both.
* An event may carry the user of a later `identify` with the visitor of before a
  `reset`, never the other way round (`client.py:269-273`).
* `identify` carries an expired session on (`session.py:50-58`), although
  `session.py:22-24` says that it rotates after `session_timeout` seconds of inactivity;
  and so does a `touch` whose first reading of the clock is just in time.
* The functions of the module test `is_shutdown` first and call after that
  (`client.py:377`): a shutdown in between drops the event in silence.
* `flush_interval` may be NaN or infinite (`config.py:44`); the patterns of `types.py:15-16`
  end in `$`, which lets a line break through, and `\d` lets other digits through.

## 7. Plan

1. Done: `BatchManager`, `EventLedger`, `ForkedManager`, and the proofs of `IInv`.
2. Done: `BatchStore`, `HttpTransport`, `DurableLog`, and the proofs of
   `MemoryMatchesFile`, `TypeOK` and `LogKeepsPromises`.
3. Done: `InputRules`, `ClientEvents`, `ClientLifecycle`, `PathOwnership`, and their proofs.
4. Done: the proofs of `CustodyProofs`, `LogProofs`, `OrderProofs`, and of the calls of the
   inline client; `EventCustody`, and both ways of sending against it.  What sections 2.1 to
   2.9 promise for safety is proved.
5. Next, proofs: an order for several dispatchers, where only what one thread dispatches is
   in order.
6. Next, models: the manager over the log with crash and restart, so that the split of
   a refused batch is seen together with its acknowledgement; `parse_retry_after`.

## 8. Not modelled

* `pending` and `requeued_total` of the batch manager: they only report.  `pending` of
  an inline client is modelled.
* A signal handler inside a call of a *batching* client (`_cv` is re-entrant), and several
  clients in one process, which share nothing but the registry of live instances.
* The functions over the module's default instance, and global properties, which are
  one dictionary under the identity's lock.
* Rendering of events, contexts and revenue facts as dictionaries (what is `None` is left
  out), JSON, HTTP, the wording of messages, and `Retry-After` dates.
* `HttpTransport.close`, which nothing in the package calls.
* `context.py`, `__init__.py`, scripts and CI hold no protocol.
* Platforms without `flock` (`persistence.py:272`), where only the registry excludes.
* Disks that lie about `fsync`, files edited by others, and clocks that are set.

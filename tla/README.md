# A TLA+ model of PitBox

This directory holds the verification project for the PitBox repository: TLA+
modules for its scheduler, its runtime and its Garage agent, TLC configurations
that check them on small instances, and theorems about most of them that the TLA+ proof
system checks for every value of the constants. `PROJECT.json` maps each definition to the lines it models and lists runs, mutants, findings,
hazards and theorems.

To check a run: `tlc -config X.cfg MCModule.tla`, with the module that
`PROJECT.json` names for `X.cfg`. To check the proofs: `tlapm X.tla` for each
module `X` whose name ends in `Proofs`; `BatchRunProofs` takes some minutes, the others less.

## 1. The system

| Component | Source | State | Operations | Hard behaviour |
|---|---|---|---|---|
| Shared lane pool | pit-scheduler `lib.rs` | a slot per lane under a mutex, a condition variable, three atomic counters | `run_one`, `run_one_observed`, `shared_snapshot` | threads that wait and wake, counters outside the mutex, panics of callbacks |
| Batches | pit-scheduler `lib.rs` | `run_lock`, id counter, a `RunState` per batch | `run_many`, `run_many_detailed`, `run_many_classified` | one worker per lane, shared cursor, panicking tasks |
| Node | pit-node `lib.rs` | a prepared artifact and a scheduler | `execute`, `execute_many...` | tallies that must agree with the scheduler |
| Dispatcher | pit-node `lib.rs` | table of prepared artifacts | `register_with_report`, `execute_http...`, `execute_http_inline` | lookup and registration from several threads |
| Garage requests | pit-garage `main.rs` | warmup map of OnceCells, two semaphores | `execute`, `warmup`, `warmup_once` | dropped futures, blocking tasks that outlive them, failed cells |
| Nested invocation | pit-garage `main.rs`, pit-runtime `lib.rs` | the lane and permit a caller holds | `invoke`, `send_request`, `call` | lanes that wait for lanes, across Garages; client timeouts |
| Circuit session | pit-garage `main.rs` | the session id | `register`, `spawn_heartbeat`, `heartbeat` | answers lost or late, requests of an earlier process still under way |
| Compiled cache | pit-runtime `lib.rs` | files under a shared directory | lookup, publish, remove, evict, restore | unlocked concurrent file operations, crashes |
| Execution control | pit-runtime `lib.rs` | token, deadline, signal, limiter | epoch callback, `cancel`, `memory_growing` | limits that race with each other and with the guest's end |
| Command execution | pit-runtime `lib.rs` | one store | `execute`, `execute_p2` | which cause names the end |
| HTTP execution | pit-runtime `lib.rs` | store, outparam, bounded body channel, response task | `execute_http_with_invoker_timed` | guest, task and caller wait for each other |
| Paddock store | pit-runtime `lib.rs` | writers in the resource table | `begin_write`, `write`, `commit`, `abort`, `drop`, `delete`, `get`, `read_range`, `list_objects` | calls after the writer was taken, an exchange that ends during a call, a range read in two steps |
| Gateway signature | pit-runtime `lib.rs` | none | `verify` | encodings and boundaries |

Interaction. A Garage request passes the admission semaphore, the warmup
(singleflight, preparation budget, artifact store, compiled cache) and then
`run_one_observed`; on its lane the runtime executes the guest, which may call
other services through the Garage's invoker, PitLane and some Garage again. A
PitNode batch uses `run_many_classified` with `execute` as its task. Both APIs of
the scheduler share lane numbers and ids only. Heartbeats read `shared_snapshot`.
PitLane, Circuit, Wasmtime and the file system are external to this repository.

What makes each part correct:

- pool: one execution per lane, no caller asleep beside a free lane, exact
  counters, a lane is given back by the call that took it;
- batch: every job once, results in id order, events a history, everything at rest in
  the final snapshot, no batch blocked by an earlier one that unwound;
- Garage: permits conserved, lanes only for prepared artifacts, one preparation per
  digest, a budget that holds, an answer that says truthfully whether a guest ran;
- cache: never an authority, never partial, within its budget;
- session: what the Circuit was told in it is true, and it is told again after every loss;
- Paddock writers: an object is published whole, once and only by a commit;
- executions: a status with its true cause, limits that really end a guest,
  responses that are whole, nobody waiting for somebody who waits for him.

## 2. Modules

| Module | Models | Uses |
|---|---|---|
| `LaneGrid` | abstract specification: ids queue, get one lane, give it back or lose it | |
| `SharedLanes` | `run_one_observed` and `shared_snapshot`, one access to shared state per action | implements `LaneGrid` |
| `SharedLanesProofs` | theorems about `SharedLanes` | `SharedLanes`, TLAPS |
| `BatchRun` | `run_many_classified` and the report of pit-node | |
| `BatchRunProofs` | theorems about `BatchRun` | `BatchRun`, TLAPS |
| `RequestContract` | abstract specification: a request is turned away, or served once and answered with what it came to | |
| `GarageWarmup` | `execute`, `warmup`, `warmup_once` | implements `RequestContract` |
| `GarageWarmupProofs` | theorems about `GarageWarmup` | `GarageWarmup`, TLAPS |
| `GarageSession` | `register`, `spawn_heartbeat`, `heartbeat` with a Circuit | |
| `GarageSessionProofs` | theorems about `GarageSession` | `GarageSession`, TLAPS |
| `NestedGrid` | nested calls over lanes of several Garages, or inline | |
| `NestedGridProofs` | theorems about `NestedGrid` | `NestedGrid`, TLAPS |
| `CompiledCache` | the cache, one file operation per action | |
| `CompiledCacheProofs` | theorems about `CompiledCache` | `CompiledCache`, TLAPS |
| `GuestControl` | cancellation, deadline, memory limit, epoch callback | |
| `CommandExecution` | `execute`, `execute_p2` | extends `GuestControl` |
| `CommandExecutionProofs` | theorems about `CommandExecution` | `CommandExecution`, TLAPS |
| `HttpExecution` | `execute_http_with_invoker_timed` | extends `GuestControl` |
| `ObjectWrites` | abstract specification: a writer publishes what it accepted once, or nothing | |
| `PaddockHost` | the store and its writers beside the exchange of the guest that uses them | extends `HttpExecution`, implements `ObjectWrites` |
| `PaddockHostProofs` | theorems about `HttpExecution` and `PaddockHost` | `PaddockHost`, TLAPS |
| `MC...` | model values and sets for TLC | one per checked module |

Reading the modules beside the code:

- `SharedLanes`: `pc[c]` follows one caller through `run_one_observed`: `Enter`
  (id and `shared_waiting`), `Lock`, `Reserve` or `Sleep`, `Admit`, the observer,
  `Activate`, `RaisePeak`, the task, `Relock`, `ClearSlot`, `Deactivate`, `NotifyOne`.
  Sleeping releases the mutex in the step that enters the wait set, as a condition
  variable does. The holder of the mutex is a variable, since atomics are also written
  without it. No code panics while it holds the mutex and every lock recovers
  from poisoning, so there is no poisoned state. `rpc[r]`, `snap[r]` are a reader inside
  `shared_snapshot`, one load per action.
- `BatchRun`: `worker[b][l]` is the thread of lane l in batch b, `run[b]` its `RunState`.
  Steps of a worker that no other thread can observe are joined. `RunOneTakesId` is a `run_one`
  call beside the batches as far as they can tell: it takes an id from the common counter. `Sorted` is the
  arrangement of the results by an order of their indices, which is the one order when ids differ.
- `GarageWarmup`: `pc[r]` is a point of the handler's future. A connection that ends
  (`Disconnect`) drops the future at an await point only; `job[r]` and `run[r]` are
  blocking tasks and go on. A OnceCell is named by the request that inserted it, `filler` is
  the request whose initializer runs; when it is dropped a waiter may take over.
- `CompiledCache`: one digest is one entry (one engine fingerprint). `write_atomic` is four steps: the directory is
  created, a temporary file opened (`temp[p]` is "part"), filled and synced ("whole"), and renamed; the rename publishes
  what the file holds by then. Any of them may find that somebody removed the directory or the file (`PublicationFails`), and a preparation may
  end at any of them, because the process dies or the file system refuses a write (`Crash`); what is in its temporary file stays there. Removing a directory deletes its
  files in any order, one per step, temporary files of others among them, and then the directory if it is empty (`dirs`);
  it deletes only what it saw. `remove_cache_entry` then deletes the metadata by its path once more, which may be
  somebody's new one. Entry sizes are one unit. `alone[p]` is a history
  variable: no other preparation has run beside p's. `sound` remembers that the cache was whole at the start and has room
  for every digest that is prepared.
- `GuestControl`: a guest is in wasm code, in a host call, returned or trapped. The
  callback runs in wasm code only. `late` is time passing the deadline.
- `HttpExecution`: the handler publishes its response before or after it writes
  its body (`order`); a write into a full channel blocks inside the host; a returning guest may
  leak what it holds. A guest may also begin the body of a request of its own (`unsent`); `send_request` collects that
  body inside the host call (`sending`) before it invokes anybody, so it does not return while the guest has not finished it
  (`Starved`). An exchange is `Endless` when it is `Stuck`, `Starved` or `Leaked`, the three states in which it waits for its own guest.
- `NestedGrid`: a lane is counted, not named. PitLane may route a call to any Garage. `inline` is fixed by
  the embedder: the Garage's invoker calls remotely, `execute_http_inline` on the lane of the caller.

  `Callers(r)` is the least set with r's parent that contains the parent of each of its members.
- `PaddockHost`: `entry[w]` is the table entry of a writer (`Some`, `None` once `take` was called, deleted),
  `call[e]` the host call the guest of exchange e waits in. Calls that another thread cannot see in parts are one
  step; `commit` takes the writer in one step and reaches the backend in another, and `read_range` looks the
  object up (`GetObject`), reads a range of the blob it names (`ReadBlob`), each of which may fail (`ReadFails`), and returns, while others
  replace or delete the object. The exchange goes on beside the call except for its guest; its report
  drops the table. Calls refused before they change anything, `get` and `list_objects` are stuttering steps.
  `saw` is a history variable of a read.
- `GarageSession`: one task, one request at a time (`request` turns into its answer). What the task stopped waiting
  for, or a process that died had sent, stays in `late[f]`, where f counts the faults, and may be delivered at any time;
  several copies of one request may be under way. Deaths, timeouts and sessions
  lost by the Circuit are counted by `faults`.

Modules contain variants marked "broken": plausible mistakes in a handler, with which
every property of a passing run has been seen to fail. They are in no next-state relation.

## 3. Runs

Passing runs, with what they show:

| Run | Instance | Shows |
|---|---|---|
| `shared_lanes_safety` | 3 callers, 1 reader, 2 lanes, 4 calls, 2 panics, 1 spurious wakeup | one execution per lane, no lost wakeup, exact waiting count, consistent snapshots, lanes lost by panics only, never at rest with a call inside while a lane is left |
| `shared_lanes_live` | 3 callers, 1 panic of a task | each call is admitted unless all lanes are lost; refinement of `LaneGrid` with its fairness |
| `batches` | a batch of 3 and one of 0 or 1 jobs, 2 lanes, success, failure, panic | one worker per lane, whole results in id order although ids have gaps, snapshot at rest, peak covers the event log, tallies agree, every batch ends |
| `warmup` | 3 requests, 2 digests, failures, disconnects | permits conserved, hot before lane, one preparation of an undisturbed digest, failed cells leave, "not started" is true, every admitted request ends, refinement of `RequestContract` |
| `cache` | 2 preparations, 2 digests, room for 1, deaths, any corrupt start | a preparation that runs alone never fails, none does in a cache that was whole and has room, its publication fits, nothing partial becomes visible, also by a death within a write; what was prepared stays warm |
| `command_status` | 2 executions, shared token, 1 timeout | a status names what ended the guest, interrupts are final, limits end guests |
| `http` | body of up to 4 chunks, channel of 2, leaks, cancel and timeout; a writer of one chunk, one key that others change too | a response is whole, published bodies drain, returned handlers are reported, limits end exchanges that are not `Endless`, writers refine `ObjectWrites`, a range is of its time |
| `session` | 2 digests, 3 deaths, timeouts or lost sessions | the Circuit's view in the held session is true, prepared artifacts become known |
| `nested` | 4 requests, 3 Garages of 1 lane, remote or inline, both depth limits 2 | a chain is in a Garage once and its depth is its length, inline calls need no timeout, every request ends |

Runs that show the code differs from its documentation:

| Run | Says | Code |
|---|---|---|
| `warmup_doc_singleflight` | singleflight prevents repeated warmups (README.md:120) | a late waiter of a failed cell removes the cell of the next attempt |
| `cache_doc_fallback` | bad entries fall back to the canonical artifact (README.md:106) | a removal by one preparation fails the rename of another |
| `http_doc_limit` | "HTTP execution exceeded its timeout" (runtime `lib.rs:1646`) | the handler's error is reported first |

Other places where the code is narrower than its text; the properties carry the condition that
makes them true of the code:

- "A lane cannot contain two active executions" (scheduler `lib.rs:388`) holds among batches, by `run_lock`, and among
  single tasks, by the slots. A batch and a single task on one scheduler do not look at each other: `run_many_classified`
  never reads `shared_lanes`. The node uses one API and the Garage the other, so no caller of this repository meets it.
- `shared_active`, "executions occupying shared lanes" (scheduler `lib.rs:259`), counts an execution
  only after its observer returned: `SnapshotRunningFits` says at most, not exactly.
- The observer "cannot affect lane ownership or admission" (321), but its panic loses the lane like one of the
  task: `LostLanesArePanics` counts both.
- The preparation budget (README.md:117) bounds the handlers that hold a permit, as `PermitsConserved` says; a
  preparation whose client disconnected runs on after its permit was given back.
- An entry larger than `max_bytes` is evicted by its own publication, and the preparation fails instead of
  falling back to the canonical artifact (README.md:106): `AloneFallsBack` asks for `MaxBytes > 0`, in entries.
- The body is drained while the guest runs (runtime `lib.rs:1615`) only once the response is published: a handler
  that publishes after a body larger than the channel is `Stuck`, also for its timeout, because the
  epoch callback does not reach a guest inside a host call. A guest that returns and `Leaked` its outparam or its body leaves
  the caller waiting.
- `send_request` collects the guest's outgoing body before it invokes anybody (1946, 2004-2011), with no timeout. A
  guest that calls `handle` before it has finished that body waits for itself and is `Starved`: neither its timeout nor a cancellation
  ends it. `LimitsEndExchange` and `ExchangeGoesOn` except these three kinds of guests (`Endless`).
- Nested calls are "handled inline" (README.md:86) by `execute_http_inline`; the Garage's own invoker holds its lane
  during a remote call, and two Garages may wait for each other until the 10 s client timeout:
  `InlineNeedsNoTimeout` is about inline calls, `EveryRequestEnds` needs the timeout.

Bounds and why they are enough. Two lanes and three callers give contention with
a waiter, a newcomer that overtakes a woken caller, and a release at the same time; four
calls let a caller come back. Two panics lose every lane. In `batches` three jobs on two lanes make one worker take a
second job while the other runs, and the second batch runs before, after or never, also after a panic. Three requests
for one digest are a filler, a waiter and a latecomer; the fourth in `warmup_doc_singleflight` makes the second
preparation. A cache of one entry and two digests forces an eviction on each publication of another digest;
two preparations meet in every pair of file operations, and a third finds nothing on disk that a corrupt start does not
contain. The hypothesis of `SoundCacheNeverFails` asks for room, so with one entry its
preparations are of one digest there; `SoundSucceeds` proves it for any number. A channel of two chunks and a body of four is full, drained and full
again. Four nested requests are two chains of two, the smallest cycle of two Garages, or a chain through all three, whose last
request has reached the depth limit and may not call on, or a chain that comes back to its first Garage from the second and is refused. Of the caller's and the callee's limit only the smaller one can bite, and in
the run they are equal. One writer and one key suffice for the store because writers share nothing but the
object, and others change that at any time. Three faults in `session` are a lost answer, a death and a lost session in one
behaviour, with several messages late, copies of one request among them.
`MaxCalls`, `MaxPanics`, `MaxSpurious`, `MaxFaults`, `Counts`, `ForeignIds`, `MaxChunks`, `MaxWrites`, the set `Requests` and the set `Preparers`
are bounds of the models; everything else is a parameter of the code. Deadlock checking is off, except in `session`,
because the other systems may stop: callers return, requests are answered. Callers,
digests and preparations are symmetric where no liveness is checked.

Fairness. Threads, async tasks and blocking tasks run: weak fairness of each thread's own steps
(`SharedLanes`, `BatchRun`, `GarageWarmup`, `NestedGrid`). The mutex is held for short times only and is
therefore fair enough as weak fairness of the pending step: no thread is assumed to win
it against a stream of others, and `MaxCalls` bounds that stream. A task or guest
passed to the scheduler ends, or panics; nobody has to call. In `GuestControl` users a guest owes
nothing: only the epoch ticker (a thread that increments every millisecond) is assumed to
reach a guest that is in wasm code again and again (strong fairness of `EpochCheck`), and
host calls, the response task and the caller to go on. That a host call which waits for somebody else returns is an
assumption, not something the runtime enforces, since nothing interrupts a guest inside a host call: the Garage's invoker gives up after 10 seconds, the node's inline invoker returns when
the child's exchange has ended, a sleep is over, and in `PaddockHost` the backend answers commits and reads. Calls that wait
for the guest itself are not assumed to return: a write to a full channel returns when there is room, and a
`Starved` request never. In `GarageSession` the
heartbeat task runs, the Circuit answers what reaches it and lets a session expire that nobody renews; nobody must start
a process, deliver a late message or warm an artifact.

## 4. Proofs

`SharedLanesProofs` proves for any finite set of callers, any readers, any number of
lanes and any bounds, from the named assumptions of `SharedLanes` (`LaneCountAssumption`, `ThreadsAssumption`):

- `TypeCorrect`: `Spec => []TypeOK`;
- `PoolNeverStuck`: `Spec => []NeverStuck`;
- `LaneSafety`: `Spec => []OneExecutionPerLane`;
- `WakeupSafety`: `Spec => []NoLostWakeup`;
- `WaitingExact`: `Spec => []WaitingIsExact`;
- `LostLanesCounted`: `Spec => []LostLanesArePanics`;
- `SnapshotsFit`: `Spec => []SnapshotRunningFits`;
- `GridRefinement`: `Spec => Grid!Spec`, the safety part of the refinement that
  `shared_lanes_live` checks with fairness.

`OneExecutionPerLane` is not inductive. Two callers that both stood in the critical section
could reserve one slot, and two calls with one id could be taken for each other, so `LaneInv` adds
`MutexHeld` (whoever is in the critical section holds the mutex) and `IdsInUse` (the
calls under way have distinct ids below `nextId`). `LaneStep` goes through the actions; the interesting ones are `Reserve`,
where the free slot belongs to no owner, and `ClearSlot`, where the owner is unique.

`NoLostWakeup` says that while somebody sleeps the free lanes are at most as many as the helpers:
callers that are woken, scanning, or on their way to `notify_one`. It counts, so its proof
(`WakeupStep`) compares cardinalities: clearing a slot adds a free lane together with a helper that already
is on its way; taking a slot uses up one of each; going to sleep happens only when no lane is free;
notifying turns one helper into another. `MutexHeld` is needed for the last two: nobody frees a lane
between the failed scan and the sleep. `WaitingIsExact` is by the same kind of count, and
`GridRefinement` maps `Enter`, `Admit`, `ClearSlot` and `Panic` to the steps of the grid and all others
to stutters, using `LaneInv` before and after the step.

`LostStep` compares `LostLanes` before and after each step: a panic adds the lane of its caller, which was not lost because
its caller owned it; a release and a reservation change slots of owned and of free lanes only.

`SnapshotsFit` needs a bound on `shared_active` at every moment, since a reader loads it at one moment and copies the lanes at
another. `ActiveFits` is that bound: the calls counted, together with the callers that have taken a lane and are not counted
yet (`Uncounted`), are at most the taken lanes together with the callers that have cleared their slot and are still counted
(`StillCounted`). Whoever is still counted holds the mutex, so a reader that holds it meets none (`LoadFits`).

`NeverStuck` is the safety half of `EveryCallIsAdmitted`: while fewer callbacks panicked than there are lanes and a call is
inside, some caller or reader can move. The proof looks for whoever could be waiting on nobody. If the mutex is
held, its holder is in a critical section and can go on (`MutexOwned`, which adds to `MutexHeld` that a held mutex has a
holder there). If it is free, whoever waits for it can take it. What is left is everybody asleep (`AllAsleep`): then there is no helper, so
by `NoLostWakeup` no lane is free, and no owner, so all of them are lost and by `LostLanesArePanics` there were as many panics
as lanes.

`CommandExecutionProofs` proves, for any executions that share a token and from `TimedAssumption`:

- `CommandTypeCorrect`: `Spec => []CommandTypeOK`;
- `StatusCause`: `Spec => []StatusHasCause`;
- `InterruptFinal`: `Spec => InterruptIsFinal`.

`StatusHasCause` says that a limit is reported only if it was reached and stopped the guest, and a return only of a guest that returned,
whatever has expired since. A status is given from the signal and the limiter, so it needs what these say
(`SignalHasCause`: a stored signal has its reason, and a signal or a refused growth has stopped the guest) and that
nothing moves after the report (`ReportedGuestEnded`). The finality of an interrupt follows from the same invariant: a guest
with a signal is trapped, and every step that moves a guest or stores a signal starts from a guest in wasm code.

`BatchRunProofs` proves, for any batches of any size on any number of lanes, from the assumptions of `BatchRun`:
`BatchTypeCorrect`, `OneWorkerPerLaneAlways`, `ResultsAreOrdered`, `SnapshotsAreAtRest`, `PeakIsCovering` and
`NodeReportsAgree`, that is every safety property of the run `batches`. The inductive invariant relates four
views of a batch that the code keeps apart: the threads, the `RunState` counters, the results and the event log.
Threads are counted by where they are (`Moved`: a step moves one lane between two of these sets), so `running`
is the number of lanes between two points, the cursor the number of jobs claimed, and claimed jobs are those of
living workers, panicked ones and results. A job's id is its batch's first id plus an offset that grows with the job, so
results have distinct ids, and `Sorted` by an order-preserving map of 1..n is what it says (`SortedByIds`: the least index such a
map moved would have nowhere to go). The peak covers the log because a worker raises it to a count that
includes every execution whose start is already logged. The node's tallies are cardinalities of a partition of the results by
status; no induction over the batch is needed.

`GarageWarmupProofs` proves, for any requests, digests, budgets and defects: `WarmupTypeCorrect`,
`PermitsAreConserved`, `LaneAfterHot`, `UnstartedIsTrue`, `FailureIsForgotten` and `PreparedAtMostOnce`. Permits are
counted by their holders. For `PreparedOnce` the invariant says that as long as no request of a digest failed or was
dropped, all of them found the cell that is in the map, and the digest's one preparation is under way in a handler or has
filled that cell (`OneAttempt`). Two more theorems:

- `ContractRefinement`: `Spec => ImplementsContract`. Nothing of the singleflight, the budget or the blocking tasks is left in
  `RequestContract`; `Stage` keeps of a handler's place only whether its request is new, served, answered or gone. The contract counts the
  served requests where the code counts permits, so `ServedCounted` identifies the two by `PermitsConserved`; a
  step within one stage is a stutter unless it is the one that makes an artifact ready or ends an
  execution (`StageStays`, `StageMoves`), and a preparation runs for a handler that waits for it or was dropped (`JobsFit`).
- `WaitersHaveSomebody`: `Spec => []WaitsForTheLiving`, the safety half of `EveryRequestEnds`. A waiter waits for
  the filler of its cell, which is at work in it (`FillersLive`: dropping a filler frees the cell); a filler for a permit, and
  when there is none somebody holds one (`PermitsConserved` and a budget of at least one) and does
  not wait for the filler; the others for a blocking task that was spawned (`TasksSpawned`).

`NestedGridProofs` proves, for any Garages, lanes, limits and finitely many requests: `NestedTypeCorrect`,
`ChainsVisitOnce` and `InlineCallsMove`. A request carries the Garages and the length of its chain (`visited`, `depth`),
each call one step on from its caller's (`CallsExtend`), and the proofs show that they are those of `Callers(r)`.
A parent has a smaller depth, so calls form no circle; each call uses up a request, so depths are bounded
(`DepthIsBounded`), and the deepest calling request below another waits for one that runs or has ended.

`CompiledCacheProofs` proves, for any preparations, finitely many digests, any budget and both restore modes:
`CacheTypeCorrect`, `PublicationIsWhole`, `AloneSucceeds`, `EvictionKeepsBudget`, `RaceLeavesWarm` and `SoundSucceeds`. Four arguments:

- `PublicationIsWhole` is about every step of anybody, in any cache: an artifact only becomes complete or vanishes,
  metadata only appears where no damaged artifact lies, and the entries of a cache that was whole and has room stay
  whole. A rename publishes whatever the temporary file holds, so `FilledFirst` says that at a rename it is
  filled, or deleted by somebody: the name is its owner's alone, others can only take the file away, and who died
  before filling it never renames it. Metadata is published after the artifact of the same preparation, which from then on
  can only be replaced by a complete one or deleted, whoever else is at work. The last part rests on `SoundInv` below.
- A preparation that is alone keeps what it has secured, since nobody else moves while it is active. `OnTrack` says, state
  by state, what that is: its temporary file is there, its artifact is the newest of all and therefore survives its
  eviction, an entry it accepted as warm can still be rebuilt, an entry it discarded has no metadata to be accepted again.
- Preparations of one digest that race delete each other's files, and some of them fail. But whoever deletes owes a
  repair (`OwesArtifact`, `OwesMetadata`), because a removal is followed by a compilation. The debt ends with a publication or
  passes to the preparation that deletes what was being published; an eviction spares the digest, which is newer than
  all that nobody prepares (`EvictionSpares`). When nobody is active nobody owes, so nothing is damaged.
- In a cache that was whole at the start and has room nobody deletes anything (`SoundInv`): every entry on disk is complete or is being
  published for the first time, an accepted entry loads, and an eviction finds the total within the budget
  (`NothingToEvict`), however many preparations run at once and wherever they die. So nobody's directory or
  temporary file is gone when it is opened, filled or renamed. `cache_doc_fallback` is what happens without the hypothesis: one corrupt entry is enough.

`PaddockHostProofs` first proves, of `HttpExecution` alone, `HttpTypeCorrect`, `ResponseWhole`,
`ExchangeGoesOn` and `EndlessIsFinal` for any executions, channel and body. `ExchangeGoesOn` says that guest, response task
and caller never all wait: a blocked guest has an open body and, if it publishes first, has published it, so the task is
collecting from a channel that is full (`WaitInv`). A guest in another host call waits
for somebody else, unless it sends a request whose body it has not finished. The theorem excepts the exchanges that are `Endless`, as the
liveness properties do, and `EndlessIsFinal` shows that each of the three exceptions is needed: once an exchange is `Stuck`, `Starved` or
`Leaked` it stays so under every step of anybody, among them the passing of its deadline and a cancellation.
Then it proves `PaddockIsHttp` (the exchanges of `PaddockHost` are those of `HttpExecution`), hence
`PaddockResponseWhole`, and `PaddockTypeCorrect`, `ReadOfItsTime` and `WritesRefinement`, the implementation of
`ObjectWrites`, for any writers, keys, grants and executions. A guest in a call stays in the host, so its exchange does not end meanwhile, a
commit under way has taken its writer, and a read in progress has seen what its key holds now (`PaddockInv`), and the
content it has looked up is one of those it has seen (`ReadNamesSeen`), whatever happens to the object before the blob is read.

`GarageSessionProofs` proves `SessionTypeCorrect` and `CircuitViewTrue` for any digests and any number of faults. A
session that answers a registration is fresh: nothing under way names it. So a heartbeat of the held session was sent by
the living process, whose store and memory only grow (`SessionInv`).

In each of these modules the theorem named `...Invariant` is the inductive invariant, and the theorems above follow from it.

Only model-checked: all liveness and the fair refinement (fairness and ENABLED are outside
the prover's reach). `NeverStuck`, `WaitsForTheLiving`, `ExchangeNeverWaits` and `InlineNeedsNoTimeout` are as near to
it as a safety property comes: somebody can always move, for every size. That everybody then arrives is checked on the instances
of the runs.

Proved and not in a run: the type invariants; `WaitsForTheLiving`, `ExchangeNeverWaits` and `EndlessStays`, which are
stated beside their proofs.

## 5. Not modelled

- Durations, `busy_nanos`, utilization, tracing, formatting and JSON: no property is about them.
- The gateway signature (`verify_gateway_signature`): a pure function of one request, of digests and of strings taken
  apart character by character. It has no state, and what could go wrong in it is in the bytes, which a model would leave out.
- Linking and format detection of `prepare_with_world`, conversion of headers and bodies of host calls: calls into Wasmtime
  without a state of their own. The dispatcher's constructors and telemetry getters.
- The load numbers of a heartbeat: the Circuit's use of them is not in this repository.
- Validation of requests, the command line, the benchmark and the example guests: no state.
- PitLane and Circuit are not in this repository; Wasmtime, wasi-http, hyper and the file system are modelled by
  the behaviour the code relies on.
- 64-bit ids do not wrap in any model: the counter would need 2^64 calls.

## 6. Plan

The modules were written in this order, most important first: the shared pool with its abstract
grid and proofs; batches; the Garage's warmup; the compiled cache;
execution control with command and HTTP execution; nested calls; the Paddock store; the Circuit session; then the
proofs of each; the contract of a request and the proofs that nobody waits for ever. Worth adding: a batch and
`run_one` calls over the same lanes, to state what the two APIs would have to share; the composition of `GarageWarmup` with
`SharedLanes`, where an execution waits for a lane, against `RequestContract`; a lemma that a
remote call that ran out of time leaves its callee to end by itself.

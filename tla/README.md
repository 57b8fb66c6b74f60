# TLA+ models of mlx-bun

mlx-bun serves language models on Apple silicon from one Bun process, with child processes
for managed jobs and isolated workers. Inside a process everything is event-loop code: there
are no threads to race, and what goes wrong goes wrong between two `await`s, when the state a
function read before it was suspended is no longer the state it resumes in. This directory
models the parts where that matters and model-checks them with TLC on small instances. TLAPS then
proves every safety and action property of those runs, and both refinements, for every value of the
constants; the liveness properties stay with TLC.

    tlc -workers 2 -config ResidencySwap.cfg MCResidency.tla      # a run
    tlapm ResidencyProofs.tla                                     # the proofs of a module

`PROJECT.json` lists the runs, the source lines behind every definition (`map`), for every
property a mutant of the model that violates it (`mutants`), the hazards and the theorems.

## 1. Inventory

Paths are relative to `src/`; `app/` stands for `apps/mlx-bun/src/`, `inf/` for
`packages/inference/src/`, `svc/` for `packages/app-services/src/`.

### 1.1 The serving core

| Component | State | Operations | Interacts with | What is hard | What makes it correct |
|---|---|---|---|---|---|
| **Model residency host** `app/residency/model-residency.ts` | a slot per model (unit, load in flight, close in flight, leases, last use), pins, number of pausers, closed | acquire, release, makeRoom, pauseAll, unload, pin, unpin, adopt, close | requests and preparation lease models; the companions (Whisper, images) ask it for room; jobs pause it; units are loaded and closed by sources | a loop of reads and awaits run by many callers at once; overlapping evictions; loads that fail, or that the close overtakes | a model is loaded once, a leased one stays, lease and pause counts are exact, the budget holds, nobody waits for nothing, close leaves nothing |
| **Execution coordinator** `inf/execution/coordinator.ts` | readers, writer, bounded FIFO queue, closed | acquire shared or exclusive, cancel, dispose, close | exported by the package; in this repository only its tests use it | a writer that cancels at the head holds readers back; double dispose; starvation of writers | exclusive is alone, first come first served, nobody waits for nothing |
| **Admission pool** `inf/execution/admission.ts` | active, bounded FIFO queue, closed | acquire, cancel, dispose (hands over), close | the gateway's reservations and the preparation pools | the fast path does not look at the queue; hand-over by counting down and up | the count is exact, a waiter means a full pool, first come first served |
| **Gateway mutex** `app/engine/generation-gateway.ts` | a chain of promises, a count | acquire, abort, unlock | the driver and the exclusive leases | an abort in the middle of the chain | one holder, every call counted once, first come first served |
| **Generation gateway and scheduler** `app/engine/generation-gateway.ts`, `inf/execution/{scheduler,batch-group,tasks}.ts` | reservations, the mutex, the rows (queue, preparation, batch), preparation tasks, exclusive callers, a driver that sleeps and is woken | run, acquireExecutionLease, runExclusive, runWhenIdle, runPreparation, close; the driver's loop | sessions submit rows; adapters, training and pauseAll take exclusive leases | a driver with eight awaits that decides from values read before them; aborts of everything; wake-ups; close while all of it is under way | exclusive work has the model alone, no row is lost, one context per batch, KV within its budget, everything that was asked for ends |
| **Generation session and engine** `inf/execution/{session,engine,cancellation}.ts` | a bounded queue of events, two wake slots, an idle timer, result, the engine's capacity | publish, next, cancel, timeout, collect, close | the method that produces, the HTTP response that reads | producer and reader resumed in the same turn; cancel against both; the idle timer against a reader that waits | tokens in order and without a gap until the cut, one more piece after it at most, every session ends and holds nothing |
| **KV cache service** `inf/state/{cache-service,kv-budget,continuation-persistence}.ts` | projections of admitted rows, entries in use | admit, fits, release, acquire, publish; begin, enqueue, complete, release and flush of checkpoints | the scheduler; the prefix cache; the spill queue | projections of rows still in preparation; a file that lands after its response completed; a crash between a rename and an unlink | the projection is what the rows may grow to; what completed is not restored; a stored checkpoint stays until a newer one is stored or the cap of the store takes it |

### 1.2 Around the core

| Component | State | Operations | What is hard |
|---|---|---|---|
| **Job runner** `app/jobs/{runner,host,in-process,service,db}.ts` | a row per job, a queue of children, one holder, one execution lease | submit, run, cancel, shutdown, reconcile after a restart | a child that exits, ends or outlives SIGKILL in any order with a cancellation; the lease must come back once |
| **Worker supervisor** `app/jobs/{worker-supervisor,worker-process}.ts` | starting, ready, restarting, exhausted or closed; a restart budget; leases held | start, lease, release, respawn, close | a worker that dies between its answer and the reader of it |
| **Whisper and image hosts** `svc/{whisper,image}-model-host.ts` | per model a pipeline, the opening in flight and its waiters, leases, an idle timer; pins | acquire, preload, generate, release, pin, unpin, unload, close | one opening shared by callers who each may give up; an idle timer against leases that come and go |
| **Prefix cache, spill queue, durability** `inf/state/{durability,tiered-prefix-cache,prefix-cache,persistence,ssd-cache}.ts` | dirty records, attempts in flight, tiers | schedule, store, flush, look up, evict | a record that is written again while it is being stored; a flush that may call a snapshot durable |
| **Hub downloads and uploads** `packages/hub/src/{download,upload,registry}.ts` | a lock file, a partial file | download, resume, verify | two processes, one stale lock |
| **Event hub** `svc/events.ts` | a bounded lossy queue per subscriber | publish, subscribe, deliver | a subscriber that leaves during delivery |
| **Module loader** `packages/app-host/src/{loader,registry,manifest}.ts` | activated modules and their registrations | activate in order, roll back, dispose in reverse | one module of many failing |
| **Expert residency** `inf/artifacts/experts/*.ts` | slots of expert weights | look up, evict, read | sequential, within a forward pass |
| **Row groups** `inf/execution/*-group.ts`, `prefill-cohort.ts` | tensors of rows | one unit of prefill, draft, verification, decoding | numerical; rows that leave a tensor batch |
| **HTTP server** `app/server/*.ts` | none of its own | parse, plan, stream | wire formats |
| **Command line, application modules, website, training, quantization, MLX binding and kernels** | | | user interface, I/O, numerics |

The interactions that carry the difficulty: a request is planned by the HTTP server, leases its
model from the **residency host**, reserves a place in the **gateway** (an **admission pool**),
submits a row, which the **scheduler's driver** admits against the **KV budget** and runs under
the gateway's **mutex**; its events flow through a **session**. A job, a companion's decode, an
adapter change or an eviction goes the other way: it needs the units still, so it pauses the host
(which takes each unit's execution lease, that is the gateway's mutex) or takes an exclusive lease
itself.

The 40 hazards of `PROJECT.json` are this table at the level of lines. Three have no property
that would fail by them, and say why.

## 2. Modules

| Module | Models | Composed with |
|---|---|---|
| `ModelLifecycle` | the abstract promise of a model host: absent, loading, ready, draining, and who holds a model | |
| `Residency` | `model-residency.ts`, in full | implements `ModelLifecycle` |
| `ExecutionCoordinator` | `coordinator.ts`, in full | |
| `AdmissionPool`, `AsyncMutex` | `admission.ts`; the gateway's `AsyncMutex`, in full | instances in `GenerationGateway` |
| `GenerationGateway` | the gateway, its scheduler, rows and tasks | shares its variables with the pool and the mutex |
| `TokenStream` | the abstract promise of a stream: what is committed, in order, without a gap, until it is cut | |
| `EngineSession` | `session.ts` and the part of `engine.ts` that sessions share | each stream implements `TokenStream` |
| `JobRunner`, `WorkerSupervisor` | `runner.ts`; `worker-supervisor.ts` over `worker-process.ts` | `ManagedJobs` |
| `ManagedJobs` | the runner's jobs take their leases from the supervisor's worker | joint actions of the two |
| `Checkpoints` | `continuation-persistence.ts`, its spill queue and its files, with crashes | |
| `Durability` | `durability.ts` as the tiered prefix cache uses it | |
| `CompanionHost` | `image-model-host.ts` and `whisper-model-host.ts` | |
| `Services` | the coordinator, the pool, the checkpoints, the prefixes and a companion side by side | extends four of them, the pool is an instance |
| `Collections` | `Without`, the filter by which pool, rows and jobs leave a queue (`Array.prototype.filter`) | |
| `CollectionFacts` | lemmas on sums over sets, on queues, their members and what a filter leaves | |
| `ResidencyProofs`, `ExecutionCoordinatorProofs`, `GatewayProofs`, `EngineSessionProofs`, `ManagedJobsProofs`, `CompanionHostProofs`, `SavedStateProofs` | the theorems (section 4), each module about the one it is named after; the last about `Checkpoints`, `Durability` and `Services` | |
| `MC...` | functions for the constants and symmetry sets of the runs | |

`Residency` and `GenerationGateway` meet at a unit: `Residency` has of a gateway what the host
can observe (a request generates under its lease, a pause waits for that and excludes it, a close
waits for both), `GenerationGateway` has the inside. In the same way `Residency` has of a companion
that it asks for room and pauses, `CompanionHost` what happens before and after.

The five components of `Services` keep no state in common, so that their interleavings show
nothing that each does not show alone. The variable `part` picks one at the start, and only that
one moves: one run explores the sum of their states, not the product. The clients of the coordinator and of
the pool are interchangeable, so `ServicesAnswer` follows the waits of one of them, `Watched`.

### 2.1 How state and actions correspond to the code

*One action is one stretch of JavaScript between two awaits.* A label names the await at which a
call is suspended, so "the state may have changed since" is literally an interleaving. A promise
and the handler attached to it settle in one action where no other handler reads the state in
between; where one does, the requested resumption is a state of its own (`EngineSession`,
`CompanionHost`), and timers and requests from outside wait until what can resume has resumed, as
the event loop runs microtasks first.

**Residency.** A process is one call: `Requests` call acquire, `Rooms` makeRoom, `Pausers`
pauseAll, `Unloaders` unload, `TheHost` close. The fields of a slot are functions of the model
(`unit`, `loading`, `closing`, `leases`); `lastUsedAt` is only compared, so it is the relation
`older`. The loop of acquire is `Call`, `Refuse`, `AwaitClosing`, `EvictBroken`, `LeaseResident`,
`JoinLoad`, `Consider` up to the await of the refreshed readings, then `Reconsider`,
`WaitForOthers`, `EvictVictims`, `StartLoad`. What `decide` computes, the shortest prefix of the
candidates in order of last use that makes room, is declared rather than looped (`Enough`,
`Victims`). A unit is external: it generates, breaks, grows, is paused and closes, and its source
may fail. The process's own memory reading only ever raises `used`, to `Measured`. Events, log
lines, timings and the read-only `plan`, `resident` and `stats` are left out.

**ExecutionCoordinator, AdmissionPool.** Every method is synchronous, hence one action. A call
that is refused at once (closed, aborted before, queue full) changes nothing. Clients come back.
`#drain`'s loop is declared by `DrainsTo`: what it lets in is a prefix of the queue, one writer or
a run of readers, and it stops only where the loop does.

**AsyncMutex.** The chain of promises is a sequence of gates, `[owner, open]`. A call waits for
every gate before its own and opens its own at unlock or abort; gates nobody can wait for any more
are dropped.

**GenerationGateway.** `stage` says where a request is from its submission on, `queue`, `prefill`
and `running` are the scheduler's own collections. The driver's turn is split at every decision
and every await (`Awaits`); `Next` lets others move only while the driver is suspended at one of
those. A unit of work on the rows (`UnitOfWork`) decodes each by one, and any of them may finish
or fail. `Key` stands for adapters and method, `Need` for the projected KV bytes. Prompts take at
most `Chunks` units and answers at most `Tokens`.

**EngineSession.** A session is a record: the state of the session object, the method's program
counter `pc` through `#execute` and `#publish`, the consumer's side `reader`, the queue as a
sequence of events, each the sequence of the token numbers it carries (none for progress). `late`
marks the one piece that may be pushed after a cancellation: room was found before it. `Publish` is
the method's call, of any number of tokens within the plan. The planner, the run and its close may
each fail.

**JobRunner, WorkerSupervisor, ManagedJobs.** A job's record has its place in the runner, its row
in the store, and the promises the runner keeps for it; `stop` says where each stopActive is, the
closing host being one more caller. Workers are numbered as they are spawned; `respawn[w]` is the
respawn, an asynchronous function of its own, that spawned `w`. A lease is asked of the worker that
serves, answered over a connection, and read later by the client, who may have aborted, while the
worker may have died. `ManagedJobs` joins the runner's request with the supervisor's answer, and each
end of a job with the disposal of its lease.

**Checkpoints.** A request begins an attempt under its key, enqueues versions, completes or is
released. The queue is bounded in bytes (here in files) and sheds its oldest waiting writes; its
head is written in steps: the write, the rename into place, the removal of older files together
with the index, and the answer to whoever enqueued it. A crash loses everything but the files. What
completed before a crash is not remembered after it, by the code or by `finished` (section 5).

The checkpoints are files of the one `SsdCacheStore` that holds the prefixes too, under one cap, and
every store of either kind ends in `evictToCap`, which unlinks the oldest entries of any key. In the
model a checkpoint that is stored may take any other checkpoint with it (`Stored`), and a prefix that
is stored may take any at any moment (`PrefixStored`, which stands for the stores of `Durability`;
that of the prefixes themselves is in `Written`). Which are the oldest, and how many have to go, is
left open: it depends on sizes and on dates, which restores renew. Two files are safe, as in the code:
the one just stored, which has the latest date and fits under the cap (line 371; the clock is assumed
not to go back), and one that has been renamed into place and is not in the index yet. A restore that
fails unlinks its file as well, which is then of an attempt that has just lost its key: `PrefixStored`
includes that. `evicted` is history, which no guard reads: what the cap took since the start.
`DurableIsStored` and `PriorPointStays` speak of what has landed, `files \cup evicted`: that a
checkpoint is gone has no other cause than the cap. `CompletedIsIneligible` speaks of the files.

**Durability.** A record is dirty in a version; `timer`, `attempt` and the queue `writes` are the
coordinator's maps and the spill queue, and `flush` is where `#flushInner` is suspended. The store
may evict to its cap when it has written. The synchronous spill
under memory pressure and the demotion of idle entries have no actions of their own: they release an
entry only once it is stored, which `Written` followed by `Evict` includes.

**CompanionHost.** One slot; `kind` says which of the two hosts it is. `loading` is the opening in
flight, `"abandoned"` once its abort has fired; `waiters` and `leases` are the code's own counts,
compared with who really waits and holds. `alive`, `unloaded` and `excused` are history: the
pipelines not disposed, those a forced unload took from their leases, and whether nobody has had the
lease since a preload or an unpin.

Definitions introduced by a comment "Bug:" are not part of a specification. Each is a definition
of the model with a plausible mistake, kept beside the original, and exists so that every property
can be seen to fail: `PROJECT.json` says under `mutants` which property catches it.

## 3. Runs

| Run | Instance | Shows |
|---|---|---|
| `ResidencySwap` | 3 models of 1, 2 and 4 bytes over a budget of 3, 3 requests, an unload; one load that fails, one unit that breaks, one abort | `OneUnitPerModel`, `LeasesCounted`, `LeasedStays`, `WaitHasReason`, `WithinBudget`, `ImplementsLifecycle` |
| `ResidencyPause` | 2 models, 2 requests, 2 pausers of which one may abort, a forced unload, pins, growth, a close at any moment | `PausesCounted`, `NoLoadWhilePaused`, `ClosedForGood` |
| `ResidencyLiveness` | 2 models that do not fit together, 2 requests, a companion, a pauser, a close | `CallsEnd`: every acquire and makeRoom ends, every pauseAll holds or fails, close ends |
| `Gateway` | 4 requests: two alike, one of the same adapters that fits the KV budget only alone, one of other adapters; 2 exclusive leases; aborts of each kind; iterations that fail | `CountsAreSound`, `ExclusiveIsAlone`, `RowsAccounted`, `NoLostWakeup`, `BatchIsSound`, `LeasesInOrder` |
| `GatewayLiveness` | 2 requests of two chunks, a task, a foreground and a background lease, aborts, a close at any moment | `WorkEnds`, `CloseEnds`, and `ExclusiveIsAlone` with a background lease |
| `Session` | a session opened in any mode and one that collects, each wanting more than the other leaves of the capacity; room for two events and two tokens, publications of 0, 1 and 3 | `EndIsTheEnd`, `QueueBounded`, `IdleTimerRight`, `TerminalHoldsNothing`, `ImplementsStream`, `SessionsEnd` |
| `Jobs` | 2 jobs, one of whose children may outlive SIGKILL for a while, over 2 workers that may exit at any moment; cancellations and a close | `OneChildAtATime`, `StoppedIsGone`, `LeasesOwned`, `RowsFinal`, `RespawnWaits`, `JobsEnd` |
| `Services` | 5 clients of the coordinator (queue of 3) and of a pool of 2; 3 attempts of 2 keys, a queue of one file, one crash; 2 prefixes, the second extending the first, put twice, flushed once; 2 takers and a preloader of a companion | `MutualExclusion`, `HeadMustWait`, `NoOvertaking`; `CompletedIsIneligible`, `DurableIsStored`, `PriorPointStays`; `CleanMeansDurable`; `HostSound`; `ServicesAnswer` |
| `ResidencyPausedStops`, `GatewayStranded`, `JobsStranded`, `DurabilityStranded` | small | the four disagreements of section 5, each as a counterexample |

**Why the bounds are enough.** The residency hazards need two callers that race for one model and
a third whose model has to go; three models of which two fit and one never fits give every outcome
of `decide` (fits, fits after evicting some, waits, alone and over the budget). A third request on
the same slot repeats what the second does: the joins commute. Two pausers are needed for a count
that leaks and for a deadlock between them. In the coordinator, a queue of three behind one or more
holders is the shortest in which readers are both before and behind a writer. In the gateway one row
in the batch, one in preparation and one in the queue is what its decisions tell apart, and two
exclusive callers what `exclusiveWaiters` does; a prompt of two chunks is the least that is suspended
between its chunks. A publication of three tokens into room for two is split, and waits in the
middle. Two jobs are one that holds the GPU and one behind it; two workers are one that dies and its
successor, whose death spends the budget. In the checkpoints a key needs two attempts, one taking over
from the other, and a second key to share the queue; two versions against a queue of one file are
shed, also in the middle. Two prefixes are one that covers the other. A companion needs two takers,
one of whom gives up what the other waits for, and a preloader who waits without a lease; a third
taker was tried once and changes nothing (1.4 million states, the invariants hold).

Symmetry is used in `Gateway` and `ResidencyPause` only, which check safety: over the two equal
requests of the one, and over the requests of the other, which differ in nothing but their target,
which `Init` varies over all models.

**Deadlock.** The residency runs check for it (`Idle` is the only stutter, enabled when every call
has returned). The others set `CHECK_DEADLOCK FALSE`: their clients owe no further call, jobs and
attempts are used up, and the gateway's driver sleeps for good when nobody comes. That nobody is
stuck there is what their liveness properties say.

**`WithinBudget`** is for fixed pins, fixed companions and units that do not grow: the code
enforces its budget when it loads and never afterwards, so a pin, a companion or growth may exceed
it later by design.

### 3.1 Fairness

It is owed by what the code itself schedules, never by a caller that has not called, a signal, a
pin, a crash or a failure; weak where not said otherwise.

* *Residency.* Each call that was made goes on (its continuation is in the event loop's queue),
  a lease and a pause are given back (callers use `using`/`finally`), and a load and a close settle.
  Fairness is per call, over all steps of that call, not per action: a continuation is run, whatever
  branch it then takes. A companion is not obliged to unload. A unit whose memory reading toggles
  for ever could keep a caller deciding anew, so liveness is checked without growth.
* *Coordinator, pool.* A lease is disposed.
* *Gateway.* The driver's awaits settle and it goes on; a reserved request is submitted or
  given up, a settled one returns its reservation; an exclusive lease that is granted ends; the
  polls of `close` come round.
* *Session.* Resumptions run, timers fire, plans and closes settle. Strong fairness for the end of
  a method's computation: a method does not publish progress for ever. No consumer need read.
* *Jobs.* Children exit but for the immortal ones, a stopped worker exits, and what the host and
  the supervisor have begun goes on. A worker need not die, nor a job end well.
* *Checkpoints, Durability.* The spill queue's head is answered, timers fire; strong fairness for
  the flush, which resumes once what it awaits is settled, before a timer can start another attempt.
  `DurabilityStranded` assumes besides that a disk that keeps being asked takes a write some day
  (strong), without which nothing could be promised.
* *Companion.* The backend answers, what is resumed runs, a run ends. No lease need be given back:
  a caller who waits for its turn behind one does not count as unanswered.

`GatewayLiveness` is checked with iterations that do not throw, and `Jobs` without immortal
children: when one is there, work can be stranded (section 5).

## 4. Proofs

TLAPS checks every theorem down to its last step. Each is about all instances of a specification:
any finite number of calls, models, jobs or attempts, any sizes, limits and budgets. None needs
fairness. Each proof module has an inductive invariant `IInv`, which TLC also finds to hold on the
instances of section 3, a lemma per action or per conjunct of it, and at its
end the theorems that follow from it.

| Component | Theorem | States |
|---|---|---|
| Residency | `TypeCorrect` | `TypeOK`: no count is ever negative |
| | `LoadsOnce`, `LeasesExact`, `LeasedNeverEvicted` | `OneUnitPerModel`, `LeasesCounted`, `LeasedStays` |
| | `NoLostWakeup` | `WaitHasReason` |
| | `PausesExact`, `LoadsHeldBack` | `PausesCounted`, `NoLoadWhilePaused` |
| | `ClosesForGood` | `ClosedForGood` |
| | `LoadsFit`, `BudgetKept` | a load that starts fits; `WithinBudget` |
| | `HostImplementsLifecycle` | `ImplementsLifecycle`, the refinement of `ModelLifecycle` |
| Coordinator | `TypeCorrect`, `Exclusion`, `LeasesExact`, `QueueExact` | types, `MutualExclusion`, the counts, the queue holds those who wait, each once |
| | `NoIdleWaiter`, `InOrder`, `NothingOnceClosed` | `HeadMustWait`, `NoOvertaking`, a closed coordinator grants nothing |
| Gateway, pool, mutex | `CountsSound`, `RowsAreAccounted` | `CountsAreSound`, `RowsAccounted` |
| | `ExclusiveAlone`, `BatchSound`, `WakeupsNotLost` | `ExclusiveIsAlone`, `BatchIsSound`, `NoLostWakeup` |
| | `InOrder`, `AdmitsInOrder` | `LeasesInOrder` of the mutex, `NoOvertaking` of the pool |
| Sessions | `QueueIsBounded`, `TimerIsRight` | `QueueBounded`, `IdleTimerRight` |
| | `EndIsRight`, `TerminalIsFree` | `EndIsTheEnd`, `TerminalHoldsNothing` |
| | `DeliversTheStream` | `ImplementsStream`, the refinement of `TokenStream` for each session |
| Jobs | `OneChild`, `StopsAreGone`, `LeasesHaveOwners` | `OneChildAtATime`, `StoppedIsGone`, `LeasesOwned` |
| | `RowsStay`, `RestartsWait` | `RowsFinal`, `RespawnWaits` |
| Companions | `HostIsSound` | `HostSound` |
| Checkpoints | `CompletedStaysClosed`, `FlushedIsStored`, `PriorPointIsKept` | `CompletedIsIneligible`, `DurableIsStored`, `PriorPointStays`, the last two but for what the store's cap took |
| Prefixes | `DirtyStaysDirty` | `CleanMeansDurable` |
| Services | `EachAsAlone`, `SavedThere` | each component is there what it is alone; the four of the checkpoints and prefixes hold there |

The `Invariant` theorems are `Spec => []IInv` of their modules.

### 4.1 The assumptions

They are the named `ASSUME`s of the modules, which TLC evaluates on every run.

* `ModelsAssumption`, `ProcessesAssumption`, `BytesAssumption` (Residency): models are a finite set
  of numbers, the kinds of calls are disjoint, requests and pausers finite, sizes natural numbers.
* `ClientsAssumption`, `MaxQueuedAssumption` (coordinator): finitely many clients, a bound.
* `SetsAssumption`, `SizesAssumption` (gateway): finitely many requests, leasers and tasks, a signal
  to each call, sizes that are natural numbers, a capacity, chunks and tokens of at least one.
* `SessionAssumption`: finitely many sessions; the queue's bounds and the capacity are positive.
* `JobsAssumption`: finitely many jobs, at least one worker. `HostAssumption`: finitely many callers,
  and a caller is a taker or a preloader. `CheckpointsAssumption`: "no attempt" is no attempt. The
  checkpoints need neither bounds nor finiteness beyond what the model itself says.

One theorem has hypotheses of its own. `BudgetKept` asks for no companions, no pins that change and
no units that grow (`FixedSurroundings`), and that what the host adopts at its start fits or is one
model. Its code does not enforce the budget against any of those after a load (section 3);
`LoadsFit` is what remains without the hypotheses, a load never *starts* beyond the budget but
for a lone model.

### 4.2 The arguments

**Residency.** `IInv` is `TypeOK`, `OneUnitPerModel`, `LeasesCounted`, `PausesCounted`,
`LeasedStays`, `WaitHasReason` and `CloseCalled` (a host whose close has been called is closed).
Types alone are not inductive: a count that is decremented is a natural number only because it counts
somebody. Nor is `LeasedStays`: an eviction asks `leases[m] = 0`, and that nobody uses `m` then
follows from the exact count, that a finished load leaves a unit which is not draining from
`OneUnitPerModel`, and that the host closes units itself only once `closed` is set from
`CloseCalled`. `WaitHasReason` holds because each step that takes a reason away notifies.
`ClosedForGood` follows what close has achieved model by model (`CloseProgress`). The budget needs
that of a model in memory and any other it is known which was used last (`UsedInOrder`): the victims
are a prefix of that order. The refinement maps each action to a step or a stutter; an eviction
maps to `Drain` because of the lease count again.

**Coordinator.** `IInv` conjoins the counts, the queue, `HeadMustWait` and `ClosedMeansEmpty`. What a
drain does to any queue follows from `DrainsTo`, which says where the code's loop stops.

**Gateway.** The pool and the mutex are instances over the gateway's variables. Each has its own
invariant (`PoolInv`, `MutexInv`), kept by its own actions; `PoolMoves` and `MutexMoves` show that
a step of the gateway is one of them or leaves them alone. In the chain the holder's gate has no open
gate before it, whence exclusion and order. The rest of `IInv` says, per request, in which of the
three collections its stage has it (`StagesMatch`), that the driver has the mutex wherever it works
and has no rows where it rests (`DriverLease`), that each lease agrees with its place in the mutex,
and what `exclusiveWaiters` counts. `ExclusiveIsAlone` is then `DriverLease` and one holder.
`NoLostWakeup` is inductive only with `SchedulerMade` and `DriverLease`: whoever adds work while the
driver is between its decision and its sleep sets `woken`. `BatchIsSound` needs that a sum over the
admitted rows grows by what the admission just compared with the budget.

**Sessions.** Everything but the capacity is about one session, so the invariant is a predicate on its
record, `Sound`: how its state goes with its method, its reader, its queue and its timer. Each
operation is a function from records to records, and is shown to lead from a sound record to a sound
one and, in the same lemma, to be a step of `TokenStream` or a stutter. `reserved` is the sum over
those who hold some, which a release takes its own part from.

**Jobs.** `JobsSound` says where each job stands in the queue, the holder's place and its row,
`StopsSound` what each stopActive waits for, `WorkerSound` that the supervisor's count is exact, and
`Linked` joins them: a request for a lease is in flight exactly for the job that asks, and a lease is
held exactly by the job that owns one. Each side's actions are proved of that side alone; a joint
action then only has to keep `Linked`. A worker is spawned only when the count is zero, hence
`RespawnWaits`.

**Companions.** The two counts are the numbers of those who hold and wait (`CountsExact`), which alone
says that a release which reaches zero is the last. The pipeline that is open is the only one alive
(`PipelinesHeld`), an opening is wanted or abandoned, one call has the turn.

**Checkpoints.** The argument is about who is in the queue and in which order. Nothing is twice in
the queue, and the writes of an attempt are in the order of their versions. A write of a response that
completed can only be the one in flight, and has the response's unlink behind it. For whoever has
the key now there is no unlink behind his writes (`Ahead`), his files are not newer than he has
enqueued, and what he stored stays landed, on disk or evicted, until he stores a newer one. What is
dropped is answered. The invariant is about what has landed, which an eviction leaves as it is, and
only for a completed response about the files, of which an eviction leaves fewer.

**Prefixes.** A record is cleaned in three places, each of which has just seen the prefix on disk.

**Composition.** `EachAsAlone` is `ServicesSpec => Spec /\ Pool!Spec /\ CheckpointsSpec /\ ...`, with
the fairness: what is proved of a component alone holds in the composition the run checks.

### 4.3 What is not proved

* Liveness: `CallsEnd`, `WorkEnds`, `CloseEnds`, `SessionsEnd`, `JobsEnd`, `ServicesAnswer` (of
  which the pool's order is proved). Fairness and ENABLED are out of the prover's reach. So are the
  counterexamples of section 5.
* That a sum or a filter defined by recursion computes what it should is an induction over data,
  for which the provers have no rule. `CollectionFacts` does it by the least counterexample: of
  the finite sets on which a sum fails there is a minimal one, of the lengths at which a filter
  fails a least one. Where the model declares a loop's outcome instead (the coordinator's drain,
  the residency host's victims), that the code's loop ends there is read off the code.
* No module has a RECURSIVE operator.

## 5. Where the code and its own words disagree

Four are runs, each a counterexample.

1. **`pauseAll` does not stop a model that is still loading** (`ResidencyPausedStops`). "Stop every
   resident execution until disposed, and hold back new loads meanwhile"
   (`app/residency/model-residency.ts:98`). A load in flight at the call is neither new nor
   resident; it finishes later, and its requests generate while the pause is held.
2. **A request can be stranded by a driver that fails** (`GatewayStranded`). "Resolves when its row
   finishes" (`inf/execution/batch-group.ts:222`). Between `failAll` and the `finally` that clears
   `#looping`, a submission neither wakes a driver nor starts one.
3. **The queue of jobs stops behind a child that does not exit** (`JobsStranded`). A job is to
   "leave it queued to drain when the lease frees" (`app/jobs/runner.ts:54`). stopActive frees the
   lease of a child it has given up (line 281) and does not drain.
4. **A prefix can be left unwritten for good** (`DurabilityStranded`). "Write each kept prefix to
   saved state as it is kept" (`inf/state/cache-service.ts:489`). A record scheduled again during
   an attempt whose write then fails has used up its timer on that attempt and gets no other.

Others were met while modelling, and are no runs of their own. Where the model has the behaviour its
properties are stated so that they hold of the code.

* `app/residency/model-residency.ts:360`: pauseAll lists the slots once and then awaits each pause; a
  broken unit evicted in between leaves `slot.unit!` undefined, and the TypeError fails the whole
  pause, where line 356 says "pause the ones that stay". Modelled: the pause fails and gives back.
* `inf/execution/scheduler.ts:28`: `held` is read before the mutex is awaited, so a row may be
  admitted past the drain signal of `batch-types.ts:210` ("while true, no NEW rows are admitted").
  Modelled: the exclusive caller waits for that row.
* `app/jobs/worker-supervisor.ts:211`: a lease's response may be read after the worker that gave it
  died and a respawn has found no lease held, so a job may run while the next worker loads; the
  interface says "a respawn waits until every lease has been released" (lines 72-74). Modelled:
  `RespawnWaits` speaks of the moment of the spawn.
* `app/jobs/in-process.ts:5` says that tasks in the process "must never hold its exclusive execution
  lease"; `service.ts:56-62` lets a task whose kind asks for the GPU do so.
* `app/jobs/runner.ts:155`: a child that exits with 0 without having written its end leaves its row
  open until the next start of the server marks it a zombie.
* `app/jobs/db.ts:139`: a second process over the same store marks the rows of a running one.
* `svc/whisper-model-host.ts:264` and its image counterpart: unpin arms no timer, so that a model
  unpinned while idle stays loaded although lines 2-3 have it released when idle. `HostSound`
  excuses it (`excused`), as it does a preloaded model, for which line 116 says so.
* `inf/state/durability.ts`: the records that a failed flush leaves dirty have no timer either.
* `inf/state/continuation-persistence.ts`: an old attempt's checkpoint in flight may land after a
  new attempt of its key began, and removes the file that one resumed from; `PriorPointStays` is
  about the attempt's own. A crash between a completion and its unlink makes the completed
  response's checkpoint restorable again: nothing on disk says that it completed.
* `inf/state/ssd-cache.ts:401`: the cap is enforced after every store, over all keys and the prefixes
  too. What a flush has called durable (`cache-service.ts:431`, "as far as storage allows"), and the
  "prior point" that "a crash during a write leaves" (`ssd-cache.ts:317`), may be evicted the next
  moment for another key's checkpoint or for a prefix; `apps/mlx-bun/src/engine/kv-budget.ts:5` says
  so: "Saved state is always droppable". Modelled: the two properties except what the cap took.
* `packages/hub/src/download.ts:174`: of two processes that find the same stale lock, the second
  removes the lock which the first has just taken, and both append to one partial file. Each
  checks the digest of the bytes it received, not of those the file then has, and renames it.
  Lines 139-142 say that the lock serializes them. Not modelled.

## 6. Plan

1. `DownloadLock`: two processes, a lock file, its age and owner, the partial file.
2. `EventHub` (a bounded lossy queue per subscriber) and `ModuleLoader` (activation in order,
   roll-back, disposal in reverse).
3. The prefix cache's entries in use (acquire, pin, publish) in front of `Durability`, and
   `markZombies` and the rows of in-process tasks beside `JobRunner`.
4. Abstract specifications, each with a refinement to prove: a first-come-first-served lock, which
   both the mutex and the coordinator implement, and a shared resource with an idle policy for
   `CompanionHost`.
5. Proofs of the safety half of what the liveness runs say: that who waits has somebody to wake it,
   where no invariant of section 4 says so yet (a companion's turns, the writes of the spill queue).

## 7. Not modelled, and why

* Numerics: MLX, kernels, layers, model graphs, sampling, training, quantization, which are most of
  the repository's lines. Their correctness is agreement of numbers.
* What rows do to tensors in a unit of work: the gateway has its effect (finish, fail, join).
* Parsing, prompts and wire formats, panels, command line, website: no shared state of their own.
* Files and network: HTTP, formats, the layout of the cache. Of downloads the lock is in the plan.
* The event hub and the module loader: sequential code with one caller at a time, in the plan.
* Expert residency is sequential within a forward pass.
* Of components modelled in part: matching prompts to prefixes, pins and retention scores; the
  lookup that makes a companion's slot, its stages, and a caller whom a close overtakes during that
  lookup; jobs that run in the process, a store
  whose writes fail.

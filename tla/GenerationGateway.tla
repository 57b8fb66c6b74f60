-------------------------- MODULE GenerationGateway --------------------------
(***************************************************************************)
(* The one execution path of an engine: requests, preparation tasks and    *)
(* exclusive leases meet here and share the loaded model.                  *)
(*   apps/mlx-bun/src/engine/generation-gateway.ts    reservations, mutex  *)
(*   packages/inference/src/execution/scheduler.ts    the driver's policy  *)
(*   packages/inference/src/execution/batch-group.ts  rows, the loop       *)
(*   packages/inference/src/execution/tasks.ts        preparation tasks    *)
(*                                                                         *)
(* JavaScript runs to completion: the driver's steps between two awaits    *)
(* are several actions here (one per decision of the loop), and nothing    *)
(* else moves until the driver is suspended again.                         *)
(***************************************************************************)
EXTENDS Naturals, Sequences, FiniteSets, Functions, Collections

CONSTANTS
  Requests, Tasks, Leasers,
  Background,        \* the leasers that wait until the gateway is idle
  Driver,
  Capacity,          \* requests reserved at once, and rows in the batch
  Key,               \* the adapters (and method) of a request
  Need, KvBudget,    \* the projected KV of a request, and the budget
  Chunks, Tokens,    \* the most work units of a prompt, and of an answer
  Aborting,          \* those whose signal may abort
  DriverFails,       \* whether a mixed iteration may throw
  Closes,            \* whether the gateway may close
  NoKey

ASSUME SetsAssumption ==
  /\ IsFiniteSet(Requests) /\ IsFiniteSet(Leasers) /\ IsFiniteSet(Tasks)
  /\ Background \subseteq Leasers
  /\ Driver \notin Leasers
  /\ Requests \cap (Tasks \cup Leasers) = {}     \* each call has a signal of its own
ASSUME SizesAssumption ==
  /\ Capacity \in Nat \ {0} /\ KvBudget \in Nat
  /\ Chunks \in Nat \ {0} /\ Tokens \in Nat \ {0}
  /\ Need \in [Requests -> Nat] /\ NoKey \notin {Key[r] : r \in Requests}

VARIABLES
  pool, waiting, active, poolClosed,   \* #requests, an AdmissionPool
  mutex, chain, locked,                \* #mutex
  stage,       \* where each request is, from its submission on
  left,        \* the work units a row has left
  queue,       \* #pending
  prefill,     \* the rows of #prefill
  running,     \* #running
  context,     \* #contextKey, with the method's
  tasks,       \* the queue of ExecutionTasks
  task,        \* what each preparation task is doing
  leaser,      \* what each caller of acquireExecutionLease is doing
  exclusiveWaiters,
  pc,          \* where the driver is: an await, or a decision of its loop
  woken, held,
  created, groupClosed, closer,        \* #scheduler made; its #closed; close
  aborted

poolVars == <<pool, waiting, active, poolClosed>>
mutexVars == <<mutex, chain, locked>>
rowVars == <<stage, left, queue, prefill, running, context>>
taskVars == <<tasks, task>>
leaseVars == <<leaser, exclusiveWaiters>>
driverVars == <<pc, woken, held>>
closeVars == <<created, groupClosed, closer>>
vars == <<poolVars, mutexVars, rowVars, taskVars, leaseVars, driverVars, closeVars, aborted>>

Pool == INSTANCE AdmissionPool
  WITH Clients <- Requests, MaxQueued <- Cardinality(Requests), state <- pool, closed <- poolClosed

Mutex == INSTANCE AsyncMutex
  WITH Clients <- Leasers \cup {Driver}, MaxGates <- Cardinality(Leasers) + 1,
       state <- mutex, pending <- locked

-----------------------------------------------------------------------------
Init ==
  /\ Pool!Init /\ Mutex!Init
  /\ stage = [r \in Requests |-> "idle"] /\ left = [r \in Requests |-> Chunks + Tokens]
  /\ queue = <<>> /\ prefill = {} /\ running = {} /\ context = NoKey
  /\ tasks = <<>> /\ task = [t \in Tasks |-> "idle"]
  /\ leaser = [x \in Leasers |-> "idle"] /\ exclusiveWaiters = 0
  /\ pc = "none" /\ woken = FALSE /\ held = FALSE
  /\ created = FALSE /\ groupClosed = FALSE /\ closer = "open"
  /\ aborted = {}

Awaits == {"none", "waiting", "locking", "task", "mixing", "preparing", "decoding", "yielding", "ending"}

Suspended == pc \in Awaits

Queued == {queue[i] : i \in 1..Len(queue)}
Rows == running \cup prefill
Closed == closer # "open"

Busy == active > 0 \/ waiting # <<>> \/ locked > 0 \/ running # {} \/ queue # <<>> \/ prefill # {}

(* #ensureLoop: wake the driver that waits for work, or start it. *)
EnsureLoop(isClosed) ==
  /\ pc' = IF pc = "none" /\ ~isClosed THEN "top" ELSE pc
  /\ woken' = (pc = "waiting" \/ woken)
  /\ UNCHANGED held

Settled(S) == [r \in Requests |-> IF r \in S THEN "settled" ELSE stage[r]]

-----------------------------------------------------------------------------
(* Requests: GenerationGateway.run. *)

Run(r) ==
  /\ stage[r] = "idle" /\ r \notin aborted /\ ~Closed
  /\ Pool!Grant(r) \/ Pool!Enqueue(r)
  /\ UNCHANGED <<mutexVars, rowVars, taskVars, leaseVars, driverVars, closeVars, aborted>>

Submit(r) ==
  /\ pool[r] = "holding" /\ stage[r] = "idle" /\ r \notin aborted
  /\ created' = TRUE
  /\ IF groupClosed
       THEN stage' = Settled({r}) /\ UNCHANGED <<queue, driverVars>>
       ELSE /\ stage' = [stage EXCEPT ![r] = "queued"]
            /\ queue' = Append(queue, r)
            /\ EnsureLoop(groupClosed)
  /\ UNCHANGED <<poolVars, mutexVars, left, prefill, running, context, taskVars, leaseVars,
                 groupClosed, closer, aborted>>

(* A reserved request whose prefetch fails, or that is aborted by then. *)
NotSubmitted(r) ==
  /\ pool[r] = "holding" /\ stage[r] = "idle"
  /\ stage' = Settled({r})
  /\ UNCHANGED <<poolVars, mutexVars, left, queue, prefill, running, context, taskVars, leaseVars,
                 driverVars, closeVars, aborted>>

(* run's finally: the reservation goes back. *)
Finish(r) ==
  /\ stage[r] = "settled"
  /\ stage' = [stage EXCEPT ![r] = "done"]
  /\ Pool!Dispose(r)
  /\ UNCHANGED <<mutexVars, left, queue, prefill, running, context, taskVars, leaseVars,
                 driverVars, closeVars, aborted>>

AbortRequest(r) ==
  /\ r \in Aborting \ aborted
  /\ aborted' = aborted \cup {r}
  /\ IF pool[r] = "waiting" THEN Pool!Cancel(r) ELSE UNCHANGED poolVars
  /\ IF stage[r] \in {"queued", "preparing", "running"}
       THEN EnsureLoop(groupClosed) ELSE UNCHANGED driverVars
  /\ UNCHANGED <<mutexVars, rowVars, taskVars, leaseVars, closeVars>>

-----------------------------------------------------------------------------
(* Exclusive leases: acquireExecutionLease, runExclusive, runWhenIdle. *)

AcquireLease(x) ==
  /\ leaser[x] = "idle" /\ ~Closed /\ (x \in Background => ~Busy)
  /\ exclusiveWaiters' = exclusiveWaiters + 1
  /\ IF x \in aborted
       THEN leaser' = [leaser EXCEPT ![x] = "rejected"] /\ UNCHANGED mutexVars
       ELSE leaser' = [leaser EXCEPT ![x] = "waiting"] /\ Mutex!Acquire(x)
  /\ UNCHANGED <<poolVars, rowVars, taskVars, driverVars, closeVars, aborted>>

LeaseGranted(x) ==
  /\ Mutex!Grant(x)
  /\ leaser' = [leaser EXCEPT ![x] = "holding"]
  /\ UNCHANGED <<poolVars, rowVars, taskVars, exclusiveWaiters, driverVars, closeVars, aborted>>

AbortLease(x) ==
  /\ x \in Aborting \ aborted
  /\ aborted' = aborted \cup {x}
  /\ IF leaser[x] = "waiting"
       THEN Mutex!Abort(x) /\ leaser' = [leaser EXCEPT ![x] = "rejected"]
       ELSE UNCHANGED <<mutexVars, leaser>>
  /\ UNCHANGED <<poolVars, rowVars, taskVars, exclusiveWaiters, driverVars, closeVars>>

(* Bug: the counter goes down and the driver is not told. *)
ResumeSilently == exclusiveWaiters' = exclusiveWaiters - 1 /\ UNCHANGED driverVars

(* resume *)
Resume ==
  /\ exclusiveWaiters' = exclusiveWaiters - 1
  /\ IF exclusiveWaiters = 1 /\ created THEN EnsureLoop(groupClosed) ELSE UNCHANGED driverVars

(* Bug: a caller whose acquisition fails is never counted out. *)
LeaseRejectedCounted(x) ==
  /\ leaser[x] = "rejected"
  /\ leaser' = [leaser EXCEPT ![x] = "done"]
  /\ UNCHANGED <<poolVars, mutexVars, rowVars, taskVars, exclusiveWaiters, driverVars, closeVars, aborted>>

LeaseRejected(x) ==
  /\ leaser[x] = "rejected"
  /\ leaser' = [leaser EXCEPT ![x] = "done"]
  /\ Resume
  /\ UNCHANGED <<poolVars, mutexVars, rowVars, taskVars, closeVars, aborted>>

DisposeLease(x) ==
  /\ leaser[x] = "holding"
  /\ leaser' = [leaser EXCEPT ![x] = "done"]
  /\ Mutex!Unlock(x)
  /\ Resume
  /\ UNCHANGED <<poolVars, rowVars, taskVars, closeVars, aborted>>

-----------------------------------------------------------------------------
(* Preparation: runPreparation, ExecutionTasks. *)

RunPreparation(t) ==
  /\ task[t] = "idle" /\ ~Closed /\ t \notin aborted
  /\ created' = TRUE
  /\ task' = [task EXCEPT ![t] = "queued"] /\ tasks' = Append(tasks, t)
  /\ EnsureLoop(groupClosed)
  /\ UNCHANGED <<poolVars, mutexVars, rowVars, leaseVars, groupClosed, closer, aborted>>

AbortTask(t) ==
  /\ t \in Aborting \ aborted
  /\ aborted' = aborted \cup {t}
  /\ IF task[t] = "queued"
       THEN /\ task' = [task EXCEPT ![t] = "done"]
            /\ tasks' = Without(tasks, {t})
       ELSE UNCHANGED taskVars
  /\ UNCHANGED <<poolVars, mutexVars, rowVars, leaseVars, driverVars, closeVars>>

-----------------------------------------------------------------------------
(* The driver: driveExecutionGroup over the batch group. *)

Go(at) == pc' = at /\ UNCHANGED woken

(* release: the execution lease and the context. *)
ReleaseExecution ==
  /\ IF mutex[Driver] = "holding" THEN Mutex!Unlock(Driver) ELSE UNCHANGED mutexVars
  /\ context' = NoKey

(* failAll: every row and every task that waits is rejected. *)
FailAll ==
  /\ stage' = Settled(Queued \cup Rows)
  /\ queue' = <<>> /\ running' = {} /\ prefill' = {}
  /\ tasks' = <<>>
  /\ task' = [t \in Tasks |-> IF task[t] = "queued" THEN "done" ELSE task[t]]

Terminate ==
  /\ FailAll /\ ReleaseExecution /\ Go("ending")
  /\ UNCHANGED <<poolVars, left, leaseVars, held, closeVars, aborted>>

(* Bug: an aborted row leaves the queue without being rejected. *)
PruneForgets ==
  /\ queue' = Without(queue, aborted)
  /\ UNCHANGED stage

PruneCancelled ==
  /\ queue' = Without(queue, aborted)
  /\ stage' = Settled(Queued \cap aborted)

(* Bug: the driver stops at once when it is held, whatever rows it has. *)
IdleOnceHeld == held' \/ (Rows = {} /\ queue' = <<>> /\ tasks = <<>>)

Idle == Rows = {} /\ (held' \/ (queue' = <<>> /\ tasks = <<>>))

(* The top of the loop, down to its first await or its work. *)
Top ==
  /\ pc = "top" /\ ~groupClosed
  /\ PruneCancelled
  /\ held' = (exclusiveWaiters > 0)
  /\ \/ Idle /\ ReleaseExecution /\ pc' = "waiting" /\ woken' = FALSE
     \/ ~Idle /\ mutex[Driver] = "idle" /\ Mutex!Acquire(Driver) /\ Go("locking") /\ UNCHANGED context
     \/ ~Idle /\ mutex[Driver] # "idle" /\ Go("turn") /\ UNCHANGED <<mutexVars, context>>
  /\ UNCHANGED <<poolVars, left, prefill, running, taskVars, leaseVars, closeVars, aborted>>

TopClosed == pc \in {"top", "turn", "tasked"} /\ groupClosed /\ Terminate

Woken ==
  /\ pc = "waiting" /\ woken
  /\ pc' = "top" /\ woken' = FALSE
  /\ UNCHANGED <<poolVars, mutexVars, rowVars, taskVars, leaseVars, held, closeVars, aborted>>

Locked ==
  /\ pc = "locking" /\ Mutex!Grant(Driver) /\ Go("turn")
  /\ UNCHANGED <<poolVars, rowVars, taskVars, leaseVars, held, closeVars, aborted>>

(* One preparation task per iteration, unless an exclusive lease is asked for. *)
Turn ==
  /\ pc = "turn" /\ ~groupClosed
  /\ IF ~held /\ tasks # <<>>
       THEN /\ Go("task")
            /\ tasks' = Tail(tasks) /\ task' = [task EXCEPT ![Head(tasks)] = "running"]
       ELSE Go("admit") /\ UNCHANGED taskVars
  /\ UNCHANGED <<poolVars, mutexVars, rowVars, leaseVars, held, closeVars, aborted>>

TaskEnds ==
  /\ pc = "task" /\ Go("tasked")
  /\ task' = [t \in Tasks |-> IF task[t] = "running" THEN "done" ELSE task[t]]
  /\ UNCHANGED <<poolVars, mutexVars, rowVars, tasks, leaseVars, held, closeVars, aborted>>

Tasked ==
  /\ pc = "tasked" /\ ~groupClosed
  /\ PruneCancelled /\ held' = (exclusiveWaiters > 0) /\ Go("admit")
  /\ UNCHANGED <<poolVars, mutexVars, left, prefill, running, context, taskVars, leaseVars,
                 closeVars, aborted>>

(* Bug: rows in preparation are not looked at. *)
CompatibleWithRunning(r) == running = {} \/ Key[r] = context

Compatible(r) == Rows = {} \/ Key[r] = context

KvOf(S) == SumFunctionOnSet(Need, S)

Fits(r) == KvOf(Rows) + Need[r] <= KvBudget

Impossible(r) == Rows = {} /\ Need[r] > KvBudget

CanBurst(r) == Compatible(r) /\ Fits(r)

(* admitNext: the head of the queue is admitted, rejected, or has to wait. *)
AdmitNext ==
  LET r == Head(queue) IN
    \/ /\ ~Compatible(r) \/ (~Fits(r) /\ ~Impossible(r))
       /\ UNCHANGED rowVars
    \/ /\ Compatible(r)                  \* Impossible, or past the caches' position limit
       /\ queue' = Tail(queue) /\ stage' = Settled({r})
       /\ UNCHANGED <<left, prefill, running, context>>
    \/ /\ Compatible(r) /\ Fits(r)
       /\ queue' = Tail(queue)
       /\ \/ /\ prefill' = prefill \cup {r} /\ context' = Key[r]
             /\ stage' = [stage EXCEPT ![r] = "preparing"]
          \/ /\ stage' = Settled({r})                      \* its own state cannot be opened
             /\ context' \in {Key[r], IF Key[r] = context THEN context ELSE NoKey}
             /\ UNCHANGED prefill
       /\ UNCHANGED <<left, running>>

Admit ==
  /\ pc = "admit" /\ Go("group")
  /\ IF prefill = {} /\ ~held /\ queue # <<>> /\ Cardinality(running) < Capacity
       THEN AdmitNext ELSE UNCHANGED rowVars
  /\ UNCHANGED <<poolVars, mutexVars, taskVars, leaseVars, held, closeVars, aborted>>

(* More rows join the preparation, while its owner takes them. *)
Group ==
  /\ pc = "group"
  /\ \/ /\ prefill # {} /\ ~held /\ queue # <<>> /\ Cardinality(Rows) < Capacity
        /\ CanBurst(Head(queue))
        /\ AdmitNext /\ Go("group")
     \/ UNCHANGED rowVars /\ Go("work")
  /\ UNCHANGED <<poolVars, mutexVars, taskVars, leaseVars, held, closeVars, aborted>>

(* Preparation, alone or packed with a decode where the model can mix the two. *)
Work ==
  /\ pc = "work"
  /\ \/ prefill # {} /\ running # {} /\ Go("mixing")
     \/ prefill # {} /\ Go("preparing")
     \/ prefill = {} /\ Go("decode")
  /\ UNCHANGED <<poolVars, mutexVars, rowVars, taskVars, leaseVars, held, closeVars, aborted>>

(* The preparing rows P and decoding rows D do one unit of work each: J of P   *)
(* join the batch, and those in F end: finished, failed or aborted.            *)
UnitOfWork(P, D, J, F) ==
  /\ \A r \in P : left[r] = Tokens + 1 => r \in J \cup F
  /\ \A r \in D : left[r] = 1 => r \in F
  /\ prefill' = prefill \ (J \cup F)
  /\ running' = (running \cup J) \ F
  /\ stage' = [r \in Requests |-> IF r \in F THEN "settled" ELSE IF r \in J THEN "running" ELSE stage[r]]
  /\ left' = [r \in Requests |-> IF r \in J THEN Tokens
                                 ELSE IF r \in (P \cup D) \ F THEN left[r] - 1 ELSE left[r]]
  /\ UNCHANGED <<queue, context>>

MixedDone ==
  /\ pc = "mixing" /\ Go("yielding")
  /\ \E J \in SUBSET prefill : \E F \in SUBSET (Rows \ J) : UnitOfWork(prefill, running, J, F)
  /\ UNCHANGED <<poolVars, mutexVars, taskVars, leaseVars, held, closeVars, aborted>>

(* A mixed iteration throws: the error leaves the loop. *)
MixedFails == DriverFails /\ pc = "mixing" /\ Terminate

Prepared ==
  /\ pc = "preparing" /\ (Go("yielding") \/ Go("decode"))
  /\ \E J \in SUBSET prefill : \E F \in SUBSET (prefill \ J) : UnitOfWork(prefill, {}, J, F)
  /\ UNCHANGED <<poolVars, mutexVars, taskVars, leaseVars, held, closeVars, aborted>>

(* A preparation fails, and the rows that had joined cannot be taken out again. *)
PreparationCollapses ==
  /\ pc = "preparing" /\ FailAll /\ Go("decode")
  /\ UNCHANGED <<poolVars, mutexVars, left, context, leaseVars, held, closeVars, aborted>>

(* Short admissions first, then the batch takes its step, if it has a row. *)
Decode ==
  /\ pc = "decode"
  /\ IF prefill = {} /\ ~held /\ queue # <<>> /\ Cardinality(running) < Capacity /\ CanBurst(Head(queue))
       THEN Go("top")
       ELSE Go(IF running # {} THEN "decoding" ELSE "rest")
  /\ UNCHANGED <<poolVars, mutexVars, rowVars, taskVars, leaseVars, held, closeVars, aborted>>

Decoded ==
  /\ pc = "decoding" /\ Go("rest")
  /\ \E F \in SUBSET running : UnitOfWork({}, running, {}, F)
  /\ UNCHANGED <<poolVars, mutexVars, taskVars, leaseVars, held, closeVars, aborted>>

Rest ==
  /\ pc = "rest"
  /\ \/ /\ Cardinality(running) = 1 /\ queue = <<>> /\ prefill = {} /\ exclusiveWaiters = 0
        /\ Go("top")
     \/ Go("yielding")
  /\ UNCHANGED <<poolVars, mutexVars, rowVars, taskVars, leaseVars, held, closeVars, aborted>>

Yielded ==
  /\ pc = "yielding" /\ Go("top")
  /\ UNCHANGED <<poolVars, mutexVars, rowVars, taskVars, leaseVars, held, closeVars, aborted>>

(* #drive's finally: #looping = false, a microtask after failAll. *)
Ended ==
  /\ pc = "ending" /\ Go("none")
  /\ UNCHANGED <<poolVars, mutexVars, rowVars, taskVars, leaseVars, held, closeVars, aborted>>

-----------------------------------------------------------------------------
(* close: no more calls; the scheduler stops at its next boundary; then idle. *)

(* Bug: the driver that waits for work is not woken. *)
StopSleeping == groupClosed' = created /\ UNCHANGED driverVars

Stop ==
  /\ groupClosed' = created
  /\ woken' = (woken \/ (created /\ pc = "waiting")) /\ UNCHANGED <<pc, held>>

Close ==
  /\ Closes /\ closer = "open" /\ closer' = "stopping"
  /\ Pool!Close /\ Stop
  /\ UNCHANGED <<mutexVars, rowVars, taskVars, leaseVars, created, aborted>>

DriverStopped ==
  /\ closer = "stopping" /\ (groupClosed => pc = "none")
  /\ closer' = "idling"
  /\ UNCHANGED <<poolVars, mutexVars, rowVars, taskVars, leaseVars, driverVars, created, groupClosed, aborted>>

ClosedIdle ==
  /\ closer = "idling" /\ ~Busy /\ closer' = "closed"
  /\ UNCHANGED <<poolVars, mutexVars, rowVars, taskVars, leaseVars, driverVars, created, groupClosed, aborted>>

-----------------------------------------------------------------------------
RequestStep(r) == Run(r) \/ Submit(r) \/ NotSubmitted(r) \/ Finish(r) \/ AbortRequest(r)

LeaserStep(x) ==
  AcquireLease(x) \/ LeaseGranted(x) \/ AbortLease(x) \/ LeaseRejected(x) \/ DisposeLease(x)

TaskStep(t) == RunPreparation(t) \/ AbortTask(t)

CloseStep == Close \/ DriverStopped \/ ClosedIdle

DriverStep ==
  \/ Top \/ TopClosed \/ Woken \/ Locked \/ Turn \/ TaskEnds \/ Tasked \/ Admit \/ Group \/ Work
  \/ MixedDone \/ MixedFails \/ Prepared \/ PreparationCollapses \/ Decode \/ Decoded \/ Rest
  \/ Yielded \/ Ended

OthersStep ==
  \/ \E r \in Requests : RequestStep(r)
  \/ \E x \in Leasers : LeaserStep(x)
  \/ \E t \in Tasks : TaskStep(t)
  \/ CloseStep

Next == DriverStep \/ (Suspended /\ OthersStep)

Spec == Init /\ [][Next]_vars

(* Promises settle, requests that are reserved go on, exclusive work ends, and *)
(* the polls of close come round.  No caller has to call, and no signal aborts. *)
Fairness ==
  /\ WF_vars(DriverStep)
  /\ \A r \in Requests : WF_vars(Suspended /\ (Submit(r) \/ NotSubmitted(r) \/ Finish(r)))
  /\ \A x \in Leasers : WF_vars(Suspended /\ (LeaseGranted(x) \/ LeaseRejected(x) \/ DisposeLease(x)))
  /\ WF_vars(Suspended /\ (DriverStopped \/ ClosedIdle))

FairSpec == Spec /\ Fairness

-----------------------------------------------------------------------------
Stages == {"idle", "queued", "preparing", "running", "settled", "done"}

TypeOK ==
  /\ Pool!TypeOK /\ Mutex!TypeOK
  /\ stage \in [Requests -> Stages] /\ left \in [Requests -> 1..(Chunks + Tokens)]
  /\ queue \in Seq(Requests) /\ Rows \subseteq Requests
  /\ context \in {Key[r] : r \in Requests} \cup {NoKey}
  /\ tasks \in Seq(Tasks) /\ task \in [Tasks -> {"idle", "queued", "running", "done"}]
  /\ leaser \in [Leasers -> {"idle", "waiting", "holding", "rejected", "done"}]
  /\ exclusiveWaiters \in 0..Cardinality(Leasers)
  /\ pc \in Awaits \cup {"top", "turn", "tasked", "admit", "group", "work", "decode", "rest"}
  /\ {woken, held, created, groupClosed} \subseteq BOOLEAN
  /\ closer \in {"open", "stopping", "idling", "closed"}
  /\ aborted \subseteq Aborting

(* Whoever holds an exclusive lease has the model alone: no row is in the batch *)
(* or in preparation, no task runs, and the driver has given up its lease.      *)
ExclusiveIsAlone ==
  (\E x \in Leasers : leaser[x] = "holding") =>
    /\ Rows = {} /\ \A t \in Tasks : task[t] # "running"
    /\ pc \in {"none", "waiting", "locking", "top", "ending"}

(* An exclusive lease and the driver get the model in the order they asked.     *)
LeasesInOrder == Mutex!NoOvertaking

OneContext == \A r \in Rows : Key[r] = context

KvWithinBudget == KvOf(Rows) <= KvBudget

(* What the driver admits fits what is there, the rows in preparation counted:  *)
(* no row is prepared or decoded under the adapters another request asked for,  *)
(* and the projected KV stays within the budget.                                *)
BatchIsSound == OneContext /\ KvWithinBudget

(* A request is where its stage says, once, and has its reservation until its   *)
(* end: no row is lost between the queue, the preparation and the batch.        *)
RowsAccounted ==
  /\ \A r \in Requests :
       /\ stage[r] = "queued" <=> r \in Queued
       /\ stage[r] = "preparing" <=> r \in prefill
       /\ stage[r] = "running" <=> r \in running
       /\ stage[r] \in {"queued", "preparing", "running", "settled"} => pool[r] = "holding"
  /\ Len(queue) = Cardinality(Queued)

WaitersCounted ==
  exclusiveWaiters = Cardinality({x \in Leasers : leaser[x] \in {"waiting", "holding", "rejected"}})

(* The counts that decide who goes on are exact under all callers at once, the  *)
(* driver that comes back for ever and calls aborted while they wait: the       *)
(* pool's, which is full while anyone waits; exclusiveWaiters, from the call to *)
(* the end of the lease; the mutex's, with one holder and one gate per call.    *)
CountsAreSound ==
  /\ TypeOK /\ WaitersCounted
  /\ Pool!ActiveCounted /\ Pool!WaitersMeanFull
  /\ Mutex!MutualExclusion /\ Mutex!PendingExact /\ Mutex!GatesExact

(* The driver never sleeps on work it may do: if it waits and nobody woke it,   *)
(* either an exclusive lease holds it back or there is nothing, and no row in   *)
(* the queue has been aborted.                                                  *)
NoLostWakeup ==
  pc = "waiting" /\ ~woken =>
    /\ exclusiveWaiters > 0 \/ (queue = <<>> /\ tasks = <<>>)
    /\ Queued \cap aborted = {}

RequestsEnd == \A r \in Requests : pool[r] # "idle" ~> (stage[r] = "done" \/ r \in aborted \/ Closed)
LeasesGranted == \A x \in Leasers : leaser[x] = "waiting" ~> leaser[x] # "waiting"
TasksEnd == \A t \in Tasks : task[t] = "queued" ~> task[t] = "done"

(* Liveness, of three kinds of work that hold each other back: every request    *)
(* that asked for its reservation ends, every exclusive lease is granted,       *)
(* whatever rows and tasks it meets, and every preparation task runs, unless    *)
(* the gateway closes.                                                          *)
WorkEnds == RequestsEnd /\ LeasesGranted /\ TasksEnd

(* "Submit a request; resolves when its row finishes (EOS, stop, or length)"    *)
(* (batch-group.ts:222).                                                        *)
SubmittedSettles == \A r \in Requests : stage[r] = "queued" ~> stage[r] \in {"settled", "done"}

ClosedIsEmpty ==
  closer = "closed" =>
    /\ Rows = {} /\ queue = <<>> /\ active = 0 /\ locked = 0
    /\ \A t \in Tasks : task[t] \in {"idle", "done"}

(* Close ends, and once it has nothing is left and nothing starts: no row, no   *)
(* lease, no reservation, no preparation task.  For iterations that do not      *)
(* fail: work stranded by the end of a driver (SubmittedSettles) is left over.  *)
CloseEnds == (closer = "stopping" ~> closer = "closed") /\ []ClosedIsEmpty
=============================================================================

----------------------------- MODULE JobRunner -----------------------------
(***************************************************************************)
(* Managed jobs: apps/mlx-bun/src/jobs/runner.ts.  Each job is a row of    *)
(* the store and a child process; one child runs at a time, under an       *)
(* execution lease that the host asks for when the job's turn comes.  A    *)
(* caller may cancel a job wherever it is, and the host may close.         *)
(***************************************************************************)
EXTENDS Naturals, Sequences, FiniteSets, Functions, Collections

CONSTANTS
  Jobs,
  Stubborn,     \* jobs whose child may outlive its SIGKILL
  Immortal,     \* those of them whose child never exits
  NoJob, Host   \* no job; the caller that closes the host

VARIABLES
  queue,        \* spawnQueue
  holder,       \* gpuLeaseHolder
  active,       \* activeSpawn
  job,          \* each job's row, its child and its promises, a record
  stop,         \* where each caller's stopActive is; job j's caller cancels j
  target,       \* the job the closing host stops
  shut          \* closedStores has the store

vars == <<queue, holder, active, job, stop, target, shut>>

Callers == Jobs \cup {Host}
Stops(c) == IF c = Host THEN target ELSE c

\* at: none, queued, reserved (its turn has come), acquiring, arriving (the
\* lease is granted), running (its child lives), exited, ended.
Unknown == [at |-> "none", row |-> "none", lease |-> FALSE, aborted |-> FALSE, finished |-> FALSE]

Init ==
  /\ queue = <<>> /\ holder = NoJob /\ active = NoJob
  /\ job = [j \in Jobs |-> Unknown]
  /\ stop = [c \in Callers |-> "none"] /\ target = NoJob /\ shut = FALSE

\* A row is open while its status is "queued" or "running".
Failed(row) == IF row = "open" THEN "failed" ELSE row

\* drainQueue, given what the step before it made of the queue, of the holder
\* and of the jobs: the first one's turn comes when nobody holds the GPU.
Drain(q, h, a, js) ==
  IF h = NoJob /\ q # <<>>
  THEN /\ queue' = Tail(q) /\ holder' = Head(q) /\ active' = Head(q)
       /\ job' = [js EXCEPT ![Head(q)].at = "reserved"]
  ELSE queue' = q /\ holder' = h /\ active' = a /\ job' = js

\* Bug: whoever holds the GPU by now is forgotten.
FreedAnyway(h, j) == NoJob

\* releaseLease leaves alone what another job holds by now.
Freed(h, j) == IF h = j THEN NoJob ELSE h
Released(js, j) == [js EXCEPT ![j].lease = FALSE, ![j].finished = TRUE, ![j].aborted = FALSE]

----------------------------------------------------------------------------
Submit(j) ==
  /\ job[j].at = "none" /\ ~shut
  /\ Drain(Append(queue, j), holder, active, [job EXCEPT ![j].at = "queued", ![j].row = "open"])
  /\ UNCHANGED <<stop, target, shut>>

\* The lease is asked for, one turn after the job's own.
Acquire(j) ==
  /\ job[j].at = "reserved"
  /\ job' = [job EXCEPT ![j].at = "acquiring"]
  /\ UNCHANGED <<queue, holder, active, stop, target, shut>>

LeaseGranted(j) ==
  /\ job[j].at = "acquiring"
  /\ job' = [job EXCEPT ![j].at = "arriving"]
  /\ UNCHANGED <<queue, holder, active, stop, target, shut>>

\* The job fails before it has a child: its row is failed, its lease released
\* and the queue drained.
FailEarly(j) ==
  Drain(queue, Freed(holder, j), Freed(active, j),
        Released([job EXCEPT ![j].at = "ended", ![j].row = "failed"], j))

LeaseRefused(j) ==
  /\ job[j].at = "acquiring" /\ FailEarly(j)
  /\ UNCHANGED <<stop, target, shut>>

\* spawnNow, with the lease: unless the job was stopped meanwhile.
Start(j) ==
  /\ job[j].at = "arriving" /\ ~job[j].aborted
  /\ job' = [job EXCEPT ![j].at = "running", ![j].lease = TRUE]
  /\ UNCHANGED <<queue, holder, active, stop, target, shut>>

\* The job was stopped while its lease came, or the child cannot be spawned.
NotStarted(j) ==
  /\ job[j].at = "arriving" /\ FailEarly(j)
  /\ UNCHANGED <<stop, target, shut>>

\* The child records its own status, and exits with 0 only after it is done.
ChildWrites(j, row) ==
  /\ job[j].at = "running" /\ job[j].row = "open"
  /\ job' = [job EXCEPT ![j].row = row]
  /\ UNCHANGED <<queue, holder, active, stop, target, shut>>

Exit(j) ==
  /\ job[j].at = "running"
  /\ job' = [job EXCEPT ![j].at = "exited"]
  /\ UNCHANGED <<queue, holder, active, stop, target, shut>>

\* Bugs: the child's own status is overwritten; nobody drains the queue.
JoinFails(j) ==
  /\ job[j].at = "exited"
  /\ Drain(queue, Freed(holder, j), Freed(active, j),
           Released([job EXCEPT ![j].at = "ended", ![j].row = "failed"], j))
  /\ UNCHANGED <<stop, target, shut>>
JoinQuietly(j) ==
  /\ job[j].at = "exited"
  /\ holder' = Freed(holder, j) /\ active' = Freed(active, j)
  /\ job' = Released([job EXCEPT ![j].at = "ended", ![j].row = Failed(@)], j)
  /\ UNCHANGED <<queue, stop, target, shut>>

\* The process group and the logs are joined, within their bounds; an exit
\* without a final status is recorded as a failure.
Join(j) ==
  /\ job[j].at = "exited"
  /\ Drain(queue, Freed(holder, j), Freed(active, j),
           Released([job EXCEPT ![j].at = "ended", ![j].row = Failed(@)], j))
  /\ UNCHANGED <<stop, target, shut>>

----------------------------------------------------------------------------
(* Stopping.  Where stopActive goes on from: it waits for the child's exit *)
(* when there is a child, then for the job to be finished.                 *)

StopPoint(j) == IF job[j].at = "running" THEN "exit" ELSE "finished"

CancelQueued(j) ==
  /\ j \in Range(queue)
  /\ queue' = Without(queue, {j})
  /\ job' = [job EXCEPT ![j].at = "ended", ![j].row = "failed", ![j].finished = TRUE]
  /\ UNCHANGED <<holder, active, stop, target, shut>>

\* A job that has recorded its end is only waited for.
CancelActive(j) ==
  /\ active = j /\ stop[j] = "none"
  /\ IF job[j].row = "open"
     THEN job' = [job EXCEPT ![j].aborted = TRUE] /\ stop' = [stop EXCEPT ![j] = StopPoint(j)]
     ELSE stop' = [stop EXCEPT ![j] = "finished"] /\ UNCHANGED job
  /\ UNCHANGED <<queue, holder, active, target, shut>>

\* closeSubprocessJobs: the queued jobs fail, the active one is stopped.
AtClose(j) ==
  CASE j \in Range(queue) -> [job[j] EXCEPT !.at = "ended", !.row = "failed", !.finished = TRUE]
    [] j = active -> [job[j] EXCEPT !.aborted = TRUE]
    [] OTHER -> job[j]
Close ==
  /\ ~shut /\ shut' = TRUE
  /\ queue' = <<>> /\ target' = active
  /\ job' = [j \in Jobs |-> AtClose(j)]
  /\ stop' = [stop EXCEPT ![Host] = IF active = NoJob THEN "done" ELSE StopPoint(active)]
  /\ UNCHANGED <<holder, active>>

ChildGone(c) ==
  /\ stop[c] = "exit" /\ job[Stops(c)].at # "running"
  /\ stop' = [stop EXCEPT ![c] = "finished"]
  /\ UNCHANGED <<queue, holder, active, job, target, shut>>

\* The child has outlived SIGKILL by a grace: its lease is released without it,
\* and nobody drains the queue before the child exits.
GiveUp(c) ==
  LET j == Stops(c) IN
  /\ stop[c] = "exit" /\ j \in Stubborn /\ job[j].at = "running"
  /\ stop' = [stop EXCEPT ![c] = "finished"]
  /\ holder' = Freed(holder, j) /\ active' = Freed(active, j) /\ job' = Released(job, j)
  /\ UNCHANGED <<queue, target, shut>>

\* Bug: a stop does not wait until the job is finished.
StopDoneAtOnce(c) ==
  /\ stop[c] = "finished" /\ stop' = [stop EXCEPT ![c] = "done"]
  /\ UNCHANGED <<queue, holder, active, job, target, shut>>

StopDone(c) ==
  /\ stop[c] = "finished" /\ job[Stops(c)].finished
  /\ stop' = [stop EXCEPT ![c] = "done"]
  /\ UNCHANGED <<queue, holder, active, job, target, shut>>

----------------------------------------------------------------------------
(* Properties.                                                             *)

\* One managed child at a time: a child whose job has not been given up has
\* the lease, and its job is the holder and the active one, from the spawn
\* until the child is joined; and no lease is kept by a job that has ended.
OneChildAtATime ==
  \A j \in Jobs :
    /\ job[j].at \in {"running", "exited"} /\ ~job[j].finished =>
         job[j].lease /\ holder = j /\ active = j
    /\ job[j].lease => holder = j
    /\ job[j].at = "ended" => job[j].finished

\* A stop has returned: the job ended for good and no child of it is left,
\* unless it was given up (cancelSubprocessJob: "Resolves when the job's
\* process is gone").
StoppedIsGone ==
  \A c \in Callers : stop[c] = "done" /\ Stops(c) # NoJob =>
    LET j == Stops(c) IN
    /\ job[j].finished /\ holder # j
    /\ j \notin Stubborn => job[j].at = "ended" /\ job[j].row # "open"

\* A row that has reached its end keeps it, whoever wrote it.
RowsFinal ==
  [][\A j \in Jobs : job[j].row \in {"done", "failed"} => job'[j].row = job[j].row]_vars

\* Every job submitted comes to its end and its row says which.
JobsEnd ==
  \A j \in Jobs : job[j].at = "queued" ~> job[j].at = "ended" /\ job[j].row # "open"

\* "leave it queued to drain when the lease frees": a job does not stay in the
\* queue while nobody holds the GPU (submitSubprocess, releaseLease).
FreeGpuDrains == (holder = NoJob /\ queue # <<>>) ~> (holder # NoJob \/ queue = <<>>)
=============================================================================

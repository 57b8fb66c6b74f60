---------------------------- MODULE ManagedJobs ----------------------------
(***************************************************************************)
(* Managed jobs over an isolated engine worker: the lease the job runner   *)
(* asks for is, through the host's pauseAll and the worker unit's pause    *)
(* (apps/mlx-bun/src/cli/serve-isolated.ts, worker-unit.ts), an execution  *)
(* lease of the worker's supervisor.                                       *)
(***************************************************************************)
EXTENDS Naturals, Sequences, FiniteSets

CONSTANTS Jobs, Stubborn, Immortal, NoJob, Host,
          Budget, MaxWorkers

ASSUME JobsAssumption ==
  /\ IsFiniteSet(Jobs) /\ NoJob \notin Jobs /\ Host \notin Jobs /\ Immortal \subseteq Stubborn
  /\ Budget \in Nat /\ MaxWorkers \in Nat \ {0}

VARIABLES queue, holder, active, job, stop, target, shut
VARIABLES state, started, proc, worker, exits, respawn, held, lease, from, closing

R == INSTANCE JobRunner
W == INSTANCE WorkerSupervisor WITH Clients <- Jobs

runnerVars == <<queue, holder, active, job, stop, target, shut>>
workerVars == <<state, started, proc, worker, exits, respawn, held, lease, from, closing>>
vars == <<runnerVars, workerVars>>

Init == R!Init /\ W!Init

RunnerOnly(A) == A /\ UNCHANGED workerVars
WorkerOnly(A) == A /\ UNCHANGED runnerVars

\* The runner asks, and the supervisor answers or refuses.
Ask(j) == R!Acquire(j) /\ W!Acquire(j)
Granted(j) == W!Arrive(j) /\ lease'[j] = "holding" /\ R!LeaseGranted(j)
ArrivesLate(j) == WorkerOnly(W!Arrive(j) /\ lease'[j] # "holding")
Refused(j) == W!Seen(j) /\ R!LeaseRefused(j)

\* The abort signal of a stopped job reaches its request for the lease.
Aborted(j) == WorkerOnly(job[j].at = "acquiring" /\ job[j].aborted /\ W!Abort(j))

\* Bug: the lease of a job that does not start is kept.
NotStartedKeeps(j) == RunnerOnly(R!NotStarted(j))

\* A lease that comes for a job that does not start is given back, as is the
\* lease of a job that ends.
NotStarted(j) == R!NotStarted(j) /\ W!Dispose(j)
Join(j) == R!Join(j) /\ IF job[j].lease THEN W!Dispose(j) ELSE UNCHANGED workerVars
GiveUp(c) == R!GiveUp(c) /\ IF job[R!Stops(c)].lease THEN W!Dispose(R!Stops(c)) ELSE UNCHANGED workerVars

JobStep(j) ==
  \/ Ask(j) \/ Granted(j) \/ ArrivesLate(j) \/ Refused(j) \/ Aborted(j) \/ NotStarted(j) \/ Join(j)
  \/ RunnerOnly(R!Start(j)) \/ RunnerOnly(R!Exit(j))
  \/ \E row \in {"done", "failed"} : RunnerOnly(R!ChildWrites(j, row))

\* The server answers once its first worker is ready.
CallStep ==
  \/ \E j \in Jobs : RunnerOnly(started /\ R!Submit(j)) \/ RunnerOnly(R!CancelQueued(j)) \/ RunnerOnly(R!CancelActive(j))
  \/ RunnerOnly(R!Close)

StopStep(c) == RunnerOnly(R!ChildGone(c)) \/ RunnerOnly(R!StopDone(c)) \/ GiveUp(c)

\* The unit is closed after the jobs when the server stops, and before that
\* when its first worker failed or when it is broken.
UnitCloses ==
  /\ WorkerOnly(W!Close)
  /\ \/ stop[Host] = "done"
     \/ ~started /\ ~W!Alive(1)
     \/ state = "exhausted"

Next ==
  \/ \E j \in Jobs : JobStep(j)
  \/ CallStep
  \/ \E c \in R!Callers : StopStep(c)
  \/ \E c \in Jobs : WorkerOnly(W!LeaseStep(c)) \/ WorkerOnly(W!Broken(c))
  \/ WorkerOnly(W!ProcessStep)
  \/ UnitCloses \/ WorkerOnly(W!Stopped) \/ WorkerOnly(W!CloseDone)

Spec == Init /\ [][Next]_vars

\* Children exit in the end, but for the immortal ones; what the host and the
\* supervisor were asked goes on.
Fairness ==
  /\ \A j \in Jobs :
       /\ WF_vars(RunnerOnly(R!Exit(j)) /\ j \notin Immortal)
       /\ WF_vars(Ask(j)) /\ WF_vars(Granted(j) \/ ArrivesLate(j) \/ WorkerOnly(W!Broken(j)))
       /\ WF_vars(Refused(j)) /\ WF_vars(Aborted(j))
       /\ WF_vars(RunnerOnly(R!Start(j)) \/ NotStarted(j)) /\ WF_vars(Join(j))
  /\ \A c \in R!Callers : WF_vars(StopStep(c))
  /\ \A w \in W!Workers :
       /\ WF_vars(WorkerOnly(W!OnExit(w))) /\ WF_vars(WorkerOnly(W!BackedOff(w)))
       /\ WF_vars(WorkerOnly(W!Respawn(w))) /\ WF_vars(WorkerOnly(W!Joined(w)))
       /\ WF_vars(WorkerOnly(W!ReadyAgain(w) \/ W!HandshakeFails(w)))
       /\ WF_vars(WorkerOnly(W!Die(w) /\ (respawn[w] = "joining" \/ closing = "stopping")))
  /\ WF_vars(WorkerOnly(W!Stopped)) /\ WF_vars(WorkerOnly(W!CloseDone))
  /\ \A c \in Jobs : WF_vars(WorkerOnly(W!LeaseStep(c)))

FairSpec == Spec /\ Fairness

----------------------------------------------------------------------------
(* Properties.                                                             *)

\* One child at a time, under the lease its job holds (spawnNow, releaseLease).
OneChildAtATime == R!OneChildAtATime
\* Whoever stopped a job finds it gone (stopActive, cancelSubprocessJob).
StoppedIsGone == R!StoppedIsGone
\* The end that a job's row records is never overwritten (spawnNow, job-entry).
RowsFinal == R!RowsFinal
\* A restart never takes the GPU from a job that has been leased it (untilIdle).
RespawnWaits == W!RespawnWaits
\* The queue of jobs moves on when the GPU is free (releaseLease, drainQueue).
FreeGpuDrains == R!FreeGpuDrains

\* A lease that the supervisor counts is one that somebody will dispose: the
\* job the runner gave it to, or one it is arriving at (acquireExecutionLease).
LeasesOwned ==
  /\ W!HeldCounted
  /\ \A j \in Jobs : lease[j] = "holding" <=> job[j].lease \/ job[j].at = "arriving"

\* A job that has been submitted comes to its end, restarts, refusals and the
\* host's close included (submitSubprocess, closeSubprocessJobs).
JobsEnd == R!JobsEnd
=============================================================================

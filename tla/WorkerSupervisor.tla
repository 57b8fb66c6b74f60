------------------------- MODULE WorkerSupervisor -------------------------
(***************************************************************************)
(* The parent's side of an isolated engine worker: apps/mlx-bun/src/jobs/  *)
(* worker-supervisor.ts over worker-process.ts.  Workers come one after    *)
(* the other, numbered 1, 2, ...; one that exits is respawned within a     *)
(* budget, and clients hold execution leases that a worker granted over a  *)
(* connection.  Each respawn is an asynchronous function of its own.       *)
(***************************************************************************)
EXTENDS Naturals, FiniteSets

CONSTANTS
  Clients,      \* those who ask for execution leases
  Budget,       \* budget.max
  MaxWorkers    \* bound: the workers spawned; the last one's exit spends the budget

VARIABLES
  state,        \* state
  started,      \* the first worker has been ready
  proc,         \* each worker's process
  worker,       \* the number of the latest worker (worker)
  exits,        \* the exits within the rolling window (exits.length)
  respawn,      \* where the respawn that spawns each worker is suspended
  held,         \* held
  lease,        \* where each client's acquireExecutionLease is
  from,         \* the worker it asked
  closing       \* where close is

vars == <<state, started, proc, worker, exits, respawn, held, lease, from, closing>>

Workers == 1 .. MaxWorkers

Init ==
  /\ state = "starting" /\ started = FALSE
  /\ proc = [w \in Workers |-> IF w = 1 THEN "loading" ELSE "none"]
  /\ worker = 1 /\ exits = 0
  /\ respawn = [w \in Workers |-> "none"]
  /\ held = 0
  /\ lease = [c \in Clients |-> "none"] /\ from = [c \in Clients |-> 0]
  /\ closing = "no"

Alive(w) == proc[w] \in {"loading", "serving"}

\* setState: those who wait for a serving worker go on, or are refused.
Waiters(next) ==
  [c \in Clients |->
     CASE lease[c] = "waiting" /\ next = "ready" -> "awake"
       [] lease[c] = "waiting" /\ next \in {"exhausted", "closed"} -> "refused"
       [] OTHER -> lease[c]]
SetState(next) == state' = next /\ lease' = Waiters(next)

----------------------------------------------------------------------------
(* The worker's process.                                                   *)

\* It exits, of itself or stopped; what it prints before that is read first.
Die(w) ==
  /\ Alive(w) /\ proc' = [proc EXCEPT ![w] = "dead"]
  /\ UNCHANGED <<state, started, worker, exits, respawn, held, lease, from, closing>>

\* The ready line: the first worker's, or one that a respawn waits for.
ReadyFirst ==
  /\ worker = 1 /\ proc[1] = "loading" /\ ~started
  /\ started' = TRUE /\ proc' = [proc EXCEPT ![1] = "serving"]
  /\ IF state = "starting" THEN SetState("ready") ELSE UNCHANGED <<state, lease>>
  /\ UNCHANGED <<worker, exits, respawn, held, from, closing>>

ReadyAgain(w) ==
  /\ respawn[w] = "handshake" /\ proc[w] = "loading"
  /\ proc' = [proc EXCEPT ![w] = "serving"] /\ respawn' = [respawn EXCEPT ![w] = "done"]
  /\ IF worker = w /\ state = "restarting" THEN SetState("ready") ELSE UNCHANGED <<state, lease>>
  /\ UNCHANGED <<started, worker, exits, held, from, closing>>

\* Another socket or version, no ready line in time, or an exit before it: the
\* respawn stops the worker and joins it.
HandshakeFails(w) ==
  /\ respawn[w] = "handshake" /\ proc[w] \in {"loading", "dead", "gone"}
  /\ respawn' = [respawn EXCEPT ![w] = "joining"]
  /\ UNCHANGED <<state, started, proc, worker, exits, held, lease, from, closing>>

Joined(w) ==
  /\ respawn[w] = "joining" /\ ~Alive(w)
  /\ respawn' = [respawn EXCEPT ![w] = "done"]
  /\ UNCHANGED <<state, started, proc, worker, exits, held, lease, from, closing>>

\* A minute passes since the oldest exit.
WindowPasses ==
  /\ exits > 0 /\ exits' = exits - 1
  /\ UNCHANGED <<state, started, proc, worker, respawn, held, lease, from, closing>>

\* onExit: the restart budget is spent, or a respawn begins.
OnExit(w) ==
  /\ proc[w] = "dead" /\ worker = w
  /\ proc' = [proc EXCEPT ![w] = "gone"]
  /\ IF state = "closed" \/ ~started THEN UNCHANGED <<state, lease, exits, respawn>>
     ELSE IF exits >= Budget \/ w = MaxWorkers THEN SetState("exhausted") /\ UNCHANGED <<exits, respawn>>
     ELSE /\ exits' = exits + 1
          /\ respawn' = [respawn EXCEPT ![w + 1] = "backoff"]
          /\ SetState("restarting")
  /\ UNCHANGED <<started, worker, held, from, closing>>

\* Bug: the respawn does not wait for the leases.
AfterBackoffAtOnce == "woken"

\* untilIdle: at once while nothing is held.
AfterBackoff == IF held = 0 THEN "woken" ELSE "idle"

\* The delay is over, or close has ended it.
BackedOff(w) ==
  /\ respawn[w] = "backoff"
  /\ respawn' = [respawn EXCEPT ![w] = IF state # "restarting" THEN "done" ELSE AfterBackoff]
  /\ UNCHANGED <<state, started, proc, worker, exits, held, lease, from, closing>>

\* After untilIdle: the next worker is spawned, or cannot be.
Respawn(w) ==
  /\ respawn[w] = "woken"
  /\ \/ /\ state # "restarting"
        /\ respawn' = [respawn EXCEPT ![w] = "done"] /\ UNCHANGED <<state, proc, worker, lease>>
     \/ /\ state = "restarting"
        /\ proc' = [proc EXCEPT ![w] = "loading"] /\ worker' = w
        /\ respawn' = [respawn EXCEPT ![w] = "handshake"] /\ UNCHANGED <<state, lease>>
     \/ /\ state = "restarting" /\ SetState("exhausted")
        /\ respawn' = [respawn EXCEPT ![w] = "done"] /\ UNCHANGED <<proc, worker>>
  /\ UNCHANGED <<started, exits, held, from, closing>>

----------------------------------------------------------------------------
(* A client's lease.  The unit is handed out once its first worker is      *)
(* ready.  A refusal is a state of its own until the client sees it.       *)

Acquire(c) ==
  /\ lease[c] = "none" /\ started
  /\ lease' = [lease EXCEPT ![c] = CASE state = "ready" -> "awake"
                                     [] state \in {"exhausted", "closed"} -> "refused"
                                     [] OTHER -> "waiting"]
  /\ UNCHANGED <<state, started, proc, worker, exits, respawn, held, from, closing>>

\* After whenReady: the request goes to the worker there is now.
Ask(c) ==
  /\ lease[c] = "awake"
  /\ IF state = "ready" THEN lease' = [lease EXCEPT ![c] = "asking"] /\ from' = [from EXCEPT ![c] = worker]
     ELSE lease' = [lease EXCEPT ![c] = "refused"] /\ UNCHANGED from
  /\ UNCHANGED <<state, started, proc, worker, exits, respawn, held, closing>>

\* The worker's gateway grants one execution lease at a time.
Answer(c) ==
  /\ lease[c] = "asking" /\ proc[from[c]] = "serving"
  /\ \A d \in Clients \ {c} : from[d] = from[c] => lease[d] \notin {"answered", "holding"}
  /\ lease' = [lease EXCEPT ![c] = "answered"]
  /\ UNCHANGED <<state, started, proc, worker, exits, respawn, held, from, closing>>

\* The response is there, of a worker that may be dead and replaced by now.  A
\* respawn that is woken goes on in a microtask, before the next response.
Arrive(c) ==
  /\ lease[c] = "answered" /\ \A w \in Workers : respawn[w] # "woken"
  /\ IF state = "closed" THEN lease' = [lease EXCEPT ![c] = "refused"] /\ UNCHANGED held
     ELSE lease' = [lease EXCEPT ![c] = "holding"] /\ held' = held + 1
  /\ UNCHANGED <<state, started, proc, worker, exits, respawn, from, closing>>

\* The connection breaks with the worker, or with the parent's lifetime.
Broken(c) ==
  /\ lease[c] \in {"asking", "answered"} /\ (~Alive(from[c]) \/ state = "closed")
  /\ lease' = [lease EXCEPT ![c] = "refused"]
  /\ UNCHANGED <<state, started, proc, worker, exits, respawn, held, from, closing>>

\* The client's signal aborts before it holds the lease.
Abort(c) ==
  /\ lease[c] \in {"waiting", "awake", "asking", "answered"}
  /\ lease' = [lease EXCEPT ![c] = "refused"]
  /\ UNCHANGED <<state, started, proc, worker, exits, respawn, held, from, closing>>

Seen(c) ==
  /\ lease[c] = "refused" /\ lease' = [lease EXCEPT ![c] = "none"] /\ from' = [from EXCEPT ![c] = 0]
  /\ UNCHANGED <<state, started, proc, worker, exits, respawn, held, closing>>

\* dispose: the last one wakes the respawns that wait for it.
Dispose(c) ==
  /\ lease[c] = "holding" /\ held' = held - 1
  /\ lease' = [lease EXCEPT ![c] = "none"] /\ from' = [from EXCEPT ![c] = 0]
  /\ respawn' = [w \in Workers |-> IF respawn[w] = "idle" /\ held = 1 THEN "woken" ELSE respawn[w]]
  /\ UNCHANGED <<state, started, proc, worker, exits, closing>>

----------------------------------------------------------------------------
(* close: what waits is woken or refused, a serving worker drained, the    *)
(* worker stopped and joined, and every respawn joined.                    *)

Close ==
  /\ closing = "no" /\ SetState("closed")
  /\ respawn' = [w \in Workers |-> IF respawn[w] = "idle" THEN "done" ELSE respawn[w]]
  /\ closing' = "stopping"
  /\ UNCHANGED <<started, proc, worker, exits, held, from>>

Stopped ==
  /\ closing = "stopping" /\ ~Alive(worker)
  /\ closing' = "joining"
  /\ UNCHANGED <<state, started, proc, worker, exits, respawn, held, lease, from>>

CloseDone ==
  /\ closing = "joining" /\ \A w \in Workers : respawn[w] \in {"none", "done"}
  /\ closing' = "done"
  /\ UNCHANGED <<state, started, proc, worker, exits, respawn, held, lease, from>>

----------------------------------------------------------------------------
ProcessStep ==
  \/ ReadyFirst \/ WindowPasses
  \/ \E w \in Workers : \/ Die(w) \/ ReadyAgain(w) \/ HandshakeFails(w) \/ Joined(w)
                        \/ OnExit(w) \/ BackedOff(w) \/ Respawn(w)
\* The steps of a lease that its client takes no part in.
LeaseStep(c) == Ask(c) \/ Answer(c)

----------------------------------------------------------------------------
(* Properties.                                                             *)

\* held is the number of leases whose clients have not disposed them.
HeldCounted == held = Cardinality({c \in Clients : lease[c] = "holding"})

\* "a respawn waits until every lease has been released": no worker is spawned
\* while a client holds a lease, whichever worker it is from (untilIdle, wakeIdle).
RespawnWaits ==
  [][(\E w \in Workers : proc[w] = "none" /\ proc'[w] = "loading")
       => \A c \in Clients : lease[c] # "holding"]_vars
=============================================================================

--------------------------- MODULE AdmissionPool ---------------------------
(***************************************************************************)
(* packages/inference/src/execution/admission.ts: a counted pool of leases *)
(* with a bounded FIFO queue.  A disposed lease is handed to the first     *)
(* waiter in the same step.  Every method is synchronous: one action each. *)
(* A call refused at once (closed, cancelled before, queue full) changes   *)
(* nothing.                                                                *)
(***************************************************************************)
EXTENDS Naturals, Sequences, FiniteSets, Collections

CONSTANTS Clients, Capacity, MaxQueued

VARIABLES
  state,    \* what each client is doing
  waiting, active, closed

vars == <<state, waiting, active, closed>>

States == {"idle", "waiting", "holding"}

Holding == {c \in Clients : state[c] = "holding"}

Init ==
  /\ state = [c \in Clients |-> "idle"]
  /\ waiting = <<>> /\ active = 0 /\ closed = FALSE

Grant(c) ==
  /\ state[c] = "idle" /\ ~closed /\ active < Capacity
  /\ state' = [state EXCEPT ![c] = "holding"] /\ active' = active + 1
  /\ UNCHANGED <<waiting, closed>>

Enqueue(c) ==
  /\ state[c] = "idle" /\ ~closed /\ active >= Capacity /\ Len(waiting) < MaxQueued
  /\ state' = [state EXCEPT ![c] = "waiting"] /\ waiting' = Append(waiting, c)
  /\ UNCHANGED <<active, closed>>

Cancel(c) ==
  /\ state[c] = "waiting"
  /\ state' = [state EXCEPT ![c] = "idle"]
  /\ waiting' = Without(waiting, {c})
  /\ UNCHANGED <<active, closed>>

(* Bug: the lease goes back to the pool and nobody in the queue is told. *)
DisposeUnheard(c) ==
  /\ state[c] = "holding"
  /\ state' = [state EXCEPT ![c] = "idle"] /\ active' = active - 1
  /\ UNCHANGED <<waiting, closed>>

Dispose(c) ==
  /\ state[c] = "holding"
  /\ IF waiting = <<>>
       THEN /\ state' = [state EXCEPT ![c] = "idle"]
            /\ active' = active - 1
            /\ UNCHANGED waiting
       ELSE /\ state' = [state EXCEPT ![c] = "idle", ![Head(waiting)] = "holding"]
            /\ waiting' = Tail(waiting)
            /\ UNCHANGED active
  /\ UNCHANGED closed

Close ==
  /\ ~closed /\ closed' = TRUE /\ waiting' = <<>>
  /\ state' = [c \in Clients |-> IF state[c] = "waiting" THEN "idle" ELSE state[c]]
  /\ UNCHANGED active

Next ==
  \/ \E c \in Clients : Grant(c) \/ Enqueue(c) \/ Cancel(c) \/ Dispose(c)
  \/ Close

Spec == Init /\ [][Next]_vars

(* A lease is disposed: the request that holds it ends. *)
Fairness == \A c \in Clients : WF_vars(Dispose(c))
FairSpec == Spec /\ Fairness

-----------------------------------------------------------------------------
TypeOK ==
  /\ state \in [Clients -> States]
  /\ waiting \in Seq(Clients) /\ Len(waiting) <= MaxQueued
  /\ active \in 0..Capacity /\ closed \in BOOLEAN

(* The count is the leases outstanding ("a cancelled waiter releases no active *)
(* owner's capacity"), whatever cancels, disposes or closes in between.        *)
ActiveCounted == active = Cardinality(Holding)

(* Somebody waits only while the pool is full.  This is why acquire need not   *)
(* look at the queue before it grants: no newcomer can pass a waiter.          *)
WaitersMeanFull == waiting # <<>> => active = Capacity

(* First come, first served.                                                   *)
NoOvertaking ==
  [][\A c, d \in Clients :
       state[c] # "holding" /\ state'[c] = "holding" /\ state[d] = "waiting" /\ state'[d] = "waiting"
         => \E i, j \in 1..Len(waiting) : i < j /\ waiting[i] = c /\ waiting[j] = d]_vars

(* Liveness: a waiter gets its lease, or its call is cancelled or refused.     *)
WaiterServed(c) == state[c] = "waiting" ~> state[c] # "waiting"
=============================================================================

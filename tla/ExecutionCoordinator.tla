------------------------ MODULE ExecutionCoordinator ------------------------
(***************************************************************************)
(* packages/inference/src/execution/coordinator.ts: shared activity and    *)
(* exclusive jobs, one bounded FIFO queue for both.                        *)
(*                                                                         *)
(* Every method is synchronous, so each is one action.  A client acquires, *)
(* may wait, holds, disposes, and may come back.  A call that is refused   *)
(* (closed, cancelled before, queue full) changes nothing: it is a stutter.*)
(***************************************************************************)
EXTENDS Naturals, Sequences, FiniteSets

CONSTANTS Clients, MaxQueued

ASSUME ClientsAssumption == IsFiniteSet(Clients)
ASSUME MaxQueuedAssumption == MaxQueued \in Nat

VARIABLES
  state,   \* what each client is doing
  mode,    \* how it asked for the lease it waits for or holds
  queue, readers, writer, closed

vars == <<state, mode, queue, readers, writer, closed>>

Modes == {"shared", "exclusive"}
States == {"idle", "queued", "holding"}

(* Bug: a writer is let in among the readers. *)
DrainsToAnyWriter(q, m, r, w, n) ==
  /\ n \in 0..Len(q)
  /\ \A i \in 1..n : ~w /\ (m[q[i]] = "exclusive" => n = 1)
  /\ n < Len(q) => w \/ (n > 0 /\ "exclusive" \in {m[q[1]], m[q[n + 1]]})

(* #drain: the loop takes the first n of q, given r readers and perhaps a writer. *)
DrainsTo(q, m, r, w, n) ==
  /\ n \in 0..Len(q)
  /\ \A i \in 1..n : ~w /\ (m[q[i]] = "exclusive" => n = 1 /\ r = 0)
  /\ n < Len(q) => \/ w
                   \/ n > 0 /\ "exclusive" \in {m[q[1]], m[q[n + 1]]}
                   \/ r > 0 /\ m[q[1]] = "exclusive"

Asking(S, md) == {c \in S : mode[c] = md}

(* The leases given to the first n of q; c, if anyone, leaves the queue or its lease. *)
Drain(q, r, w, c, n) ==
  LET granted == {q[i] : i \in 1..n} IN
    /\ DrainsTo(q, mode, r, w, n)
    /\ queue' = SubSeq(q, n + 1, Len(q))
    /\ readers' = r + Cardinality(Asking(granted, "shared"))
    /\ writer' = (w \/ Asking(granted, "exclusive") # {})
    /\ state' = [d \in Clients |->
                   IF d \in granted THEN "holding" ELSE IF d = c THEN "idle" ELSE state[d]]

-----------------------------------------------------------------------------
Init ==
  /\ state = [c \in Clients |-> "idle"] /\ mode = [c \in Clients |-> "shared"]
  /\ queue = <<>> /\ readers = 0 /\ writer = FALSE /\ closed = FALSE

(* Bug: a reader that arrives joins the readers, past the queue. *)
FreeForNewcomers(md) == ~writer /\ (md = "shared" \/ readers = 0)

Free(md) == queue = <<>> /\ ~writer /\ (md = "shared" \/ readers = 0)

Grant(c, md) ==
  /\ state[c] = "idle" /\ ~closed /\ Free(md)
  /\ state' = [state EXCEPT ![c] = "holding"]
  /\ mode' = [mode EXCEPT ![c] = md]
  /\ readers' = IF md = "shared" THEN readers + 1 ELSE readers
  /\ writer' = (md = "exclusive")
  /\ UNCHANGED <<queue, closed>>

Enqueue(c, md) ==
  /\ state[c] = "idle" /\ ~closed /\ ~Free(md) /\ Len(queue) < MaxQueued
  /\ state' = [state EXCEPT ![c] = "queued"]
  /\ mode' = [mode EXCEPT ![c] = md]
  /\ queue' = Append(queue, c)
  /\ UNCHANGED <<readers, writer, closed>>

Others(i) == SubSeq(queue, 1, i - 1) \o SubSeq(queue, i + 1, Len(queue))

(* Bug: a cancelled writer leaves without letting in the readers behind it. *)
CancelSilently(i) ==
  /\ state' = [state EXCEPT ![queue[i]] = "idle"]
  /\ queue' = Others(i)
  /\ UNCHANGED <<mode, readers, writer, closed>>

(* The signal of the i-th waiter aborts. *)
Cancel(i) ==
  /\ \E n \in 0..Len(queue) : Drain(Others(i), readers, writer, queue[i], n)
  /\ UNCHANGED <<mode, closed>>

Dispose(c) ==
  /\ state[c] = "holding"
  /\ \E n \in 0..Len(queue) :
       Drain(queue, IF mode[c] = "shared" THEN readers - 1 ELSE readers,
             mode[c] = "shared" /\ writer, c, n)
  /\ UNCHANGED <<mode, closed>>

Close ==
  /\ ~closed /\ closed' = TRUE
  /\ queue' = <<>>
  /\ state' = [c \in Clients |-> IF state[c] = "queued" THEN "idle" ELSE state[c]]
  /\ UNCHANGED <<mode, readers, writer>>

Next ==
  \/ \E c \in Clients : \E md \in Modes : Grant(c, md) \/ Enqueue(c, md)
  \/ \E i \in 1..Len(queue) : Cancel(i)
  \/ \E c \in Clients : Dispose(c)
  \/ Close

Spec == Init /\ [][Next]_vars

(* A lease is disposed: its holder's work ends.  Nothing else is owed. *)
FairSpec == Spec /\ \A c \in Clients : WF_vars(Dispose(c))

-----------------------------------------------------------------------------
TypeOK ==
  /\ state \in [Clients -> States] /\ mode \in [Clients -> Modes]
  /\ queue \in Seq(Clients) /\ Len(queue) <= MaxQueued
  /\ readers \in Nat /\ writer \in BOOLEAN /\ closed \in BOOLEAN

Holding == {c \in Clients : state[c] = "holding"}

(* Exclusive means alone: whoever holds an exclusive lease is the only holder,  *)
(* whatever order of disposals, cancellations and arrivals led there.           *)
MutualExclusion ==
  \A c \in Asking(Holding, "exclusive") : Holding = {c}

(* The two counters of the class are the leases outstanding: a cancelled waiter *)
(* or a late dispose never skews them.                                          *)
LeasesCounted ==
  /\ readers = Cardinality(Asking(Holding, "shared"))
  /\ writer <=> Asking(Holding, "exclusive") # {}

(* The queue holds exactly the clients that wait, each once.                    *)
QueueIsWaiters ==
  /\ \A c \in Clients : state[c] = "queued" <=> \E i \in 1..Len(queue) : queue[i] = c
  /\ \A i, j \in 1..Len(queue) : queue[i] = queue[j] => i = j

(* Nobody waits for nothing: the head of the queue could not be let in.  Every  *)
(* way a client leaves must therefore drain the queue.                          *)
HeadMustWait ==
  queue # <<>> => writer \/ (mode[queue[1]] = "exclusive" /\ readers > 0)

(* First come, first served: a client that gets its lease was waiting, and ahead *)
(* of all who still wait ("FIFO writers cannot starve behind newly arriving      *)
(* inference").                                                                  *)
NoOvertaking ==
  [][\A c, d \in Clients :
       state[c] # "holding" /\ state'[c] = "holding" /\ state[d] = "queued" /\ state'[d] = "queued"
         => \E i, j \in 1..Len(queue) : i < j /\ queue[i] = c /\ queue[j] = d]_vars

(* A closed coordinator grants nothing, also not when a lease comes back.       *)
NoLeaseOnceClosed ==
  [][closed => \A c \in Clients : state'[c] = "holding" => state[c] = "holding"]_vars

(* Liveness: a waiter gets its lease, or its call is cancelled or refused.      *)
WaiterServed(c) == state[c] = "queued" ~> state[c] # "queued"
=============================================================================

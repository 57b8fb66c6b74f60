----------------------------- MODULE AsyncMutex -----------------------------
(***************************************************************************)
(* The mutex of apps/mlx-bun/src/engine/generation-gateway.ts: a chain of  *)
(* gates, one per call of acquire.  A call waits until every gate before   *)
(* its own is open; it opens its own when it unlocks, or when it is        *)
(* aborted while it waits.  A call already aborted is refused and changes  *)
(* nothing.                                                                *)
(***************************************************************************)
EXTENDS Naturals, Sequences, FiniteSets

CONSTANTS Clients, MaxGates   \* MaxGates bounds the chain; the code has no bound

VARIABLES
  state,    \* what each client is doing
  chain,    \* the gates behind #tail that can still matter: [owner, open]
  pending

vars == <<state, chain, pending>>

States == {"idle", "waiting", "holding"}

Gates == [owner : Clients, open : BOOLEAN]

Init == state = [c \in Clients |-> "idle"] /\ chain = <<>> /\ pending = 0

Shut(i) == i \in 1..Len(chain) /\ ~chain[i].open

(* The gate of c's call: the one it has not opened. *)
IsGate(i, c) == Shut(i) /\ chain[i].owner = c

(* Once a gate and all before it are open nobody waits for it any more. *)
Passed(s, i) == \A j \in 1..i : s[j].open

Live(s) == LET n == Cardinality({i \in 1..Len(s) : Passed(s, i)}) IN SubSeq(s, n + 1, Len(s))

Open(c) ==
  chain' = Live([i \in 1..Len(chain) |->
                   IF IsGate(i, c) THEN [chain[i] EXCEPT !.open = TRUE] ELSE chain[i]])

Acquire(c) ==
  /\ state[c] = "idle" /\ Len(chain) < MaxGates
  /\ state' = [state EXCEPT ![c] = "waiting"]
  /\ chain' = Append(chain, [owner |-> c, open |-> FALSE])
  /\ pending' = pending + 1

(* Bug: #tail is the last gate alone, not the last gate after those before it. *)
TurnAfterLast(c) == \E i \in 1..Len(chain) : IsGate(i, c) /\ (i > 1 => chain[i - 1].open)

(* The promise c's call waits for has settled. *)
Turn(c) == \E i \in 1..Len(chain) : IsGate(i, c) /\ \A j \in 1..(i - 1) : chain[j].open

Grant(c) ==
  /\ state[c] = "waiting" /\ Turn(c)
  /\ state' = [state EXCEPT ![c] = "holding"]
  /\ UNCHANGED <<chain, pending>>

(* The caller's signal aborts while it waits. *)
Abort(c) ==
  /\ state[c] = "waiting"
  /\ state' = [state EXCEPT ![c] = "idle"]
  /\ Open(c)
  /\ pending' = pending - 1

Unlock(c) ==
  /\ state[c] = "holding"
  /\ state' = [state EXCEPT ![c] = "idle"]
  /\ Open(c)
  /\ pending' = pending - 1

Next == \E c \in Clients : Acquire(c) \/ Grant(c) \/ Abort(c) \/ Unlock(c)

Spec == Init /\ [][Next]_vars

-----------------------------------------------------------------------------
TypeOK ==
  /\ state \in [Clients -> States]
  /\ chain \in Seq(Gates) /\ Len(chain) <= MaxGates
  /\ pending \in Nat

(* At most one call holds the mutex, also when calls before it in the chain    *)
(* were aborted ("Release this waiter's gate, not its predecessor's. Later     *)
(* acquirers still wait for the active holder, preserving mutual exclusion").  *)
MutualExclusion ==
  \A c, d \in Clients : state[c] = "holding" /\ state[d] = "holding" => c = d

(* #pending is the holders and the waiters: `locked` tells the gateway that it *)
(* is idle, so a call that ends, in whichever way, must be counted out once.   *)
PendingExact == pending = Cardinality({c \in Clients : state[c] # "idle"})

(* Each call has one gate, shut exactly as long as the call waits or holds.    *)
GatesExact ==
  /\ \A c \in Clients : state[c] # "idle" <=> \E i \in 1..Len(chain) : IsGate(i, c)
  /\ \A i, j \in 1..Len(chain) :
       Shut(i) /\ Shut(j) /\ chain[i].owner = chain[j].owner => i = j

(* First come, first served.                                                   *)
NoOvertaking ==
  [][\A c, d \in Clients :
       state[c] = "waiting" /\ state'[c] = "holding" /\ state[d] # "idle" /\ c # d
         => \E i, j \in 1..Len(chain) : i < j /\ IsGate(i, c) /\ IsGate(j, d)]_vars
=============================================================================

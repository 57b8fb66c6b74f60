----------------------------- MODULE Residency -----------------------------
(***************************************************************************)
(* The model host of apps/mlx-bun/src/residency/model-residency.ts: which  *)
(* models are in memory, who leases them, and who may evict, pause or      *)
(* close them.                                                             *)
(*                                                                         *)
(* One action is one stretch of JavaScript between two awaits.  A process  *)
(* is one call of acquire (Requests), makeRoom (Rooms), pauseAll           *)
(* (Pausers), unload (Unloaders) or close (TheHost).  pc names the await   *)
(* the call is suspended at; on is the set of closing promises it awaits.  *)
(* A promise and its `finally` handler settle in one action: no other      *)
(* handler of this host reads the state in between.                        *)
(*                                                                         *)
(* A unit (weights, engine, gateway or worker) is external: it generates   *)
(* for a lease, its pause is exclusive, and its close waits for both.      *)
(***************************************************************************)
EXTENDS Integers, FiniteSets, FiniteSetsExt, Functions

CONSTANTS
  Models,      \* model ids, as numbers: ids are ordered
  Requests, Rooms, Pausers, Unloaders, TheHost,
  Forcing,     \* the unloaders that pass force
  Aborting,    \* the callers whose signal may abort
  Size,        \* ResidencyEntry.bytes
  Growth,      \* what a unit may hold beyond its estimate
  RoomBytes,   \* what a companion asks makeRoom for, and then holds
  Budget,      \* budgetBytes
  Measured,    \* what the process measurably holds, at least
  Adopted, InitiallyPinned, Pinnable, Failing, Breakable, Growable,
  Closing,     \* whether this instance calls close
  NoOne

Callers == Requests \cup Rooms
Procs == Callers \cup Pausers \cup Unloaders \cup {TheHost}

ASSUME ModelsAssumption ==
  /\ Models \subseteq Nat /\ IsFiniteSet(Models) /\ NoOne \notin Models
  /\ Adopted \subseteq Models /\ InitiallyPinned \subseteq Models /\ Pinnable \subseteq Models
  /\ Failing \subseteq Models /\ Breakable \subseteq Models /\ Growable \subseteq Models
ASSUME ProcessesAssumption ==
  /\ IsFiniteSet(Requests)
  /\ Requests \cap Rooms = {} /\ Callers \cap Pausers = {} /\ Callers \cap Unloaders = {}
  /\ Pausers \cap Unloaders = {} /\ TheHost \notin Callers \cup Pausers \cup Unloaders
  /\ Forcing \subseteq Unloaders /\ NoOne \notin Pausers /\ IsFiniteSet(Pausers)
ASSUME BytesAssumption ==
  /\ Size \in [Models -> Nat]
  /\ Growth \in Nat /\ RoomBytes \in Nat /\ Budget \in Nat /\ Measured \in Nat
  /\ Closing \in BOOLEAN

VARIABLES
  unit, loading, closing, leases, \* the fields of a Slot, by model
  older,     \* <<a, b>>: a.lastUsedAt < b.lastUsedAt
  broken,    \* units that can no longer serve
  grown,     \* units that hold Growth more than their estimate
  pinned, closed, paused,
  external,  \* bytes of the companions
  gpu,       \* the pauser that holds a unit's execution
  pc, on,
  todo,      \* what a pauser still has to pause, the host still has to close
  target,    \* the model a request or an unload names
  aborted

slotVars == <<unit, loading, closing, leases, older>>
unitVars == <<broken, grown, gpu>>
hostVars == <<pinned, closed, paused, external>>
vars == <<slotVars, unitVars, hostVars, pc, on, todo, target, aborted>>

(***************************************************************************)
(* Bytes, and who would have to go.                                        *)
(***************************************************************************)
Occupied(m) == unit[m] \/ loading[m]
Busy(m) == leases[m] > 0 \/ loading[m] \/ closing[m]
Evictable(m) == unit[m] /\ ~Busy(m) /\ m \notin pinned

(* Bug: a load in flight is not counted. *)
HeldWhenResident(m) ==
  IF unit[m] THEN Size[m] + (IF m \in grown THEN Growth ELSE 0) ELSE 0

Held(m) ==
  IF unit[m] THEN Size[m] + (IF m \in grown THEN Growth ELSE 0)
  ELSE IF loading[m] THEN Size[m] ELSE 0
HeldBy(S) == SumFunctionOnSet([m \in Models |-> Held(m)], S)

(* The one exempt model, if any, is neither resident nor loading. *)
Used(exempt) == Max({external + HeldBy(Models \ exempt), Measured})

Candidates(exempt) == {m \in Models \ exempt : Evictable(m)}
(* Sets of candidates that hold, with each member, every less recently used one. *)
LeastRecent(exempt) ==
  {V \in SUBSET Candidates(exempt) :
     \A v \in V, c \in Candidates(exempt) : <<c, v>> \in older => c \in V}
Enough(bytes, exempt) ==
  {V \in LeastRecent(exempt) : Used(exempt) - HeldBy(V) + bytes <= Budget}

(* decide(bytes, except) *)
Fits(bytes, exempt) == Enough(bytes, exempt) # {}
(* The smallest set that is enough; every candidate when none is. *)
Victims(bytes, exempt) ==
  {c \in Candidates(exempt) : \A V \in Enough(bytes, exempt) : c \in V}
WorthWaiting(exempt) == \E m \in (Models \ exempt) \ pinned : Occupied(m) /\ Busy(m)
MustWait(bytes, exempt) == ~Fits(bytes, exempt) /\ WorthWaiting(exempt)

Exempt(p) == IF p \in Requests THEN {target[p]} ELSE {}
Bytes(p) == IF p \in Requests THEN Size[target[p]] ELSE RoomBytes

(***************************************************************************)
(* Shared steps.                                                           *)
(***************************************************************************)
Goto(p, l) == pc' = [pc EXCEPT ![p] = l]
(* notify: every `changed` promise resolves and its caller loops. *)
Notified(f) == [p \in Procs |-> IF f[p] = "changed" THEN "resolve" ELSE f[p]]
GotoAndNotify(p, l) == pc' = Notified([pc EXCEPT ![p] = l])

Touch(m) == older' = {e \in older : m \notin {e[1], e[2]}} \cup ((Models \ {m}) \X {m})
Reserve(m) == leases' = [leases EXCEPT ![m] = @ + 1] /\ Touch(m)
StartEvictions(p, V) ==
  /\ closing' = [m \in Models |-> closing[m] \/ m \in V]
  /\ on' = [on EXCEPT ![p] = V]
  /\ Goto(p, "drain")

(***************************************************************************)
(* acquire and makeRoom: the loop.                                         *)
(***************************************************************************)
Call(p) ==
  /\ pc[p] = "new"
  /\ Goto(p, "resolve")
  /\ UNCHANGED <<slotVars, unitVars, hostVars, on, todo, target, aborted>>

Refused(p) == p \in aborted \/ closed

Refuse(p) ==
  /\ \/ pc[p] = "resolve" /\ Refused(p)
     \/ pc[p] = "changed" /\ p \in aborted
  /\ Goto(p, "done")
  /\ UNCHANGED <<slotVars, unitVars, hostVars, on, todo, target, aborted>>

AwaitClosing(p, m) ==
  /\ pc[p] = "resolve" /\ ~Refused(p) /\ closing[m]
  /\ on' = [on EXCEPT ![p] = {m}]
  /\ Goto(p, "drain")
  /\ UNCHANGED <<slotVars, unitVars, hostVars, todo, target, aborted>>

(* Bug: a broken unit is evicted under its lessees. *)
SpentWhileLeased(m) == unit[m] /\ m \in broken

Spent(m) == unit[m] /\ m \in broken /\ leases[m] = 0

EvictBroken(p, m) ==
  /\ pc[p] = "resolve" /\ ~Refused(p) /\ ~closing[m] /\ Spent(m)
  /\ StartEvictions(p, {m})
  /\ UNCHANGED <<unit, loading, leases, older, unitVars, hostVars, todo, target, aborted>>

LeaseResident(p, m) ==
  /\ pc[p] = "resolve" /\ ~Refused(p) /\ ~closing[m] /\ unit[m] /\ ~Spent(m)
  /\ Reserve(m)
  /\ Goto(p, "leased")
  /\ UNCHANGED <<unit, loading, closing, unitVars, hostVars, on, todo, target, aborted>>

JoinLoad(p, m) ==
  /\ pc[p] = "resolve" /\ ~Refused(p) /\ ~closing[m] /\ ~unit[m] /\ loading[m]
  /\ Reserve(m)
  /\ Goto(p, "load")
  /\ UNCHANGED <<unit, loading, closing, unitVars, hostVars, on, todo, target, aborted>>

Absent(p) == \A m \in Exempt(p) : ~Occupied(m) /\ ~closing[m]

(* Not resident: wait while a pauser holds the GPU, else refresh the readings. *)
Consider(p) ==
  /\ pc[p] = "resolve" /\ ~Refused(p) /\ Absent(p)
  /\ Goto(p, IF paused > 0 THEN "changed" ELSE "refresh")
  /\ UNCHANGED <<slotVars, unitVars, hostVars, on, todo, target, aborted>>

(* Bugs: the slot, the pauses are not read again after the refresh. *)
StaleIgnoresSlot(p) == closed \/ paused > 0
StaleIgnoresPause(p) == ~Absent(p) \/ closed

Stale(p) == ~Absent(p) \/ closed \/ paused > 0

Reconsider(p) ==
  /\ pc[p] = "refresh" /\ Stale(p)
  /\ Goto(p, "resolve")
  /\ UNCHANGED <<slotVars, unitVars, hostVars, on, todo, target, aborted>>

WaitForOthers(p) ==
  /\ pc[p] = "refresh" /\ ~Stale(p) /\ MustWait(Bytes(p), Exempt(p))
  /\ Goto(p, "changed")
  /\ UNCHANGED <<slotVars, unitVars, hostVars, on, todo, target, aborted>>

EvictVictims(p) ==
  /\ pc[p] = "refresh" /\ ~Stale(p) /\ ~MustWait(Bytes(p), Exempt(p))
  /\ Victims(Bytes(p), Exempt(p)) # {}
  /\ StartEvictions(p, Victims(Bytes(p), Exempt(p)))
  /\ UNCHANGED <<unit, loading, leases, older, unitVars, hostVars, todo, target, aborted>>

Drained(p) ==
  /\ pc[p] = "drain" /\ on[p] = {}
  /\ Goto(p, "resolve")
  /\ UNCHANGED <<slotVars, unitVars, hostVars, on, todo, target, aborted>>

RoomNow(p) ==
  /\ pc[p] = "refresh" /\ ~Stale(p) /\ ~MustWait(Bytes(p), Exempt(p))
  /\ Victims(Bytes(p), Exempt(p)) = {}

StartLoad(p, m) ==
  /\ RoomNow(p)
  /\ Reserve(m)
  /\ loading' = [loading EXCEPT ![m] = TRUE]
  /\ Goto(p, "load")
  /\ UNCHANGED <<unit, closing, unitVars, hostVars, on, todo, target, aborted>>

(***************************************************************************)
(* A load settles.  Its callers reserved before they awaited it.           *)
(***************************************************************************)
AfterLoad(m, outcome) ==
  [p \in Procs |->
     IF pc[p] = "load" /\ target[p] = m THEN outcome
     ELSE IF pc[p] = "loadwait" /\ target[p] = m THEN "loaded" ELSE pc[p]]

(* Bug: the host closed while this loaded, and the unit serves all the same. *)
LoadDoneAfterClose(m) ==
  /\ loading[m]
  /\ loading' = [loading EXCEPT ![m] = FALSE]
  /\ unit' = [unit EXCEPT ![m] = TRUE]
  /\ pc' = Notified(AfterLoad(m, "leased"))
  /\ UNCHANGED <<closing, leases, older, unitVars, hostVars, on, todo, target, aborted>>

LoadDone(m) ==
  /\ loading[m] /\ ~closed
  /\ loading' = [loading EXCEPT ![m] = FALSE]
  /\ unit' = [unit EXCEPT ![m] = TRUE]
  /\ pc' = Notified(AfterLoad(m, "leased"))
  /\ UNCHANGED <<closing, leases, older, unitVars, hostVars, on, todo, target, aborted>>

(* The source failed, or the host closed meanwhile and the unit closed itself. *)
LoadFails(m) ==
  /\ loading[m] /\ (closed \/ m \in Failing)
  /\ loading' = [loading EXCEPT ![m] = FALSE]
  /\ pc' = Notified(AfterLoad(m, "reject"))
  /\ UNCHANGED <<unit, closing, leases, older, unitVars, hostVars, on, todo, target, aborted>>

(* Bug: a failed load keeps its callers' reservations. *)
GiveBackNothing(p, m) ==
  /\ pc[p] = "reject"
  /\ GotoAndNotify(p, "done")
  /\ UNCHANGED <<slotVars, unitVars, hostVars, on, todo, target, aborted>>

GiveBack(p, m) ==
  /\ pc[p] = "reject"
  /\ leases' = [leases EXCEPT ![m] = @ - 1]
  /\ GotoAndNotify(p, "done")
  /\ UNCHANGED <<unit, loading, closing, older, unitVars, hostVars, on, todo, target, aborted>>

(* Bug: a release wakes nobody. *)
ReleaseSilently(p, m) ==
  /\ pc[p] \in {"leased", "ran"}
  /\ leases' = [leases EXCEPT ![m] = @ - 1]
  /\ Touch(m)
  /\ Goto(p, "done")
  /\ UNCHANGED <<unit, loading, closing, unitVars, hostVars, on, todo, target, aborted>>

Release(p, m) ==
  /\ pc[p] \in {"leased", "ran"}
  /\ leases' = [leases EXCEPT ![m] = @ - 1]
  /\ Touch(m)
  /\ GotoAndNotify(p, "done")
  /\ UNCHANGED <<unit, loading, closing, unitVars, hostVars, on, todo, target, aborted>>

(***************************************************************************)
(* The unit: generation under a lease, pausing, closing.                   *)
(***************************************************************************)
Turn(q) == Min(todo[q])
PauseWaits(m) == \E q \in Pausers : pc[q] = "pausing" /\ Turn(q) = m
Running(m) == \E p \in Requests : pc[p] = "running" /\ target[p] = m

Generate(p, m) ==
  /\ pc[p] = "leased" /\ unit[m] /\ ~closing[m] /\ gpu[m] = NoOne /\ ~PauseWaits(m)
  /\ Goto(p, "running")
  /\ UNCHANGED <<slotVars, unitVars, hostVars, on, todo, target, aborted>>

Finish(p) ==
  /\ pc[p] = "running"
  /\ Goto(p, "ran")
  /\ UNCHANGED <<slotVars, unitVars, hostVars, on, todo, target, aborted>>

(* evict's close settles; a lease still held on the unit can only be released. *)
UnitClosed(m) ==
  /\ closing[m] /\ ~Running(m) /\ gpu[m] = NoOne /\ ~PauseWaits(m)
  /\ unit' = [unit EXCEPT ![m] = FALSE]
  /\ closing' = [closing EXCEPT ![m] = FALSE]
  /\ broken' = broken \ {m} /\ grown' = grown \ {m}
  /\ on' = [p \in Procs |-> on[p] \ {m}]
  /\ pc' = Notified([p \in Procs |-> IF pc[p] = "leased" /\ target[p] = m THEN "ran" ELSE pc[p]])
  /\ UNCHANGED <<loading, leases, older, gpu, hostVars, todo, target, aborted>>

(***************************************************************************)
(* pauseAll.                                                               *)
(***************************************************************************)
PauseAll(q) ==
  /\ pc[q] = "new"
  /\ paused' = paused + 1
  /\ on' = [on EXCEPT ![q] = {m \in Models : closing[m]}]
  /\ Goto(q, "settling")
  /\ UNCHANGED <<slotVars, unitVars, pinned, closed, external, todo, target, aborted>>

(* The loop's next element: `slot.unit!.pause` on whatever the slot holds now. *)
NextPause(S) ==
  IF S = {} THEN "held"
  ELSE IF ~unit[Min(S)] THEN "gone" ELSE IF closing[Min(S)] THEN "fail" ELSE "pausing"

ListResidents(q) ==
  /\ pc[q] = "settling" /\ on[q] = {}
  /\ LET stay == {m \in Models : unit[m] /\ ~closing[m]} IN
       /\ todo' = [todo EXCEPT ![q] = stay]
       /\ Goto(q, NextPause(stay))
  /\ UNCHANGED <<slotVars, unitVars, hostVars, on, target, aborted>>

Paused(q, m) ==
  /\ pc[q] = "pausing" /\ m = Turn(q) /\ gpu[m] = NoOne /\ ~Running(m)
  /\ gpu' = [gpu EXCEPT ![m] = q]
  /\ todo' = [todo EXCEPT ![q] = @ \ {m}]
  /\ Goto(q, NextPause(todo[q] \ {m}))
  /\ UNCHANGED <<slotVars, broken, grown, hostVars, on, target, aborted>>

PauseAborted(q) ==
  /\ pc[q] = "pausing" /\ q \in aborted
  /\ Goto(q, "fail")
  /\ UNCHANGED <<slotVars, unitVars, hostVars, on, todo, target, aborted>>

(* Bug: the error path leaves the host paused. *)
UnpauseUnlessFailed(q) ==
  /\ pc[q] \in {"held", "fail", "gone"}
  /\ gpu' = [m \in Models |-> IF gpu[m] = q THEN NoOne ELSE gpu[m]]
  /\ paused' = IF pc[q] = "held" THEN paused - 1 ELSE paused
  /\ GotoAndNotify(q, "done")
  /\ UNCHANGED <<slotVars, broken, grown, pinned, closed, external, on, todo, target, aborted>>

(* The error path and dispose release the same things. *)
Unpause(q) ==
  /\ pc[q] \in {"held", "fail", "gone"}
  /\ gpu' = [m \in Models |-> IF gpu[m] = q THEN NoOne ELSE gpu[m]]
  /\ paused' = paused - 1
  /\ GotoAndNotify(q, "done")
  /\ UNCHANGED <<slotVars, broken, grown, pinned, closed, external, on, todo, target, aborted>>

(***************************************************************************)
(* unload.                                                                 *)
(***************************************************************************)
(* Bug: unload does not ask whether the model is leased. *)
UnloadAnyway(u, m) ==
  IF ~unit[m] THEN Goto(u, "done") /\ UNCHANGED <<closing, on>> ELSE StartEvictions(u, {m})

UnloadNow(u, m) ==
  IF ~unit[m] \/ (leases[m] > 0 /\ u \notin Forcing)
  THEN Goto(u, "done") /\ UNCHANGED <<closing, on>>
  ELSE StartEvictions(u, {m})

Unload(u, m) ==
  /\ pc[u] = "new"
  /\ IF closing[m] THEN StartEvictions(u, {m})
     ELSE IF loading[m] THEN Goto(u, "loadwait") /\ UNCHANGED <<closing, on>>
     ELSE UnloadNow(u, m)
  /\ UNCHANGED <<unit, loading, leases, older, unitVars, hostVars, todo, target, aborted>>

UnloadLoaded(u, m) ==
  /\ pc[u] = "loaded"
  /\ UnloadNow(u, m)
  /\ UNCHANGED <<unit, loading, leases, older, unitVars, hostVars, todo, target, aborted>>

Unloaded(u) ==
  /\ pc[u] = "drain" /\ on[u] = {}
  /\ Goto(u, "done")
  /\ UNCHANGED <<slotVars, unitVars, hostVars, on, todo, target, aborted>>

(***************************************************************************)
(* close: loads and evictions in flight settle, then each unit is closed.  *)
(***************************************************************************)
Close ==
  /\ Closing /\ pc[TheHost] = "new"
  /\ closed' = TRUE
  /\ todo' = [todo EXCEPT ![TheHost] = Models]
  /\ GotoAndNotify(TheHost, "settling")
  /\ UNCHANGED <<slotVars, unitVars, pinned, paused, external, on, target, aborted>>

CloseSettled(m) ==
  /\ pc[TheHost] = "settling" /\ m = Turn(TheHost) /\ ~loading[m] /\ ~closing[m]
  /\ LET rest == todo[TheHost] \ {m} IN
       /\ todo' = [todo EXCEPT ![TheHost] = IF rest = {} THEN Models ELSE rest]
       /\ Goto(TheHost, IF rest = {} THEN "closing" ELSE "settling")
  /\ UNCHANGED <<slotVars, unitVars, hostVars, on, target, aborted>>

CloseUnit(m) ==
  /\ pc[TheHost] = "closing" /\ m = Turn(TheHost) /\ unit[m]
  /\ StartEvictions(TheHost, {m})
  /\ UNCHANGED <<unit, loading, leases, older, unitVars, hostVars, todo, target, aborted>>

CloseNext(m) ==
  /\ \/ pc[TheHost] = "closing" /\ ~unit[m]
     \/ pc[TheHost] = "drain" /\ on[TheHost] = {}
  /\ m = Turn(TheHost)
  /\ LET rest == todo[TheHost] \ {m} IN
       /\ todo' = [todo EXCEPT ![TheHost] = rest]
       /\ Goto(TheHost, IF rest = {} THEN "done" ELSE "closing")
  /\ UNCHANGED <<slotVars, unitVars, hostVars, on, target, aborted>>

(***************************************************************************)
(* Pins, companions, and what happens to the units by themselves.          *)
(***************************************************************************)
Pin(m) ==
  /\ m \in Pinnable \ pinned
  /\ pinned' = pinned \cup {m}
  /\ UNCHANGED <<slotVars, unitVars, closed, paused, external, pc, on, todo, target, aborted>>

Unpin(m) ==
  /\ m \in Pinnable \cap pinned
  /\ pinned' = pinned \ {m}
  /\ pc' = Notified(pc)
  /\ UNCHANGED <<slotVars, unitVars, closed, paused, external, on, todo, target, aborted>>

(* makeRoom returns; it reserved nothing. *)
RoomMade(r) ==
  /\ RoomNow(r)
  /\ Goto(r, "made")
  /\ UNCHANGED <<slotVars, unitVars, hostVars, on, todo, target, aborted>>

(* The companion loads, later it unloads; neither notifies. *)
CompanionLoads(r) ==
  /\ pc[r] = "made"
  /\ external' = external + RoomBytes
  /\ Goto(r, "companion")
  /\ UNCHANGED <<slotVars, unitVars, pinned, closed, paused, on, todo, target, aborted>>

CompanionUnloads(r) ==
  /\ pc[r] = "companion"
  /\ external' = external - RoomBytes
  /\ Goto(r, "done")
  /\ UNCHANGED <<slotVars, unitVars, pinned, closed, paused, on, todo, target, aborted>>

Break(m) ==
  /\ m \in Breakable \ broken /\ unit[m]
  /\ broken' = broken \cup {m}
  /\ UNCHANGED <<slotVars, grown, gpu, hostVars, pc, on, todo, target, aborted>>

Grow(m) ==
  /\ m \in Growable /\ unit[m]
  /\ grown' = IF m \in grown THEN grown \ {m} ELSE grown \cup {m}
  /\ UNCHANGED <<slotVars, broken, gpu, hostVars, pc, on, todo, target, aborted>>

Abort(p) ==
  /\ p \in Aborting \ aborted
  /\ aborted' = aborted \cup {p}
  /\ UNCHANGED <<slotVars, unitVars, hostVars, pc, on, todo, target>>

-----------------------------------------------------------------------------
Init ==
  /\ unit = [m \in Models |-> m \in Adopted]
  /\ loading = [m \in Models |-> FALSE] /\ closing = [m \in Models |-> FALSE]
  /\ leases = [m \in Models |-> 0]
  /\ older = {e \in Adopted \X Adopted : e[1] < e[2]} \cup ((Models \ Adopted) \X Adopted)
  /\ broken = {} /\ grown = {} /\ pinned = InitiallyPinned
  /\ closed = FALSE /\ paused = 0 /\ external = 0
  /\ gpu = [m \in Models |-> NoOne]
  /\ pc = [p \in Procs |-> "new"] /\ on = [p \in Procs |-> {}]
  /\ todo = [p \in Pausers \cup {TheHost} |-> {}]
  /\ target \in [Requests \cup Unloaders -> Models]
  /\ aborted = {}

CallerStep(p) ==
  \/ Call(p) \/ Refuse(p) \/ Consider(p) \/ Reconsider(p) \/ WaitForOthers(p)
  \/ EvictVictims(p) \/ Drained(p)
RequestStep(p) == LET m == target[p] IN
  \/ AwaitClosing(p, m) \/ EvictBroken(p, m) \/ LeaseResident(p, m) \/ JoinLoad(p, m)
  \/ StartLoad(p, m) \/ GiveBack(p, m) \/ Release(p, m) \/ Generate(p, m) \/ Finish(p)
RoomStep(r) == RoomMade(r) \/ CompanionLoads(r) \/ CompanionUnloads(r)
PauserStep(q) ==
  \/ PauseAll(q) \/ ListResidents(q) \/ PauseAborted(q) \/ Unpause(q)
  \/ \E m \in Models : Paused(q, m)
UnloaderStep(u) == Unload(u, target[u]) \/ UnloadLoaded(u, target[u]) \/ Unloaded(u)
HostStep == Close \/ \E m \in Models : CloseSettled(m) \/ CloseUnit(m) \/ CloseNext(m)
Settles(m) == LoadDone(m) \/ LoadFails(m) \/ UnitClosed(m)
Environment ==
  \/ \E m \in Models : Pin(m) \/ Unpin(m) \/ Break(m) \/ Grow(m)
  \/ \E p \in Aborting : Abort(p)

(* Every call has returned and nothing is in flight: the host is idle. *)
Idle ==
  /\ \A p \in Procs \ {TheHost} : pc[p] = "done"
  /\ pc[TheHost] \in {"new", "done"} /\ (Closing => pc[TheHost] = "done")
  /\ UNCHANGED vars

Next ==
  \/ \E p \in Callers : CallerStep(p)
  \/ \E p \in Requests : RequestStep(p)
  \/ \E r \in Rooms : RoomStep(r)
  \/ \E q \in Pausers : PauserStep(q)
  \/ \E u \in Unloaders : UnloaderStep(u)
  \/ HostStep
  \/ \E m \in Models : Settles(m)
  \/ Environment
  \/ Idle

Spec == Init /\ [][Next]_vars

(* A call that was made goes on, a lease and a pause are given back, a load and *)
(* a close settle.  No call is owed, nor a pin, nor a companion's unload.       *)
Fairness ==
  /\ \A p \in Requests : WF_vars(pc[p] # "new" /\ (CallerStep(p) \/ RequestStep(p)))
  /\ \A r \in Rooms : WF_vars(pc[r] # "new" /\ (CallerStep(r) \/ RoomMade(r)))
  /\ \A q \in Pausers : WF_vars(pc[q] # "new" /\ PauserStep(q))
  /\ \A u \in Unloaders : WF_vars(pc[u] # "new" /\ UnloaderStep(u))
  /\ WF_vars(pc[TheHost] # "new" /\ HostStep)
  /\ \A m \in Models : WF_vars(Settles(m))

FairSpec == Spec /\ Fairness

-----------------------------------------------------------------------------
Labels == {"new", "resolve", "changed", "refresh", "drain", "load", "reject", "leased",
           "running", "ran", "made", "companion", "settling", "pausing", "held", "fail",
           "gone", "loadwait", "loaded", "closing", "done"}

(* Every field has the values the source gives it; a lease count is never negative. *)
TypeOK ==
  /\ unit \in [Models -> BOOLEAN] /\ loading \in [Models -> BOOLEAN] /\ closing \in [Models -> BOOLEAN]
  /\ leases \in [Models -> Nat]
  /\ older \subseteq Models \X Models
  /\ broken \subseteq Models /\ grown \subseteq Models /\ pinned \subseteq Models
  /\ closed \in BOOLEAN /\ paused \in Nat /\ external \in Int
  /\ gpu \in [Models -> Pausers \cup {NoOne}]
  /\ pc \in [Procs -> Labels] /\ on \in [Procs -> SUBSET Models]
  /\ todo \in [Pausers \cup {TheHost} -> SUBSET Models]
  /\ target \in [Requests \cup Unloaders -> Models]
  /\ aborted \subseteq Aborting

(* A model is loaded once: whatever callers raced through acquire's awaits, a   *)
(* slot never loads while it holds or releases a unit, and only a unit closes.  *)
OneUnitPerModel ==
  \A m \in Models : /\ loading[m] => ~unit[m] /\ ~closing[m]
                    /\ closing[m] => unit[m]

ClaimLabels == {"load", "reject", "leased", "running", "ran"}
Claims(m) == {p \in Requests : target[p] = m /\ pc[p] \in ClaimLabels}

(* slot.leases counts exactly the calls that reserved and have not given back:  *)
(* no path of acquire leaks a reservation (the model could never be evicted) or *)
(* returns one twice (a leased model could be).                                 *)
LeasesCounted == \A m \in Models : leases[m] = Cardinality(Claims(m))

Forced(m) == \E u \in Forcing : pc[u] # "new" /\ target[u] = m

(* "A leased model is never evicted" (acquire): a lease that can still be used  *)
(* is on a unit that is resident and not draining, unless an unload was forced  *)
(* or the host is closing.                                                      *)
LeasedStays ==
  \A p \in Requests :
    pc[p] \in {"leased", "running"} =>
      \/ unit[target[p]] /\ ~closing[target[p]]
      \/ closed \/ Forced(target[p])

(* No lost wake-up: a call waiting for a change has a change to wait for, a     *)
(* pauser to dispose or another busy model to come free.                        *)
WaitHasReason ==
  \A p \in Callers :
    pc[p] = "changed" =>
      paused > 0 \/ \E m \in Models \ Exempt(p) : Occupied(m) /\ Busy(m)

(* paused counts the pausers between their call and their dispose or failure,   *)
(* and a unit's execution is held only by one of those: neither leaks.          *)
PauseLabels == {"settling", "pausing", "held", "fail", "gone"}
Pausing == {q \in Pausers : pc[q] \in PauseLabels}
PausesCounted ==
  /\ paused = Cardinality(Pausing)
  /\ \A m \in Models : gpu[m] # NoOne => gpu[m] \in Pausing

(* Over the budget only when at most one unpinned model is in memory: "a lone   *)
(* model is always served".  For fixed pins, fixed companions, no growth.       *)
WithinBudget ==
  \/ external + HeldBy(Models) <= Budget
  \/ Cardinality({m \in Models \ pinned : Occupied(m)}) <= 1

ClosedIsEmpty ==
  closed /\ pc[TheHost] = "done" => \A m \in Models : ~Occupied(m) /\ ~closing[m]

(* While a pauser waits or holds, and once the host closed, no load starts:     *)
(* the state read before the refresh is read again after it.                    *)
NoLoadWhilePaused ==
  [][\A m \in Models : ~loading[m] /\ loading'[m] => paused = 0 /\ ~closed]_vars

NoLeaseOnceClosed ==
  [][\A p \in Requests : pc[p] # "leased" /\ pc'[p] = "leased" => ~closed]_vars

(* A host that closed grants no lease, also not to a load it overtook, and once *)
(* close has resolved nothing is in memory and nothing is on its way there.     *)
ClosedForGood == []ClosedIsEmpty /\ NoLeaseOnceClosed

(* A model's state, as the host describes it, and who holds it: the host        *)
(* implements the lifecycle it promises, an override being a forced unload or a *)
(* close.                                                                       *)
LifecycleState == [m \in Models |->
  IF closing[m] THEN "draining" ELSE IF loading[m] THEN "loading"
  ELSE IF unit[m] THEN "ready" ELSE "absent"]
Holds == [p \in Requests |-> IF pc[p] \in ClaimLabels THEN target[p] ELSE NoOne]
Lifecycle == INSTANCE ModelLifecycle WITH
  Callers <- Requests, NoModel <- NoOne, MayOverride <- Closing \/ Forcing # {},
  state <- LifecycleState, holds <- Holds
ImplementsLifecycle == Lifecycle!Spec

(* Liveness: an acquire or makeRoom that was called ends, granted or refused; a *)
(* pauseAll holds or fails; a close ends; none of them waits on another.        *)
CallsEnd ==
  /\ \A p \in Callers :
       pc[p] = "resolve" ~> pc[p] \in {"leased", "running", "ran", "made", "companion", "done"}
  /\ \A q \in Pausers : pc[q] = "settling" ~> pc[q] \in {"held", "fail", "gone", "done"}
  /\ closed ~> pc[TheHost] = "done"

(* "Stop every resident execution until disposed" (ResidencyHost.pauseAll).     *)
PausedMeansStopped ==
  \A q \in Pausers : pc[q] = "held" => \A m \in Models : ~Running(m)
=============================================================================

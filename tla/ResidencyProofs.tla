-------------------------- MODULE ResidencyProofs --------------------------
(***************************************************************************)
(* Proofs about Residency, for any models, callers, sizes and budget.      *)
(***************************************************************************)
EXTENDS Residency, CollectionFacts, TLAPS

USE ModelsAssumption, ProcessesAssumption, BytesAssumption

(***************************************************************************)
(* How the claims and the pausers change when one label changes.           *)
(***************************************************************************)
LEMMA ClaimsFinite ==
  ASSUME NEW m
  PROVE  IsFiniteSet(Claims(m)) /\ Cardinality(Claims(m)) \in Nat
<1>1. Claims(m) \subseteq Requests
  BY DEF Claims
<1>2. IsFiniteSet(Claims(m))
  BY <1>1, FS_Subset
<1> QED
  BY <1>2, FS_CardinalityType

(* The claims on every model stay as they are when no request starts or gives up one. *)
LEMMA ClaimsKept ==
  ASSUME target' = target,
         \A p \in Requests : (pc'[p] \in ClaimLabels) <=> (pc[p] \in ClaimLabels)
  PROVE  \A m \in Models : Claims(m)' = Claims(m)
BY DEF Claims

(* A request that takes a claim adds one to its model's claims, and to no other's. *)
LEMMA ClaimGained ==
  ASSUME target' = target, NEW p \in Requests, TypeOK,
         pc[p] \notin ClaimLabels, pc'[p] \in ClaimLabels,
         \A r \in Requests \ {p} : (pc'[r] \in ClaimLabels) <=> (pc[r] \in ClaimLabels)
  PROVE  /\ Cardinality(Claims(target[p])') = Cardinality(Claims(target[p])) + 1
         /\ \A m \in Models \ {target[p]} : Claims(m)' = Claims(m)
<1>1. Claims(target[p])' = Claims(target[p]) \cup {p} /\ p \notin Claims(target[p])
  BY DEF Claims
<1>2. Cardinality(Claims(target[p]) \cup {p}) = Cardinality(Claims(target[p])) + 1
  BY <1>1, ClaimsFinite, FS_AddElement
<1> QED
  BY <1>1, <1>2 DEF Claims

(* A request that gives its claim up takes one from its model's claims, and from no other's. *)
LEMMA ClaimLost ==
  ASSUME target' = target, NEW p \in Requests, TypeOK,
         pc[p] \in ClaimLabels, pc'[p] \notin ClaimLabels,
         \A r \in Requests \ {p} : (pc'[r] \in ClaimLabels) <=> (pc[r] \in ClaimLabels)
  PROVE  /\ Cardinality(Claims(target[p])') = Cardinality(Claims(target[p])) - 1
         /\ Cardinality(Claims(target[p])) > 0
         /\ \A m \in Models \ {target[p]} : Claims(m)' = Claims(m)
<1>1. Claims(target[p])' = Claims(target[p]) \ {p} /\ p \in Claims(target[p])
  BY DEF Claims
<1>2. Cardinality(Claims(target[p]) \ {p}) = Cardinality(Claims(target[p])) - 1
  BY <1>1, ClaimsFinite, FS_RemoveElement
<1>3. Cardinality(Claims(target[p])) # 0
  BY <1>1, ClaimsFinite, FS_EmptySet
<1>4. Cardinality(Claims(target[p])) \in Nat
  BY ClaimsFinite
<1>5. \A m \in Models \ {target[p]} : Claims(m)' = Claims(m)
  BY DEF Claims
<1> QED
  BY <1>1, <1>2, <1>3, <1>4, <1>5

(* Nobody has a claim on a model whose lease count is zero. *)
LEMMA NoLeaseNoClaim ==
  ASSUME LeasesCounted, NEW m \in Models, leases[m] = 0
  PROVE  Claims(m) = {}
<1>1. Cardinality(Claims(m)) = 0
  BY DEF LeasesCounted
<1> QED
  BY <1>1, ClaimsFinite, FS_EmptySet

(***************************************************************************)
(* Every field keeps its type.                                             *)
(***************************************************************************)
LEMMA TypesInit ==
  ASSUME Init
  PROVE  TypeOK
<1>1. {e \in Adopted \X Adopted : e[1] < e[2]} \subseteq Models \X Models
  OBVIOUS
<1>2. (Models \ Adopted) \X Adopted \subseteq Models \X Models
  OBVIOUS
<1>3. older \subseteq Models \X Models
  BY <1>1, <1>2 DEF Init
<1>4. unit \in [Models -> BOOLEAN] /\ loading \in [Models -> BOOLEAN] /\ closing \in [Models -> BOOLEAN]
  BY DEF Init
<1>5. gpu \in [Models -> Pausers \cup {NoOne}] /\ leases \in [Models -> Nat]
  BY DEF Init
<1>6. pc \in [Procs -> Labels] /\ on \in [Procs -> SUBSET Models]
  BY DEF Init, Labels
<1>7. todo \in [Pausers \cup {TheHost} -> SUBSET Models] /\ target \in [Requests \cup Unloaders -> Models]
  BY DEF Init
<1>8. /\ broken \subseteq Models /\ grown \subseteq Models /\ pinned \subseteq Models
      /\ closed \in BOOLEAN /\ paused \in Nat /\ external \in Int /\ aborted \subseteq Aborting
  <2>1. broken \subseteq Models /\ grown \subseteq Models /\ aborted \subseteq Aborting
    BY DEF Init
  <2>2. pinned \subseteq Models
    BY DEF Init
  <2>3. closed \in BOOLEAN
    BY DEF Init
  <2>4. paused \in Nat /\ external \in Int
    BY DEF Init
  <2> QED BY <2>1, <2>2, <2>3, <2>4
<1> QED
  BY <1>3, <1>4, <1>5, <1>6, <1>7, <1>8 DEF TypeOK

(* Using a model leaves the order of last use a relation on the models. *)
LEMMA TouchType ==
  ASSUME older \subseteq Models \X Models, NEW m \in Models, Touch(m)
  PROVE  older' \subseteq Models \X Models
<1>1. {e \in older : m \notin {e[1], e[2]}} \subseteq Models \X Models
  OBVIOUS
<1>2. (Models \ {m}) \X {m} \subseteq Models \X Models
  OBVIOUS
<1> QED
  BY <1>1, <1>2 DEF Touch

(* Reserving a lease leaves the counts natural numbers and the order a relation. *)
LEMMA ReserveType ==
  ASSUME TypeOK, NEW m \in Models, Reserve(m)
  PROVE  leases' \in [Models -> Nat] /\ older' \subseteq Models \X Models
BY TouchType DEF Reserve, TypeOK

(* Waking those who wait for a change leaves every call at a label. *)
LEMMA NotifiedLabels ==
  ASSUME NEW f \in [Procs -> Labels]
  PROVE  Notified(f) \in [Procs -> Labels]
BY DEF Notified, Labels

(* Whatever is left to pause, a pause goes on at one of its labels and does not settle at once. *)
LEMMA NextPauseLabel ==
  ASSUME NEW S
  PROVE  NextPause(S) \in PauseLabels \ {"settling"}
BY DEF NextPause, PauseLabels

(* The steps that acquire and makeRoom share, of the loop that decides, keep the types. *)
LEMMA CallersKeepTypes ==
  ASSUME TypeOK, NEW p \in Callers, CallerStep(p)
  PROVE  TypeOK'
<1> p \in Procs
  BY DEF Procs
<1> USE DEF TypeOK, slotVars, unitVars, hostVars, Goto, Labels
<1>1. CASE Call(p)
  BY <1>1 DEF Call
<1>2. CASE Refuse(p)
  BY <1>2 DEF Refuse
<1>3. CASE Consider(p)
  BY <1>3 DEF Consider
<1>4. CASE Reconsider(p)
  BY <1>4 DEF Reconsider
<1>5. CASE WaitForOthers(p)
  BY <1>5 DEF WaitForOthers
<1>6. CASE EvictVictims(p)
  <2>1. Victims(Bytes(p), Exempt(p)) \subseteq Models
    BY DEF Victims, Candidates
  <2> QED
    BY <1>6, <2>1 DEF EvictVictims, StartEvictions
<1>7. CASE Drained(p)
  BY <1>7 DEF Drained
<1> QED
  BY <1>1, <1>2, <1>3, <1>4, <1>5, <1>6, <1>7 DEF CallerStep

(* The steps of acquire keep the types; that a released count stays a natural number is due to
   LeasesCounted. *)
LEMMA RequestsKeepTypes ==
  ASSUME TypeOK, LeasesCounted, NEW p \in Requests, RequestStep(p)
  PROVE  TypeOK'
<1> p \in Procs /\ target[p] \in Models
  BY DEF Procs, Callers, TypeOK
<1> DEFINE m == target[p]
<1> USE DEF TypeOK, slotVars, unitVars, hostVars, Goto, Labels
<1>1. CASE AwaitClosing(p, m)
  BY <1>1 DEF AwaitClosing
<1>2. CASE EvictBroken(p, m)
  BY <1>2 DEF EvictBroken, StartEvictions
<1>3. CASE LeaseResident(p, m)
  BY <1>3, ReserveType DEF LeaseResident
<1>4. CASE JoinLoad(p, m)
  BY <1>4, ReserveType DEF JoinLoad
<1>5. CASE StartLoad(p, m)
  BY <1>5, ReserveType DEF StartLoad
<1>6. ASSUME pc[p] \in ClaimLabels
      PROVE  leases[m] - 1 \in Nat
  <2>1. p \in Claims(m)
    BY <1>6 DEF Claims
  <2>2. Cardinality(Claims(m)) \in Nat /\ Cardinality(Claims(m)) # 0
    BY <2>1, ClaimsFinite, FS_EmptySet
  <2> QED
    BY <2>2, leases[m] = Cardinality(Claims(m)) DEF LeasesCounted
<1>7. CASE GiveBack(p, m)
  <2>1. leases[m] - 1 \in Nat
    BY <1>6, <1>7 DEF GiveBack, ClaimLabels
  <2>2. pc' \in [Procs -> Labels]
    BY <1>7, NotifiedLabels DEF GiveBack, GotoAndNotify
  <2> QED
    BY <1>7, <2>1, <2>2 DEF GiveBack
<1>8. CASE Release(p, m)
  <2>1. leases[m] - 1 \in Nat
    BY <1>6, <1>8 DEF Release, ClaimLabels
  <2>2. pc' \in [Procs -> Labels]
    BY <1>8, NotifiedLabels DEF Release, GotoAndNotify
  <2> QED
    BY <1>8, <2>1, <2>2, TouchType DEF Release
<1>9. CASE Generate(p, m)
  BY <1>9 DEF Generate
<1>10. CASE Finish(p)
  BY <1>10 DEF Finish
<1> QED
  BY <1>1, <1>2, <1>3, <1>4, <1>5, <1>7, <1>8, <1>9, <1>10 DEF RequestStep

(* The steps of makeRoom keep the types. *)
LEMMA RoomsKeepTypes ==
  ASSUME TypeOK, NEW r \in Rooms, RoomStep(r)
  PROVE  TypeOK'
<1> r \in Procs
  BY DEF Procs, Callers
<1> USE DEF TypeOK, slotVars, unitVars, hostVars, Goto, Labels
<1>1. CASE RoomMade(r)
  BY <1>1 DEF RoomMade
<1>2. CASE CompanionLoads(r)
  BY <1>2 DEF CompanionLoads
<1>3. CASE CompanionUnloads(r)
  BY <1>3 DEF CompanionUnloads
<1> QED
  BY <1>1, <1>2, <1>3 DEF RoomStep

(* Those who pause are finitely many, so that they can be counted. *)
LEMMA PausingFinite == IsFiniteSet(Pausing) /\ Cardinality(Pausing) \in Nat
<1>1. Pausing \subseteq Pausers
  BY DEF Pausing
<1>2. IsFiniteSet(Pausing)
  BY <1>1, FS_Subset
<1> QED
  BY <1>2, FS_CardinalityType

(* The steps of pauseAll keep the types; that the count of pauses stays a natural number is due
   to PausesCounted. *)
LEMMA PausersKeepTypes ==
  ASSUME TypeOK, PausesCounted, NEW q \in Pausers, PauserStep(q)
  PROVE  TypeOK'
<1> q \in Procs
  BY DEF Procs
<1> PauseLabels \subseteq Labels
  BY DEF PauseLabels, Labels
<1> USE DEF TypeOK, slotVars, unitVars, hostVars, Goto
<1>1. CASE PauseAll(q)
  BY <1>1 DEF PauseAll, Labels
<1>2. CASE ListResidents(q)
  BY <1>2, NextPauseLabel DEF ListResidents
<1>3. CASE PauseAborted(q)
  BY <1>3 DEF PauseAborted, Labels
<1>4. CASE Unpause(q)
  <2>1. q \in Pausing
    BY <1>4 DEF Unpause, Pausing, PauseLabels
  <2>2. paused - 1 \in Nat
    BY <2>1, PausingFinite, FS_EmptySet DEF PausesCounted
  <2>3. [pc EXCEPT ![q] = "done"] \in [Procs -> Labels]
    BY DEF Labels
  <2>4. pc' \in [Procs -> Labels]
    BY <1>4, <2>3, NotifiedLabels DEF Unpause, GotoAndNotify
  <2> QED
    BY <1>4, <2>2, <2>4 DEF Unpause
<1>5. ASSUME NEW m \in Models, Paused(q, m)
      PROVE  TypeOK'
  <2>1. NextPause(todo[q] \ {m}) \in Labels
    BY NextPauseLabel
  <2> QED
    BY <1>5, <2>1 DEF Paused
<1> QED
  BY <1>1, <1>2, <1>3, <1>4, <1>5 DEF PauserStep

(* The steps of unload keep the types. *)
LEMMA UnloadersKeepTypes ==
  ASSUME TypeOK, NEW u \in Unloaders, UnloaderStep(u)
  PROVE  TypeOK'
<1> u \in Procs /\ target[u] \in Models
  BY DEF Procs, TypeOK
<1> USE DEF TypeOK, slotVars, unitVars, hostVars, Goto, Labels
<1>1. CASE Unload(u, target[u])
  BY <1>1 DEF Unload, UnloadNow, StartEvictions
<1>2. CASE UnloadLoaded(u, target[u])
  BY <1>2 DEF UnloadLoaded, UnloadNow, StartEvictions
<1>3. CASE Unloaded(u)
  BY <1>3 DEF Unloaded
<1> QED
  BY <1>1, <1>2, <1>3 DEF UnloaderStep

(* The steps of close keep the types. *)
LEMMA HostKeepsTypes ==
  ASSUME TypeOK, HostStep
  PROVE  TypeOK'
<1> TheHost \in Procs
  BY DEF Procs
<1> USE DEF TypeOK, slotVars, unitVars, hostVars
<1>1. CASE Close
  <2>1. [pc EXCEPT ![TheHost] = "settling"] \in [Procs -> Labels]
    BY DEF Labels
  <2>2. pc' \in [Procs -> Labels]
    BY <1>1, <2>1, NotifiedLabels DEF Close, GotoAndNotify
  <2>3. closed' \in BOOLEAN
    BY <1>1 DEF Close
  <2> QED
    BY <1>1, <2>2, <2>3 DEF Close
<1>2. ASSUME NEW m \in Models, CloseSettled(m)
      PROVE  TypeOK'
  BY <1>2 DEF CloseSettled, Goto, Labels
<1>3. ASSUME NEW m \in Models, CloseUnit(m)
      PROVE  TypeOK'
  BY <1>3 DEF CloseUnit, StartEvictions, Goto, Labels
<1>4. ASSUME NEW m \in Models, CloseNext(m)
      PROVE  TypeOK'
  BY <1>4 DEF CloseNext, Goto, Labels
<1> QED
  BY <1>1, <1>2, <1>3, <1>4 DEF HostStep

(* A load or a close of a unit that settles keeps the types. *)
LEMMA SettlingKeepsTypes ==
  ASSUME TypeOK, NEW m \in Models, Settles(m)
  PROVE  TypeOK'
<1> USE DEF TypeOK, slotVars, unitVars, hostVars
<1>1. ASSUME NEW l \in Labels
      PROVE  AfterLoad(m, l) \in [Procs -> Labels]
  BY DEF AfterLoad, Labels
<1>2. CASE LoadDone(m)
  <2>1. pc' \in [Procs -> Labels]
    BY <1>1, <1>2, NotifiedLabels, "leased" \in Labels DEF LoadDone, Labels
  <2> QED
    BY <1>2, <2>1 DEF LoadDone
<1>3. CASE LoadFails(m)
  <2>1. pc' \in [Procs -> Labels]
    BY <1>1, <1>3, NotifiedLabels, "reject" \in Labels DEF LoadFails, Labels
  <2> QED
    BY <1>3, <2>1 DEF LoadFails
<1>4. CASE UnitClosed(m)
  <2>1. [p \in Procs |-> IF pc[p] = "leased" /\ target[p] = m THEN "ran" ELSE pc[p]]
          \in [Procs -> Labels]
    BY DEF Labels
  <2>2. pc' \in [Procs -> Labels]
    BY <1>4, <2>1, NotifiedLabels DEF UnitClosed
  <2>3. on' \in [Procs -> SUBSET Models]
    BY <1>4 DEF UnitClosed
  <2> QED
    BY <1>4, <2>2, <2>3 DEF UnitClosed
<1> QED
  BY <1>2, <1>3, <1>4 DEF Settles

(* What comes from outside (signals, pins, companions, growth, broken units) keeps the types. *)
LEMMA EnvironmentKeepsTypes ==
  ASSUME TypeOK, Environment
  PROVE  TypeOK'
<1> USE DEF TypeOK, slotVars, unitVars, hostVars
<1>1. ASSUME NEW m \in Models, Pin(m)
      PROVE  TypeOK'
  BY <1>1 DEF Pin
<1>2. ASSUME NEW m \in Models, Unpin(m)
      PROVE  TypeOK'
  BY <1>2, NotifiedLabels DEF Unpin
<1>3. ASSUME NEW m \in Models, Break(m)
      PROVE  TypeOK'
  BY <1>3 DEF Break
<1>4. ASSUME NEW m \in Models, Grow(m)
      PROVE  TypeOK'
  BY <1>4 DEF Grow
<1>5. ASSUME NEW p \in Aborting, Abort(p)
      PROVE  TypeOK'
  BY <1>5 DEF Abort
<1> QED
  BY <1>1, <1>2, <1>3, <1>4, <1>5 DEF Environment

(* Every step keeps the types. *)
LEMMA StepsKeepTypes ==
  ASSUME TypeOK, LeasesCounted, PausesCounted, [Next]_vars
  PROVE  TypeOK'
<1>1. CASE UNCHANGED vars
  BY <1>1 DEF vars, slotVars, unitVars, hostVars, TypeOK
<1>2. CASE Idle
  BY <1>2, <1>1 DEF Idle
<1> QED
  BY <1>1, <1>2, CallersKeepTypes, RequestsKeepTypes, RoomsKeepTypes, PausersKeepTypes,
     UnloadersKeepTypes, HostKeepsTypes, SettlingKeepsTypes, EnvironmentKeepsTypes DEF Next

(***************************************************************************)
(* A slot loads once.                                                      *)
(***************************************************************************)
LEMMA VictimsEvictable ==
  ASSUME NEW p, NEW v \in Victims(Bytes(p), Exempt(p))
  PROVE  v \in Models /\ Evictable(v)
BY DEF Victims, Candidates

(* Every step keeps at most one unit to a model: none is loaded while there is one or one is
   loading. *)
LEMMA OneUnitKept ==
  ASSUME TypeOK, OneUnitPerModel, [Next]_vars
  PROVE  OneUnitPerModel'
<1> USE DEF slotVars, OneUnitPerModel
<1>1. ASSUME UNCHANGED <<unit, loading, closing>>
      PROVE  OneUnitPerModel'
  BY <1>1
<1>2. ASSUME NEW p \in Callers, CallerStep(p)
      PROVE  OneUnitPerModel'
  <2>1. CASE EvictVictims(p)
    BY <2>1, VictimsEvictable DEF EvictVictims, StartEvictions, Evictable, Busy, TypeOK
  <2>2. CASE ~EvictVictims(p)
    BY <1>2, <2>2, <1>1
       DEF CallerStep, Call, Refuse, Consider, Reconsider, WaitForOthers, Drained
  <2> QED
    BY <2>1, <2>2
<1>3. ASSUME NEW p \in Requests, RequestStep(p)
      PROVE  OneUnitPerModel'
  <2> DEFINE m == target[p]
  <2> m \in Models
    BY DEF TypeOK
  <2>1. CASE EvictBroken(p, m)
    BY <2>1 DEF EvictBroken, Spent, StartEvictions, TypeOK
  <2>2. CASE StartLoad(p, m)
    <3>1. ~unit[m] /\ ~closing[m]
      BY <2>2 DEF StartLoad, RoomNow, Stale, Absent, Exempt, Occupied
    <3> QED
      BY <2>2, <3>1 DEF StartLoad, TypeOK
  <2>3. CASE ~EvictBroken(p, m) /\ ~StartLoad(p, m)
    BY <1>3, <2>3, <1>1
       DEF RequestStep, AwaitClosing, LeaseResident, JoinLoad, GiveBack, Release, Generate, Finish
  <2> QED
    BY <2>1, <2>2, <2>3
<1>4. ASSUME NEW m \in Models, Settles(m)
      PROVE  OneUnitPerModel'
  BY <1>4 DEF Settles, LoadDone, LoadFails, UnitClosed, TypeOK
<1>5. ASSUME NEW u \in Unloaders, UnloaderStep(u)
      PROVE  OneUnitPerModel'
  <2> DEFINE m == target[u]
  <2> m \in Models
    BY DEF TypeOK
  <2>1. ASSUME UnloadNow(u, m), UNCHANGED <<unit, loading>>
        PROVE  OneUnitPerModel'
    BY <2>1 DEF UnloadNow, StartEvictions, TypeOK
  <2>2. CASE Unload(u, m)
    BY <2>2, <2>1 DEF Unload, UnloadNow, StartEvictions, TypeOK
  <2>3. CASE UnloadLoaded(u, m)
    BY <2>3, <2>1 DEF UnloadLoaded, UnloadNow, StartEvictions, TypeOK
  <2> QED
    BY <1>5, <2>2, <2>3, <1>1 DEF UnloaderStep, Unloaded
<1>6. ASSUME HostStep
      PROVE  OneUnitPerModel'
  <2>1. ASSUME NEW m \in Models, CloseUnit(m)
        PROVE  OneUnitPerModel'
    BY <2>1 DEF CloseUnit, StartEvictions, TypeOK
  <2> QED
    BY <1>6, <2>1, <1>1 DEF HostStep, Close, CloseSettled, CloseNext
<1>7. ASSUME NEW q \in Pausers, PauserStep(q)
      PROVE  OneUnitPerModel'
  BY <1>7, <1>1 DEF PauserStep, PauseAll, ListResidents, PauseAborted, Unpause, Paused
<1>8. ASSUME NEW r \in Rooms, RoomStep(r)
      PROVE  OneUnitPerModel'
  BY <1>8, <1>1 DEF RoomStep, RoomMade, CompanionLoads, CompanionUnloads
<1>9. CASE Environment
  BY <1>9, <1>1 DEF Environment, Pin, Unpin, Break, Grow, Abort
<1>10. CASE Idle \/ UNCHANGED vars
  BY <1>10, <1>1 DEF Idle, vars
<1> QED
  BY <1>2, <1>3, <1>4, <1>5, <1>6, <1>7, <1>8, <1>9, <1>10 DEF Next

(***************************************************************************)
(* leases counts the claims.                                               *)
(***************************************************************************)
LEMMA CountKept ==
  ASSUME LeasesCounted, UNCHANGED <<leases, target>>,
         \A r \in Requests : (pc'[r] \in ClaimLabels) <=> (pc[r] \in ClaimLabels)
  PROVE  LeasesCounted'
<1>1. \A m \in Models : Claims(m)' = Claims(m)
  BY ClaimsKept
<1> QED
  BY <1>1 DEF LeasesCounted

(* Counting a lease in the step in which its request takes its claim keeps the counts exact. *)
LEMMA CountGained ==
  ASSUME TypeOK, LeasesCounted, NEW p \in Requests, UNCHANGED target,
         leases' = [leases EXCEPT ![target[p]] = @ + 1],
         pc[p] \notin ClaimLabels, pc'[p] \in ClaimLabels,
         \A r \in Requests \ {p} : (pc'[r] \in ClaimLabels) <=> (pc[r] \in ClaimLabels)
  PROVE  LeasesCounted'
<1>1. target[p] \in Models
  BY DEF TypeOK
<1>2. /\ Cardinality(Claims(target[p])') = Cardinality(Claims(target[p])) + 1
      /\ \A m \in Models \ {target[p]} : Claims(m)' = Claims(m)
  BY ClaimGained
<1>3. leases'[target[p]] = Cardinality(Claims(target[p])')
  BY <1>1, <1>2 DEF LeasesCounted, TypeOK
<1>4. \A m \in Models \ {target[p]} : leases'[m] = Cardinality(Claims(m)')
  BY <1>2 DEF LeasesCounted, TypeOK
<1>5. \A m \in Models : leases'[m] = Cardinality(Claims(m)')
  BY <1>3, <1>4
<1> QED
  BY <1>5 DEF LeasesCounted

(* Uncounting a lease in the step in which its request gives its claim up keeps the counts
   exact. *)
LEMMA CountLost ==
  ASSUME TypeOK, LeasesCounted, NEW p \in Requests, UNCHANGED target,
         leases' = [leases EXCEPT ![target[p]] = @ - 1],
         pc[p] \in ClaimLabels, pc'[p] \notin ClaimLabels,
         \A r \in Requests \ {p} : (pc'[r] \in ClaimLabels) <=> (pc[r] \in ClaimLabels)
  PROVE  LeasesCounted'
<1>1. target[p] \in Models
  BY DEF TypeOK
<1>2. /\ Cardinality(Claims(target[p])') = Cardinality(Claims(target[p])) - 1
      /\ \A m \in Models \ {target[p]} : Claims(m)' = Claims(m)
  BY ClaimLost
<1>3. leases'[target[p]] = Cardinality(Claims(target[p])')
  BY <1>1, <1>2 DEF LeasesCounted, TypeOK
<1>4. \A m \in Models \ {target[p]} : leases'[m] = Cardinality(Claims(m)')
  BY <1>2 DEF LeasesCounted, TypeOK
<1>5. \A m \in Models : leases'[m] = Cardinality(Claims(m)')
  BY <1>3, <1>4
<1> QED
  BY <1>5 DEF LeasesCounted

(* Waking those who wait for a change makes nobody take a claim, pause, use a model or call. *)
LEMMA NotifiedClaims ==
  ASSUME NEW f, NEW p \in Procs
  PROVE  /\ (Notified(f)[p] \in ClaimLabels) <=> (f[p] \in ClaimLabels)
         /\ (Notified(f)[p] \in PauseLabels) <=> (f[p] \in PauseLabels)
         /\ Notified(f)[p] # "changed"
         /\ Notified(f)[p] \in {"leased", "running"} => f[p] = Notified(f)[p]
         /\ f[p] # "new" => Notified(f)[p] # "new"
BY DEF Notified, ClaimLabels, PauseLabels

(* Every step keeps the lease counts exact. *)
LEMMA CountKeptBySteps ==
  ASSUME TypeOK, LeasesCounted, [Next]_vars
  PROVE  LeasesCounted'
<1> Requests \subseteq Procs
  BY DEF Procs, Callers
<1> USE DEF slotVars, unitVars, hostVars, Goto, GotoAndNotify, ClaimLabels
<1>1. ASSUME NEW p \in Callers, CallerStep(p)
      PROVE  LeasesCounted'
  BY <1>1, CountKept
     DEF CallerStep, Call, Refuse, Consider, Reconsider, WaitForOthers, EvictVictims,
         StartEvictions, Drained, TypeOK, Procs
<1>2. ASSUME NEW p \in Requests, RequestStep(p)
      PROVE  LeasesCounted'
  <2> DEFINE m == target[p]
  <2>1. CASE LeaseResident(p, m)
    <3>1. /\ UNCHANGED target /\ leases' = [leases EXCEPT ![m] = @ + 1] /\ pc[p] \notin ClaimLabels
          /\ pc'[p] \in ClaimLabels /\ \A r \in Requests \ {p} : pc'[r] = pc[r]
      BY <2>1 DEF LeaseResident, Reserve, TypeOK
    <3> QED
      BY <3>1, CountGained
  <2>2. CASE JoinLoad(p, m)
    <3>1. /\ UNCHANGED target /\ leases' = [leases EXCEPT ![m] = @ + 1] /\ pc[p] \notin ClaimLabels
          /\ pc'[p] \in ClaimLabels /\ \A r \in Requests \ {p} : pc'[r] = pc[r]
      BY <2>2 DEF JoinLoad, Reserve, TypeOK
    <3> QED
      BY <3>1, CountGained
  <2>3. CASE StartLoad(p, m)
    BY <2>3, CountGained DEF StartLoad, RoomNow, Reserve, TypeOK
  <2>a. ASSUME pc' = Notified([pc EXCEPT ![p] = "done"])
        PROVE  pc'[p] = "done" /\ \A r \in Requests \ {p} :
                 (pc'[r] \in ClaimLabels) <=> (pc[r] \in ClaimLabels)
    <3>1. pc'[p] = "done"
      BY <2>a DEF Notified, TypeOK
    <3>2. ASSUME NEW r \in Requests \ {p}
          PROVE  (pc'[r] \in ClaimLabels) <=> (pc[r] \in ClaimLabels)
      BY <2>a DEF Notified, TypeOK
    <3> QED
      BY <3>1, <3>2
  <2>4. CASE GiveBack(p, m)
    BY <2>4, <2>a, CountLost DEF GiveBack
  <2>5. CASE Release(p, m)
    BY <2>5, <2>a, CountLost DEF Release
  <2>6. CASE AwaitClosing(p, m) \/ EvictBroken(p, m) \/ Generate(p, m) \/ Finish(p)
    BY <2>6, CountKept DEF AwaitClosing, EvictBroken, StartEvictions, Generate, Finish, TypeOK
  <2> QED
    BY <1>2, <2>1, <2>2, <2>3, <2>4, <2>5, <2>6 DEF RequestStep
<1>3. ASSUME NEW m \in Models, Settles(m)
      PROVE  LeasesCounted'
  <2>1. CASE LoadDone(m)
    BY <2>1, CountKept, NotifiedClaims DEF LoadDone, AfterLoad, TypeOK
  <2>2. CASE LoadFails(m)
    BY <2>2, CountKept, NotifiedClaims DEF LoadFails, AfterLoad, TypeOK
  <2>3. CASE UnitClosed(m)
    BY <2>3, CountKept, NotifiedClaims DEF UnitClosed, TypeOK
  <2> QED
    BY <1>3, <2>1, <2>2, <2>3 DEF Settles
<1>4. ASSUME NEW u \in Unloaders, UnloaderStep(u)
      PROVE  LeasesCounted'
  BY <1>4, CountKept
     DEF UnloaderStep, Unload, UnloadLoaded, Unloaded, UnloadNow, StartEvictions, TypeOK, Procs, Callers
<1>a. ASSUME NEW x \in Procs \ Requests, NEW l, pc' = Notified([pc EXCEPT ![x] = l])
      PROVE  \A r \in Requests : (pc'[r] \in ClaimLabels) <=> (pc[r] \in ClaimLabels)
  BY <1>a DEF Notified, TypeOK
<1>5. ASSUME HostStep
      PROVE  LeasesCounted'
  <2> TheHost \in Procs \ Requests
    BY DEF Procs, Callers
  <2>1. CASE Close
    BY <2>1, <1>a, CountKept DEF Close
  <2> QED
    BY <1>5, <2>1, CountKept
       DEF HostStep, CloseSettled, CloseUnit, CloseNext, StartEvictions, TypeOK
<1>6. ASSUME NEW q \in Pausers, PauserStep(q)
      PROVE  LeasesCounted'
  <2> q \in Procs \ Requests
    BY DEF Procs, Callers
  <2>1. CASE Unpause(q)
    BY <2>1, <1>a, CountKept DEF Unpause
  <2> QED
    BY <1>6, <2>1, CountKept
       DEF PauserStep, PauseAll, ListResidents, PauseAborted, Paused, TypeOK
<1>7. ASSUME NEW r \in Rooms, RoomStep(r)
      PROVE  LeasesCounted'
  BY <1>7, CountKept DEF RoomStep, RoomMade, CompanionLoads, CompanionUnloads, TypeOK, Procs, Callers
<1>8. CASE Environment
  BY <1>8, CountKept, NotifiedClaims DEF Environment, Pin, Unpin, Break, Grow, Abort
<1>9. CASE Idle \/ UNCHANGED vars
  BY <1>9, CountKept DEF Idle, vars
<1> QED
  BY <1>1, <1>2, <1>3, <1>4, <1>5, <1>6, <1>7, <1>8, <1>9 DEF Next

(***************************************************************************)
(* A lease that can be used is on a resident unit.                         *)
(***************************************************************************)
Usable == {"leased", "running"}
CloseCalled == pc[TheHost] # "new" => closed /\ Closing

(* What a step may do to a request without endangering its lease. *)
Safe(r) ==
  LET m == target[r] IN
    pc'[r] \in Usable =>
      \/ pc[r] \in Usable /\ (unit[m] /\ ~closing[m] => unit'[m] /\ ~closing'[m])
      \/ unit'[m] /\ ~closing'[m]
      \/ closed' \/ Forced(m)'

(* LeasedStays holds after a step when every request is safe after it: it does not use its
   model, or the model is still there. *)
LEMMA StaysWhenSafe ==
  ASSUME LeasedStays, UNCHANGED target, closed => closed',
         \A u \in Forcing : pc[u] # "new" => pc'[u] # "new",
         \A r \in Requests : Safe(r)
  PROVE  LeasedStays'
<1> SUFFICES ASSUME NEW r \in Requests, pc'[r] \in Usable
             PROVE  \/ unit'[target[r]] /\ ~closing'[target[r]]
                    \/ closed' \/ Forced(target[r])'
  BY DEF LeasedStays, Usable
<1>1. CASE pc[r] \in Usable /\ (unit[target[r]] /\ ~closing[target[r]]
                               => unit'[target[r]] /\ ~closing'[target[r]])
  <2>1. (unit[target[r]] /\ ~closing[target[r]]) \/ closed \/ Forced(target[r])
    BY <1>1 DEF LeasedStays, Usable
  <2>2. Forced(target[r]) => Forced(target[r])'
    BY DEF Forced
  <2> QED
    BY <1>1, <2>1, <2>2
<1>2. CASE (unit'[target[r]] /\ ~closing'[target[r]]) \/ closed' \/ Forced(target[r])'
  BY <1>2
<1> QED
  BY <1>1, <1>2 DEF Safe

(* A step that drains no model and lets nobody begin to use one keeps LeasedStays. *)
LEMMA StaysWhenNothingDrains ==
  ASSUME LeasedStays, UNCHANGED <<target, unit, closing>>, closed => closed',
         \A u \in Forcing : pc[u] # "new" => pc'[u] # "new",
         \A r \in Requests : pc'[r] \in Usable => pc[r] \in Usable
  PROVE  LeasedStays'
BY StaysWhenSafe DEF Safe

(* No request uses a model whose lease count is zero. *)
LEMMA UnleasedNotUsed ==
  ASSUME LeasesCounted, NEW m \in Models, leases[m] = 0, NEW r \in Requests, target[r] = m
  PROVE  pc[r] \notin Usable
<1>1. Claims(m) = {}
  BY NoLeaseNoClaim
<1> QED
  BY <1>1 DEF Claims, ClaimLabels, Usable

(* Every step keeps a leased model from being unloaded under its holder. *)
LEMMA LeasedStaysKept ==
  ASSUME TypeOK, OneUnitPerModel, LeasesCounted, CloseCalled, LeasedStays, [Next]_vars
  PROVE  LeasedStays'
<1> Requests \subseteq Procs /\ Forcing \subseteq Procs /\ Forcing \cap Requests = {}
  BY DEF Procs, Callers
<1> \A r \in Requests : target[r] \in Models
  BY DEF TypeOK
<1> USE DEF slotVars, unitVars, hostVars, Goto, GotoAndNotify, Usable
<1>1. ASSUME NEW p \in Callers, CallerStep(p)
      PROVE  LeasedStays'
  <2> p \in Procs /\ p \notin Forcing
    BY DEF Procs, Callers
  <2>1. CASE EvictVictims(p)
    <3>1. ASSUME NEW r \in Requests
          PROVE  Safe(r)
      <4>1. CASE target[r] \in Victims(Bytes(p), Exempt(p))
        <5>1. leases[target[r]] = 0
          <6>1. Evictable(target[r]) /\ target[r] \in Models
            BY <4>1, VictimsEvictable
          <6>2. ~(leases[target[r]] > 0) /\ leases[target[r]] \in Nat
            BY <6>1 DEF Evictable, Busy, TypeOK
          <6> QED
            BY <6>2
        <5>2. pc[r] \notin Usable
          BY <5>1, UnleasedNotUsed
        <5>3. pc'[r] \notin Usable
          BY <2>1, <5>2 DEF EvictVictims, StartEvictions, TypeOK
        <5> QED
          BY <5>3 DEF Safe
      <4>2. CASE target[r] \notin Victims(Bytes(p), Exempt(p))
        BY <2>1, <4>2 DEF EvictVictims, StartEvictions, Safe, TypeOK
      <4> QED
        BY <4>1, <4>2
    <3> QED
      BY <2>1, <3>1, StaysWhenSafe DEF EvictVictims, StartEvictions, TypeOK
  <2>2. CASE ~EvictVictims(p)
    BY <1>1, <2>2, StaysWhenNothingDrains
       DEF CallerStep, Call, Refuse, Consider, Reconsider, WaitForOthers, Drained, TypeOK
  <2> QED
    BY <2>1, <2>2
<1>2. ASSUME NEW p \in Requests, RequestStep(p)
      PROVE  LeasedStays'
  <2> DEFINE m == target[p]
  <2>1. CASE EvictBroken(p, m)
    <3>1. ASSUME NEW r \in Requests
          PROVE  Safe(r)
      <4>1. target[r] = m => pc[r] \notin Usable
        BY <2>1, UnleasedNotUsed DEF EvictBroken, Spent
      <4> QED
        BY <2>1, <4>1 DEF EvictBroken, StartEvictions, Safe, TypeOK
    <3> QED
      BY <2>1, <3>1, StaysWhenSafe DEF EvictBroken, StartEvictions, TypeOK
  <2>2. CASE LeaseResident(p, m)
    <3>1. \A r \in Requests : Safe(r)
      BY <2>2 DEF LeaseResident, Safe, TypeOK
    <3> QED
      BY <2>2, <3>1, StaysWhenSafe DEF LeaseResident, TypeOK
  <2>3. CASE GiveBack(p, m) \/ Release(p, m)
    BY <2>3, StaysWhenNothingDrains DEF GiveBack, Release, Notified, TypeOK
  <2>4. CASE AwaitClosing(p, m) \/ JoinLoad(p, m) \/ StartLoad(p, m) \/ Generate(p, m) \/ Finish(p)
    BY <2>4, StaysWhenNothingDrains
       DEF AwaitClosing, JoinLoad, StartLoad, Generate, Finish, TypeOK
  <2> QED
    BY <1>2, <2>1, <2>2, <2>3, <2>4 DEF RequestStep
<1>3. ASSUME NEW m \in Models, Settles(m)
      PROVE  LeasedStays'
  <2>1. CASE LoadDone(m)
    <3>1. ASSUME NEW r \in Requests
          PROVE  Safe(r)
      BY <2>1 DEF LoadDone, AfterLoad, Notified, Safe, OneUnitPerModel, TypeOK
    <3> QED
      BY <2>1, <3>1, StaysWhenSafe DEF LoadDone, AfterLoad, Notified, TypeOK
  <2>2. CASE LoadFails(m)
    BY <2>2, StaysWhenNothingDrains DEF LoadFails, AfterLoad, Notified, TypeOK
  <2>3. CASE UnitClosed(m)
    <3>1. ASSUME NEW r \in Requests
          PROVE  Safe(r)
      BY <2>3 DEF UnitClosed, Running, Notified, Safe, TypeOK
    <3> QED
      BY <2>3, <3>1, StaysWhenSafe DEF UnitClosed, Notified, TypeOK
  <2> QED
    BY <1>3, <2>1, <2>2, <2>3 DEF Settles
<1>4. ASSUME NEW u \in Unloaders, UnloaderStep(u)
      PROVE  LeasedStays'
  <2> u \in Procs \ Requests /\ target[u] \in Models
    BY DEF Procs, Callers, TypeOK
  <2> DEFINE m == target[u]
  <2>1. \A x \in Models : closing'[x] /\ ~closing[x] => x = m /\ (leases[m] = 0 \/ u \in Forcing)
    BY <1>4 DEF UnloaderStep, Unload, UnloadLoaded, Unloaded, UnloadNow, StartEvictions, TypeOK
  <2>2. UNCHANGED <<target, unit, closed>> /\ pc'[u] # "new"
    BY <1>4 DEF UnloaderStep, Unload, UnloadLoaded, Unloaded, UnloadNow, StartEvictions, TypeOK
  <2>3. \A x \in Procs \ {u} : pc'[x] = pc[x]
    BY <1>4 DEF UnloaderStep, Unload, UnloadLoaded, Unloaded, UnloadNow, StartEvictions, TypeOK
  <2>4. ASSUME NEW r \in Requests
        PROVE  Safe(r)
    <3> r \in Procs \ {u}
      BY DEF Procs, Callers
    <3> target[r] \in Models
      BY DEF TypeOK
    <3>1. pc'[r] = pc[r]
      BY <2>3
    <3>2. CASE closing'[target[r]] /\ ~closing[target[r]] /\ pc[r] \in Usable
      <4>1. target[r] = m /\ (leases[m] = 0 \/ u \in Forcing)
        BY <2>1, <3>2
      <4>2. leases[m] # 0
        BY <3>2, <4>1, UnleasedNotUsed
      <4>3. u \in Forcing
        BY <4>1, <4>2
      <4>4. Forced(target[r])'
        BY <2>2, <4>1, <4>3 DEF Forced
      <4> QED
        BY <4>4 DEF Safe
    <3>3. CASE ~(closing'[target[r]] /\ ~closing[target[r]] /\ pc[r] \in Usable)
      BY <2>2, <3>1, <3>3 DEF Safe
    <3> QED
      BY <3>2, <3>3
  <2> QED
    BY <2>2, <2>3, <2>4, StaysWhenSafe
<1>5. ASSUME HostStep
      PROVE  LeasedStays'
  <2> TheHost \in Procs \ (Requests \cup Forcing)
    BY DEF Procs, Callers
  <2>1. CASE Close
    BY <2>1, StaysWhenNothingDrains DEF Close, Notified, TypeOK
  <2>2. ASSUME NEW m \in Models, CloseUnit(m)
        PROVE  LeasedStays'
    <3>1. closed'
      BY <2>2 DEF CloseUnit, CloseCalled
    <3> QED
      BY <2>2, <3>1, StaysWhenSafe DEF CloseUnit, StartEvictions, Safe, TypeOK
  <2> QED
    BY <1>5, <2>1, <2>2, StaysWhenNothingDrains DEF HostStep, CloseSettled, CloseNext, TypeOK
<1>6. ASSUME NEW q \in Pausers, PauserStep(q)
      PROVE  LeasedStays'
  <2> q \in Procs \ (Requests \cup Forcing)
    BY DEF Procs, Callers
  <2>1. CASE Unpause(q)
    BY <2>1, StaysWhenNothingDrains DEF Unpause, Notified, TypeOK
  <2>2. CASE PauseAll(q) \/ PauseAborted(q)
    BY <2>2, StaysWhenNothingDrains DEF PauseAll, PauseAborted, TypeOK
  <2>3. CASE ListResidents(q)
    BY <2>3, StaysWhenNothingDrains DEF ListResidents, TypeOK
  <2>4. ASSUME NEW m \in Models, Paused(q, m)
        PROVE  LeasedStays'
    BY <2>4, StaysWhenNothingDrains DEF Paused, TypeOK
  <2> QED
    BY <1>6, <2>1, <2>2, <2>3, <2>4 DEF PauserStep
<1>7. ASSUME NEW r \in Rooms, RoomStep(r)
      PROVE  LeasedStays'
  <2> r \in Procs \ (Requests \cup Forcing)
    BY DEF Procs, Callers
  <2> QED
    BY <1>7, StaysWhenNothingDrains DEF RoomStep, RoomMade, CompanionLoads, CompanionUnloads, TypeOK
<1>8. CASE Environment
  BY <1>8, StaysWhenNothingDrains DEF Environment, Pin, Unpin, Break, Grow, Abort, Notified, TypeOK
<1>9. CASE Idle \/ UNCHANGED vars
  BY <1>9, StaysWhenNothingDrains DEF Idle, vars
<1> QED
  BY <1>1, <1>2, <1>3, <1>4, <1>5, <1>6, <1>7, <1>8, <1>9 DEF Next

(* Every step keeps that a host whose close has been called is closed. *)
LEMMA CloseCalledKept ==
  ASSUME TypeOK, CloseCalled, [Next]_vars
  PROVE  CloseCalled'
<1> TheHost \in Procs \ (Callers \cup Pausers \cup Unloaders) /\ Requests \subseteq Callers /\ Rooms \subseteq Callers
  BY DEF Procs, Callers
<1> Callers \cup Pausers \cup Unloaders \subseteq Procs
  BY DEF Procs
<1> USE DEF slotVars, unitVars, hostVars, Goto, GotoAndNotify
<1>1. ASSUME closed' = closed, pc'[TheHost] = pc[TheHost]
      PROVE  CloseCalled'
  BY <1>1 DEF CloseCalled
<1>2. ASSUME closed' = closed, pc[TheHost] = "new" => pc'[TheHost] = "new"
      PROVE  CloseCalled'
  BY <1>2 DEF CloseCalled
<1>3. ASSUME NEW p \in Callers, CallerStep(p)
      PROVE  CloseCalled'
  BY <1>3, <1>1
     DEF CallerStep, Call, Refuse, Consider, Reconsider, WaitForOthers, EvictVictims,
         StartEvictions, Drained, TypeOK
<1>4. ASSUME NEW p \in Requests, RequestStep(p)
      PROVE  CloseCalled'
  BY <1>4, <1>2
     DEF RequestStep, AwaitClosing, EvictBroken, LeaseResident, JoinLoad, StartLoad, GiveBack,
         Release, Generate, Finish, StartEvictions, Notified, TypeOK
<1>5. ASSUME NEW m \in Models, Settles(m)
      PROVE  CloseCalled'
  BY <1>5, <1>2 DEF Settles, LoadDone, LoadFails, UnitClosed, AfterLoad, Notified, TypeOK
<1>6. ASSUME NEW u \in Unloaders, UnloaderStep(u)
      PROVE  CloseCalled'
  BY <1>6, <1>1
     DEF UnloaderStep, Unload, UnloadLoaded, Unloaded, UnloadNow, StartEvictions, TypeOK
<1>7. ASSUME HostStep
      PROVE  CloseCalled'
  <2>1. CASE Close
    BY <2>1 DEF Close, CloseCalled
  <2>2. CASE \E m \in Models : CloseSettled(m) \/ CloseUnit(m) \/ CloseNext(m)
    <3>1. pc[TheHost] # "new" /\ closed' = closed
      BY <2>2 DEF CloseSettled, CloseUnit, CloseNext
    <3> QED
      BY <3>1 DEF CloseCalled
  <2> QED
    BY <1>7, <2>1, <2>2 DEF HostStep
<1>8. ASSUME NEW q \in Pausers, PauserStep(q)
      PROVE  CloseCalled'
  <2>1. CASE PauseAll(q) \/ PauseAborted(q)
    BY <2>1, <1>2 DEF PauseAll, PauseAborted, TypeOK
  <2>2. CASE ListResidents(q)
    BY <2>2, <1>2 DEF ListResidents, TypeOK
  <2>3. ASSUME NEW m \in Models, Paused(q, m)
        PROVE  CloseCalled'
    BY <2>3, <1>2 DEF Paused, TypeOK
  <2>4. CASE Unpause(q)
    BY <2>4, <1>2 DEF Unpause, Notified, TypeOK
  <2> QED
    BY <1>8, <2>1, <2>2, <2>3, <2>4 DEF PauserStep
<1>9. ASSUME NEW r \in Rooms, RoomStep(r)
      PROVE  CloseCalled'
  BY <1>9, <1>1 DEF RoomStep, RoomMade, CompanionLoads, CompanionUnloads, TypeOK
<1>10. CASE Environment
  BY <1>10, <1>2 DEF Environment, Pin, Unpin, Break, Grow, Abort, Notified
<1>11. CASE Idle \/ UNCHANGED vars
  BY <1>11, <1>1 DEF Idle, vars
<1> QED
  BY <1>3, <1>4, <1>5, <1>6, <1>7, <1>8, <1>9, <1>10, <1>11 DEF Next

(***************************************************************************)
(* paused counts the pausers that have not disposed or failed.             *)
(***************************************************************************)
LEMMA PausesKept ==
  ASSUME PausesCounted, UNCHANGED <<paused, gpu>>,
         \A q \in Pausers : (pc'[q] \in PauseLabels) <=> (pc[q] \in PauseLabels)
  PROVE  PausesCounted'
<1>1. Pausing' = Pausing
  BY DEF Pausing
<1> QED
  BY <1>1 DEF PausesCounted

(* Every step keeps the count of pauses exact. *)
LEMMA PausesCountedKept ==
  ASSUME TypeOK, PausesCounted, [Next]_vars
  PROVE  PausesCounted'
<1> /\ \A q \in Pausers : q \in Procs \ (Callers \cup Unloaders \cup {TheHost})
    /\ Requests \subseteq Callers /\ Rooms \subseteq Callers
  BY DEF Procs, Callers
<1> USE DEF slotVars, unitVars, hostVars, Goto, GotoAndNotify, PauseLabels
<1>1. ASSUME NEW q \in Pausers, PauserStep(q)
      PROVE  PausesCounted'
  <2>1. CASE PauseAll(q)
    <3>1. Pausing' = Pausing \cup {q} /\ q \notin Pausing
      BY <2>1 DEF PauseAll, Pausing, TypeOK
    <3>2. Cardinality(Pausing') = Cardinality(Pausing) + 1
      BY <3>1, PausingFinite, FS_AddElement
    <3>3. paused' = paused + 1 /\ gpu' = gpu
      BY <2>1 DEF PauseAll
    <3> QED
      BY <3>1, <3>2, <3>3 DEF PausesCounted
  <2>2. CASE ListResidents(q) \/ PauseAborted(q)
    BY <2>2, PausesKept, NextPauseLabel DEF ListResidents, PauseAborted, TypeOK
  <2>3. CASE Unpause(q)
    <3>1. Pausing' = Pausing \ {q} /\ q \in Pausing
      BY <2>3 DEF Unpause, Pausing, Notified, TypeOK
    <3>2. Cardinality(Pausing') = Cardinality(Pausing) - 1
      BY <3>1, PausingFinite, FS_RemoveElement
    <3>3. paused' = paused - 1 /\ \A m \in Models : gpu'[m] # NoOne => gpu'[m] = gpu[m] /\ gpu[m] # q
      BY <2>3 DEF Unpause, TypeOK
    <3> QED
      BY <3>1, <3>2, <3>3 DEF PausesCounted
  <2>4. ASSUME NEW m \in Models, Paused(q, m)
        PROVE  PausesCounted'
    <3>1. NextPause(todo[q] \ {m}) \in PauseLabels
      BY NextPauseLabel
    <3>2. Pausing' = Pausing /\ q \in Pausing
      BY <2>4, <3>1 DEF Paused, Pausing, TypeOK
    <3>3. paused' = paused /\ \A x \in Models : gpu'[x] \in {gpu[x], q}
      BY <2>4 DEF Paused, TypeOK
    <3> QED
      BY <3>2, <3>3 DEF PausesCounted
  <2> QED
    BY <1>1, <2>1, <2>2, <2>3, <2>4 DEF PauserStep
<1>2. ASSUME NEW p \in Callers, CallerStep(p)
      PROVE  PausesCounted'
  BY <1>2, PausesKept
     DEF CallerStep, Call, Refuse, Consider, Reconsider, WaitForOthers, EvictVictims,
         StartEvictions, Drained, TypeOK
<1>3. ASSUME NEW p \in Requests, RequestStep(p)
      PROVE  PausesCounted'
  BY <1>3, PausesKept
     DEF RequestStep, AwaitClosing, EvictBroken, LeaseResident, JoinLoad, StartLoad, GiveBack,
         Release, Generate, Finish, StartEvictions, Notified, TypeOK
<1>4. ASSUME NEW m \in Models, Settles(m)
      PROVE  PausesCounted'
  BY <1>4, PausesKept DEF Settles, LoadDone, LoadFails, UnitClosed, AfterLoad, Notified, TypeOK
<1>5. ASSUME NEW u \in Unloaders, UnloaderStep(u)
      PROVE  PausesCounted'
  BY <1>5, PausesKept
     DEF UnloaderStep, Unload, UnloadLoaded, Unloaded, UnloadNow, StartEvictions, TypeOK
<1>6. CASE HostStep
  BY <1>6, PausesKept
     DEF HostStep, Close, CloseSettled, CloseUnit, CloseNext, StartEvictions, Notified, TypeOK
<1>7. ASSUME NEW r \in Rooms, RoomStep(r)
      PROVE  PausesCounted'
  BY <1>7, PausesKept DEF RoomStep, RoomMade, CompanionLoads, CompanionUnloads, TypeOK
<1>8. CASE Environment
  BY <1>8, PausesKept DEF Environment, Pin, Unpin, Break, Grow, Abort, Notified
<1>9. CASE Idle \/ UNCHANGED vars
  BY <1>9, PausesKept DEF Idle, vars
<1> QED
  BY <1>1, <1>2, <1>3, <1>4, <1>5, <1>6, <1>7, <1>8, <1>9 DEF Next

(***************************************************************************)
(* Whoever waits for a change has one to wait for.  A step that takes a    *)
(* reason away notifies, so that nobody waits after it; every other step   *)
(* keeps each reason.                                                      *)
(***************************************************************************)
Reason(p) == paused > 0 \/ \E m \in Models \ Exempt(p) : Occupied(m) /\ Busy(m)

(* When a step has woken everybody who waits for a change, nobody waits without a reason. *)
LEMMA NobodyWaits ==
  ASSUME \A p \in Procs : pc'[p] # "changed"
  PROVE  WaitHasReason'
BY DEF WaitHasReason, Procs

(* A step that takes no reason to wait away, and lets nobody wait without one, keeps
   WaitHasReason. *)
LEMMA ReasonsKept ==
  ASSUME TypeOK, WaitHasReason, UNCHANGED target, paused > 0 => paused' > 0,
         \A m \in Models : (unit[m] => unit'[m]) /\ (loading[m] => loading'[m])
                         /\ (closing[m] => closing'[m]) /\ (leases[m] > 0 => leases'[m] > 0),
         \A p \in Callers : pc'[p] = "changed" => pc[p] = "changed" \/ Reason(p)
  PROVE  WaitHasReason'
<1> SUFFICES ASSUME NEW p \in Callers, pc'[p] = "changed"
             PROVE  paused' > 0 \/ \E m \in Models \ Exempt(p)' : Occupied(m)' /\ Busy(m)'
  BY DEF WaitHasReason
<1>1. Reason(p)
  BY DEF WaitHasReason, Reason
<1>2. Exempt(p)' = Exempt(p)
  BY DEF Exempt
<1>3. \A m \in Models : Occupied(m) /\ Busy(m) => Occupied(m)' /\ Busy(m)'
  BY DEF Occupied, Busy
<1> QED
  BY <1>1, <1>2, <1>3 DEF Reason

(* Every step keeps that whoever waits for a change has a reason: what takes the last one away
   notifies. *)
LEMMA WaitHasReasonKept ==
  ASSUME TypeOK, WaitHasReason, [Next]_vars
  PROVE  WaitHasReason'
<1> /\ Callers \subseteq Procs /\ Requests \subseteq Callers /\ Rooms \subseteq Callers
    /\ Pausers \subseteq Procs \ Callers /\ Unloaders \subseteq Procs \ Callers
    /\ TheHost \in Procs \ Callers
  BY DEF Procs, Callers
<1> USE DEF slotVars, unitVars, hostVars, Goto
<1>1. ASSUME NEW f, pc' = Notified(f)
      PROVE  WaitHasReason'
  BY <1>1, NotifiedClaims, NobodyWaits
<1>2. ASSUME NEW p \in Callers, CallerStep(p)
      PROVE  WaitHasReason'
  <2>1. CASE Consider(p)
    <3>1. pc'[p] = "changed" => paused > 0
      BY <2>1 DEF Consider, TypeOK
    <3> QED
      BY <2>1, <3>1, ReasonsKept DEF Consider, Reason, TypeOK
  <2>2. CASE WaitForOthers(p)
    <3>1. Reason(p)
      BY <2>2 DEF WaitForOthers, MustWait, WorthWaiting, Reason
    <3> QED
      BY <2>2, <3>1, ReasonsKept DEF WaitForOthers, TypeOK
  <2>3. CASE EvictVictims(p)
    BY <2>3, ReasonsKept DEF EvictVictims, StartEvictions, TypeOK
  <2>4. CASE Call(p) \/ Refuse(p) \/ Reconsider(p) \/ Drained(p)
    BY <2>4, ReasonsKept DEF Call, Refuse, Reconsider, Drained, TypeOK
  <2> QED
    BY <1>2, <2>1, <2>2, <2>3, <2>4 DEF CallerStep
<1>3. ASSUME NEW p \in Requests, RequestStep(p)
      PROVE  WaitHasReason'
  <2> DEFINE m == target[p]
  <2> m \in Models
    BY DEF TypeOK, Procs
  <2>1. CASE GiveBack(p, m) \/ Release(p, m)
    BY <2>1, <1>1 DEF GiveBack, Release, GotoAndNotify
  <2>2. CASE AwaitClosing(p, m) \/ EvictBroken(p, m) \/ Generate(p, m) \/ Finish(p)
    BY <2>2, ReasonsKept DEF AwaitClosing, EvictBroken, Generate, Finish, StartEvictions, TypeOK
  <2>3. CASE LeaseResident(p, m) \/ JoinLoad(p, m) \/ StartLoad(p, m)
    <3>1. \A x \in Models : leases[x] > 0 => leases'[x] > 0
      BY <2>3 DEF LeaseResident, JoinLoad, StartLoad, Reserve, TypeOK
    <3> QED
      BY <2>3, <3>1, ReasonsKept DEF LeaseResident, JoinLoad, StartLoad, TypeOK
  <2> QED
    BY <1>3, <2>1, <2>2, <2>3 DEF RequestStep
<1>4. ASSUME NEW m \in Models, Settles(m)
      PROVE  WaitHasReason'
  BY <1>4, <1>1 DEF Settles, LoadDone, LoadFails, UnitClosed
<1>5. ASSUME NEW u \in Unloaders, UnloaderStep(u)
      PROVE  WaitHasReason'
  BY <1>5, ReasonsKept
     DEF UnloaderStep, Unload, UnloadLoaded, Unloaded, UnloadNow, StartEvictions, TypeOK
<1>6. CASE HostStep
  <2>1. CASE Close
    BY <2>1, <1>1 DEF Close, GotoAndNotify
  <2> QED
    BY <1>6, <2>1, ReasonsKept
       DEF HostStep, CloseSettled, CloseUnit, CloseNext, StartEvictions, TypeOK
<1>7. ASSUME NEW q \in Pausers, PauserStep(q)
      PROVE  WaitHasReason'
  <2>1. CASE Unpause(q)
    BY <2>1, <1>1 DEF Unpause, GotoAndNotify
  <2>2. CASE PauseAll(q)
    <3>1. paused > 0 => paused' > 0
      BY <2>2 DEF PauseAll, TypeOK
    <3> QED
      BY <2>2, <3>1, ReasonsKept DEF PauseAll, TypeOK
  <2>3. CASE ListResidents(q) \/ PauseAborted(q)
    BY <2>3, ReasonsKept DEF ListResidents, PauseAborted, TypeOK
  <2>4. ASSUME NEW m \in Models, Paused(q, m)
        PROVE  WaitHasReason'
    BY <2>4, ReasonsKept DEF Paused, TypeOK
  <2> QED
    BY <1>7, <2>1, <2>2, <2>3, <2>4 DEF PauserStep
<1>8. ASSUME NEW r \in Rooms, RoomStep(r)
      PROVE  WaitHasReason'
  BY <1>8, ReasonsKept DEF RoomStep, RoomMade, CompanionLoads, CompanionUnloads, TypeOK
<1>9. CASE Environment
  <2>1. ASSUME NEW m \in Models, Unpin(m)
        PROVE  WaitHasReason'
    BY <2>1, <1>1 DEF Unpin
  <2> QED
    BY <1>9, <2>1, ReasonsKept DEF Environment, Pin, Break, Grow, Abort
<1>10. CASE Idle \/ UNCHANGED vars
  BY <1>10, ReasonsKept DEF Idle, vars
<1> QED
  BY <1>2, <1>3, <1>4, <1>5, <1>6, <1>7, <1>8, <1>9, <1>10 DEF Next

(***************************************************************************)
(* The inductive invariant.                                                *)
(***************************************************************************)
IInv ==
  /\ TypeOK /\ OneUnitPerModel /\ LeasesCounted /\ PausesCounted
  /\ CloseCalled /\ LeasedStays /\ WaitHasReason

(* The inductive invariant holds at the start. *)
LEMMA InvInit ==
  ASSUME Init
  PROVE  IInv
<1>1. TypeOK
  BY TypesInit
<1>2. \A p \in Procs : pc[p] = "new"
  BY DEF Init
<1>3. Callers \subseteq Procs /\ Requests \subseteq Procs /\ Pausers \subseteq Procs /\ TheHost \in Procs
  BY DEF Procs, Callers
<1>4. Pausing = {} /\ \A m \in Models : Claims(m) = {}
  BY <1>2, <1>3 DEF Pausing, PauseLabels, Claims, ClaimLabels
<1>5. LeasesCounted
  BY <1>4, FS_EmptySet DEF Init, LeasesCounted
<1>6. PausesCounted
  BY <1>4, FS_EmptySet DEF Init, PausesCounted
<1>7. OneUnitPerModel
  BY DEF Init, OneUnitPerModel
<1>8. CloseCalled /\ LeasedStays /\ WaitHasReason
  BY <1>2, <1>3 DEF CloseCalled, LeasedStays, WaitHasReason
<1> QED
  BY <1>1, <1>5, <1>6, <1>7, <1>8 DEF IInv

(* Every step keeps the inductive invariant. *)
LEMMA InvKept ==
  ASSUME IInv, [Next]_vars
  PROVE  IInv'
BY StepsKeepTypes, OneUnitKept, CountKeptBySteps, PausesCountedKept, CloseCalledKept,
   LeasedStaysKept, WaitHasReasonKept DEF IInv

(* The inductive invariant holds throughout every behaviour of the host. *)
THEOREM Invariance == Spec => []IInv
BY InvInit, InvKept, PTL DEF Spec

(* Every field of every slot and every caller keeps the type the source gives it; *)
(* in particular no interleaving of releases and failures drives a lease count    *)
(* below zero.                                                                    *)
THEOREM TypeCorrect == Spec => []TypeOK
<1>1. IInv => TypeOK
  BY DEF IInv
<1> QED
  BY <1>1, Invariance, PTL

(* acquire loads a model at most once at a time, for any number of callers.       *)
THEOREM LoadsOnce == Spec => []OneUnitPerModel
<1>1. IInv => OneUnitPerModel
  BY DEF IInv
<1> QED
  BY <1>1, Invariance, PTL

(* The lease counts are exact: slot.leases is the number of calls that reserved.  *)
THEOREM LeasesExact == Spec => []LeasesCounted
<1>1. IInv => LeasesCounted
  BY DEF IInv
<1> QED
  BY <1>1, Invariance, PTL

(* "A leased model is never evicted": no usable lease is on a model that drains   *)
(* or is gone, short of a forced unload or the host's close.                      *)
THEOREM LeasedNeverEvicted == Spec => []LeasedStays
<1>1. IInv => LeasedStays
  BY DEF IInv
<1> QED
  BY <1>1, Invariance, PTL

(* No wake-up is lost: a call suspended in `changed` has something that will      *)
(* notify it.                                                                     *)
THEOREM NoLostWakeup == Spec => []WaitHasReason
<1>1. IInv => WaitHasReason
  BY DEF IInv
<1> QED
  BY <1>1, Invariance, PTL

(* The pause count is exact, and a paused unit has a live pauser.                 *)
THEOREM PausesExact == Spec => []PausesCounted
<1>1. IInv => PausesCounted
  BY DEF IInv
<1> QED
  BY <1>1, Invariance, PTL

(***************************************************************************)
(* Action properties.                                                      *)
(***************************************************************************)
LEMMA LoadsAreStarted ==
  ASSUME TypeOK, [Next]_vars, NEW m \in Models, ~loading[m], loading'[m]
  PROVE  \E p \in Requests : StartLoad(p, target[p])
<1> USE DEF slotVars, unitVars, hostVars
<1>1. ASSUME NEW p \in Callers, CallerStep(p)
      PROVE  loading' = loading
  BY <1>1 DEF CallerStep, Call, Refuse, Consider, Reconsider, WaitForOthers, EvictVictims,
              StartEvictions, Drained
<1>2. ASSUME NEW p \in Requests, RequestStep(p)
      PROVE  loading' = loading \/ StartLoad(p, target[p])
  BY <1>2 DEF RequestStep, AwaitClosing, EvictBroken, StartEvictions, LeaseResident, JoinLoad,
              GiveBack, Release, Generate, Finish
<1>3. ASSUME NEW x \in Models, Settles(x)
      PROVE  ~loading'[m]
  BY <1>3 DEF Settles, LoadDone, LoadFails, UnitClosed, TypeOK
<1>4. ASSUME NEW u \in Unloaders, UnloaderStep(u)
      PROVE  loading' = loading
  BY <1>4 DEF UnloaderStep, Unload, UnloadLoaded, Unloaded
<1>5. ASSUME HostStep
      PROVE  loading' = loading
  BY <1>5 DEF HostStep, Close, CloseSettled, CloseUnit, CloseNext, StartEvictions
<1>6. ASSUME NEW q \in Pausers, PauserStep(q)
      PROVE  loading' = loading
  BY <1>6 DEF PauserStep, PauseAll, ListResidents, PauseAborted, Unpause, Paused
<1>7. ASSUME NEW r \in Rooms, RoomStep(r)
      PROVE  loading' = loading
  BY <1>7 DEF RoomStep, RoomMade, CompanionLoads, CompanionUnloads
<1>8. ASSUME Environment \/ Idle \/ UNCHANGED vars
      PROVE  loading' = loading
  BY <1>8 DEF Environment, Pin, Unpin, Break, Grow, Abort, Idle, vars
<1>9. \E p \in Requests : RequestStep(p)
  <2>1. loading' # loading
    OBVIOUS
  <2> QED
    BY <2>1, <1>1, <1>3, <1>4, <1>5, <1>6, <1>7, <1>8 DEF Next
<1> QED
  BY <1>2, <1>9

(* A load begins only while nobody pauses the host and it is not closed. *)
LEMMA LoadOnlyWhenUnpaused ==
  ASSUME TypeOK, [Next]_vars, NEW m \in Models, ~loading[m], loading'[m]
  PROVE  paused = 0 /\ ~closed
<1>1. PICK p \in Requests : StartLoad(p, target[p])
  BY LoadsAreStarted
<1> QED
  BY <1>1 DEF StartLoad, RoomNow, Stale, TypeOK

(* While anyone pauses, and once the host closed, no step starts a load: acquire  *)
(* reads both again after it awaited the refreshed readings.                      *)
THEOREM LoadsHeldBack == Spec => NoLoadWhilePaused
<1>1. IInv /\ [Next]_vars =>
        [\A m \in Models : ~loading[m] /\ loading'[m] => paused = 0 /\ ~closed]_vars
  BY LoadOnlyWhenUnpaused DEF IInv
<1> QED
  BY <1>1, Invariance, PTL DEF Spec, NoLoadWhilePaused

(***************************************************************************)
(* close takes the models one by one, twice: first it waits for the loads  *)
(* and evictions in flight, then it closes what is resident.  What it has  *)
(* passed stays settled, for nothing loads on a host that closed.          *)
(***************************************************************************)
LEMMA FirstIn ==
  ASSUME NEW S \in SUBSET Models, S # {}
  PROVE  Min(S) \in S
<1>1. \E n \in S : \A k \in S : n <= k
  BY LeastNumber
<1> QED
  BY <1>1 DEF Min

CloseProgress ==
  LET at == pc[TheHost]
      left == todo[TheHost]
  IN /\ at \in {"new", "settling", "closing", "drain", "done"}
     /\ at = "new" <=> ~closed
     /\ at = "settling" => left # {} \/ Models = {}
     /\ at \in {"closing", "drain"} => left # {}
     /\ \A m \in Models :
          /\ at = "settling" /\ m \notin left => ~loading[m]
          /\ at \in {"closing", "drain", "done"} => ~loading[m]
          /\ at \in {"closing", "drain"} /\ m \notin left => ~unit[m]
          /\ at = "drain" /\ m = Turn(TheHost) /\ m \notin on[TheHost] => ~unit[m]
          /\ at = "done" => ~unit[m]

(* A step that begins no load, brings no unit and leaves close where it is keeps what close has
   achieved. *)
LEMMA ProgressKept ==
  ASSUME CloseProgress, closed' = closed, pc'[TheHost] = pc[TheHost],
         closed => /\ todo'[TheHost] = todo[TheHost]
                   /\ \A m \in Models :
                        /\ loading'[m] => loading[m]
                        /\ unit'[m] => unit[m]
                        /\ m \in on[TheHost] /\ m \notin on'[TheHost] => ~unit'[m]
  PROVE  CloseProgress'
BY DEF CloseProgress, Turn

(* At the start close has achieved nothing yet, and owes nothing. *)
LEMMA CloseProgressInit ==
  ASSUME Init
  PROVE  CloseProgress
<1>1. pc[TheHost] = "new" /\ ~closed
  BY DEF Init, Procs
<1> QED
  BY <1>1 DEF CloseProgress

(* The steps of close itself keep what it has achieved: it passes over no model that is still
   loading or there. *)
LEMMA HostProgress ==
  ASSUME TypeOK, CloseProgress, HostStep
  PROVE  CloseProgress'
<1> TheHost \in Procs /\ TheHost \in Pausers \cup {TheHost}
  BY DEF Procs
<1> USE DEF slotVars, unitVars, hostVars, Goto, GotoAndNotify
<1>1. todo[TheHost] \subseteq Models
  BY DEF TypeOK
<1>2. CASE Close
  <2>1. pc'[TheHost] = "settling" /\ closed' /\ todo'[TheHost] = Models
    BY <1>2 DEF Close, Notified, TypeOK
  <2> QED
    BY <2>1 DEF CloseProgress
<1>3. ASSUME NEW m \in Models, CloseSettled(m)
      PROVE  CloseProgress'
  <2> DEFINE rest == todo[TheHost] \ {m}
  <2>1. /\ pc[TheHost] = "settling" /\ ~loading[m] /\ UNCHANGED <<unit, loading, closed>>
        /\ pc'[TheHost] = IF rest = {} THEN "closing" ELSE "settling"
        /\ todo'[TheHost] = IF rest = {} THEN Models ELSE rest
    BY <1>3 DEF CloseSettled, TypeOK
  <2>2. \A x \in Models : x \notin rest => ~loading'[x]
    BY <2>1 DEF CloseProgress
  <2> QED
    BY <2>1, <2>2 DEF CloseProgress
<1>4. ASSUME NEW m \in Models, CloseUnit(m)
      PROVE  CloseProgress'
  <2>1. /\ pc[TheHost] = "closing" /\ m = Turn(TheHost) /\ UNCHANGED <<unit, loading, closed, todo>>
        /\ pc'[TheHost] = "drain" /\ on'[TheHost] = {m}
    BY <1>4 DEF CloseUnit, StartEvictions, TypeOK
  <2> QED
    BY <2>1 DEF CloseProgress, Turn
<1>5. ASSUME NEW m \in Models, CloseNext(m)
      PROVE  CloseProgress'
  <2> DEFINE rest == todo[TheHost] \ {m}
  <2>1. /\ pc[TheHost] \in {"closing", "drain"} /\ ~unit[m] /\ UNCHANGED <<unit, loading, closed>>
        /\ pc'[TheHost] = IF rest = {} THEN "done" ELSE "closing"
        /\ todo'[TheHost] = rest
    BY <1>5 DEF CloseNext, CloseProgress, TypeOK
  <2>2. \A x \in Models : x \notin rest => ~unit'[x]
    BY <2>1 DEF CloseProgress
  <2> QED
    BY <2>1, <2>2 DEF CloseProgress
<1> QED
  BY <1>2, <1>3, <1>4, <1>5 DEF HostStep

(* Every step keeps what close has achieved. *)
LEMMA CloseProgressKept ==
  ASSUME TypeOK, CloseProgress, [Next]_vars
  PROVE  CloseProgress'
<1> TheHost \in Procs \ (Callers \cup Pausers \cup Unloaders) /\ Requests \subseteq Callers /\ Rooms \subseteq Callers
  BY DEF Procs, Callers
<1> Callers \cup Pausers \cup Unloaders \subseteq Procs /\ TheHost \in Pausers \cup {TheHost}
  BY DEF Procs
<1> pc[TheHost] # "changed"
  BY DEF CloseProgress
<1> USE DEF slotVars, unitVars, hostVars, Goto, GotoAndNotify
<1>1. ASSUME NEW p \in Callers, CallerStep(p)
      PROVE  CloseProgress'
  BY <1>1, ProgressKept
     DEF CallerStep, Call, Refuse, Consider, Reconsider, WaitForOthers, EvictVictims,
         StartEvictions, Drained, TypeOK
<1>2. ASSUME NEW p \in Requests, RequestStep(p)
      PROVE  CloseProgress'
  <2> DEFINE m == target[p]
  <2>1. CASE StartLoad(p, m)
    <3>1. ~closed /\ closed' = closed /\ pc'[TheHost] = pc[TheHost]
      BY <2>1 DEF StartLoad, RoomNow, Stale, TypeOK
    <3> QED
      BY <3>1, ProgressKept
  <2>2. CASE AwaitClosing(p, m) \/ EvictBroken(p, m) \/ LeaseResident(p, m) \/ JoinLoad(p, m)
    BY <2>2, ProgressKept DEF AwaitClosing, EvictBroken, LeaseResident, JoinLoad, StartEvictions, TypeOK
  <2>3. CASE GiveBack(p, m) \/ Release(p, m) \/ Generate(p, m) \/ Finish(p)
    BY <2>3, ProgressKept DEF GiveBack, Release, Generate, Finish, Notified, TypeOK
  <2> QED
    BY <1>2, <2>1, <2>2, <2>3 DEF RequestStep
<1>3. ASSUME NEW m \in Models, Settles(m)
      PROVE  CloseProgress'
  <2>1. CASE LoadDone(m)
    <3>1. pc'[TheHost] = pc[TheHost]
      <4>1. AfterLoad(m, "leased")[TheHost] = pc[TheHost]
        BY DEF AfterLoad, CloseProgress
      <4> QED
        BY <2>1, <4>1 DEF LoadDone, Notified
    <3>2. ~closed /\ closed' = closed
      BY <2>1 DEF LoadDone
    <3> QED
      BY <3>1, <3>2, ProgressKept
  <2>2. CASE LoadFails(m)
    <3>1. pc'[TheHost] = pc[TheHost]
      <4>1. AfterLoad(m, "reject")[TheHost] = pc[TheHost]
        BY DEF AfterLoad, CloseProgress
      <4> QED
        BY <2>2, <4>1 DEF LoadFails, Notified
    <3> QED
      BY <2>2, <3>1, ProgressKept DEF LoadFails, TypeOK
  <2>3. CASE UnitClosed(m)
    <3>1. pc'[TheHost] = pc[TheHost]
      BY <2>3 DEF UnitClosed, Notified, CloseProgress
    <3>2. on'[TheHost] = on[TheHost] \ {m} /\ ~unit'[m] /\ \A x \in Models : unit'[x] => unit[x]
      BY <2>3 DEF UnitClosed, TypeOK
    <3>3. closed' = closed /\ loading' = loading /\ todo' = todo
      BY <2>3 DEF UnitClosed
    <3> QED
      BY <3>1, <3>2, <3>3, ProgressKept
  <2> QED
    BY <1>3, <2>1, <2>2, <2>3 DEF Settles
<1>4. ASSUME NEW u \in Unloaders, UnloaderStep(u)
      PROVE  CloseProgress'
  BY <1>4, ProgressKept
     DEF UnloaderStep, Unload, UnloadLoaded, Unloaded, UnloadNow, StartEvictions, TypeOK
<1>5. ASSUME NEW q \in Pausers, PauserStep(q)
      PROVE  CloseProgress'
  <2>1. CASE PauseAll(q) \/ ListResidents(q) \/ PauseAborted(q)
    BY <2>1, ProgressKept DEF PauseAll, ListResidents, PauseAborted, TypeOK
  <2>2. CASE Unpause(q)
    BY <2>2, ProgressKept DEF Unpause, Notified, TypeOK
  <2>3. ASSUME NEW m \in Models, Paused(q, m)
        PROVE  CloseProgress'
    BY <2>3, ProgressKept DEF Paused, TypeOK
  <2> QED
    BY <1>5, <2>1, <2>2, <2>3 DEF PauserStep
<1>6. ASSUME NEW r \in Rooms, RoomStep(r)
      PROVE  CloseProgress'
  BY <1>6, ProgressKept DEF RoomStep, RoomMade, CompanionLoads, CompanionUnloads, TypeOK
<1>7. CASE Environment
  BY <1>7, ProgressKept DEF Environment, Pin, Unpin, Break, Grow, Abort, Notified
<1>8. CASE Idle \/ UNCHANGED vars
  BY <1>8, ProgressKept DEF Idle, vars
<1> QED
  BY <1>1, <1>2, <1>3, <1>4, <1>5, <1>6, <1>7, <1>8, HostProgress DEF Next

(* A closed host grants no lease. *)
LEMMA NoGrantOnceClosed ==
  ASSUME TypeOK, [Next]_vars, NEW p \in Requests, pc[p] # "leased", pc'[p] = "leased"
  PROVE  ~closed
<1> /\ p \in Procs /\ Requests \subseteq Callers /\ Rooms \subseteq Callers /\ Callers \subseteq Procs
    /\ p \notin Pausers \cup Unloaders \cup Rooms \cup {TheHost}
  BY DEF Procs, Callers
<1> USE DEF slotVars, unitVars, hostVars, Goto, GotoAndNotify
<1>1. ASSUME NEW c \in Callers, CallerStep(c)
      PROVE  FALSE
  BY <1>1
     DEF CallerStep, Call, Refuse, Consider, Reconsider, WaitForOthers, EvictVictims,
         StartEvictions, Drained, TypeOK
<1>2. ASSUME NEW r \in Requests, RequestStep(r)
      PROVE  ~closed
  BY <1>2
     DEF RequestStep, AwaitClosing, EvictBroken, LeaseResident, Refused, JoinLoad, StartLoad,
         GiveBack, Release, Generate, Finish, StartEvictions, Notified, TypeOK
<1>3. ASSUME NEW m \in Models, Settles(m)
      PROVE  ~closed
  <2>1. CASE LoadFails(m)
    BY <2>1 DEF LoadFails, AfterLoad, Notified
  <2>2. CASE UnitClosed(m)
    BY <2>2 DEF UnitClosed, Notified
  <2> QED
    BY <1>3, <2>1, <2>2 DEF Settles, LoadDone
<1>4. ASSUME NEW u \in Unloaders, UnloaderStep(u)
      PROVE  FALSE
  BY <1>4 DEF UnloaderStep, Unload, UnloadLoaded, Unloaded, UnloadNow, StartEvictions, TypeOK
<1>5. ASSUME HostStep
      PROVE  FALSE
  BY <1>5 DEF HostStep, Close, CloseSettled, CloseUnit, CloseNext, StartEvictions, Notified, TypeOK
<1>6. ASSUME NEW q \in Pausers, PauserStep(q)
      PROVE  FALSE
  <2>1. CASE PauseAll(q) \/ ListResidents(q) \/ PauseAborted(q)
    BY <2>1 DEF PauseAll, ListResidents, PauseAborted, TypeOK
  <2>2. CASE Unpause(q)
    BY <2>2 DEF Unpause, Notified, TypeOK
  <2>3. ASSUME NEW m \in Models, Paused(q, m)
        PROVE  FALSE
    BY <2>3 DEF Paused, TypeOK
  <2> QED
    BY <1>6, <2>1, <2>2, <2>3 DEF PauserStep
<1>7. ASSUME NEW r \in Rooms, RoomStep(r)
      PROVE  FALSE
  BY <1>7 DEF RoomStep, RoomMade, CompanionLoads, CompanionUnloads, TypeOK
<1>8. ASSUME Environment \/ Idle \/ UNCHANGED vars
      PROVE  FALSE
  BY <1>8 DEF Environment, Pin, Unpin, Break, Grow, Abort, Idle, Notified, vars
<1> QED
  BY <1>1, <1>2, <1>3, <1>4, <1>5, <1>6, <1>7, <1>8 DEF Next

(* Once the host closed no lease is granted, and when its close has resolved      *)
(* nothing is in memory or on its way there, whatever loads, evictions and forced *)
(* unloads it overtook.                                                           *)
THEOREM ClosesForGood == Spec => ClosedForGood
<1>1. Init => CloseProgress
  BY CloseProgressInit
<1>2. IInv /\ CloseProgress /\ [Next]_vars => CloseProgress'
  BY CloseProgressKept DEF IInv
<1>3. IInv /\ CloseProgress => ClosedIsEmpty
  BY DEF IInv, CloseProgress, ClosedIsEmpty, OneUnitPerModel, Occupied
<1>4. IInv /\ [Next]_vars =>
        [\A p \in Requests : pc[p] # "leased" /\ pc'[p] = "leased" => ~closed]_vars
  BY NoGrantOnceClosed DEF IInv
<1> QED
  BY <1>1, <1>2, <1>3, <1>4, Invariance, PTL DEF Spec, ClosedForGood, NoLeaseOnceClosed

(***************************************************************************)
(* The budget.  A load starts when what `decide` would evict is empty: it  *)
(* fits as things are, or no other model is left that could ever go.       *)
(***************************************************************************)
LEMMA LargerOf ==
  ASSUME NEW a \in Int, NEW b \in Int
  PROVE  Max({a, b}) \in Int /\ a <= Max({a, b})
<1>1. \E x \in {a, b} : \A y \in {a, b} : x >= y
  OBVIOUS
<1> QED
  BY <1>1 DEF Max

(* What a model, or a set of models, holds of the memory is a natural number. *)
LEMMA HeldIs ==
  ASSUME TypeOK, NEW S \in SUBSET Models
  PROVE  /\ \A m \in Models : Held(m) \in Nat
         /\ HeldBy(S) \in Nat
         /\ HeldBy({}) = 0
<1>1. \A m \in Models : Held(m) \in Nat
  BY DEF Held, TypeOK
<1>2. IsFiniteSet(S)
  BY FS_Subset
<1>3. HeldBy(S) \in Nat
  BY <1>1, <1>2, SumNat DEF HeldBy
<1> QED
  BY <1>1, <1>3, SumEmpty DEF HeldBy

(* Which of two models was used before the other is known of every model in     *)
(* memory: those that are not have never been used.                             *)
UsedInOrder ==
  \A a, b \in Models : a # b /\ Occupied(a) => <<a, b>> \in older \/ <<b, a>> \in older

(* At the start the adopted models are ordered by their numbers, and all others were never
   used. *)
LEMMA OrderInit ==
  ASSUME Init
  PROVE  UsedInOrder
<1> SUFFICES ASSUME NEW a \in Models, NEW b \in Models, a # b, Occupied(a)
             PROVE  <<a, b>> \in older \/ <<b, a>> \in older
  BY DEF UsedInOrder
<1>1. a \in Adopted
  BY DEF Init, Occupied
<1>2. a < b \/ b < a
  <2>1. a \in Nat /\ b \in Nat
    OBVIOUS
  <2> QED
    BY <2>1
<1>3. CASE b \in Adopted
  <2>1. {<<a, b>>, <<b, a>>} \subseteq Adopted \X Adopted
    BY <1>1, <1>3
  <2>2. <<a, b>>[1] = a /\ <<a, b>>[2] = b /\ <<b, a>>[1] = b /\ <<b, a>>[2] = a
    OBVIOUS
  <2> QED
    BY <1>2, <2>1, <2>2 DEF Init
<1>4. CASE b \notin Adopted
  <2>1. <<b, a>> \in (Models \ Adopted) \X Adopted
    BY <1>1, <1>4
  <2> QED
    BY <2>1 DEF Init
<1> QED
  BY <1>3, <1>4

(* Using a model makes it the latest, and leaves the occupied models in order of last use. *)
LEMMA OrderAfterTouch ==
  ASSUME UsedInOrder, NEW m \in Models, Touch(m),
         \A x \in Models : Occupied(x)' => Occupied(x) \/ x = m
  PROVE  UsedInOrder'
<1> SUFFICES ASSUME NEW a \in Models, NEW b \in Models, a # b, Occupied(a)'
             PROVE  <<a, b>> \in older' \/ <<b, a>> \in older'
  BY DEF UsedInOrder
<1>1. CASE a = m \/ b = m
  <2>1. <<a, b>> \in (Models \ {m}) \X {m} \/ <<b, a>> \in (Models \ {m}) \X {m}
    BY <1>1
  <2> QED
    BY <2>1 DEF Touch
<1>2. CASE a # m /\ b # m
  <2>1. <<a, b>> \in older \/ <<b, a>> \in older
    BY <1>2 DEF UsedInOrder
  <2>2. <<a, b>>[1] = a /\ <<a, b>>[2] = b /\ <<b, a>>[1] = b /\ <<b, a>>[2] = a
    OBVIOUS
  <2> QED
    BY <1>2, <2>1, <2>2 DEF Touch
<1> QED
  BY <1>1, <1>2

(* What can be decided to go is a chain: of two sets of least recently used     *)
(* candidates one includes the other.                                           *)
LEMMA LeastRecentChain ==
  ASSUME UsedInOrder, NEW exempt, NEW V \in LeastRecent(exempt), NEW W \in LeastRecent(exempt)
  PROVE  V \subseteq W \/ W \subseteq V
<1> SUFFICES ASSUME NEW v \in V, v \notin W, NEW w \in W, w \notin V
             PROVE  FALSE
  OBVIOUS
<1>1. v \in Candidates(exempt) /\ w \in Candidates(exempt)
  BY DEF LeastRecent
<1>2. v \in Models /\ w \in Models /\ Occupied(v)
  BY <1>1 DEF Candidates, Evictable, Occupied
<1>3. <<v, w>> \in older \/ <<w, v>> \in older
  BY <1>2 DEF UsedInOrder
<1> QED
  BY <1>1, <1>3 DEF LeastRecent

(* When a load fits without an eviction, what is held and what it asks for are within the
   budget. *)
LEMMA NoVictimsFits ==
  ASSUME TypeOK, UsedInOrder, NEW bytes \in Nat, NEW exempt \in SUBSET Models,
         Fits(bytes, exempt), Victims(bytes, exempt) = {}
  PROVE  external + HeldBy(Models \ exempt) + bytes <= Budget
<1> DEFINE All == Enough(bytes, exempt)
<1>1. All \in SUBSET SUBSET Models /\ All # {} /\ All \subseteq LeastRecent(exempt)
  BY DEF Enough, LeastRecent, Candidates, Fits
<1>2. \A V, W \in All : V \subseteq W \/ W \subseteq V
  <2> HIDE DEF All
  <2> QED
    BY <1>1, LeastRecentChain
<1>3. PICK V \in All : \A W \in All : V \subseteq W
  <2> HIDE DEF All
  <2>1. IsFiniteSet(Models)
    OBVIOUS
  <2> QED
    BY ONLY <1>1, <1>2, <2>1, LeastOfChain
<1>4. V = {}
  <2>1. V \subseteq Candidates(exempt)
    BY <1>1, <1>3 DEF LeastRecent
  <2> QED
    BY <1>3, <2>1 DEF Victims
<1>5. Used(exempt) - HeldBy({}) + bytes <= Budget
  BY <1>3, <1>4 DEF Enough
<1>6. HeldBy({}) = 0 /\ HeldBy(Models \ exempt) \in Nat
  BY HeldIs
<1>7. external \in Int
  BY DEF TypeOK
<1>8. external + HeldBy(Models \ exempt) \in Int
  BY <1>6, <1>7
<1>9. Used(exempt) \in Int /\ external + HeldBy(Models \ exempt) <= Used(exempt)
  <2> DEFINE now == external + HeldBy(Models \ exempt)
  <2>1. now \in Int /\ Measured \in Int
    BY <1>8
  <2> HIDE DEF now
  <2>2. Max({now, Measured}) \in Int /\ now <= Max({now, Measured})
    BY <2>1, LargerOf
  <2> QED
    BY <2>2 DEF Used, now
<1> HIDE DEF All
<1> QED
  BY <1>5, <1>6, <1>7, <1>9

(* When a load neither fits, waits nor evicts, only pinned models are in memory besides its
   own. *)
LEMMA NothingElseToGo ==
  ASSUME TypeOK, NEW bytes, NEW exempt \in SUBSET Models,
         ~Fits(bytes, exempt), ~MustWait(bytes, exempt), Victims(bytes, exempt) = {}
  PROVE  \A m \in Models \ exempt : Occupied(m) => m \in pinned
<1>1. Candidates(exempt) = {}
  BY DEF Victims, Fits
<1> QED
  BY <1>1 DEF MustWait, WorthWaiting, Candidates, Evictable, Occupied, Busy, TypeOK

(* A load that starts leaves the host within its budget, or is for a lone model. *)
LEMMA LoadWithinBudget ==
  ASSUME TypeOK, UsedInOrder, NEW p \in Requests, StartLoad(p, target[p])
  PROVE  WithinBudget'
<1> DEFINE m == target[p]
<1> USE DEF slotVars, unitVars, hostVars
<1>1. m \in Models /\ Exempt(p) = {m} /\ Bytes(p) = Size[m] /\ Size[m] \in Nat
  BY DEF Exempt, Bytes, TypeOK
<1>2. ~MustWait(Size[m], {m}) /\ Victims(Size[m], {m}) = {}
  BY <1>1 DEF StartLoad, RoomNow
<1>3. /\ ~unit[m] /\ ~unit'[m] /\ loading'[m] /\ unit' = unit /\ grown' = grown
      /\ external' = external /\ pinned' = pinned
      /\ \A x \in Models \ {m} : loading'[x] = loading[x]
  BY <1>1 DEF StartLoad, RoomNow, Stale, Absent, Occupied, TypeOK
<1>4. CASE Fits(Size[m], {m})
  <2>1. external + HeldBy(Models \ {m}) + Size[m] <= Budget
    BY <1>1, <1>2, <1>4, NoVictimsFits
  <2> DEFINE f == [x \in Models |-> Held(x)]
             g == [x \in Models |-> Held(x)']
  <2>2. \A x \in Models \ {m} : f[x] = g[x]
    BY <1>3 DEF Held
  <2>3. g[m] = Size[m]
    BY <1>1, <1>3 DEF Held
  <2>4. \A x \in Models : f[x] \in Nat
    BY HeldIs
  <2>5. \A x \in Models : g[x] \in Nat
    BY <1>1, <2>2, <2>3, <2>4
  <2>6. IsFiniteSet(Models \ {m})
    BY FS_Subset
  <2> HIDE DEF f, g
  <2>7. SumFunctionOnSet(g, Models) = g[m] + SumFunctionOnSet(g, Models \ {m})
    BY <1>1, <2>5, SumWithout
  <2>8. SumFunctionOnSet(g, Models \ {m}) = SumFunctionOnSet(f, Models \ {m})
    BY <2>2, <2>6, SumSame
  <2>9. HeldBy(Models)' = Size[m] + HeldBy(Models \ {m})
    BY <2>3, <2>7, <2>8 DEF f, g, HeldBy
  <2>10. HeldBy(Models \ {m}) \in Nat /\ external \in Int
    BY HeldIs DEF TypeOK
  <2> QED
    BY <1>1, <1>3, <2>1, <2>9, <2>10 DEF WithinBudget
<1>5. CASE ~Fits(Size[m], {m})
  <2>1. \A x \in Models \ {m} : Occupied(x) => x \in pinned
    BY <1>1, <1>2, <1>5, NothingElseToGo
  <2>2. {x \in Models \ pinned : Occupied(x)}' \subseteq {m}
    BY <1>3, <2>1 DEF Occupied
  <2>3. IsFiniteSet({m}) /\ Cardinality({m}) = 1
    BY FS_Singleton
  <2>4. Cardinality({x \in Models \ pinned : Occupied(x)}') <= 1
    BY <2>2, <2>3, FS_Subset
  <2> QED
    BY <2>4 DEF WithinBudget
<1> QED
  BY <1>4, <1>5

(* A unit there after a step was there before or was loading: no unit comes from nowhere. *)
LEMMA UnitsWereLoading ==
  ASSUME TypeOK, [Next]_vars, NEW m \in Models, unit'[m]
  PROVE  unit[m] \/ loading[m]
<1> USE DEF slotVars, unitVars, hostVars
<1>1. ASSUME NEW p \in Callers, CallerStep(p)
      PROVE  unit' = unit
  BY <1>1 DEF CallerStep, Call, Refuse, Consider, Reconsider, WaitForOthers, EvictVictims,
              StartEvictions, Drained
<1>2. ASSUME NEW p \in Requests, RequestStep(p)
      PROVE  unit' = unit
  BY <1>2 DEF RequestStep, AwaitClosing, EvictBroken, StartEvictions, LeaseResident, JoinLoad,
              StartLoad, GiveBack, Release, Generate, Finish
<1>3. ASSUME NEW x \in Models, Settles(x)
      PROVE  unit[m] \/ loading[m]
  BY <1>3 DEF Settles, LoadDone, LoadFails, UnitClosed, TypeOK
<1>4. ASSUME NEW u \in Unloaders, UnloaderStep(u)
      PROVE  unit' = unit
  BY <1>4 DEF UnloaderStep, Unload, UnloadLoaded, Unloaded
<1>5. ASSUME HostStep
      PROVE  unit' = unit
  BY <1>5 DEF HostStep, Close, CloseSettled, CloseUnit, CloseNext, StartEvictions
<1>6. ASSUME NEW q \in Pausers, PauserStep(q)
      PROVE  unit' = unit
  BY <1>6 DEF PauserStep, PauseAll, ListResidents, PauseAborted, Unpause, Paused
<1>7. ASSUME NEW r \in Rooms, RoomStep(r)
      PROVE  unit' = unit
  BY <1>7 DEF RoomStep, RoomMade, CompanionLoads, CompanionUnloads
<1>8. ASSUME Environment \/ Idle \/ UNCHANGED vars
      PROVE  unit' = unit
  BY <1>8 DEF Environment, Pin, Unpin, Break, Grow, Abort, Idle, vars
<1> QED
  BY <1>1, <1>2, <1>3, <1>4, <1>5, <1>6, <1>7, <1>8 DEF Next

(* The order of last use changes only by the use of a model. *)
LEMMA UsedIsTouched ==
  ASSUME TypeOK, [Next]_vars
  PROVE  \/ older' = older
         \/ \E p \in Requests : Touch(target[p])
<1> USE DEF slotVars, unitVars, hostVars
<1>1. ASSUME NEW p \in Callers, CallerStep(p)
      PROVE  older' = older
  BY <1>1 DEF CallerStep, Call, Refuse, Consider, Reconsider, WaitForOthers, EvictVictims,
              StartEvictions, Drained
<1>2. ASSUME NEW p \in Requests, RequestStep(p)
      PROVE  older' = older \/ Touch(target[p])
  BY <1>2 DEF RequestStep, AwaitClosing, EvictBroken, StartEvictions, LeaseResident, JoinLoad,
              StartLoad, Reserve, GiveBack, Release, Generate, Finish
<1>3. ASSUME NEW x \in Models, Settles(x)
      PROVE  older' = older
  BY <1>3 DEF Settles, LoadDone, LoadFails, UnitClosed
<1>4. ASSUME NEW u \in Unloaders, UnloaderStep(u)
      PROVE  older' = older
  BY <1>4 DEF UnloaderStep, Unload, UnloadLoaded, Unloaded
<1>5. ASSUME HostStep
      PROVE  older' = older
  BY <1>5 DEF HostStep, Close, CloseSettled, CloseUnit, CloseNext, StartEvictions
<1>6. ASSUME NEW q \in Pausers, PauserStep(q)
      PROVE  older' = older
  BY <1>6 DEF PauserStep, PauseAll, ListResidents, PauseAborted, Unpause, Paused
<1>7. ASSUME NEW r \in Rooms, RoomStep(r)
      PROVE  older' = older
  BY <1>7 DEF RoomStep, RoomMade, CompanionLoads, CompanionUnloads
<1>8. ASSUME Environment \/ Idle \/ UNCHANGED vars
      PROVE  older' = older
  BY <1>8 DEF Environment, Pin, Unpin, Break, Grow, Abort, Idle, vars
<1> QED
  BY <1>1, <1>2, <1>3, <1>4, <1>5, <1>6, <1>7, <1>8 DEF Next

(* Every step keeps the occupied models in order of last use. *)
LEMMA OrderKept ==
  ASSUME TypeOK, UsedInOrder, [Next]_vars
  PROVE  UsedInOrder'
<1>1. ASSUME NEW m \in Models, Occupied(m)', ~Occupied(m)
      PROVE  \E p \in Requests : StartLoad(p, target[p]) /\ target[p] = m
  <2>1. ~loading[m] /\ loading'[m]
    BY <1>1, UnitsWereLoading DEF Occupied
  <2>2. PICK p \in Requests : StartLoad(p, target[p])
    BY <2>1, LoadsAreStarted
  <2>3. target[p] = m
    BY <2>1, <2>2 DEF StartLoad, TypeOK
  <2> QED
    BY <2>2, <2>3
<1>2. CASE \E p \in Requests : StartLoad(p, target[p])
  <2>1. PICK p \in Requests : StartLoad(p, target[p])
    BY <1>2
  <2>2. target[p] \in Models /\ Touch(target[p])
    BY <2>1 DEF StartLoad, Reserve, TypeOK
  <2>3. \A x \in Models : Occupied(x)' => Occupied(x) \/ x = target[p]
    BY <2>1 DEF StartLoad, Occupied, TypeOK
  <2> QED
    BY <2>2, <2>3, OrderAfterTouch
<1>3. CASE ~\E p \in Requests : StartLoad(p, target[p])
  <2>1. \A x \in Models : Occupied(x)' => Occupied(x)
    BY <1>1, <1>3
  <2>2. ASSUME NEW p \in Requests, Touch(target[p])
        PROVE  UsedInOrder'
    BY <2>1, <2>2, OrderAfterTouch DEF TypeOK
  <2>3. ASSUME older' = older
        PROVE  UsedInOrder'
    BY <2>1, <2>3 DEF UsedInOrder
  <2> QED
    BY <2>2, <2>3, UsedIsTouched
<1> QED
  BY <1>2, <1>3

(* Whatever the companions, the pins and the growth of units did to the budget,   *)
(* a load never starts into a host that exceeds it afterwards, unless no other    *)
(* unpinned model is in memory.                                                   *)
THEOREM LoadsFit ==
  Spec => [][\A m \in Models : ~loading[m] /\ loading'[m] => WithinBudget']_vars
<1>1. Init => UsedInOrder
  BY OrderInit
<1>2. IInv /\ UsedInOrder /\ [Next]_vars => UsedInOrder'
  BY OrderKept DEF IInv
<1>3. IInv /\ UsedInOrder /\ [Next]_vars =>
        [\A m \in Models : ~loading[m] /\ loading'[m] => WithinBudget']_vars
  BY LoadsAreStarted, LoadWithinBudget DEF IInv
<1> QED
  BY <1>1, <1>2, <1>3, Invariance, PTL DEF Spec

(* Pins and companions are as they were, and no unit outgrows its estimate.     *)
FixedSurroundings == Rooms = {} /\ Pinnable = {} /\ Growable = {}

(* What the host adopts when it starts is within the budget, or one model.      *)
AdoptedFits ==
  \/ SumFunctionOnSet(Size, Adopted) <= Budget
  \/ Cardinality(Adopted \ InitiallyPinned) <= 1

(* The host starts within its budget when what it adopts fits. *)
LEMMA BudgetInit ==
  ASSUME AdoptedFits, Init
  PROVE  WithinBudget
<1>1. \A m \in Models : Held(m) = IF m \in Adopted THEN Size[m] ELSE 0
  <2>1. grown = {} /\ \A m \in Models : ~loading[m] /\ (unit[m] <=> m \in Adopted)
    BY DEF Init
  <2>2. \A m \in Models : Size[m] + 0 = Size[m]
    OBVIOUS
  <2> QED
    BY <2>1, <2>2 DEF Held
<1>2. CASE Cardinality(Adopted \ InitiallyPinned) <= 1
  <2>1. {m \in Models \ pinned : Occupied(m)} = Adopted \ InitiallyPinned
    BY DEF Init, Occupied
  <2> QED
    BY <1>2, <2>1 DEF WithinBudget
<1>3. CASE SumFunctionOnSet(Size, Adopted) <= Budget
  <2> DEFINE f == [m \in Models |-> Held(m)]
  <2>1. \A m \in Models : Size[m] \in Nat /\ f[m] = IF m \in Adopted THEN Size[m] ELSE 0
    BY <1>1
  <2>2. SumFunctionOnSet(f, Models) = SumFunctionOnSet(Size, Adopted)
    <3> HIDE DEF f
    <3>1. Adopted \in SUBSET Models /\ IsFiniteSet(Models)
      OBVIOUS
    <3> QED
      BY ONLY <2>1, <3>1, SumRestricted
  <2>3. external = 0 /\ HeldBy(Models) = SumFunctionOnSet(f, Models)
    BY DEF Init, HeldBy
  <2>4. SumFunctionOnSet(Size, Adopted) \in Nat
    BY <2>1, SumNat, FS_Subset
  <2> HIDE DEF f
  <2> QED
    BY <1>3, <2>2, <2>3, <2>4 DEF WithinBudget
<1> QED
  BY <1>2, <1>3 DEF AdoptedFits

(* A step after which no model occupies more than before keeps the budget. *)
LEMMA BudgetStays ==
  ASSUME TypeOK, TypeOK', WithinBudget, external' = external, pinned' = pinned,
         \A m \in Models : (Occupied(m)' => Occupied(m)) /\ Held(m)' <= Held(m)
  PROVE  WithinBudget'
<1>1. CASE external + HeldBy(Models) <= Budget
  <2> DEFINE f == [m \in Models |-> Held(m)]
             g == [m \in Models |-> Held(m)']
  <2>1. \A m \in Models : f[m] \in Nat
    BY HeldIs
  <2>2. \A m \in Models : Held(m)' \in Nat
    BY DEF Held, TypeOK
  <2>3. \A m \in Models : f[m] \in Nat /\ g[m] \in Nat /\ g[m] <= f[m]
    BY <2>1, <2>2
  <2> HIDE DEF f, g
  <2>4. SumFunctionOnSet(g, Models) <= SumFunctionOnSet(f, Models)
    BY <2>3, SumAtMost
  <2>5. SumFunctionOnSet(g, Models) \in Nat /\ SumFunctionOnSet(f, Models) \in Nat /\ external \in Int
    BY <2>3, SumNat DEF TypeOK
  <2>6. HeldBy(Models)' <= HeldBy(Models) /\ HeldBy(Models)' \in Nat /\ HeldBy(Models) \in Nat
    BY <2>4, <2>5 DEF HeldBy, f, g
  <2> QED
    BY <1>1, <2>5, <2>6 DEF WithinBudget
<1>2. CASE Cardinality({m \in Models \ pinned : Occupied(m)}) <= 1
  <2> DEFINE S == {m \in Models \ pinned : Occupied(m)}
  <2>1. IsFiniteSet(S) /\ S' \subseteq S
    BY FS_Subset
  <2>2. Cardinality(S') <= Cardinality(S) /\ Cardinality(S') \in Nat /\ Cardinality(S) \in Nat
    BY <2>1, FS_Subset, FS_CardinalityType
  <2>3. Cardinality(S') <= 1
    BY <1>2, <2>2
  <2> QED
    BY <2>3 DEF WithinBudget
<1> QED
  BY <1>1, <1>2 DEF WithinBudget

(* Where nothing pins, grows or takes room from outside, no step does. *)
LEMMA SurroundingsStay ==
  ASSUME FixedSurroundings, TypeOK, grown = {}, [Next]_vars
  PROVE  grown' = {} /\ UNCHANGED <<external, pinned>>
<1> USE DEF slotVars, unitVars, hostVars
<1>1. ASSUME NEW p \in Callers, CallerStep(p)
      PROVE  UNCHANGED <<grown, external, pinned>>
  BY <1>1 DEF CallerStep, Call, Refuse, Consider, Reconsider, WaitForOthers, EvictVictims,
              StartEvictions, Drained
<1>2. ASSUME NEW p \in Requests, RequestStep(p)
      PROVE  UNCHANGED <<grown, external, pinned>>
  BY <1>2 DEF RequestStep, AwaitClosing, EvictBroken, StartEvictions, LeaseResident, JoinLoad,
              StartLoad, GiveBack, Release, Generate, Finish
<1>3. ASSUME NEW x \in Models, Settles(x)
      PROVE  grown' \subseteq grown /\ UNCHANGED <<external, pinned>>
  BY <1>3 DEF Settles, LoadDone, LoadFails, UnitClosed
<1>4. ASSUME NEW u \in Unloaders, UnloaderStep(u)
      PROVE  UNCHANGED <<grown, external, pinned>>
  BY <1>4 DEF UnloaderStep, Unload, UnloadLoaded, Unloaded
<1>5. ASSUME HostStep
      PROVE  UNCHANGED <<grown, external, pinned>>
  BY <1>5 DEF HostStep, Close, CloseSettled, CloseUnit, CloseNext, StartEvictions
<1>6. ASSUME NEW q \in Pausers, PauserStep(q)
      PROVE  UNCHANGED <<grown, external, pinned>>
  BY <1>6 DEF PauserStep, PauseAll, ListResidents, PauseAborted, Unpause, Paused
<1>7. ASSUME Environment \/ Idle \/ UNCHANGED vars
      PROVE  UNCHANGED <<grown, external, pinned>>
  BY <1>7 DEF FixedSurroundings, Environment, Pin, Unpin, Break, Grow, Abort, Idle, vars
<1> QED
  BY <1>1, <1>2, <1>3, <1>4, <1>5, <1>6, <1>7 DEF FixedSurroundings, Next

(* Every step keeps the budget where nothing pins, grows or takes room from outside: what is
   loading is counted from the start. *)
LEMMA BudgetStep ==
  ASSUME FixedSurroundings, TypeOK, TypeOK', UsedInOrder, WithinBudget, grown = {}, [Next]_vars
  PROVE  WithinBudget'
<1>1. CASE \E m \in Models : ~loading[m] /\ loading'[m]
  BY <1>1, LoadsAreStarted, LoadWithinBudget
<1>2. CASE \A m \in Models : loading'[m] => loading[m]
  <2>1. \A m \in Models : Occupied(m)' => Occupied(m)
    BY <1>2, UnitsWereLoading DEF Occupied
  <2>2. grown' = {} /\ external' = external /\ pinned' = pinned
    BY SurroundingsStay
  <2>3. \A m \in Models : Held(m)' <= Held(m)
    BY <2>1, <2>2 DEF Held, Occupied
  <2> QED
    BY <2>1, <2>2, <2>3, BudgetStays
<1> QED
  BY <1>1, <1>2

BudgetInv == FixedSurroundings /\ grown = {} /\ UsedInOrder /\ WithinBudget

(* Left to itself the host never exceeds its budget, but to serve a lone model:   *)
(* whatever requests race through acquire's awaits, loads in flight are counted.  *)
THEOREM BudgetKept == FixedSurroundings /\ AdoptedFits => (Spec => []WithinBudget)
<1>1. FixedSurroundings /\ AdoptedFits /\ Init => BudgetInv
  BY OrderInit, BudgetInit DEF Init, BudgetInv
<1>2. IInv /\ IInv' /\ BudgetInv /\ [Next]_vars => BudgetInv'
  BY OrderKept, BudgetStep, SurroundingsStay DEF IInv, BudgetInv, FixedSurroundings
<1>3. BudgetInv => WithinBudget
  BY DEF BudgetInv
<1> QED
  BY <1>1, <1>2, <1>3, Invariance, PTL DEF Spec

(***************************************************************************)
(* The host implements the lifecycle it promises.                          *)
(***************************************************************************)
LEMMA LifecycleInit ==
  ASSUME Init
  PROVE  Lifecycle!Init
<1>1. LifecycleState \in [Models -> {"absent", "ready"}]
  BY DEF Init, LifecycleState
<1>2. \A p \in Requests : pc[p] \notin ClaimLabels
  BY DEF Init, ClaimLabels, Procs, Callers
<1>3. Holds = [p \in Requests |-> NoOne]
  BY <1>2 DEF Holds
<1> QED
  BY <1>1, <1>3 DEF Lifecycle!Init

(* Who holds a model in the abstract lifecycle stays the same when no claim is taken or given
   up. *)
LEMMA HoldsKept ==
  ASSUME UNCHANGED target,
         \A r \in Requests : (pc'[r] \in ClaimLabels) <=> (pc[r] \in ClaimLabels)
  PROVE  Holds' = Holds
BY DEF Holds

(* A step that moves no unit and no claim is a stutter of the lifecycle. *)
LEMMA LifecycleStutter ==
  ASSUME UNCHANGED <<target, unit, loading, closing>>,
         \A r \in Requests : (pc'[r] \in ClaimLabels) <=> (pc[r] \in ClaimLabels)
  PROVE  [Lifecycle!Next]_(Lifecycle!vars)
<1>1. LifecycleState' = LifecycleState
  BY DEF LifecycleState
<1> QED
  BY <1>1, HoldsKept DEF Lifecycle!vars

(* Taking a claim, on a model that is absent, loading or ready, is a step Hold of the
   lifecycle. *)
LEMMA LifecycleHold ==
  ASSUME TypeOK, NEW p \in Requests, UNCHANGED target,
         pc[p] \notin ClaimLabels, pc'[p] \in ClaimLabels,
         \A r \in Requests \ {p} : (pc'[r] \in ClaimLabels) <=> (pc[r] \in ClaimLabels),
         LifecycleState[target[p]] \in {"absent", "loading", "ready"},
         LifecycleState' = IF LifecycleState[target[p]] = "absent"
                           THEN [LifecycleState EXCEPT ![target[p]] = "loading"]
                           ELSE LifecycleState
  PROVE  Lifecycle!Next
<1>1. target[p] \in Models
  BY DEF TypeOK
<1>2. Holds' = [Holds EXCEPT ![p] = target[p]]
  BY DEF Holds
<1>3. Holds[p] = NoOne
  BY DEF Holds
<1>4. Lifecycle!Hold(p, target[p])
  BY <1>2, <1>3 DEF Lifecycle!Hold
<1> QED
  BY <1>1, <1>4 DEF Lifecycle!Next

(* Giving a claim up is a step of the lifecycle. *)
LEMMA LifecycleGiveBack ==
  ASSUME TypeOK, NEW p \in Requests, UNCHANGED <<target, unit, loading, closing>>,
         pc[p] \in ClaimLabels, pc'[p] \notin ClaimLabels,
         \A r \in Requests \ {p} : (pc'[r] \in ClaimLabels) <=> (pc[r] \in ClaimLabels)
  PROVE  Lifecycle!Next
<1>1. LifecycleState' = LifecycleState
  BY DEF LifecycleState
<1>2. Holds' = [Holds EXCEPT ![p] = NoOne] /\ Holds[p] # NoOne
  BY DEF Holds, TypeOK
<1>3. Lifecycle!GiveBack(p)
  BY <1>1, <1>2 DEF Lifecycle!GiveBack
<1> QED
  BY <1>3 DEF Lifecycle!Next

(* Closing a set of units that nobody has leased, or under a close or a forced unload, is a
   step Drain of the lifecycle. *)
LEMMA LifecycleDrain ==
  ASSUME TypeOK, OneUnitPerModel, LeasesCounted, UNCHANGED <<target, unit, loading>>,
         NEW S \in SUBSET Models,
         closing' = [m \in Models |-> closing[m] \/ m \in S],
         \A m \in S : unit[m] /\ ~closing[m],
         (Closing \/ Forcing # {}) \/ \A m \in S : leases[m] = 0,
         \A r \in Requests : (pc'[r] \in ClaimLabels) <=> (pc[r] \in ClaimLabels)
  PROVE  Lifecycle!Next
<1>1. Holds' = Holds
  BY HoldsKept
<1>2. \A m \in S : LifecycleState[m] = "ready"
  BY DEF LifecycleState, OneUnitPerModel
<1>3. LifecycleState' = [m \in Models |-> IF m \in S THEN "draining" ELSE LifecycleState[m]]
  BY DEF LifecycleState, TypeOK
<1>4. ASSUME NEW m \in S, leases[m] = 0, NEW c \in Requests
      PROVE  Holds[c] # m
  <2>1. Claims(m) = {}
    BY <1>4, NoLeaseNoClaim
  <2> QED
    BY <2>1 DEF Holds, Claims
<1>5. Lifecycle!Drain(S)
  BY <1>1, <1>2, <1>3, <1>4 DEF Lifecycle!Drain
<1> QED
  BY <1>5 DEF Lifecycle!Next

(* Every step of the host is a step of the lifecycle or a stutter. *)
LEMMA LifecycleStep ==
  ASSUME IInv, [Next]_vars
  PROVE  [Lifecycle!Next]_(Lifecycle!vars)
<1> /\ TypeOK /\ OneUnitPerModel /\ LeasesCounted /\ CloseCalled
  BY DEF IInv
<1> /\ Callers \subseteq Procs /\ Requests \subseteq Callers
    /\ Rooms \cap Requests = {} /\ Rooms \subseteq Procs
    /\ Pausers \subseteq Procs \ Callers /\ Unloaders \subseteq Procs \ Callers
    /\ TheHost \in Procs \ Callers
  BY DEF Procs, Callers
<1> USE DEF slotVars, unitVars, hostVars, Goto, ClaimLabels
<1>1. ASSUME NEW p \in Callers, CallerStep(p)
      PROVE  [Lifecycle!Next]_(Lifecycle!vars)
  <2>1. CASE EvictVictims(p)
    <3> DEFINE V == Victims(Bytes(p), Exempt(p))
    <3>1. V \subseteq Models /\ \A v \in V : Evictable(v)
      BY VictimsEvictable
    <3>2. \A v \in V : unit[v] /\ ~closing[v] /\ leases[v] = 0
      <4> SUFFICES ASSUME NEW v \in V
                   PROVE  unit[v] /\ ~closing[v] /\ leases[v] = 0
        OBVIOUS
      <4>1. unit[v] /\ ~closing[v] /\ ~(leases[v] > 0)
        BY <3>1 DEF Evictable, Busy
      <4>2. leases[v] \in Nat
        BY <3>1 DEF TypeOK
      <4> QED
        BY <4>1, <4>2
    <3>3. closing' = [m \in Models |-> closing[m] \/ m \in V]
      BY <2>1 DEF EvictVictims, StartEvictions
    <3>4. \A r \in Requests : (pc'[r] \in ClaimLabels) <=> (pc[r] \in ClaimLabels)
      BY <2>1 DEF EvictVictims, StartEvictions, TypeOK
    <3>5. UNCHANGED <<target, unit, loading>>
      BY <2>1 DEF EvictVictims
    <3> HIDE DEF V
    <3> QED
      BY <3>1, <3>2, <3>3, <3>4, <3>5, LifecycleDrain
  <2>2. CASE ~EvictVictims(p)
    BY <1>1, <2>2, LifecycleStutter
       DEF CallerStep, Call, Refuse, Consider, Reconsider, WaitForOthers, Drained, TypeOK
  <2> QED
    BY <2>1, <2>2
<1>2. ASSUME NEW p \in Requests, RequestStep(p)
      PROVE  [Lifecycle!Next]_(Lifecycle!vars)
  <2> DEFINE m == target[p]
  <2> m \in Models
    BY DEF TypeOK
  <2>1. CASE EvictBroken(p, m)
    <3>1. unit[m] /\ ~closing[m] /\ leases[m] = 0 /\ closing' = [x \in Models |-> closing[x] \/ x \in {m}]
      BY <2>1 DEF EvictBroken, Spent, StartEvictions
    <3>2. \A r \in Requests : (pc'[r] \in ClaimLabels) <=> (pc[r] \in ClaimLabels)
      BY <2>1 DEF EvictBroken, StartEvictions, TypeOK
    <3>3. UNCHANGED <<target, unit, loading>>
      BY <2>1 DEF EvictBroken
    <3> DEFINE V == {m}
    <3>4. V \in SUBSET Models /\ closing' = [x \in Models |-> closing[x] \/ x \in V]
      BY <3>1
    <3>5. \A x \in V : unit[x] /\ ~closing[x] /\ leases[x] = 0
      BY <3>1
    <3> HIDE DEF V, ClaimLabels
    <3>6. Lifecycle!Next
      BY <3>2, <3>3, <3>4, <3>5, LifecycleDrain
    <3> QED
      BY <3>6
  <2>2. CASE LeaseResident(p, m)
    <3>1. LifecycleState' = LifecycleState /\ LifecycleState[m] = "ready"
      BY <2>2 DEF LeaseResident, LifecycleState, OneUnitPerModel
    <3>2. pc[p] = "resolve" /\ pc' = [pc EXCEPT ![p] = "leased"] /\ UNCHANGED target
      BY <2>2 DEF LeaseResident
    <3>3. /\ pc[p] \notin ClaimLabels /\ pc'[p] \in ClaimLabels
          /\ \A r \in Requests \ {p} : (pc'[r] \in ClaimLabels) <=> (pc[r] \in ClaimLabels)
      BY <3>2 DEF TypeOK
    <3> HIDE DEF ClaimLabels
    <3>4. Lifecycle!Next
      BY <3>1, <3>2, <3>3, LifecycleHold
    <3> QED
      BY <3>4
  <2>3. CASE JoinLoad(p, m)
    <3>1. LifecycleState' = LifecycleState /\ LifecycleState[m] = "loading"
      BY <2>3 DEF JoinLoad, LifecycleState
    <3>2. pc[p] = "resolve" /\ pc' = [pc EXCEPT ![p] = "load"] /\ UNCHANGED target
      BY <2>3 DEF JoinLoad
    <3>3. /\ pc[p] \notin ClaimLabels /\ pc'[p] \in ClaimLabels
          /\ \A r \in Requests \ {p} : (pc'[r] \in ClaimLabels) <=> (pc[r] \in ClaimLabels)
      BY <3>2 DEF TypeOK
    <3> HIDE DEF ClaimLabels
    <3>4. Lifecycle!Next
      BY <3>1, <3>2, <3>3, LifecycleHold
    <3> QED
      BY <3>4
  <2>4. CASE StartLoad(p, m)
    <3>1. ~unit[m] /\ ~loading[m] /\ ~closing[m]
      BY <2>4 DEF StartLoad, RoomNow, Stale, Absent, Exempt, Occupied
    <3>2. LifecycleState[m] = "absent"
      BY <3>1 DEF LifecycleState
    <3>3. LifecycleState' = [LifecycleState EXCEPT ![m] = "loading"]
      BY <2>4, <3>1 DEF StartLoad, LifecycleState, TypeOK
    <3>4. pc[p] = "refresh" /\ pc' = [pc EXCEPT ![p] = "load"] /\ UNCHANGED target
      BY <2>4 DEF StartLoad, RoomNow
    <3>5. /\ pc[p] \notin ClaimLabels /\ pc'[p] \in ClaimLabels
          /\ \A r \in Requests \ {p} : (pc'[r] \in ClaimLabels) <=> (pc[r] \in ClaimLabels)
      BY <3>4 DEF TypeOK
    <3> HIDE DEF ClaimLabels
    <3>6. Lifecycle!Next
      BY <3>2, <3>3, <3>4, <3>5, LifecycleHold
    <3> QED
      BY <3>6
  <2>5. CASE GiveBack(p, m) \/ Release(p, m)
    <3>1. pc[p] \in ClaimLabels /\ pc' = Notified([pc EXCEPT ![p] = "done"])
      BY <2>5 DEF GiveBack, Release, GotoAndNotify
    <3>2. pc'[p] \notin ClaimLabels
      BY <3>1 DEF Notified, TypeOK
    <3>3. \A r \in Requests \ {p} : (pc'[r] \in ClaimLabels) <=> (pc[r] \in ClaimLabels)
      BY <3>1 DEF Notified, TypeOK
    <3>4. UNCHANGED <<target, unit, loading, closing>>
      BY <2>5 DEF GiveBack, Release
    <3> QED
      BY <3>1, <3>2, <3>3, <3>4, LifecycleGiveBack
  <2>6. CASE AwaitClosing(p, m) \/ Generate(p, m) \/ Finish(p)
    BY <2>6, LifecycleStutter DEF AwaitClosing, Generate, Finish, TypeOK
  <2> QED
    BY <1>2, <2>1, <2>2, <2>3, <2>4, <2>5, <2>6 DEF RequestStep
<1>3. ASSUME NEW m \in Models, Settles(m)
      PROVE  [Lifecycle!Next]_(Lifecycle!vars)
  <2>1. CASE LoadDone(m) \/ LoadFails(m)
    <3>1. \A r \in Requests : (pc'[r] \in ClaimLabels) <=> (pc[r] \in ClaimLabels)
      BY <2>1 DEF LoadDone, LoadFails, AfterLoad, Notified, TypeOK
    <3>2. Holds' = Holds
      BY <2>1, <3>1, HoldsKept DEF LoadDone, LoadFails
    <3>3. LifecycleState[m] = "loading"
      BY <2>1 DEF LoadDone, LoadFails, LifecycleState, OneUnitPerModel
    <3>4. \E s \in {"ready", "absent"} : LifecycleState' = [LifecycleState EXCEPT ![m] = s]
      <4>1. CASE LoadDone(m)
        BY <4>1 DEF LoadDone, LifecycleState, OneUnitPerModel, TypeOK
      <4>2. CASE LoadFails(m)
        BY <4>2 DEF LoadFails, LifecycleState, OneUnitPerModel, TypeOK
      <4> QED
        BY <2>1, <4>1, <4>2
    <3>5. Lifecycle!Settle(m)
      BY <3>2, <3>3, <3>4 DEF Lifecycle!Settle
    <3> QED
      BY <3>5 DEF Lifecycle!Next
  <2>2. CASE UnitClosed(m)
    <3>1. \A r \in Requests : (pc'[r] \in ClaimLabels) <=> (pc[r] \in ClaimLabels)
      BY <2>2 DEF UnitClosed, Notified, TypeOK
    <3>2. Holds' = Holds
      BY <2>2, <3>1, HoldsKept DEF UnitClosed
    <3>3. LifecycleState[m] = "draining"
      BY <2>2 DEF UnitClosed, LifecycleState
    <3>4. LifecycleState' = [LifecycleState EXCEPT ![m] = "absent"]
      BY <2>2 DEF UnitClosed, LifecycleState, OneUnitPerModel, TypeOK
    <3>5. Lifecycle!Drained(m)
      BY <3>2, <3>3, <3>4 DEF Lifecycle!Drained
    <3> QED
      BY <3>5 DEF Lifecycle!Next
  <2> QED
    BY <1>3, <2>1, <2>2 DEF Settles
<1>4. ASSUME NEW x \in Procs \ Requests, NEW m \in Models, StartEvictions(x, {m}), unit[m],
             UNCHANGED <<target, unit, loading>>, Closing \/ Forcing # {} \/ leases[m] = 0
      PROVE  [Lifecycle!Next]_(Lifecycle!vars)
  <2>1. \A r \in Requests : (pc'[r] \in ClaimLabels) <=> (pc[r] \in ClaimLabels)
    BY <1>4 DEF StartEvictions, TypeOK
  <2>2. closing' = [y \in Models |-> closing[y] \/ y \in {m}]
    BY <1>4 DEF StartEvictions
  <2>3. CASE closing[m]
    <3>1. LifecycleState' = LifecycleState
      BY <1>4, <2>2, <2>3 DEF LifecycleState, TypeOK
    <3> QED
      BY <1>4, <2>1, <3>1, HoldsKept DEF Lifecycle!vars
  <2>4. CASE ~closing[m]
    <3> DEFINE V == {m}
    <3>1. V \in SUBSET Models /\ closing' = [y \in Models |-> closing[y] \/ y \in V]
      BY <2>2
    <3>2. \A y \in V : unit[y] /\ ~closing[y]
      BY <1>4, <2>4
    <3>3. (Closing \/ Forcing # {}) \/ \A y \in V : leases[y] = 0
      BY <1>4
    <3>4. UNCHANGED <<target, unit, loading>>
      BY <1>4
    <3> HIDE DEF V, ClaimLabels
    <3>5. Lifecycle!Next
      BY <2>1, <3>1, <3>2, <3>3, <3>4, LifecycleDrain
    <3> QED
      BY <3>5
  <2> QED
    BY <2>3, <2>4
<1>5. ASSUME NEW u \in Unloaders, UnloaderStep(u)
      PROVE  [Lifecycle!Next]_(Lifecycle!vars)
  <2> DEFINE m == target[u]
  <2> m \in Models /\ u \in Procs \ Requests
    BY DEF TypeOK
  <2>1. CASE StartEvictions(u, {m})
    <3>1. UNCHANGED <<target, unit, loading>>
      BY <1>5 DEF UnloaderStep, Unload, UnloadLoaded, Unloaded
    <3>2. CASE closing[m]
      <4>1. unit[m]
        BY <3>2 DEF OneUnitPerModel
      <4>2. LifecycleState' = LifecycleState
        BY <2>1, <3>1, <3>2 DEF StartEvictions, LifecycleState, TypeOK
      <4>3. \A r \in Requests : (pc'[r] \in ClaimLabels) <=> (pc[r] \in ClaimLabels)
        BY <2>1 DEF StartEvictions, TypeOK
      <4> QED
        BY <3>1, <4>2, <4>3, HoldsKept DEF Lifecycle!vars
    <3>3. CASE ~closing[m] /\ UNCHANGED closing
      BY <2>1, <3>3 DEF StartEvictions, TypeOK
    <3>4. CASE ~closing[m] /\ closing' # closing
      <4>1. unit[m] /\ (leases[m] = 0 \/ u \in Forcing)
        <5>1. UnloadNow(u, m)
          BY <1>5, <3>4 DEF UnloaderStep, Unload, UnloadLoaded, Unloaded
        <5>2. unit[m] /\ (~(leases[m] > 0) \/ u \in Forcing)
          BY <5>1, <3>4 DEF UnloadNow
        <5>3. leases[m] \in Nat
          BY DEF TypeOK
        <5> QED
          BY <5>2, <5>3
      <4> QED
        BY <1>4, <2>1, <3>1, <4>1
    <3> QED
      BY <3>2, <3>3, <3>4
  <2>2. CASE ~StartEvictions(u, {m})
    <3>1. UNCHANGED <<target, unit, loading>>
      BY <1>5 DEF UnloaderStep, Unload, UnloadLoaded, Unloaded
    <3>2. UNCHANGED closing /\ \E l \in {"done", "loadwait"} : pc' = [pc EXCEPT ![u] = l]
      BY <1>5, <2>2 DEF UnloaderStep, Unload, UnloadLoaded, Unloaded, UnloadNow
    <3>3. \A r \in Requests : pc'[r] = pc[r]
      BY <3>2 DEF TypeOK
    <3> QED
      BY <3>1, <3>2, <3>3, LifecycleStutter
  <2> QED
    BY <2>1, <2>2
<1>6. CASE HostStep
  <2>1. CASE Close
    BY <2>1, LifecycleStutter DEF Close, GotoAndNotify, Notified, TypeOK
  <2>2. ASSUME NEW m \in Models, CloseUnit(m)
        PROVE  [Lifecycle!Next]_(Lifecycle!vars)
    <3>1. Closing
      BY <2>2 DEF CloseUnit, CloseCalled
    <3> QED
      BY <1>4, <2>2, <3>1 DEF CloseUnit
  <2>3. ASSUME NEW m \in Models, CloseSettled(m) \/ CloseNext(m)
        PROVE  [Lifecycle!Next]_(Lifecycle!vars)
    <3>1. UNCHANGED <<target, unit, loading, closing>>
      BY <2>3 DEF CloseSettled, CloseNext
    <3>2. \E l : pc' = [pc EXCEPT ![TheHost] = l]
      BY <2>3 DEF CloseSettled, CloseNext
    <3>3. \A r \in Requests : pc'[r] = pc[r]
      BY <3>2 DEF TypeOK
    <3> QED
      BY <3>1, <3>3, LifecycleStutter
  <2> QED
    BY <1>6, <2>1, <2>2, <2>3 DEF HostStep
<1>7. ASSUME NEW q \in Pausers, PauserStep(q)
      PROVE  [Lifecycle!Next]_(Lifecycle!vars)
  <2>1. CASE Unpause(q)
    BY <2>1, LifecycleStutter DEF Unpause, GotoAndNotify, Notified, TypeOK
  <2>2. CASE ~Unpause(q)
    <3>1. UNCHANGED <<target, unit, loading, closing>>
      BY <1>7, <2>2 DEF PauserStep, PauseAll, ListResidents, PauseAborted, Paused
    <3>2. \E l : pc' = [pc EXCEPT ![q] = l]
      BY <1>7, <2>2 DEF PauserStep, PauseAll, ListResidents, PauseAborted, Paused
    <3>3. \A r \in Requests : pc'[r] = pc[r]
      BY <3>2 DEF TypeOK
    <3> QED
      BY <3>1, <3>3, LifecycleStutter
  <2> QED
    BY <2>1, <2>2
<1>8. ASSUME NEW r \in Rooms, RoomStep(r)
      PROVE  [Lifecycle!Next]_(Lifecycle!vars)
  BY <1>8, LifecycleStutter DEF RoomStep, RoomMade, CompanionLoads, CompanionUnloads, TypeOK
<1>9. CASE Environment
  BY <1>9, LifecycleStutter DEF Environment, Pin, Unpin, Break, Grow, Abort, Notified, TypeOK
<1>10. CASE Idle \/ UNCHANGED vars
  BY <1>10, LifecycleStutter DEF Idle, vars
<1> QED
  BY <1>1, <1>2, <1>3, <1>5, <1>6, <1>7, <1>8, <1>9, <1>10 DEF Next

(* Refinement: every step of the host is a step of the lifecycle it promises, or  *)
(* leaves the lifecycle unchanged; so no interleaving skips a drain, loads a      *)
(* model that is not absent, or drains one that is held.                          *)
THEOREM HostImplementsLifecycle == Spec => ImplementsLifecycle
<1>1. Init => Lifecycle!Init
  BY LifecycleInit
<1>2. IInv /\ [Next]_vars => [Lifecycle!Next]_(Lifecycle!vars)
  BY LifecycleStep
<1> QED
  BY <1>1, <1>2, Invariance, PTL DEF Spec, Lifecycle!Spec, ImplementsLifecycle

=============================================================================

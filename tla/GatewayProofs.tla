--------------------------- MODULE GatewayProofs ---------------------------
(***************************************************************************)
(* Proofs about GenerationGateway, for any requests, leasers, tasks, keys, *)
(* needs, capacities and budgets.                                          *)
(*                                                                         *)
(* Every step of the gateway is a step of its AdmissionPool or leaves it   *)
(* alone, and likewise of its AsyncMutex; so what each of the two keeps by *)
(* itself is proved of its own actions, and the rest of the invariant ties *)
(* their states to the rows, the leasers and the driver.                   *)
(***************************************************************************)
EXTENDS GenerationGateway, CollectionFacts

USE SetsAssumption, SizesAssumption

-----------------------------------------------------------------------------
(***************************************************************************)
(* The admission pool.                                                     *)
(***************************************************************************)

(* The pool's queue is exactly its waiters, each once. *)
WaitersQueued ==
  Distinct(waiting) /\ \A r \in Requests : pool[r] = "waiting" <=> r \in Members(waiting)

PoolInv == Pool!TypeOK /\ Pool!ActiveCounted /\ Pool!WaitersMeanFull /\ WaitersQueued

(* An instance has copies of the operators its module extends. *)
LEMMA PoolCardinality == \A S : Pool!Cardinality(S) = Cardinality(S)
BY DEF Pool!Cardinality, Cardinality

(* The pool's filter of its queue is the one of Collections. *)
LEMMA PoolWithout == \A q, g : Pool!Without(q, g) = Without(q, g)
BY DEF Pool!Without, Without

(* Those who hold a place of the pool are finitely many. *)
LEMMA HoldingFinite == IsFiniteSet(Pool!Holding) /\ Cardinality(Pool!Holding) \in Nat
<1>1. IsFiniteSet(Pool!Holding)
  BY FS_Subset DEF Pool!Holding
<1> QED
  BY <1>1, FS_CardinalityType

(* The pool's invariant holds of an empty pool. *)
LEMMA PoolInit ==
  ASSUME Pool!Init
  PROVE  PoolInv
<1>1. pool = [r \in Requests |-> "idle"] /\ waiting = <<>> /\ active = 0 /\ poolClosed = FALSE
  BY DEF Pool!Init
<1>2. Pool!Holding = {}
  BY <1>1 DEF Pool!Holding
<1>3. Cardinality(Requests) \in Nat
  BY FS_CardinalityType
<1>4. waiting \in Seq(Requests) /\ Len(waiting) = 0 /\ Members(waiting) = {} /\ Distinct(waiting)
  BY <1>1, EmptySeq, EmptyMembers
<1>5. Pool!TypeOK
  <2>1. pool \in [Requests -> Pool!States]
    BY <1>1 DEF Pool!States
  <2>2. active \in 0..Capacity
    <3>1. Capacity \in Nat
      OBVIOUS
    <3> QED
      BY <1>1, <3>1
  <2>3. Len(waiting) <= Cardinality(Requests)
    BY <1>3, <1>4
  <2>4. poolClosed \in BOOLEAN
    BY <1>1
  <2> QED
    BY <1>4, <2>1, <2>2, <2>3, <2>4 DEF Pool!TypeOK
<1>6. Pool!ActiveCounted
  BY <1>1, <1>2, FS_EmptySet, PoolCardinality DEF Pool!ActiveCounted
<1>7. Pool!WaitersMeanFull /\ WaitersQueued
  BY <1>1, <1>4 DEF Pool!WaitersMeanFull, WaitersQueued
<1> QED
  BY <1>5, <1>6, <1>7 DEF PoolInv

(* A place granted at once keeps the pool's invariant. *)
LEMMA GrantKeepsPool ==
  ASSUME PoolInv, NEW r \in Requests, Pool!Grant(r)
  PROVE  PoolInv'
<1>1. /\ pool \in [Requests -> Pool!States] /\ pool[r] = "idle" /\ active < Capacity
      /\ pool' = [pool EXCEPT ![r] = "holding"] /\ active' = active + 1
      /\ UNCHANGED <<waiting, poolClosed>> /\ active \in Nat
  BY DEF PoolInv, Pool!TypeOK, Pool!Grant
<1>2. waiting = <<>>
  BY <1>1 DEF PoolInv, Pool!WaitersMeanFull
<1>3. Pool!Holding' = Pool!Holding \cup {r} /\ r \notin Pool!Holding
  BY <1>1 DEF Pool!Holding, Pool!States
<1>4. Pool!ActiveCounted'
  BY <1>1, <1>3, HoldingFinite, FS_AddElement, PoolCardinality DEF PoolInv, Pool!ActiveCounted
<1>5. Pool!TypeOK'
  BY <1>1 DEF PoolInv, Pool!TypeOK, Pool!States
<1>6. WaitersQueued'
  <2>1. Members(waiting') = Members(waiting) /\ Distinct(waiting') = Distinct(waiting)
    BY <1>1
  <2> QED
    BY <1>1, <2>1 DEF PoolInv, WaitersQueued
<1>7. Pool!WaitersMeanFull'
  BY <1>1, <1>2 DEF Pool!WaitersMeanFull
<1> QED
  BY <1>4, <1>5, <1>6, <1>7 DEF PoolInv

(* A request that has to queue, because the pool is full, keeps the pool's invariant. *)
LEMMA EnqueueKeepsPool ==
  ASSUME PoolInv, NEW r \in Requests, Pool!Enqueue(r)
  PROVE  PoolInv'
<1>1. /\ pool \in [Requests -> Pool!States] /\ pool[r] = "idle" /\ active >= Capacity /\ active \in 0..Capacity
      /\ pool' = [pool EXCEPT ![r] = "waiting"] /\ waiting' = Append(waiting, r)
      /\ UNCHANGED <<active, poolClosed>> /\ waiting \in Seq(Requests) /\ Len(waiting) < Cardinality(Requests)
  BY DEF PoolInv, Pool!TypeOK, Pool!Enqueue
<1>2. waiting' \in Seq(Requests) /\ Len(waiting') = Len(waiting) + 1 /\ Len(waiting) \in Nat
  BY <1>1, AppendProperties, LenProperties
<1>3. Pool!Holding' = Pool!Holding
  BY <1>1 DEF Pool!Holding, Pool!States
<1>4. Cardinality(Requests) \in Nat
  BY FS_CardinalityType
<1>5. Pool!TypeOK'
  BY <1>1, <1>2, <1>4 DEF PoolInv, Pool!TypeOK, Pool!States
<1>6. Pool!ActiveCounted' /\ Pool!WaitersMeanFull'
  BY <1>1, <1>3 DEF PoolInv, Pool!ActiveCounted, Pool!WaitersMeanFull
<1>7. WaitersQueued'
  <2>1. r \notin Members(waiting)
    BY <1>1 DEF PoolInv, WaitersQueued
  <2>2. Members(waiting') = Members(waiting) \cup {r} /\ Distinct(waiting')
    BY <1>1, <2>1, AppendMembers DEF PoolInv, WaitersQueued
  <2> QED
    BY <1>1, <2>2 DEF PoolInv, WaitersQueued
<1> QED
  BY <1>5, <1>6, <1>7 DEF PoolInv

(* A queued request that is cancelled keeps the pool's invariant. *)
LEMMA CancelKeepsPool ==
  ASSUME PoolInv, NEW r \in Requests, Pool!Cancel(r)
  PROVE  PoolInv'
<1>1. /\ pool \in [Requests -> Pool!States] /\ pool[r] = "waiting"
      /\ pool' = [pool EXCEPT ![r] = "idle"] /\ waiting' = Without(waiting, {r})
      /\ UNCHANGED <<active, poolClosed>> /\ waiting \in Seq(Requests) /\ Len(waiting) <= Cardinality(Requests)
  BY PoolWithout DEF PoolInv, Pool!TypeOK, Pool!Cancel
<1>2. waiting' \in Seq(Requests) /\ Len(waiting') <= Len(waiting)
  BY <1>1, WithoutIs
<1>3. Len(waiting) \in Nat /\ Len(waiting') \in Nat /\ Cardinality(Requests) \in Nat
  BY <1>1, <1>2, LenProperties, FS_CardinalityType
<1>4. Pool!Holding' = Pool!Holding
  BY <1>1 DEF Pool!Holding, Pool!States
<1>5. Pool!TypeOK'
  BY <1>1, <1>2, <1>3 DEF PoolInv, Pool!TypeOK, Pool!States
<1>6. Members(waiting') = Members(waiting) \ {r} /\ Distinct(waiting') /\ waiting # <<>>
  BY <1>1, WithoutMembers, EmptyMembers DEF PoolInv, WaitersQueued
<1>7. Pool!ActiveCounted' /\ Pool!WaitersMeanFull'
  BY <1>1, <1>4, <1>6 DEF PoolInv, Pool!ActiveCounted, Pool!WaitersMeanFull
<1>8. WaitersQueued'
  BY <1>1, <1>6 DEF PoolInv, WaitersQueued
<1> QED
  BY <1>5, <1>7, <1>8 DEF PoolInv

(* A place given back, and handed over if anybody waits, keeps the pool's invariant. *)
LEMMA DisposeKeepsPool ==
  ASSUME PoolInv, NEW r \in Requests, Pool!Dispose(r)
  PROVE  PoolInv'
<1>1. /\ pool \in [Requests -> Pool!States] /\ pool[r] = "holding" /\ active \in 0..Capacity
      /\ waiting \in Seq(Requests) /\ UNCHANGED poolClosed /\ Len(waiting) <= Cardinality(Requests)
  BY DEF PoolInv, Pool!TypeOK, Pool!Dispose
<1>2. active = Cardinality(Pool!Holding) /\ r \in Pool!Holding
  BY <1>1, PoolCardinality DEF PoolInv, Pool!ActiveCounted, Pool!Holding
<1>3. CASE waiting = <<>>
  <2>1. pool' = [pool EXCEPT ![r] = "idle"] /\ active' = active - 1 /\ UNCHANGED waiting
    BY <1>3 DEF Pool!Dispose
  <2>2. Pool!Holding' = Pool!Holding \ {r}
    BY <1>1, <2>1 DEF Pool!Holding, Pool!States
  <2>3. Cardinality(Pool!Holding') = Cardinality(Pool!Holding) - 1 /\ Cardinality(Pool!Holding) # 0
    BY <1>2, <2>2, HoldingFinite, FS_RemoveElement, FS_EmptySet
  <2>4. Pool!ActiveCounted' /\ active' \in 0..Capacity
    BY <1>1, <1>2, <2>1, <2>3, PoolCardinality, HoldingFinite DEF Pool!ActiveCounted
  <2>5. Pool!TypeOK'
    BY <1>1, <2>1, <2>4 DEF PoolInv, Pool!TypeOK, Pool!States
  <2>6. WaitersQueued' /\ Pool!WaitersMeanFull'
    <3>1. Members(waiting') = {} /\ Distinct(waiting') /\ Members(waiting) = {}
      BY <1>3, <2>1, EmptyMembers
    <3> QED
      BY <1>1, <1>3, <2>1, <3>1 DEF PoolInv, WaitersQueued, Pool!WaitersMeanFull, Pool!States
  <2> QED
    BY <2>4, <2>5, <2>6 DEF PoolInv
<1>4. CASE waiting # <<>>
  <2> DEFINE h == Head(waiting)
  <2>1. /\ pool' = [pool EXCEPT ![r] = "idle", ![h] = "holding"] /\ waiting' = Tail(waiting) /\ UNCHANGED active
    BY <1>4 DEF Pool!Dispose
  <2>2. /\ h \in Requests /\ h \in Members(waiting) /\ waiting' \in Seq(Requests) /\ Distinct(waiting')
        /\ Members(waiting) = Members(waiting') \cup {h} /\ h \notin Members(waiting')
    BY <1>1, <1>4, <2>1, TailMembers DEF PoolInv, WaitersQueued
  <2>3. pool[h] = "waiting" /\ h # r
    BY <1>1, <2>2 DEF PoolInv, WaitersQueued
  <2> HIDE DEF h
  <2>4. Pool!Holding' = (Pool!Holding \ {r}) \cup {h} /\ h \notin Pool!Holding \ {r}
    BY <1>1, <2>1, <2>2, <2>3 DEF Pool!Holding, Pool!States
  <2>5. Cardinality(Pool!Holding \ {r}) = Cardinality(Pool!Holding) - 1 /\ IsFiniteSet(Pool!Holding \ {r})
    BY <1>2, HoldingFinite, FS_RemoveElement
  <2>6. Cardinality(Pool!Holding') = Cardinality(Pool!Holding)
    <3>1. Cardinality(Pool!Holding') = Cardinality(Pool!Holding \ {r}) + 1
      BY <2>4, <2>5, FS_AddElement
    <3> QED
      BY <2>5, <3>1, HoldingFinite
  <2>7. Pool!ActiveCounted' /\ Pool!WaitersMeanFull'
    BY <1>2, <1>4, <2>1, <2>6, PoolCardinality DEF PoolInv, Pool!ActiveCounted, Pool!WaitersMeanFull
  <2>8. Len(waiting') <= Cardinality(Requests)
    <3>1. Len(waiting) \in Nat \ {0} /\ Len(waiting') = Len(waiting) - 1
      BY <1>1, <1>4, <2>1, EmptySeq, HeadTailProperties
    <3> QED
      BY <1>1, <3>1, FS_CardinalityType
  <2>9. Pool!TypeOK'
    BY <1>1, <2>1, <2>2, <2>8 DEF PoolInv, Pool!TypeOK, Pool!States
  <2>10. WaitersQueued'
    BY <1>1, <2>1, <2>2, <2>3 DEF PoolInv, WaitersQueued
  <2> QED
    BY <2>7, <2>9, <2>10 DEF PoolInv
<1> QED
  BY <1>3, <1>4

(* Closing the pool, which refuses all who wait, keeps its invariant. *)
LEMMA CloseKeepsPool ==
  ASSUME PoolInv, Pool!Close
  PROVE  PoolInv'
<1>1. /\ pool \in [Requests -> Pool!States] /\ waiting' = <<>> /\ poolClosed' = TRUE /\ UNCHANGED active
      /\ pool' = [r \in Requests |-> IF pool[r] = "waiting" THEN "idle" ELSE pool[r]]
  BY DEF PoolInv, Pool!TypeOK, Pool!Close
<1>2. Pool!Holding' = Pool!Holding
  BY <1>1 DEF Pool!Holding, Pool!States
<1>3. /\ waiting' \in Seq(Requests) /\ Len(waiting') = 0 /\ Cardinality(Requests) \in Nat
      /\ Members(waiting') = {} /\ Distinct(waiting')
  BY <1>1, EmptySeq, EmptyMembers, FS_CardinalityType
<1>4. Pool!TypeOK'
  BY <1>1, <1>3 DEF PoolInv, Pool!TypeOK, Pool!States
<1>5. Pool!ActiveCounted' /\ Pool!WaitersMeanFull'
  BY <1>1, <1>2 DEF PoolInv, Pool!ActiveCounted, Pool!WaitersMeanFull
<1>6. WaitersQueued'
  BY <1>1, <1>3 DEF WaitersQueued
<1> QED
  BY <1>4, <1>5, <1>6 DEF PoolInv

(* The pool's counts and its queue are sound under every one of its methods. *)
LEMMA PoolKept ==
  ASSUME PoolInv, [Pool!Next]_poolVars
  PROVE  PoolInv'
<1>1. CASE UNCHANGED poolVars
  BY <1>1 DEF PoolInv, poolVars, Pool!TypeOK, Pool!ActiveCounted, Pool!WaitersMeanFull, Pool!Holding, WaitersQueued,
    Members, Distinct
<1>2. CASE Pool!Next
  BY <1>2, GrantKeepsPool, EnqueueKeepsPool, CancelKeepsPool, DisposeKeepsPool, CloseKeepsPool DEF Pool!Next
<1> QED
  BY <1>1, <1>2

(* A lease of the pool goes to the first who waits, and to a newcomer only *)
(* when nobody does.                                                       *)
LEMMA PoolInOrder ==
  ASSUME PoolInv, [Pool!Next]_poolVars, NEW c \in Requests, NEW d \in Requests,
         pool[c] # "holding", pool'[c] = "holding", pool[d] = "waiting", pool'[d] = "waiting"
  PROVE  \E i, j \in 1..Len(waiting) : i < j /\ waiting[i] = c /\ waiting[j] = d
<1>1. /\ pool \in [Requests -> Pool!States] /\ waiting \in Seq(Requests) /\ active \in 0..Capacity
      /\ d \in Members(waiting) /\ waiting # <<>>
  <2>1. /\ pool \in [Requests -> Pool!States] /\ waiting \in Seq(Requests) /\ active \in 0..Capacity
        /\ d \in Members(waiting)
    BY DEF PoolInv, Pool!TypeOK, WaitersQueued
  <2> QED
    BY <2>1, MembersIn
<1>2. PICK r \in Requests : Pool!Grant(r) \/ Pool!Enqueue(r) \/ Pool!Cancel(r) \/ Pool!Dispose(r)
  <2>1. ~UNCHANGED poolVars
    BY DEF poolVars
  <2>2. ~Pool!Close
    BY <1>1 DEF Pool!Close
  <2> QED
    BY <2>1, <2>2 DEF Pool!Next
<1>3. ~Pool!Grant(r)
  <2>1. active = Capacity
    BY <1>1 DEF PoolInv, Pool!WaitersMeanFull
  <2> QED
    BY <1>1, <2>1 DEF Pool!Grant
<1>4. ~Pool!Enqueue(r) /\ ~Pool!Cancel(r)
  BY <1>1 DEF Pool!Enqueue, Pool!Cancel
<1>5. pool' = [pool EXCEPT ![r] = "idle", ![Head(waiting)] = "holding"]
  BY <1>1, <1>2, <1>3, <1>4 DEF Pool!Dispose
<1>6. c = Head(waiting) /\ d # c
  BY <1>1, <1>5
<1>7. PICK j \in 1..Len(waiting) : waiting[j] = d
  BY <1>1 DEF Members
<1>8. Len(waiting) \in Nat \ {0} /\ Head(waiting) = waiting[1]
  BY <1>1, EmptySeq, LenProperties, HeadTailProperties
<1>9. 1 \in 1..Len(waiting) /\ 1 < j
  BY <1>6, <1>7, <1>8
<1> QED
  BY <1>6, <1>7, <1>8, <1>9

-----------------------------------------------------------------------------
(***************************************************************************)
(* The mutex.                                                              *)
(***************************************************************************)

Callers == Leasers \cup {Driver}

(* Whoever holds the mutex has every gate before its own open. *)
HolderFirst == \A c \in Callers : mutex[c] = "holding" => Mutex!Turn(c)

MutexInv == Mutex!TypeOK /\ Mutex!PendingExact /\ Mutex!GatesExact /\ HolderFirst

Pending == {c \in Callers : mutex[c] # "idle"}

(* The mutex counts its callers by the same cardinality. *)
LEMMA MutexCardinality == \A S : Mutex!Cardinality(S) = Cardinality(S)
BY DEF Mutex!Cardinality, Cardinality

(* The mutex's callers, and those of them who are counted, are finitely many. *)
LEMMA CallersFinite ==
  /\ IsFiniteSet(Callers) /\ IsFiniteSet(Pending) /\ Cardinality(Pending) \in Nat
  /\ Cardinality(Leasers) \in Nat
<1>1. IsFiniteSet(Callers)
  BY FS_AddElement DEF Callers
<1>2. IsFiniteSet(Pending)
  BY <1>1, FS_Subset DEF Pending
<1> QED
  BY <1>1, <1>2, FS_CardinalityType

(* What a chain keeps of a sequence of gates: all but a prefix of open ones. *)
LEMMA LiveIs ==
  ASSUME NEW S, NEW s \in Seq(S)
  PROVE  \E n \in 0..Len(s) :
           /\ \A i \in 1..n : s[i].open
           /\ Mutex!Live(s) \in Seq(S) /\ Len(Mutex!Live(s)) = Len(s) - n
           /\ \A i \in 1..Len(s) - n : Mutex!Live(s)[i] = s[i + n]
<1> DEFINE passed == {i \in 1..Len(s) : Mutex!Passed(s, i)}
<1>1. Len(s) \in Nat
  BY LenProperties
<1>2. PICK n \in 0..Len(s) : passed = 1..n
  <2>1. CASE passed = 1..Len(s)
    BY <1>1, <2>1
  <2>2. CASE passed # 1..Len(s)
    <3> DEFINE shut == (1..Len(s)) \ passed
    <3>1. shut \in SUBSET Nat /\ shut # {}
      BY <1>1, <2>2
    <3>2. PICK k \in shut : \A j \in shut : k <= j
      BY <3>1, LeastNumber
    <3>3. k \in 1..Len(s) /\ k - 1 \in 0..Len(s) /\ ~Mutex!Passed(s, k)
      BY <1>1, <3>2
    <3>4. ASSUME NEW i \in passed PROVE i \in 1..k - 1
      <4>1. i \in 1..Len(s) /\ \A j \in 1..i : s[j].open
        BY DEF Mutex!Passed
      <4>2. ~(k <= i)
        BY <1>1, <3>3, <4>1 DEF Mutex!Passed
      <4> QED
        BY <1>1, <3>3, <4>1, <4>2
    <3>5. ASSUME NEW i \in 1..k - 1 PROVE i \in passed
      BY <1>1, <3>2, <3>3
    <3>6. passed = 1..k - 1
      BY <3>4, <3>5
    <3> QED
      BY <3>3, <3>6
  <2> QED
    BY <2>1, <2>2
<1>3. Cardinality(passed) = n /\ n \in Nat
  <2>1. n \in Nat
    BY <1>1
  <2> QED
    BY <1>2, <2>1, IntervalCardinality
<1>4. Mutex!Live(s) = SubSeq(s, n + 1, Len(s))
  BY <1>3, MutexCardinality DEF Mutex!Live
<1>5. \A i \in 1..n : s[i].open
  <2> SUFFICES ASSUME NEW i \in 1..n PROVE s[i].open
    OBVIOUS
  <2>1. Mutex!Passed(s, i) /\ i \in 1..i
    BY <1>2, <1>3
  <2> QED
    BY <2>1 DEF Mutex!Passed
<1>6. /\ SubSeq(s, n + 1, Len(s)) \in Seq(S)
      /\ Len(SubSeq(s, n + 1, Len(s))) = Len(s) - n
      /\ \A i \in 1..Len(s) - n : SubSeq(s, n + 1, Len(s))[i] = s[i + n]
  <2>1. \A i \in n + 1..Len(s) : s[i] \in S
    BY <1>1, <1>3, ElementOfSeq
  <2> QED
    BY <1>1, <1>3, <2>1, SubSeqProperties
<1> QED
  BY <1>4, <1>5, <1>6

(* Opening c's gate: what the chain keeps, and which of its gates are shut. *)
LEMMA OpenIs ==
  ASSUME MutexInv, NEW c \in Callers, Mutex!Open(c)
  PROVE  \E n \in 0..Len(chain) :
           /\ chain' \in Seq(Mutex!Gates) /\ Len(chain') = Len(chain) - n
           /\ \A i \in 1..n : chain[i].open \/ chain[i].owner = c
           /\ \A i \in 1..Len(chain) - n :
                /\ chain'[i].owner = chain[i + n].owner
                /\ chain'[i].open <=> chain[i + n].open \/ chain[i + n].owner = c
<1> DEFINE t == [i \in 1..Len(chain) |->
                  IF Mutex!IsGate(i, c) THEN [chain[i] EXCEPT !.open = TRUE] ELSE chain[i]]
<1>1. chain \in Seq(Mutex!Gates) /\ Len(chain) \in Nat
  BY LenProperties DEF MutexInv, Mutex!TypeOK
<1>2. \A i \in 1..Len(chain) : chain[i] \in Mutex!Gates
  BY <1>1, ElementOfSeq
<1>3. \A i \in 1..Len(chain) :
        /\ t[i] \in Mutex!Gates /\ t[i].owner = chain[i].owner
        /\ t[i].open <=> chain[i].open \/ chain[i].owner = c
  <2> SUFFICES ASSUME NEW i \in 1..Len(chain)
               PROVE  /\ t[i] \in Mutex!Gates /\ t[i].owner = chain[i].owner
                      /\ t[i].open <=> chain[i].open \/ chain[i].owner = c
    OBVIOUS
  <2>1. CASE Mutex!IsGate(i, c)
    <3>1. t[i] = [chain[i] EXCEPT !.open = TRUE] /\ chain[i].owner = c
      BY <2>1 DEF Mutex!IsGate
    <3> QED
      BY <1>2, <3>1 DEF Mutex!Gates
  <2>2. CASE ~Mutex!IsGate(i, c)
    <3>1. t[i] = chain[i]
      BY <2>2
    <3> QED
      BY <1>2, <2>2, <3>1 DEF Mutex!IsGate, Mutex!Shut
  <2> QED
    BY <2>1, <2>2
<1>4. t \in Seq(Mutex!Gates) /\ Len(t) = Len(chain) /\ chain' = Mutex!Live(t)
  <2>1. t \in [1..Len(chain) -> Mutex!Gates]
    BY <1>3
  <2>2. chain' = Mutex!Live(t)
    BY DEF Mutex!Open
  <2> QED
    BY <1>1, <2>1, <2>2, LenProperties
<1> HIDE DEF t
<1>5. PICK n \in 0..Len(chain) :
        /\ \A i \in 1..n : t[i].open
        /\ chain' \in Seq(Mutex!Gates) /\ Len(chain') = Len(chain) - n
        /\ \A i \in 1..Len(chain) - n : chain'[i] = t[i + n]
  <2>1. PICK n \in 0..Len(t) :
          /\ \A i \in 1..n : t[i].open
          /\ Mutex!Live(t) \in Seq(Mutex!Gates) /\ Len(Mutex!Live(t)) = Len(t) - n
          /\ \A i \in 1..Len(t) - n : Mutex!Live(t)[i] = t[i + n]
    BY <1>4, LiveIs
  <2> QED
    BY <1>4, <2>1
<1>6. \A i \in 1..n : i \in 1..Len(chain)
  BY <1>1, <1>5
<1>7. \A i \in 1..Len(chain) - n : i + n \in 1..Len(chain)
  BY <1>1, <1>5
<1> QED
  BY <1>3, <1>5, <1>6, <1>7

(* A call that ends, by its unlock or by its abort, leaves the mutex sound. *)
LEMMA ReleaseKeepsMutex ==
  ASSUME MutexInv, NEW c \in Callers, mutex[c] # "idle", mutex' = [mutex EXCEPT ![c] = "idle"],
         Mutex!Open(c), locked' = locked - 1
  PROVE  MutexInv'
<1> DEFINE shut(i) == ~chain[i].open
<1>1. PICK n \in 0..Len(chain) :
        /\ chain' \in Seq(Mutex!Gates) /\ Len(chain') = Len(chain) - n
        /\ \A i \in 1..n : chain[i].open \/ chain[i].owner = c
        /\ \A i \in 1..Len(chain) - n :
             /\ chain'[i].owner = chain[i + n].owner
             /\ chain'[i].open <=> chain[i + n].open \/ chain[i + n].owner = c
  BY OpenIs
<1>2. /\ mutex \in [Callers -> Mutex!States] /\ Len(chain) \in Nat /\ Len(chain) <= Cardinality(Leasers) + 1
      /\ locked = Cardinality(Pending) /\ n \in Nat
  BY LenProperties, MutexCardinality DEF MutexInv, Mutex!TypeOK, Mutex!PendingExact, Callers, Pending
<1>3. Pending' = Pending \ {c} /\ c \in Pending
  BY <1>2 DEF Pending, Mutex!States
<1>4. Cardinality(Pending') = locked - 1 /\ locked - 1 \in Nat
  <2>1. Cardinality(Pending') = Cardinality(Pending) - 1 /\ Cardinality(Pending') \in Nat
    BY <1>3, CallersFinite, FS_RemoveElement, FS_CardinalityType
  <2> QED
    BY <1>2, <2>1
<1>5. Mutex!TypeOK'
  <2>1. mutex' \in [Callers -> Mutex!States]
    BY <1>2 DEF Mutex!States
  <2>2. Len(chain') <= Cardinality(Leasers) + 1
    BY <1>1, <1>2, CallersFinite
  <2> QED
    BY <1>1, <1>4, <2>1, <2>2 DEF Mutex!TypeOK, Mutex!Gates, Mutex!States, Callers
<1>6. Mutex!PendingExact'
  BY <1>4, MutexCardinality DEF Mutex!PendingExact, Pending, Callers
(* A gate of the new chain is a gate of the old one, n places further. *)
<1>7. \A d \in Callers : \A i \in 1..Len(chain) - n :
        (Mutex!IsGate(i, d))' <=> d # c /\ Mutex!IsGate(i + n, d)
  <2> SUFFICES ASSUME NEW d \in Callers, NEW i \in 1..Len(chain) - n
               PROVE  (Mutex!IsGate(i, d))' <=> d # c /\ Mutex!IsGate(i + n, d)
    OBVIOUS
  <2>1. i \in 1..Len(chain') /\ i + n \in 1..Len(chain)
    BY <1>1, <1>2
  <2> QED
    BY <1>1, <2>1 DEF Mutex!IsGate, Mutex!Shut
<1>8. \A d \in Callers \ {c} : \A j \in 1..Len(chain) :
        Mutex!IsGate(j, d) => j - n \in 1..Len(chain) - n /\ (Mutex!IsGate(j - n, d))'
  <2> SUFFICES ASSUME NEW d \in Callers \ {c}, NEW j \in 1..Len(chain), Mutex!IsGate(j, d)
               PROVE  j - n \in 1..Len(chain) - n /\ (Mutex!IsGate(j - n, d))'
    OBVIOUS
  <2>1. j \notin 1..n
    BY <1>1 DEF Mutex!IsGate, Mutex!Shut
  <2>2. j - n \in 1..Len(chain) - n /\ (j - n) + n = j
    BY <1>2, <2>1
  <2> QED
    BY <1>7, <2>2
<1>9. Mutex!GatesExact'
  <2>1. ASSUME NEW d \in Callers
        PROVE  mutex'[d] # "idle" <=> \E i \in 1..Len(chain') : (Mutex!IsGate(i, d))'
    <3>1. mutex'[d] # "idle" <=> d # c /\ mutex[d] # "idle"
      BY <1>2
    <3>2. mutex[d] # "idle" <=> \E j \in 1..Len(chain) : Mutex!IsGate(j, d)
      BY DEF MutexInv, Mutex!GatesExact, Callers
    <3>3. \A i \in 1..Len(chain) - n : i + n \in 1..Len(chain)
      BY <1>2
    <3> QED
      BY <1>1, <1>7, <1>8, <3>1, <3>2, <3>3
  <2>2. ASSUME NEW i \in 1..Len(chain'), NEW j \in 1..Len(chain'), (Mutex!Shut(i))', (Mutex!Shut(j))',
               chain'[i].owner = chain'[j].owner
        PROVE  i = j
    <3>1. i + n \in 1..Len(chain) /\ j + n \in 1..Len(chain) /\ i \in 1..Len(chain) - n /\ j \in 1..Len(chain) - n
      BY <1>1, <1>2
    <3>2. Mutex!Shut(i + n) /\ Mutex!Shut(j + n) /\ chain[i + n].owner = chain[j + n].owner
      BY <1>1, <2>2, <3>1 DEF Mutex!Shut
    <3>3. i + n = j + n
      BY <3>1, <3>2 DEF MutexInv, Mutex!GatesExact
    <3> QED
      BY <1>2, <3>1, <3>3
  <2> QED
    BY <2>1, <2>2 DEF Mutex!GatesExact, Callers
<1>10. HolderFirst'
  <2> SUFFICES ASSUME NEW d \in Callers, mutex'[d] = "holding"
               PROVE  (Mutex!Turn(d))'
    BY DEF HolderFirst
  <2>1. d # c /\ mutex[d] = "holding"
    BY <1>2
  <2>2. PICK j \in 1..Len(chain) : Mutex!IsGate(j, d) /\ \A k \in 1..j - 1 : chain[k].open
    BY <2>1 DEF MutexInv, HolderFirst, Mutex!Turn
  <2>3. j - n \in 1..Len(chain') /\ (Mutex!IsGate(j - n, d))'
    BY <1>1, <1>8, <2>1, <2>2
  <2>4. \A k \in 1..(j - n) - 1 : chain'[k].open
    <3> SUFFICES ASSUME NEW k \in 1..(j - n) - 1 PROVE chain'[k].open
      OBVIOUS
    <3>1. k \in 1..Len(chain) - n /\ k + n \in 1..j - 1
      BY <1>2, <2>2
    <3> QED
      BY <1>1, <2>2, <3>1
  <2> QED
    BY <2>3, <2>4 DEF Mutex!Turn
<1> QED
  BY <1>5, <1>6, <1>9, <1>10 DEF MutexInv

(* The mutex's invariant holds of an empty chain. *)
LEMMA MutexInit ==
  ASSUME Mutex!Init
  PROVE  MutexInv
<1>1. mutex = [c \in Callers |-> "idle"] /\ chain = <<>> /\ locked = 0
  BY DEF Mutex!Init, Callers
<1>2. chain \in Seq(Mutex!Gates) /\ Len(chain) = 0
  BY <1>1, EmptySeq
<1>3. Pending = {}
  BY <1>1 DEF Pending
<1>4. Mutex!PendingExact
  BY <1>1, <1>3, FS_EmptySet, MutexCardinality DEF Mutex!PendingExact, Pending, Callers
<1>5. Mutex!TypeOK
  <2>1. mutex \in [Callers -> Mutex!States]
    BY <1>1 DEF Mutex!States
  <2>2. Len(chain) <= Cardinality(Leasers) + 1
    BY <1>2, CallersFinite
  <2> QED
    BY <1>1, <1>2, <2>1, <2>2 DEF Mutex!TypeOK, Callers
<1>6. Mutex!GatesExact /\ HolderFirst
  BY <1>1, <1>2 DEF Mutex!GatesExact, HolderFirst, Callers
<1> QED
  BY <1>4, <1>5, <1>6 DEF MutexInv

(* A call that appends its gate to the chain keeps the mutex's invariant. *)
LEMMA AcquireKeepsMutex ==
  ASSUME MutexInv, NEW c \in Callers, Mutex!Acquire(c)
  PROVE  MutexInv'
<1> DEFINE n == Len(chain)
           g == [owner |-> c, open |-> FALSE]
<1>1. /\ mutex \in [Callers -> Mutex!States] /\ mutex[c] = "idle" /\ n < Cardinality(Leasers) + 1
      /\ mutex' = [mutex EXCEPT ![c] = "waiting"] /\ chain' = Append(chain, g) /\ locked' = locked + 1
      /\ chain \in Seq(Mutex!Gates) /\ n \in Nat /\ locked = Cardinality(Pending) /\ locked \in Nat
  BY LenProperties, MutexCardinality
  DEF MutexInv, Mutex!TypeOK, Mutex!Acquire, Mutex!PendingExact, Callers, Pending
<1>2. g \in Mutex!Gates
  BY DEF Mutex!Gates, Callers
<1>3. /\ chain' \in Seq(Mutex!Gates) /\ Len(chain') = n + 1
      /\ \A i \in 1..n : chain'[i] = chain[i] /\ i \in 1..n + 1
      /\ chain'[n + 1] = g /\ n + 1 \in 1..n + 1 /\ \A i \in 1..n + 1 : i \in 1..n \/ i = n + 1
  BY <1>1, <1>2, AppendProperties
<1>4. Pending' = Pending \cup {c} /\ c \notin Pending
  BY <1>1 DEF Pending, Mutex!States
<1>5. Cardinality(Pending') = locked + 1
  BY <1>1, <1>4, CallersFinite, FS_AddElement
<1>6. Mutex!PendingExact'
  BY <1>1, <1>5, MutexCardinality DEF Mutex!PendingExact, Pending, Callers
<1>7. Mutex!TypeOK'
  <2>1. mutex' \in [Callers -> Mutex!States]
    BY <1>1 DEF Mutex!States
  <2>2. Len(chain') <= Cardinality(Leasers) + 1 /\ locked' \in Nat
    BY <1>1, <1>3, CallersFinite
  <2> QED
    BY <1>3, <2>1, <2>2 DEF Mutex!TypeOK, Mutex!Gates, Mutex!States, Callers
<1>8. \A d \in Callers : \A i \in 1..n : (Mutex!IsGate(i, d))' <=> Mutex!IsGate(i, d)
  BY <1>3 DEF Mutex!IsGate, Mutex!Shut
<1>9. \A d \in Callers : \A i : i = n + 1 => ((Mutex!IsGate(i, d))' <=> d = c)
  <2>1. ~chain'[n + 1].open /\ chain'[n + 1].owner = c
    BY <1>3
  <2>2. n + 1 \in 1..Len(chain')
    BY <1>3
  <2> HIDE DEF n
  <2> QED
    BY <2>1, <2>2 DEF Mutex!IsGate, Mutex!Shut
<1>10. \A d \in Callers : mutex[d] # "idle" <=> \E i \in 1..n : Mutex!IsGate(i, d)
  BY DEF MutexInv, Mutex!GatesExact, Callers
<1>11. Mutex!GatesExact'
  <2>1. ASSUME NEW d \in Callers
        PROVE  mutex'[d] # "idle" <=> \E i \in 1..n + 1 : (Mutex!IsGate(i, d))'
    <3>1. mutex'[d] # "idle" <=> d = c \/ mutex[d] # "idle"
      BY <1>1
    <3> HIDE DEF n
    <3>2. CASE d = c
      BY <1>3, <1>9, <3>1, <3>2
    <3>3. CASE d # c
      BY <1>3, <1>8, <1>9, <1>10, <3>1, <3>3
    <3> QED
      BY <3>2, <3>3
  <2>2. \A i \in 1..n : ~chain[i].open => chain[i].owner # c
    BY <1>1, <1>10 DEF Mutex!IsGate, Mutex!Shut
  <2>3. ASSUME NEW i \in 1..n + 1, NEW j \in 1..n + 1, ~chain'[i].open, ~chain'[j].open,
               chain'[i].owner = chain'[j].owner
        PROVE  i = j
    <3>1. CASE i \in 1..n /\ j \in 1..n
      <4>1. chain'[i] = chain[i] /\ chain'[j] = chain[j]
        BY <1>3, <3>1
      <4> QED
        BY <2>3, <3>1, <4>1 DEF MutexInv, Mutex!GatesExact, Mutex!Shut
    <3>2. chain'[n + 1].owner = c
      BY <1>3
    <3>3. CASE i \in 1..n /\ j = n + 1
      BY <1>3, <2>2, <2>3, <3>2, <3>3
    <3>4. CASE i = n + 1 /\ j \in 1..n
      BY <1>3, <2>2, <2>3, <3>2, <3>4
    <3> QED
      BY <1>3, <3>1, <3>3, <3>4
  <2> QED
    BY <1>3, <2>1, <2>3 DEF Mutex!GatesExact, Mutex!Shut, Callers
<1>12. HolderFirst'
  <2> SUFFICES ASSUME NEW d \in Callers, mutex'[d] = "holding"
               PROVE  (Mutex!Turn(d))'
    BY DEF HolderFirst
  <2>1. mutex[d] = "holding"
    BY <1>1
  <2>2. PICK j \in 1..n : Mutex!IsGate(j, d) /\ \A k \in 1..j - 1 : chain[k].open
    BY <2>1 DEF MutexInv, HolderFirst, Mutex!Turn
  <2>3. \A k \in 1..j - 1 : k \in 1..n
    BY <1>1, <2>2
  <2>4. \A k \in 1..j - 1 : chain'[k].open
    BY <1>3, <2>2, <2>3
  <2> QED
    BY <1>3, <1>8, <2>2, <2>4 DEF Mutex!Turn
<1> QED
  BY <1>6, <1>7, <1>11, <1>12 DEF MutexInv

(* A grant, which waits for every gate before the caller's own, keeps the mutex's invariant. *)
LEMMA GrantKeepsMutex ==
  ASSUME MutexInv, NEW c \in Callers, Mutex!Grant(c)
  PROVE  MutexInv'
<1>1. /\ mutex \in [Callers -> Mutex!States] /\ mutex[c] = "waiting" /\ Mutex!Turn(c)
      /\ mutex' = [mutex EXCEPT ![c] = "holding"] /\ UNCHANGED <<chain, locked>>
  BY DEF MutexInv, Mutex!TypeOK, Mutex!Grant, Callers
<1>2. Pending' = Pending
  BY <1>1 DEF Pending, Mutex!States
<1>3. Mutex!TypeOK'
  BY <1>1 DEF MutexInv, Mutex!TypeOK, Mutex!States, Mutex!Gates, Callers
<1>4. Mutex!PendingExact'
  BY <1>1, <1>2, MutexCardinality DEF MutexInv, Mutex!PendingExact, Pending, Callers
<1>5. \A d \in Callers : mutex'[d] # "idle" <=> mutex[d] # "idle"
  BY <1>1
<1>6. Mutex!GatesExact'
  BY <1>1, <1>5 DEF MutexInv, Mutex!GatesExact, Mutex!IsGate, Mutex!Shut, Callers
<1>7. \A d \in Callers : (Mutex!Turn(d))' <=> Mutex!Turn(d)
  BY <1>1 DEF Mutex!Turn, Mutex!IsGate, Mutex!Shut
<1>8. HolderFirst'
  BY <1>1, <1>7 DEF MutexInv, HolderFirst
<1> QED
  BY <1>3, <1>4, <1>6, <1>8 DEF MutexInv

(* Every step of the mutex keeps its invariant. *)
LEMMA MutexKept ==
  ASSUME MutexInv, [Mutex!Next]_mutexVars
  PROVE  MutexInv'
<1>1. CASE UNCHANGED mutexVars
  BY <1>1 DEF MutexInv, mutexVars, Mutex!TypeOK, Mutex!PendingExact, Mutex!GatesExact, HolderFirst,
    Mutex!Turn, Mutex!IsGate, Mutex!Shut
<1>2. ASSUME NEW c \in Callers, Mutex!Abort(c) \/ Mutex!Unlock(c) PROVE MutexInv'
  BY <1>2, ReleaseKeepsMutex DEF Mutex!Abort, Mutex!Unlock
<1>3. CASE Mutex!Next
  BY <1>2, <1>3, AcquireKeepsMutex, GrantKeepsMutex DEF Mutex!Next, Callers
<1> QED
  BY <1>1, <1>3

(* Two callers cannot both hold the mutex: the later one's gate would have an open one before
   it. *)
LEMMA OneHolder ==
  ASSUME MutexInv
  PROVE  Mutex!MutualExclusion
<1> SUFFICES ASSUME NEW c \in Callers, NEW d \in Callers, mutex[c] = "holding", mutex[d] = "holding"
             PROVE  c = d
  BY DEF Mutex!MutualExclusion, Callers
<1>1. PICK i \in 1..Len(chain) : Mutex!IsGate(i, c) /\ \A k \in 1..i - 1 : chain[k].open
  BY DEF MutexInv, HolderFirst, Mutex!Turn
<1>2. PICK j \in 1..Len(chain) : Mutex!IsGate(j, d) /\ \A k \in 1..j - 1 : chain[k].open
  BY DEF MutexInv, HolderFirst, Mutex!Turn
<1>3. ~(i < j) /\ ~(j < i)
  BY <1>1, <1>2 DEF Mutex!IsGate, Mutex!Shut
<1> QED
  BY <1>1, <1>2, <1>3 DEF Mutex!IsGate

(* A caller who is granted the mutex has its gate before that of everybody who still waits. *)
LEMMA MutexInOrder ==
  ASSUME MutexInv, [Mutex!Next]_mutexVars, NEW c \in Callers, NEW d \in Callers,
         mutex[c] = "waiting", mutex'[c] = "holding", mutex[d] # "idle", c # d
  PROVE  \E i, j \in 1..Len(chain) : i < j /\ Mutex!IsGate(i, c) /\ Mutex!IsGate(j, d)
<1>1. mutex \in [Callers -> Mutex!States]
  BY DEF MutexInv, Mutex!TypeOK, Callers
<1>2. Mutex!Grant(c)
  <2>1. ~UNCHANGED mutexVars
    BY DEF mutexVars
  <2>2. PICK e \in Callers : Mutex!Acquire(e) \/ Mutex!Grant(e) \/ Mutex!Abort(e) \/ Mutex!Unlock(e)
    BY <2>1 DEF Mutex!Next, Callers
  <2> QED
    BY <1>1, <2>2 DEF Mutex!Acquire, Mutex!Grant, Mutex!Abort, Mutex!Unlock
<1>3. PICK i \in 1..Len(chain) : Mutex!IsGate(i, c) /\ \A k \in 1..i - 1 : chain[k].open
  BY <1>2 DEF Mutex!Grant, Mutex!Turn
<1>4. PICK j \in 1..Len(chain) : Mutex!IsGate(j, d)
  BY DEF MutexInv, Mutex!GatesExact, Callers
<1>5. i # j /\ ~(j < i)
  BY <1>3, <1>4 DEF Mutex!IsGate, Mutex!Shut
<1> QED
  BY <1>3, <1>4, <1>5

-----------------------------------------------------------------------------
(***************************************************************************)
(* Steps of the gateway are steps of its pool and of its mutex.            *)
(***************************************************************************)

(* Every step of the gateway is a step of its pool or leaves it alone. *)
LEMMA PoolMoves ==
  ASSUME [Next]_vars
  PROVE  [Pool!Next]_poolVars
<1> USE DEF Pool!Next
<1>1. CASE UNCHANGED vars
  BY <1>1 DEF vars
<1>2. CASE DriverStep
  BY <1>2 DEF DriverStep, Top, TopClosed, Terminate, Woken, Locked, Turn, TaskEnds, Tasked, Admit, Group,
    Work, MixedDone, MixedFails, Prepared, PreparationCollapses, Decode, Decoded, Rest, Yielded, Ended
<1>3. ASSUME NEW r \in Requests, RequestStep(r) PROVE [Pool!Next]_poolVars
  BY <1>3 DEF RequestStep, Run, Submit, NotSubmitted, Finish, AbortRequest
<1>4. ASSUME NEW x \in Leasers, LeaserStep(x) PROVE [Pool!Next]_poolVars
  BY <1>4 DEF LeaserStep, AcquireLease, LeaseGranted, AbortLease, LeaseRejected, DisposeLease
<1>5. ASSUME NEW t \in Tasks, TaskStep(t) PROVE [Pool!Next]_poolVars
  BY <1>5 DEF TaskStep, RunPreparation, AbortTask
<1>6. CASE CloseStep
  BY <1>6 DEF CloseStep, Close, DriverStopped, ClosedIdle
<1> QED
  BY <1>1, <1>2, <1>3, <1>4, <1>5, <1>6 DEF Next, OthersStep

(* Every step of the gateway is a step of its mutex or leaves it alone. *)
LEMMA MutexMoves ==
  ASSUME [Next]_vars
  PROVE  [Mutex!Next]_mutexVars
<1> USE DEF Mutex!Next
<1>1. CASE UNCHANGED vars
  BY <1>1 DEF vars
<1>2. CASE DriverStep
  BY <1>2 DEF DriverStep, Top, TopClosed, Terminate, ReleaseExecution, Woken, Locked, Turn, TaskEnds, Tasked,
    Admit, Group, Work, MixedDone, MixedFails, Prepared, PreparationCollapses, Decode, Decoded, Rest,
    Yielded, Ended
<1>3. ASSUME NEW r \in Requests, RequestStep(r) PROVE [Mutex!Next]_mutexVars
  BY <1>3 DEF RequestStep, Run, Submit, NotSubmitted, Finish, AbortRequest
<1>4. ASSUME NEW x \in Leasers, LeaserStep(x) PROVE [Mutex!Next]_mutexVars
  BY <1>4 DEF LeaserStep, AcquireLease, LeaseGranted, AbortLease, LeaseRejected, DisposeLease
<1>5. ASSUME NEW t \in Tasks, TaskStep(t) PROVE [Mutex!Next]_mutexVars
  BY <1>5 DEF TaskStep, RunPreparation, AbortTask
<1>6. CASE CloseStep
  BY <1>6 DEF CloseStep, Close, DriverStopped, ClosedIdle
<1> QED
  BY <1>1, <1>2, <1>3, <1>4, <1>5, <1>6 DEF Next, OthersStep

-----------------------------------------------------------------------------
(***************************************************************************)
(* The invariant.                                                          *)
(***************************************************************************)

Live == {"queued", "preparing", "running"}

RowTypes ==
  /\ stage \in [Requests -> Stages] /\ left \in [Requests -> 1..(Chunks + Tokens)]
  /\ queue \in Seq(Requests) /\ prefill \subseteq Requests /\ running \subseteq Requests

(* A request is where its stage says, and has its reservation until its end.   *)
StagesMatch ==
  /\ Distinct(queue)
  /\ \A r \in Requests :
       /\ stage[r] = "queued" <=> r \in Members(queue)
       /\ stage[r] = "preparing" <=> r \in prefill
       /\ stage[r] = "running" <=> r \in running
       /\ stage[r] \in Live \cup {"settled"} => pool[r] = "holding"

(* A row in the queue has all its work left, one in preparation its answer.    *)
WorkLeft ==
  \A r \in Requests : /\ stage[r] \in {"idle", "queued"} => left[r] = Chunks + Tokens
                      /\ stage[r] = "preparing" => left[r] > Tokens

RowInv == RowTypes /\ StagesMatch /\ WorkLeft

ContextType == context \in {Key[r] : r \in Requests} \cup {NoKey}

TaskTypes ==
  /\ tasks \in Seq(Tasks) /\ task \in [Tasks -> {"idle", "queued", "running", "done"}]

Counted == {x \in Leasers : leaser[x] \in {"waiting", "holding", "rejected"}}

(* A caller waits for the mutex, or holds it, exactly when its lease does.     *)
LeasersMatch ==
  \A x \in Leasers : /\ leaser[x] = "waiting" <=> mutex[x] = "waiting"
                     /\ leaser[x] = "holding" <=> mutex[x] = "holding"

LeaseInv ==
  /\ leaser \in [Leasers -> {"idle", "waiting", "holding", "rejected", "done"}]
  /\ exclusiveWaiters = Cardinality(Counted) /\ LeasersMatch

AtRest == {"none", "waiting", "ending"}
Labels == Awaits \cup {"top", "turn", "tasked", "admit", "group", "work", "decode", "rest"}

(* The driver has the execution lease whenever it works, and gives it up to    *)
(* rest only without rows.                                                     *)
DriverLease ==
  /\ mutex[Driver] = "waiting" <=> pc = "locking"
  /\ pc \in AtRest => mutex[Driver] = "idle"
  /\ pc \notin AtRest \cup {"locking", "top"} => mutex[Driver] = "holding"
  /\ running # {} \/ prefill # {} => mutex[Driver] = "holding"

TaskRuns == \A t \in Tasks : task[t] = "running" => pc = "task"

SchedulerMade ==
  /\ pc # "none" => created
  /\ \A r \in Requests : stage[r] \in Live => created

FlagTypes ==
  /\ pc \in Labels /\ woken \in BOOLEAN /\ held \in BOOLEAN
  /\ created \in BOOLEAN /\ groupClosed \in BOOLEAN
  /\ closer \in {"open", "stopping", "idling", "closed"} /\ aborted \subseteq Aborting

IInv ==
  /\ PoolInv /\ MutexInv /\ RowInv /\ ContextType /\ TaskTypes /\ LeaseInv
  /\ DriverLease /\ TaskRuns /\ SchedulerMade /\ FlagTypes /\ NoLostWakeup /\ BatchIsSound

-----------------------------------------------------------------------------
(***************************************************************************)
(* Rows.                                                                   *)
(***************************************************************************)

(* A reservation goes back by its own disposal and by nothing else.            *)
LEMMA HoldingStays ==
  ASSUME PoolInv, [Pool!Next]_poolVars, NEW r \in Requests, pool[r] = "holding", ~Pool!Dispose(r)
  PROVE  pool'[r] = "holding"
<1>1. pool \in [Requests -> Pool!States]
  BY DEF PoolInv, Pool!TypeOK
<1>2. CASE UNCHANGED poolVars
  BY <1>2 DEF poolVars
<1>3. CASE Pool!Close
  BY <1>1, <1>3 DEF Pool!Close
<1>4. ASSUME NEW c \in Requests, Pool!Grant(c) \/ Pool!Enqueue(c) \/ Pool!Cancel(c)
      PROVE  pool'[r] = "holding"
  BY <1>1, <1>4 DEF Pool!Grant, Pool!Enqueue, Pool!Cancel
<1>5. ASSUME NEW c \in Requests, Pool!Dispose(c)
      PROVE  pool'[r] = "holding"
  <2>1. c # r
    BY <1>5
  <2> QED
    BY <1>1, <1>5, <2>1 DEF Pool!Dispose
<1> QED
  BY <1>2, <1>3, <1>4, <1>5 DEF Pool!Next

(* A unit of work by rows in preparation P and decoding rows D.                *)
Worked ==
  \E P \in SUBSET prefill, D \in SUBSET running :
    \E J \in SUBSET P : \E F \in SUBSET ((P \cup D) \ J) : UnitOfWork(P, D, J, F)

(* What any step does to the rows.                                             *)
RowsRest == UNCHANGED rowVars /\ \A r \in Requests : pool[r] = "holding" => pool'[r] = "holding"
RowsFail == FailAll /\ UNCHANGED <<poolVars, left>> /\ context' \in {context, NoKey}
RowsPruned ==
  /\ PruneCancelled /\ UNCHANGED <<poolVars, left, prefill, running>>
  /\ UNCHANGED context \/ (Rows = {} /\ context' = NoKey)
RowsAdmitted == queue # <<>> /\ AdmitNext /\ UNCHANGED poolVars
RowsWorked == Worked /\ UNCHANGED poolVars

(* What a step of the driver may do to the rows: nothing, or fail, prune, admit or work on
   them. *)
LEMMA DriverRows ==
  ASSUME DriverStep, RowTypes, DriverLease
  PROVE  \/ UNCHANGED <<poolVars, rowVars>>
         \/ RowsFail \/ RowsPruned \/ RowsAdmitted \/ RowsWorked
<1> USE DEF rowVars
<1>1. CASE Woken \/ Locked \/ Turn \/ TaskEnds \/ Work \/ Decode \/ Rest \/ Yielded \/ Ended
  BY <1>1 DEF Woken, Locked, Turn, TaskEnds, Work, Decode, Rest, Yielded, Ended
<1>2. CASE TopClosed \/ MixedFails \/ PreparationCollapses
  BY <1>2 DEF TopClosed, MixedFails, Terminate, ReleaseExecution, PreparationCollapses, RowsFail
<1>3. CASE Top \/ Tasked
  BY <1>3 DEF Top, Tasked, Idle, ReleaseExecution, RowsPruned
<1>4. CASE Admit \/ Group
  BY <1>4 DEF Admit, Group, RowsAdmitted
<1>5. CASE MixedDone
  <2>1. PICK J \in SUBSET prefill : \E F \in SUBSET (Rows \ J) : UnitOfWork(prefill, running, J, F)
    BY <1>5 DEF MixedDone
  <2>2. Rows \ J = (prefill \cup running) \ J
    BY DEF Rows
  <2> QED
    BY <1>5, <2>1, <2>2 DEF MixedDone, RowsWorked, Worked
<1>6. CASE Prepared
  <2>1. PICK J \in SUBSET prefill : \E F \in SUBSET (prefill \ J) : UnitOfWork(prefill, {}, J, F)
    BY <1>6 DEF Prepared
  <2>2. prefill \ J = (prefill \cup {}) \ J /\ {} \in SUBSET running
    OBVIOUS
  <2> QED
    BY <1>6, <2>1, <2>2 DEF Prepared, RowsWorked, Worked
<1>7. CASE Decoded
  <2>1. PICK F \in SUBSET running : UnitOfWork({}, running, {}, F)
    BY <1>7 DEF Decoded
  <2>2. {} \in SUBSET prefill /\ {} \in SUBSET {} /\ F \in SUBSET (({} \cup running) \ {})
    OBVIOUS
  <2> QED
    BY <1>7, <2>1, <2>2 DEF Decoded, RowsWorked, Worked
<1> QED
  BY <1>1, <1>2, <1>3, <1>4, <1>5, <1>6, <1>7 DEF DriverStep

(* What any step may do to the rows: what the driver may, or one call that submits, gives up or
   ends. *)
LEMMA RowSteps ==
  ASSUME IInv, [Next]_vars
  PROVE  \/ RowsRest \/ RowsFail \/ RowsPruned \/ RowsAdmitted \/ RowsWorked
         \/ \E r \in Requests : Submit(r) \/ NotSubmitted(r) \/ Finish(r)
<1>1. ASSUME UNCHANGED rowVars, \A r \in Requests : pool[r] = "holding" => ~Pool!Dispose(r)
      PROVE  RowsRest
  BY <1>1, PoolMoves, HoldingStays DEF RowsRest, IInv
<1>2. ASSUME UNCHANGED <<poolVars, rowVars>> PROVE RowsRest
  BY <1>2 DEF RowsRest, poolVars
<1>3. CASE UNCHANGED vars
  BY <1>2, <1>3 DEF vars
<1>4. CASE DriverStep
  BY <1>2, <1>4, DriverRows DEF IInv, RowInv
<1>5. ASSUME NEW r \in Requests, Run(r) \/ AbortRequest(r) PROVE RowsRest
  <2>1. pool \in [Requests -> Pool!States] /\ UNCHANGED rowVars
    BY <1>5 DEF IInv, PoolInv, Pool!TypeOK, Run, AbortRequest
  <2>2. CASE UNCHANGED poolVars
    BY <1>2, <2>1, <2>2
  <2>3. CASE Pool!Grant(r) \/ Pool!Enqueue(r) \/ Pool!Cancel(r)
    BY <2>1, <2>3 DEF RowsRest, Pool!Grant, Pool!Enqueue, Pool!Cancel
  <2> QED
    BY <1>5, <2>2, <2>3 DEF Run, AbortRequest
<1>6. ASSUME NEW x \in Leasers, LeaserStep(x) PROVE RowsRest
  BY <1>2, <1>6 DEF LeaserStep, AcquireLease, LeaseGranted, AbortLease, LeaseRejected, DisposeLease
<1>7. ASSUME NEW t \in Tasks, TaskStep(t) PROVE RowsRest
  BY <1>2, <1>7 DEF TaskStep, RunPreparation, AbortTask
<1>8. CASE CloseStep
  <2>1. CASE DriverStopped \/ ClosedIdle
    BY <1>2, <2>1 DEF DriverStopped, ClosedIdle
  <2>2. CASE Close
    BY <2>2 DEF Close, RowsRest, Pool!Close
  <2> QED
    BY <1>8, <2>1, <2>2 DEF CloseStep
<1> QED
  BY <1>3, <1>4, <1>5, <1>6, <1>7, <1>8 DEF Next, OthersStep, RequestStep

(* Rows that are settled, and leave the queue, the preparation or the batch.   *)
LEMMA SettledIs ==
  ASSUME stage \in [Requests -> Stages], NEW S
  PROVE  /\ Settled(S) \in [Requests -> Stages]
         /\ \A r \in Requests : Settled(S)[r] = IF r \in S THEN "settled" ELSE stage[r]
BY DEF Settled, Stages

(* A step that leaves the rows alone keeps them accounted for. *)
LEMMA RestKeepsRows ==
  ASSUME RowInv, RowsRest
  PROVE  RowInv'
<1>1. /\ UNCHANGED <<stage, left, queue, prefill, running>>
      /\ \A r \in Requests : pool[r] = "holding" => pool'[r] = "holding"
  BY DEF RowsRest, rowVars
<1>2. Members(queue') = Members(queue) /\ Distinct(queue') = Distinct(queue)
  BY <1>1
<1>3. RowTypes' /\ WorkLeft'
  BY <1>1 DEF RowInv, RowTypes, WorkLeft
<1>4. StagesMatch'
  BY <1>1, <1>2 DEF RowInv, StagesMatch
<1> QED
  BY <1>3, <1>4 DEF RowInv

(* failAll, which settles every row, keeps them accounted for. *)
LEMMA FailKeepsRows ==
  ASSUME RowInv, RowsFail
  PROVE  RowInv'
<1>1. /\ stage' = Settled(Queued \cup Rows) /\ queue' = <<>> /\ running' = {} /\ prefill' = {}
      /\ UNCHANGED <<pool, left>> /\ stage \in [Requests -> Stages]
  BY DEF RowInv, RowTypes, RowsFail, FailAll, poolVars
<1>2. queue' \in Seq(Requests) /\ Members(queue') = {} /\ Distinct(queue')
  BY <1>1, EmptyMembers
<1>3. \A r \in Requests : stage'[r] \notin Live /\ (stage'[r] = "settled" => pool'[r] = "holding")
                           /\ (stage'[r] = "idle" => stage[r] = "idle")
  <2> SUFFICES ASSUME NEW r \in Requests
               PROVE  /\ stage'[r] \notin Live /\ (stage'[r] = "settled" => pool'[r] = "holding")
                      /\ (stage'[r] = "idle" => stage[r] = "idle")
    OBVIOUS
  <2>1. stage'[r] = IF r \in Queued \cup Rows THEN "settled" ELSE stage[r]
    BY <1>1, SettledIs
  <2>2. r \in Queued \cup Rows <=> stage[r] \in Live
    BY DEF RowInv, StagesMatch, Queued, Members, Rows, Live
  <2>3. stage[r] \in Live \cup {"settled"} => pool'[r] = "holding"
    BY <1>1 DEF RowInv, StagesMatch
  <2> QED
    BY <2>1, <2>2, <2>3 DEF Live
<1>4. RowTypes'
  BY <1>1, <1>2, SettledIs DEF RowInv, RowTypes
<1>5. StagesMatch'
  BY <1>1, <1>2, <1>3 DEF StagesMatch, Live
<1>6. WorkLeft'
  BY <1>1, <1>3 DEF RowInv, WorkLeft, Live
<1> QED
  BY <1>4, <1>5, <1>6 DEF RowInv

(* Dropping aborted rows from the queue, each settled, keeps the rows accounted for. *)
LEMMA PruneKeepsRows ==
  ASSUME RowInv, RowsPruned
  PROVE  RowInv'
<1>1. /\ stage' = Settled(Queued \cap aborted) /\ queue' = Without(queue, aborted)
      /\ UNCHANGED <<pool, left, prefill, running>> /\ stage \in [Requests -> Stages]
  BY DEF RowInv, RowTypes, RowsPruned, PruneCancelled, poolVars
<1>2. queue' \in Seq(Requests) /\ Members(queue') = Members(queue) \ aborted /\ Distinct(queue')
  BY <1>1, WithoutMembers DEF RowInv, RowTypes, StagesMatch
<1>3. \A r \in Requests : stage'[r] = IF r \in Members(queue) /\ r \in aborted THEN "settled" ELSE stage[r]
  <2>1. Queued = Members(queue)
    BY DEF Queued, Members
  <2> QED
    BY <1>1, <2>1, SettledIs
<1>4. RowTypes'
  BY <1>1, <1>2, SettledIs DEF RowInv, RowTypes
<1>5. StagesMatch'
  BY <1>1, <1>2, <1>3 DEF RowInv, StagesMatch, Live
<1>6. WorkLeft'
  BY <1>1, <1>3 DEF RowInv, WorkLeft
<1> QED
  BY <1>4, <1>5, <1>6 DEF RowInv

(* Moving rows from the queue into preparation keeps the rows accounted for. *)
LEMMA AdmitKeepsRows ==
  ASSUME RowInv, RowsAdmitted
  PROVE  RowInv'
<1> DEFINE r == Head(queue)
<1>1. /\ stage \in [Requests -> Stages] /\ left \in [Requests -> 1..(Chunks + Tokens)]
      /\ queue \in Seq(Requests) /\ queue # <<>> /\ Distinct(queue) /\ UNCHANGED pool
      /\ prefill \subseteq Requests /\ running \subseteq Requests
  BY DEF RowInv, RowTypes, StagesMatch, RowsAdmitted, poolVars
<1>2. /\ r \in Requests /\ r \in Members(queue) /\ Tail(queue) \in Seq(Requests) /\ Distinct(Tail(queue))
      /\ Members(Tail(queue)) = Members(queue) \ {r}
  BY <1>1, TailMembers
<1>3. stage[r] = "queued" /\ left[r] = Chunks + Tokens
  <2> HIDE DEF r
  <2>1. stage[r] = "queued"
    BY <1>2 DEF RowInv, StagesMatch
  <2> QED
    BY <1>2, <2>1 DEF RowInv, WorkLeft
<1>4. CASE UNCHANGED rowVars
  BY <1>1, <1>4 DEF RowInv, rowVars, RowTypes, StagesMatch, WorkLeft, Distinct, Members
<1>5. CASE queue' = Tail(queue) /\ stage' = Settled({r}) /\ UNCHANGED <<left, prefill, running>>
  <2>1. \A d \in Requests : stage'[d] = IF d = r THEN "settled" ELSE stage[d]
    BY <1>1, <1>5, SettledIs
  <2>2. RowTypes'
    BY <1>1, <1>2, <1>5, SettledIs DEF RowTypes
  <2>3. StagesMatch'
    BY <1>1, <1>2, <1>3, <1>5, <2>1 DEF RowInv, StagesMatch, Live
  <2>4. WorkLeft'
    BY <1>5, <2>1 DEF RowInv, WorkLeft
  <2> QED
    BY <2>2, <2>3, <2>4 DEF RowInv
<1>6. CASE /\ queue' = Tail(queue) /\ prefill' = prefill \cup {r} /\ stage' = [stage EXCEPT ![r] = "preparing"]
           /\ UNCHANGED <<left, running>>
  <2>1. \A d \in Requests : stage'[d] = IF d = r THEN "preparing" ELSE stage[d]
    BY <1>1, <1>6
  <2>2. RowTypes'
    BY <1>1, <1>2, <1>6 DEF RowTypes, Stages
  <2>3. StagesMatch'
    BY <1>1, <1>2, <1>3, <1>6, <2>1 DEF RowInv, StagesMatch, Live
  <2>4. WorkLeft'
    <3>1. Chunks + Tokens > Tokens
      OBVIOUS
    <3> QED
      BY <1>3, <1>6, <2>1, <3>1 DEF RowInv, WorkLeft
  <2> QED
    BY <2>2, <2>3, <2>4 DEF RowInv
<1> HIDE DEF r
<1> QED
  BY <1>4, <1>5, <1>6 DEF RowsAdmitted, AdmitNext, r, rowVars

(* A unit of work, in which rows join the batch, end or fail, keeps the rows accounted for. *)
LEMMA WorkKeepsRows ==
  ASSUME RowInv, RowsWorked
  PROVE  RowInv'
<1>1. PICK P \in SUBSET prefill, D \in SUBSET running :
        \E J \in SUBSET P : \E F \in SUBSET ((P \cup D) \ J) : UnitOfWork(P, D, J, F)
  BY DEF RowsWorked, Worked
<1>2. PICK J \in SUBSET P : \E F \in SUBSET ((P \cup D) \ J) : UnitOfWork(P, D, J, F)
  BY <1>1
<1>3. PICK F \in SUBSET ((P \cup D) \ J) : UnitOfWork(P, D, J, F)
  BY <1>2
<1>4. /\ \A r \in P : left[r] = Tokens + 1 => r \in J \cup F
      /\ \A r \in D : left[r] = 1 => r \in F
      /\ prefill' = prefill \ (J \cup F) /\ running' = (running \cup J) \ F
      /\ stage' = [r \in Requests |-> IF r \in F THEN "settled" ELSE IF r \in J THEN "running" ELSE stage[r]]
      /\ left' = [r \in Requests |-> IF r \in J THEN Tokens
                                     ELSE IF r \in (P \cup D) \ F THEN left[r] - 1 ELSE left[r]]
      /\ UNCHANGED <<queue, pool>>
  BY <1>3 DEF UnitOfWork, RowsWorked, poolVars
<1>5. /\ stage \in [Requests -> Stages] /\ left \in [Requests -> 1..(Chunks + Tokens)]
      /\ queue \in Seq(Requests) /\ prefill \subseteq Requests /\ running \subseteq Requests
  BY DEF RowInv, RowTypes
<1>6. /\ \A r \in P : stage[r] = "preparing" /\ left[r] > Tokens
      /\ \A r \in D : stage[r] = "running"
  BY <1>5 DEF RowInv, StagesMatch, WorkLeft
<1>7. \A r \in Requests : /\ stage'[r] = IF r \in F THEN "settled" ELSE IF r \in J THEN "running" ELSE stage[r]
                          /\ left'[r] = IF r \in J THEN Tokens
                                        ELSE IF r \in (P \cup D) \ F THEN left[r] - 1 ELSE left[r]
  BY <1>4
<1>8. Tokens \in 1..(Chunks + Tokens) /\ Tokens \in Nat /\ Chunks + Tokens \in Nat
  OBVIOUS
<1>9. RowTypes'
  <2>1. stage' \in [Requests -> Stages]
    BY <1>4, <1>5 DEF Stages
  <2>2. ASSUME NEW r \in Requests PROVE left'[r] \in 1..(Chunks + Tokens)
    <3>1. left[r] \in 1..(Chunks + Tokens)
      BY <1>5
    <3>2. CASE r \in J
      BY <1>7, <1>8, <3>2
    <3>3. CASE r \notin J /\ r \in P \ F
      <4>1. left[r] > Tokens /\ left'[r] = left[r] - 1
        BY <1>6, <1>7, <3>3
      <4> QED
        BY <1>8, <3>1, <4>1
    <3>4. CASE r \notin J /\ r \in D \ F
      <4>1. left[r] # 1 /\ left'[r] = left[r] - 1
        BY <1>4, <1>7, <3>4
      <4> QED
        BY <1>8, <3>1, <4>1
    <3>5. CASE r \notin J /\ r \notin (P \cup D) \ F
      BY <1>7, <3>1, <3>5
    <3> QED
      BY <3>2, <3>3, <3>4, <3>5
  <2>3. left' \in [Requests -> 1..(Chunks + Tokens)]
    BY <1>4, <2>2
  <2> QED
    BY <1>4, <1>5, <2>1, <2>3 DEF RowTypes
<1>10. StagesMatch'
  <2>1. ASSUME NEW r \in Requests
        PROVE  /\ stage'[r] = "queued" <=> r \in Members(queue)
               /\ stage'[r] = "preparing" <=> r \in prefill'
               /\ stage'[r] = "running" <=> r \in running'
               /\ stage'[r] \in Live \cup {"settled"} => pool[r] = "holding"
    <3>1. /\ stage[r] = "queued" <=> r \in Members(queue)
          /\ stage[r] = "preparing" <=> r \in prefill
          /\ stage[r] = "running" <=> r \in running
          /\ stage[r] \in Live \cup {"settled"} => pool[r] = "holding"
      BY DEF RowInv, StagesMatch
    <3>2. r \in F => stage[r] \in {"preparing", "running"} /\ r \notin J
      BY <1>6
    <3>3. r \in J => stage[r] = "preparing"
      BY <1>6
    <3> QED
      BY <1>4, <1>7, <3>1, <3>2, <3>3 DEF Live
  <2> QED
    BY <1>4, <2>1 DEF RowInv, StagesMatch, Distinct, Members
<1>11. WorkLeft'
  <2> SUFFICES ASSUME NEW r \in Requests
               PROVE  /\ stage'[r] \in {"idle", "queued"} => left'[r] = Chunks + Tokens
                      /\ stage'[r] = "preparing" => left'[r] > Tokens
    BY DEF WorkLeft
  <2>1. /\ stage[r] \in {"idle", "queued"} => left[r] = Chunks + Tokens
        /\ stage[r] = "preparing" => left[r] > Tokens
    BY DEF RowInv, WorkLeft
  <2>2. stage'[r] \in {"idle", "queued"} => r \notin P \cup D /\ r \notin J /\ stage'[r] = stage[r]
    BY <1>6, <1>7
  <2>3. ASSUME stage'[r] = "preparing" PROVE left'[r] > Tokens
    <3>1. r \notin F /\ r \notin J /\ stage[r] = "preparing" /\ r \notin D
      BY <1>6, <1>7, <2>3
    <3>2. left[r] \in 1..(Chunks + Tokens) /\ left[r] > Tokens
      BY <1>5, <2>1, <3>1
    <3>3. CASE r \in P
      <4>1. left[r] # Tokens + 1 /\ left'[r] = left[r] - 1
        BY <1>4, <1>7, <3>1, <3>3
      <4> QED
        BY <1>8, <3>2, <4>1
    <3>4. CASE r \notin P
      BY <1>7, <3>1, <3>2, <3>4
    <3> QED
      BY <3>3, <3>4
  <2> QED
    BY <1>7, <2>1, <2>2, <2>3
<1> QED
  BY <1>9, <1>10, <1>11 DEF RowInv

(* A submission, one given up and one whose caller goes on keep the rows accounted for. *)
LEMMA CallsKeepRows ==
  ASSUME IInv, NEW r \in Requests, Submit(r) \/ NotSubmitted(r) \/ Finish(r)
  PROVE  RowInv'
<1>1. /\ stage \in [Requests -> Stages] /\ left \in [Requests -> 1..(Chunks + Tokens)]
      /\ queue \in Seq(Requests) /\ Distinct(queue) /\ UNCHANGED <<left, prefill, running>>
      /\ prefill \subseteq Requests /\ running \subseteq Requests
  BY DEF IInv, RowInv, RowTypes, StagesMatch, Submit, NotSubmitted, Finish
<1>2. CASE stage' = Settled({r}) /\ UNCHANGED <<pool, queue>> /\ pool[r] = "holding" /\ stage[r] = "idle"
  <2>1. \A d \in Requests : stage'[d] = IF d = r THEN "settled" ELSE stage[d]
    BY <1>1, <1>2, SettledIs
  <2>2. RowTypes'
    BY <1>1, <1>2, SettledIs DEF RowTypes
  <2>3. StagesMatch'
    <3>1. Members(queue') = Members(queue) /\ Distinct(queue')
      BY <1>1, <1>2
    <3> QED
      BY <1>1, <1>2, <2>1, <3>1 DEF IInv, RowInv, StagesMatch, Live
  <2>4. WorkLeft'
    BY <1>1, <2>1 DEF IInv, RowInv, WorkLeft
  <2> QED
    BY <2>2, <2>3, <2>4 DEF RowInv
<1>3. CASE /\ stage' = [stage EXCEPT ![r] = "queued"] /\ queue' = Append(queue, r)
           /\ UNCHANGED pool /\ pool[r] = "holding" /\ stage[r] = "idle"
  <2>1. \A d \in Requests : stage'[d] = IF d = r THEN "queued" ELSE stage[d]
    BY <1>1, <1>3
  <2>2. r \notin Members(queue)
    BY <1>3 DEF IInv, RowInv, StagesMatch
  <2>3. queue' \in Seq(Requests) /\ Members(queue') = Members(queue) \cup {r} /\ Distinct(queue')
    BY <1>1, <1>3, <2>2, AppendMembers
  <2>4. RowTypes'
    BY <1>1, <1>3, <2>3 DEF RowTypes, Stages
  <2>5. StagesMatch'
    BY <1>1, <1>3, <2>1, <2>3 DEF IInv, RowInv, StagesMatch, Live
  <2>6. WorkLeft'
    BY <1>1, <1>3, <2>1 DEF IInv, RowInv, WorkLeft
  <2> QED
    BY <2>4, <2>5, <2>6 DEF RowInv
<1>4. CASE Finish(r)
  <2>1. stage[r] = "settled" /\ stage' = [stage EXCEPT ![r] = "done"] /\ Pool!Dispose(r) /\ UNCHANGED queue
    BY <1>4 DEF Finish
  <2>2. \A d \in Requests : stage'[d] = IF d = r THEN "done" ELSE stage[d]
    BY <1>1, <2>1
  <2>3. \A d \in Requests : d # r /\ pool[d] = "holding" => pool'[d] = "holding"
    <3>1. pool \in [Requests -> Pool!States]
      BY DEF IInv, PoolInv, Pool!TypeOK
    <3> QED
      BY <2>1, <3>1 DEF Pool!Dispose
  <2>4. RowTypes'
    BY <1>1, <2>1 DEF RowTypes, Stages
  <2>5. StagesMatch'
    BY <1>1, <2>1, <2>2, <2>3 DEF IInv, RowInv, StagesMatch, Live, Members, Distinct
  <2>6. WorkLeft'
    BY <1>1, <2>2 DEF IInv, RowInv, WorkLeft
  <2> QED
    BY <2>4, <2>5, <2>6 DEF RowInv
<1> QED
  BY <1>2, <1>3, <1>4 DEF Submit, NotSubmitted, poolVars

(* Every step keeps the rows accounted for. *)
LEMMA RowsKept ==
  ASSUME IInv, [Next]_vars
  PROVE  RowInv'
<1>1. RowInv
  BY DEF IInv
<1> QED
  BY <1>1, RowSteps, RestKeepsRows, FailKeepsRows, PruneKeepsRows, AdmitKeepsRows, WorkKeepsRows, CallsKeepRows

-----------------------------------------------------------------------------
(***************************************************************************)
(* The batch: one context, and a projected KV within the budget.           *)
(***************************************************************************)

(* The admitted rows are finitely many requests, and their projected bytes a natural number. *)
LEMMA RowsFinite ==
  ASSUME RowInv
  PROVE  Rows \subseteq Requests /\ IsFiniteSet(Rows) /\ KvOf(Rows) \in Nat
<1>1. Rows \subseteq Requests
  BY DEF RowInv, RowTypes, Rows
<1>2. IsFiniteSet(Rows)
  BY <1>1, FS_Subset
<1>3. \A r \in Rows : Need[r] \in Nat
  BY <1>1
<1> QED
  BY <1>1, <1>2, <1>3, SumNat DEF KvOf

(* Rows that leave, with the context as it was, take nothing from the others.  *)
LEMMA FewerRows ==
  ASSUME RowInv, BatchIsSound, Rows' \subseteq Rows, UNCHANGED context \/ Rows' = {}
  PROVE  BatchIsSound'
<1>1. OneContext'
  BY DEF BatchIsSound, OneContext
<1>2. \A r \in Rows : Need[r] \in Nat
  BY RowsFinite
<1>3. KvOf(Rows') <= KvOf(Rows) /\ KvOf(Rows') \in Nat
  <2>1. Rows' \in SUBSET Rows /\ IsFiniteSet(Rows')
    BY RowsFinite, FS_Subset
  <2>2. KvOf(Rows') <= KvOf(Rows)
    BY <1>2, <2>1, RowsFinite, SumSubset DEF KvOf
  <2>3. KvOf(Rows') \in Nat
    BY <1>2, <2>1, SumNat DEF KvOf
  <2> QED
    BY <2>2, <2>3
<1>4. KvOf(Rows) <= KvBudget
  BY DEF BatchIsSound, KvWithinBudget
<1>5. KvOf(Rows') <= KvBudget
  BY <1>3, <1>4, RowsFinite
<1> QED
  BY <1>1, <1>5 DEF BatchIsSound, KvWithinBudget, KvOf

(* A row that is admitted shares the context, and fits beside the others.      *)
LEMMA OneMoreRow ==
  ASSUME RowInv, BatchIsSound, NEW r \in Requests \ Rows, Compatible(r), Fits(r),
         Rows' = Rows \cup {r}, context' = Key[r]
  PROVE  BatchIsSound'
<1>1. OneContext'
  <2>1. \A d \in Rows : Key[d] = Key[r]
    BY DEF BatchIsSound, OneContext, Compatible
  <2> QED
    BY <2>1 DEF OneContext
<1>2. \A d \in Rows \cup {r} : Need[d] \in Nat
  BY RowsFinite
<1>3. KvOf(Rows \cup {r}) = KvOf(Rows) + Need[r]
  BY <1>2, RowsFinite, SumWith DEF KvOf
<1>4. KvOf(Rows') <= KvBudget
  BY <1>3 DEF Fits
<1> QED
  BY <1>1, <1>4 DEF BatchIsSound, KvWithinBudget, KvOf

(* Every step keeps one context for the admitted rows and their projection within the budget. *)
LEMMA BatchKept ==
  ASSUME IInv, [Next]_vars
  PROVE  BatchIsSound' /\ ContextType'
<1>1. RowInv /\ BatchIsSound /\ ContextType
  BY DEF IInv
<1>2. CASE RowsRest \/ \E r \in Requests : Submit(r) \/ NotSubmitted(r) \/ Finish(r)
  <2>1. Rows' = Rows /\ UNCHANGED context
    BY <1>2 DEF RowsRest, rowVars, Submit, NotSubmitted, Finish, Rows
  <2> QED
    BY <1>1, <2>1, FewerRows DEF ContextType
<1>3. CASE RowsFail
  <2>1. Rows' = {} /\ context' \in {context, NoKey}
    BY <1>3 DEF RowsFail, FailAll, Rows
  <2> QED
    BY <1>1, <2>1, FewerRows DEF ContextType
<1>4. CASE RowsPruned
  <2>1. Rows' = Rows /\ (UNCHANGED context \/ (Rows = {} /\ context' = NoKey))
    BY <1>4 DEF RowsPruned, Rows
  <2> QED
    BY <1>1, <2>1, FewerRows DEF ContextType
<1>5. CASE RowsAdmitted
  <2> DEFINE r == Head(queue)
  <2>1. queue \in Seq(Requests) /\ queue # <<>>
    BY <1>1, <1>5 DEF RowsAdmitted, RowInv, RowTypes
  <2>2. r \in Requests /\ r \in Members(queue)
    BY <2>1, TailMembers
  <2> HIDE DEF r
  <2>3. r \notin Rows
    BY <1>1, <2>2 DEF RowInv, StagesMatch, Rows
  <2>4. \/ UNCHANGED <<prefill, running, context>>
        \/ /\ Compatible(r) /\ UNCHANGED <<prefill, running>>
           /\ context' \in {Key[r], IF Key[r] = context THEN context ELSE NoKey}
        \/ /\ Compatible(r) /\ Fits(r) /\ prefill' = prefill \cup {r} /\ UNCHANGED running
           /\ context' = Key[r]
    BY <1>5 DEF RowsAdmitted, AdmitNext, rowVars, r
  <2>5. CASE UNCHANGED <<prefill, running, context>>
    <3>1. Rows' = Rows
      BY <2>5 DEF Rows
    <3> QED
      BY <1>1, <2>5, <3>1, FewerRows DEF ContextType
  <2>6. CASE /\ Compatible(r) /\ UNCHANGED <<prefill, running>>
             /\ context' \in {Key[r], IF Key[r] = context THEN context ELSE NoKey}
    <3>1. Rows' = Rows /\ (UNCHANGED context \/ Rows' = {})
      BY <2>6 DEF Rows, Compatible
    <3> QED
      BY <1>1, <2>2, <2>6, <3>1, FewerRows DEF ContextType
  <2>7. CASE /\ Compatible(r) /\ Fits(r) /\ prefill' = prefill \cup {r} /\ UNCHANGED running
             /\ context' = Key[r]
    <3>1. Rows' = Rows \cup {r}
      BY <2>7 DEF Rows
    <3> QED
      BY <1>1, <2>2, <2>3, <2>7, <3>1, OneMoreRow DEF ContextType
  <2> QED
    BY <2>4, <2>5, <2>6, <2>7
<1>6. CASE RowsWorked
  <2>1. PICK P \in SUBSET prefill, D \in SUBSET running :
          \E J \in SUBSET P : \E F \in SUBSET ((P \cup D) \ J) : UnitOfWork(P, D, J, F)
    BY <1>6 DEF RowsWorked, Worked
  <2>2. PICK J \in SUBSET P : \E F \in SUBSET ((P \cup D) \ J) : UnitOfWork(P, D, J, F)
    BY <2>1
  <2>3. UNCHANGED context /\ Rows' \subseteq Rows
    BY <2>2 DEF UnitOfWork, Rows
  <2> QED
    BY <1>1, <2>3, FewerRows DEF ContextType
<1> QED
  BY <1>2, <1>3, <1>4, <1>5, <1>6, RowSteps

-----------------------------------------------------------------------------
(***************************************************************************)
(* Leases.                                                                 *)
(***************************************************************************)

(* The driver and the leasers are callers of the mutex, and the driver is no leaser. *)
LEMMA CallersAre == Driver \in Callers /\ \A x \in Leasers : x \in Callers /\ x # Driver
BY DEF Callers

(* A call of the mutex moves its caller alone.                                 *)
LEMMA MutexEffect ==
  ASSUME MutexInv, NEW c \in Callers
  PROVE  /\ Mutex!Acquire(c) => mutex[c] = "idle" /\ mutex' = [mutex EXCEPT ![c] = "waiting"]
         /\ Mutex!Grant(c) => mutex[c] = "waiting" /\ mutex' = [mutex EXCEPT ![c] = "holding"]
         /\ Mutex!Abort(c) => mutex[c] = "waiting" /\ mutex' = [mutex EXCEPT ![c] = "idle"]
         /\ Mutex!Unlock(c) => mutex[c] = "holding" /\ mutex' = [mutex EXCEPT ![c] = "idle"]
         /\ mutex \in [Callers -> {"idle", "waiting", "holding"}]
BY DEF MutexInv, Mutex!TypeOK, Mutex!States, Callers, Mutex!Acquire, Mutex!Grant, Mutex!Abort, Mutex!Unlock

(* The leasers that exclusiveWaiters counts are finitely many. *)
LEMMA CountedFinite == IsFiniteSet(Counted) /\ Cardinality(Counted) \in Nat /\ Cardinality(Counted) <= Cardinality(Leasers)
<1>1. Counted \subseteq Leasers
  BY DEF Counted
<1> QED
  BY <1>1, FS_Subset, FS_CardinalityType

(* What the driver, and the callers that are not leasers, do to the mutex.     *)
LEMMA DriverMutex ==
  ASSUME DriverStep
  PROVE  /\ UNCHANGED leaseVars
         /\ UNCHANGED mutexVars \/ Mutex!Acquire(Driver) \/ Mutex!Grant(Driver) \/ Mutex!Unlock(Driver)
BY DEF DriverStep, Top, TopClosed, Terminate, ReleaseExecution, Woken, Locked, Turn, TaskEnds, Tasked,
  Admit, Group, Work, MixedDone, MixedFails, Prepared, PreparationCollapses, Decode, Decoded, Rest,
  Yielded, Ended

(* A step that is not the driver's moves the mutex and the leases only as a step of one leaser. *)
LEMMA OthersMutex ==
  ASSUME OthersStep
  PROVE  UNCHANGED <<mutexVars, leaseVars>> \/ \E x \in Leasers : LeaserStep(x)
BY DEF OthersStep, RequestStep, Run, Submit, NotSubmitted, Finish, AbortRequest, TaskStep, RunPreparation, AbortTask,
  CloseStep, Close, DriverStopped, ClosedIdle

(* A leaser that moves: its own state, its place in the mutex, the count.      *)
LEMMA LeaserKeepsLeases ==
  ASSUME IInv, NEW x \in Leasers, LeaserStep(x)
  PROVE  LeaseInv'
<1>1. /\ leaser \in [Leasers -> {"idle", "waiting", "holding", "rejected", "done"}]
      /\ exclusiveWaiters = Cardinality(Counted) /\ MutexInv
      /\ \A y \in Leasers : /\ leaser[y] = "waiting" <=> mutex[y] = "waiting"
                            /\ leaser[y] = "holding" <=> mutex[y] = "holding"
  BY DEF IInv, LeaseInv, LeasersMatch
<1>2. mutex \in [Callers -> {"idle", "waiting", "holding"}] /\ x \in Callers /\ \A y \in Leasers : y \in Callers
  BY <1>1, MutexEffect, CallersAre
<1>3. CASE AcquireLease(x)
  <2>1. /\ leaser[x] = "idle" /\ exclusiveWaiters' = exclusiveWaiters + 1
        /\ \/ leaser' = [leaser EXCEPT ![x] = "rejected"] /\ UNCHANGED mutex
           \/ leaser' = [leaser EXCEPT ![x] = "waiting"] /\ mutex' = [mutex EXCEPT ![x] = "waiting"]
    BY <1>1, <1>2, <1>3, MutexEffect DEF AcquireLease, mutexVars
  <2>2. Counted' = Counted \cup {x} /\ x \notin Counted
    BY <1>1, <2>1 DEF Counted
  <2>3. exclusiveWaiters' = Cardinality(Counted')
    BY <1>1, <2>1, <2>2, CountedFinite, FS_AddElement
  <2>4. LeasersMatch'
    BY <1>1, <1>2, <2>1 DEF LeasersMatch
  <2> QED
    BY <1>1, <2>1, <2>3, <2>4 DEF LeaseInv
<1>4. CASE LeaseGranted(x)
  <2>1. /\ mutex[x] = "waiting" /\ mutex' = [mutex EXCEPT ![x] = "holding"]
        /\ leaser' = [leaser EXCEPT ![x] = "holding"] /\ UNCHANGED exclusiveWaiters
    BY <1>1, <1>2, <1>4, MutexEffect DEF LeaseGranted
  <2>2. leaser[x] = "waiting"
    BY <1>1, <2>1
  <2>3. Counted' = Counted
    BY <1>1, <2>1, <2>2 DEF Counted
  <2>4. LeasersMatch'
    BY <1>1, <1>2, <2>1, <2>2 DEF LeasersMatch
  <2> QED
    BY <1>1, <2>1, <2>3, <2>4 DEF LeaseInv
<1>5. CASE AbortLease(x)
  <2>1. UNCHANGED exclusiveWaiters
    BY <1>5 DEF AbortLease
  <2>2. CASE leaser[x] = "waiting"
    <3>1. mutex' = [mutex EXCEPT ![x] = "idle"] /\ leaser' = [leaser EXCEPT ![x] = "rejected"]
      BY <1>1, <1>2, <1>5, <2>2, MutexEffect DEF AbortLease
    <3>2. Counted' = Counted
      BY <1>1, <2>2, <3>1 DEF Counted
    <3>3. LeasersMatch'
      BY <1>1, <1>2, <2>2, <3>1 DEF LeasersMatch
    <3> QED
      BY <1>1, <2>1, <3>1, <3>2, <3>3 DEF LeaseInv
  <2>3. CASE leaser[x] # "waiting"
    <3>1. UNCHANGED <<mutex, leaser>>
      BY <1>5, <2>3 DEF AbortLease, mutexVars
    <3> QED
      BY <1>1, <2>1, <3>1 DEF LeaseInv, LeasersMatch, Counted
  <2> QED
    BY <2>2, <2>3
<1>6. CASE LeaseRejected(x) \/ DisposeLease(x)
  <2>1. /\ leaser[x] \in {"rejected", "holding"} /\ leaser' = [leaser EXCEPT ![x] = "done"]
        /\ exclusiveWaiters' = exclusiveWaiters - 1
        /\ \/ leaser[x] = "rejected" /\ UNCHANGED mutex
           \/ leaser[x] = "holding" /\ mutex' = [mutex EXCEPT ![x] = "idle"]
    BY <1>1, <1>2, <1>6, MutexEffect DEF LeaseRejected, DisposeLease, Resume, mutexVars
  <2>2. Counted' = Counted \ {x} /\ x \in Counted
    BY <1>1, <2>1 DEF Counted
  <2>3. exclusiveWaiters' = Cardinality(Counted')
    BY <1>1, <2>1, <2>2, CountedFinite, FS_RemoveElement
  <2>4. LeasersMatch'
    BY <1>1, <1>2, <2>1 DEF LeasersMatch
  <2> QED
    BY <1>1, <2>1, <2>3, <2>4 DEF LeaseInv
<1> QED
  BY <1>3, <1>4, <1>5, <1>6 DEF LeaserStep

(* Every step keeps exclusiveWaiters and the stages of the leases in agreement. *)
LEMMA LeasesKept ==
  ASSUME IInv, [Next]_vars
  PROVE  LeaseInv'
<1>1. LeaseInv /\ MutexInv
  BY DEF IInv
<1>2. CASE UNCHANGED <<mutexVars, leaseVars>>
  BY <1>1, <1>2 DEF mutexVars, leaseVars, LeaseInv, LeasersMatch, Counted
<1>3. CASE DriverStep
  <2>1. \A x \in Leasers : mutex'[x] = mutex[x]
    BY <1>1, <1>3, DriverMutex, MutexEffect, CallersAre DEF mutexVars
  <2> QED
    BY <1>1, <1>3, <2>1, DriverMutex DEF leaseVars, LeaseInv, LeasersMatch, Counted
<1> QED
  BY <1>2, <1>3, OthersMutex, LeaserKeepsLeases DEF Next, vars

-----------------------------------------------------------------------------
(***************************************************************************)
(* The driver.                                                             *)
(***************************************************************************)

(* What a step of anyone else does to the driver: nothing, or wake or start it. *)
Roused ==
  /\ pc' \in Labels /\ woken' \in BOOLEAN /\ UNCHANGED held /\ (woken => woken')
  /\ UNCHANGED <<running, prefill>>
  /\ created' \in BOOLEAN /\ (created => created')
  /\ pc' = pc \/ (pc = "none" /\ pc' = "top" /\ created')

(* Whoever gives the driver work starts it when there is none, wakes it when it sleeps, and
   does nothing else to it. *)
LEMMA EnsureLoopIs ==
  ASSUME FlagTypes, NEW isClosed, EnsureLoop(isClosed)
  PROVE  /\ pc' = pc \/ (pc = "none" /\ pc' = "top")
         /\ pc' \in Labels /\ woken' \in BOOLEAN /\ UNCHANGED held
         /\ (woken => woken') /\ (pc = "waiting" => woken')
<1>1. /\ pc' = IF pc = "none" /\ ~isClosed THEN "top" ELSE pc
      /\ woken' = (pc = "waiting" \/ woken) /\ UNCHANGED held /\ pc \in Labels
  BY DEF EnsureLoop, FlagTypes
<1>2. pc' = pc \/ (pc = "none" /\ pc' = "top")
  BY <1>1
<1>3. pc' \in Labels
  BY <1>1, <1>2 DEF Labels
<1>4. woken' \in BOOLEAN /\ (woken => woken') /\ (pc = "waiting" => woken')
  BY <1>1
<1> QED
  BY <1>1, <1>2, <1>3, <1>4

(* A step of another that gives a sleeping driver work wakes it. *)
LEMMA OthersRouse ==
  ASSUME IInv, OthersStep
  PROVE  Roused
<1>1. FlagTypes /\ SchedulerMade
  BY DEF IInv
<1>2. pc \in Labels /\ woken \in BOOLEAN /\ created \in BOOLEAN
  BY <1>1 DEF FlagTypes
<1>3. CASE UNCHANGED <<pc, woken, held, running, prefill, created>>
  BY <1>2, <1>3 DEF Roused
<1>4. ASSUME EnsureLoop(groupClosed), UNCHANGED <<running, prefill>>, created',
             created' = created \/ created' = TRUE
      PROVE  Roused
  BY <1>1, <1>2, <1>4, EnsureLoopIs DEF Roused
<1>5. ASSUME NEW r \in Requests, Run(r) \/ NotSubmitted(r) \/ Finish(r)
      PROVE  UNCHANGED <<pc, woken, held, running, prefill, created>>
  BY <1>5 DEF Run, NotSubmitted, Finish, rowVars, driverVars, closeVars
<1>6. ASSUME NEW r \in Requests, Submit(r)
      PROVE  /\ UNCHANGED <<running, prefill>> /\ created' = TRUE
             /\ UNCHANGED <<pc, woken, held>> \/ EnsureLoop(groupClosed)
  BY <1>6 DEF Submit, driverVars
<1>7. ASSUME NEW r \in Requests, AbortRequest(r)
      PROVE  /\ UNCHANGED <<running, prefill, created>>
             /\ UNCHANGED <<pc, woken, held>> \/ (created /\ EnsureLoop(groupClosed))
  BY <1>1, <1>7 DEF AbortRequest, driverVars, rowVars, closeVars, SchedulerMade, Live
<1>8. ASSUME NEW x \in Leasers, LeaserStep(x)
      PROVE  /\ UNCHANGED <<running, prefill, created>>
             /\ UNCHANGED <<pc, woken, held>> \/ (created /\ EnsureLoop(groupClosed))
  BY <1>8 DEF LeaserStep, AcquireLease, LeaseGranted, AbortLease, LeaseRejected, DisposeLease, Resume,
    driverVars, rowVars, closeVars
<1>9. ASSUME NEW t \in Tasks, TaskStep(t)
      PROVE  /\ UNCHANGED <<running, prefill>>
             /\ \/ UNCHANGED <<pc, woken, held, created>>
                \/ created' = TRUE /\ EnsureLoop(groupClosed)
  BY <1>9 DEF TaskStep, RunPreparation, AbortTask, driverVars, rowVars, closeVars
<1>10. ASSUME CloseStep
       PROVE  UNCHANGED <<pc, held, running, prefill, created>> /\ woken' \in BOOLEAN /\ (woken => woken')
  <2>1. CASE DriverStopped \/ ClosedIdle
    BY <1>2, <2>1 DEF DriverStopped, ClosedIdle, driverVars, rowVars
  <2>2. CASE Close
    <3>1. /\ UNCHANGED <<pc, held, running, prefill, created>>
          /\ woken' = (woken \/ (created /\ pc = "waiting"))
      BY <2>2 DEF Close, Stop, rowVars
    <3> QED
      BY <1>2, <3>1
  <2> QED
    BY <1>10, <2>1, <2>2 DEF CloseStep
<1>11. CASE CloseStep
  BY <1>2, <1>10, <1>11 DEF Roused
<1>12. ASSUME NEW r \in Requests, RequestStep(r)
       PROVE  Roused
  <2>1. CASE Submit(r)
    BY <1>2, <1>4, <1>6, <2>1 DEF Roused
  <2>2. CASE AbortRequest(r)
    BY <1>2, <1>3, <1>4, <1>7, <2>2
  <2> QED
    BY <1>2, <1>3, <1>5, <1>12, <2>1, <2>2 DEF RequestStep
<1>13. ASSUME NEW x \in Leasers, LeaserStep(x)
       PROVE  Roused
  BY <1>2, <1>3, <1>4, <1>8, <1>13
<1>14. ASSUME NEW t \in Tasks, TaskStep(t)
       PROVE  Roused
  BY <1>2, <1>3, <1>4, <1>9, <1>14
<1> QED
  BY <1>11, <1>12, <1>13, <1>14 DEF OthersStep

(* A step of another never moves the driver's place in the mutex. *)
LEMMA OthersLeaveDriver ==
  ASSUME IInv, OthersStep
  PROVE  mutex'[Driver] = mutex[Driver]
<1>1. MutexInv
  BY DEF IInv
<1>2. CASE UNCHANGED <<mutexVars, leaseVars>>
  BY <1>2 DEF mutexVars
<1>3. ASSUME NEW x \in Leasers, LeaserStep(x) PROVE mutex'[Driver] = mutex[Driver]
  <2>1. UNCHANGED mutexVars \/ Mutex!Acquire(x) \/ Mutex!Grant(x) \/ Mutex!Abort(x) \/ Mutex!Unlock(x)
    BY <1>3 DEF LeaserStep, AcquireLease, LeaseGranted, AbortLease, LeaseRejected, DisposeLease
  <2> QED
    BY <1>1, <2>1, MutexEffect, CallersAre DEF mutexVars
<1> QED
  BY <1>2, <1>3, OthersMutex

(* The driver gives its lease up, if it has it.                                *)
LEMMA ReleaseIs ==
  ASSUME MutexInv, ReleaseExecution
  PROVE  mutex'[Driver] = IF mutex[Driver] = "holding" THEN "idle" ELSE mutex[Driver]
BY MutexEffect, CallersAre DEF ReleaseExecution, mutexVars

(* Every step keeps the driver's place in the mutex in agreement with where it is suspended. *)
LEMMA DriverLeaseKept ==
  ASSUME IInv, [Next]_vars
  PROVE  DriverLease'
<1>1. /\ mutex[Driver] = "waiting" <=> pc = "locking"
      /\ pc \in AtRest => mutex[Driver] = "idle"
      /\ pc \notin AtRest \cup {"locking", "top"} => mutex[Driver] = "holding"
      /\ running # {} \/ prefill # {} => mutex[Driver] = "holding"
      /\ MutexInv /\ mutex[Driver] \in {"idle", "waiting", "holding"}
  BY MutexEffect, CallersAre DEF IInv, DriverLease
<1>2. CASE UNCHANGED vars
  BY <1>1, <1>2 DEF vars, mutexVars, driverVars, rowVars, DriverLease
<1>3. CASE OthersStep
  <2>1. pc' = pc \/ (pc = "none" /\ pc' = "top")
    BY <1>3, OthersRouse DEF Roused
  <2>2. mutex'[Driver] = mutex[Driver] /\ UNCHANGED <<running, prefill>>
    BY <1>3, OthersRouse, OthersLeaveDriver DEF Roused
  <2> QED
    BY <1>1, <2>1, <2>2 DEF DriverLease, AtRest
(* At work, with the lease, from one decision to the next.                     *)
<1>4. ASSUME pc \notin AtRest \cup {"locking", "top"}, UNCHANGED mutexVars,
             pc' \notin AtRest \cup {"locking"}
      PROVE  DriverLease'
  BY <1>1, <1>4 DEF mutexVars, DriverLease
<1>5. CASE Turn \/ TaskEnds \/ Tasked \/ Admit \/ Group \/ Work
  BY <1>4, <1>5 DEF Turn, TaskEnds, Tasked, Admit, Group, Work, Go, AtRest
<1>6. CASE MixedDone \/ Prepared \/ PreparationCollapses \/ Decoded \/ Rest \/ Yielded
  BY <1>4, <1>6 DEF MixedDone, Prepared, PreparationCollapses, Decoded, Rest, Yielded, Go, AtRest
<1>7. CASE Decode
  <2>1. pc = "decode" /\ UNCHANGED mutexVars /\ pc' \in {"top", "decoding", "rest"}
    BY <1>7 DEF Decode, Go
  <2> QED
    BY <1>4, <2>1 DEF AtRest
<1>8. CASE TopClosed \/ MixedFails
  <2>1. pc \in {"top", "turn", "tasked", "mixing"} /\ ReleaseExecution /\ running' = {} /\ prefill' = {} /\ pc' = "ending"
    BY <1>8 DEF TopClosed, MixedFails, Terminate, FailAll, Go
  <2>2. mutex'[Driver] = "idle"
    BY <1>1, <2>1, ReleaseIs
  <2> QED
    BY <2>1, <2>2 DEF DriverLease, AtRest
<1>9. CASE Woken \/ Ended
  <2>1. /\ UNCHANGED <<mutex, running, prefill>>
        /\ (pc = "waiting" /\ pc' = "top") \/ (pc = "ending" /\ pc' = "none")
    BY <1>9 DEF Woken, Ended, Go, mutexVars, rowVars
  <2> QED
    BY <1>1, <2>1 DEF DriverLease, AtRest
<1>10. CASE Locked
  <2>1. pc' = "turn" /\ mutex'[Driver] = "holding"
    BY <1>1, <1>10, MutexEffect, CallersAre DEF Locked, Go
  <2> QED
    BY <2>1 DEF DriverLease, AtRest
<1>11. CASE Top
  <2>1. pc = "top" /\ UNCHANGED <<running, prefill>>
    BY <1>11 DEF Top
  <2>2. CASE Idle /\ ReleaseExecution /\ pc' = "waiting"
    <3>1. mutex'[Driver] = "idle"
      BY <1>1, <2>1, <2>2, ReleaseIs
    <3>2. running' = {} /\ prefill' = {}
      BY <2>1, <2>2 DEF Idle, Rows
    <3> QED
      BY <2>2, <3>1, <3>2 DEF DriverLease, AtRest
  <2>3. CASE mutex[Driver] = "idle" /\ Mutex!Acquire(Driver) /\ Go("locking")
    <3>1. mutex'[Driver] = "waiting" /\ pc' = "locking" /\ running' = {} /\ prefill' = {}
      BY <1>1, <2>1, <2>3, MutexEffect, CallersAre DEF Go
    <3> QED
      BY <3>1 DEF DriverLease, AtRest
  <2>4. CASE mutex[Driver] # "idle" /\ Go("turn") /\ UNCHANGED mutexVars
    <3>1. mutex'[Driver] = "holding" /\ pc' = "turn"
      BY <1>1, <2>1, <2>4 DEF Go, mutexVars
    <3> QED
      BY <3>1 DEF DriverLease, AtRest
  <2> QED
    BY <1>11, <2>2, <2>3, <2>4 DEF Top
<1> QED
  BY <1>2, <1>3, <1>5, <1>6, <1>7, <1>8, <1>9, <1>10, <1>11 DEF Next, DriverStep

-----------------------------------------------------------------------------
(* Preparation tasks: what a step does to them.                                *)

(* Every step keeps a preparation task running only while the driver runs one. *)
LEMMA TasksKept ==
  ASSUME IInv, [Next]_vars
  PROVE  TaskTypes' /\ TaskRuns'
<1>1. /\ tasks \in Seq(Tasks) /\ task \in [Tasks -> {"idle", "queued", "running", "done"}]
      /\ \A t \in Tasks : task[t] = "running" => pc = "task"
  BY DEF IInv, TaskTypes, TaskRuns
<1>2. ASSUME UNCHANGED taskVars, pc' = pc \/ pc # "task"
      PROVE  TaskTypes' /\ TaskRuns'
  BY <1>1, <1>2 DEF taskVars, TaskTypes, TaskRuns
<1>3. CASE UNCHANGED vars
  BY <1>2, <1>3 DEF vars, driverVars
<1>4. CASE OthersStep
  <2>1. pc' = pc \/ pc # "task"
    BY <1>4, OthersRouse DEF Roused
  <2>2. ASSUME NEW t \in Tasks, RunPreparation(t)
        PROVE  TaskTypes' /\ TaskRuns'
    <3>1. task' = [task EXCEPT ![t] = "queued"] /\ tasks' = Append(tasks, t)
      BY <2>2 DEF RunPreparation
    <3>2. tasks' \in Seq(Tasks)
      BY <1>1, <3>1, AppendProperties
    <3> QED
      BY <1>1, <2>1, <3>1, <3>2 DEF TaskTypes, TaskRuns
  <2>3. ASSUME NEW t \in Tasks, AbortTask(t), task[t] = "queued"
        PROVE  TaskTypes' /\ TaskRuns'
    <3>1. task' = [task EXCEPT ![t] = "done"] /\ tasks' = Without(tasks, {t})
      BY <2>3 DEF AbortTask
    <3>2. tasks' \in Seq(Tasks)
      BY <1>1, <3>1, WithoutIs
    <3> QED
      BY <1>1, <2>1, <3>1, <3>2 DEF TaskTypes, TaskRuns
  <2>4. ASSUME NEW t \in Tasks, AbortTask(t), task[t] # "queued"
        PROVE  TaskTypes' /\ TaskRuns'
    BY <1>2, <2>1, <2>4 DEF AbortTask
  <2>5. ASSUME NEW r \in Requests, RequestStep(r) PROVE UNCHANGED taskVars
    BY <2>5 DEF RequestStep, Run, Submit, NotSubmitted, Finish, AbortRequest
  <2>6. ASSUME NEW x \in Leasers, LeaserStep(x) PROVE UNCHANGED taskVars
    BY <2>6 DEF LeaserStep, AcquireLease, LeaseGranted, AbortLease, LeaseRejected, DisposeLease
  <2>7. CASE CloseStep
    BY <1>2, <2>1, <2>7 DEF CloseStep, Close, DriverStopped, ClosedIdle
  <2> QED
    BY <1>2, <1>4, <2>1, <2>2, <2>3, <2>4, <2>5, <2>6, <2>7 DEF OthersStep, TaskStep
<1>5. CASE Turn
  <2>1. CASE UNCHANGED taskVars
    BY <1>2, <1>5, <2>1 DEF Turn
  <2>2. CASE tasks # <<>> /\ tasks' = Tail(tasks) /\ task' = [task EXCEPT ![Head(tasks)] = "running"] /\ pc' = "task"
    <3>1. Head(tasks) \in Tasks /\ tasks' \in Seq(Tasks)
      BY <1>1, <2>2, TailMembers
    <3> QED
      BY <1>1, <2>2, <3>1 DEF TaskTypes, TaskRuns
  <2> QED
    BY <1>5, <2>1, <2>2 DEF Turn, Go
<1>6. CASE TaskEnds
  <2>1. task' = [t \in Tasks |-> IF task[t] = "running" THEN "done" ELSE task[t]] /\ UNCHANGED tasks
    BY <1>6 DEF TaskEnds
  <2> QED
    BY <1>1, <2>1 DEF TaskTypes, TaskRuns
<1>7. CASE TopClosed \/ MixedFails \/ PreparationCollapses
  <2>1. /\ tasks' = <<>> /\ task' = [t \in Tasks |-> IF task[t] = "queued" THEN "done" ELSE task[t]]
        /\ pc # "task"
    BY <1>7 DEF TopClosed, MixedFails, PreparationCollapses, Terminate, FailAll
  <2>2. tasks' \in Seq(Tasks)
    BY <2>1, EmptySeq
  <2> QED
    BY <1>1, <2>1, <2>2 DEF TaskTypes, TaskRuns
<1>8. CASE Top \/ Woken \/ Locked \/ Tasked \/ Admit \/ Group \/ Work \/ MixedDone \/ Prepared
  BY <1>2, <1>8 DEF Top, Woken, Locked, Tasked, Admit, Group, Work, MixedDone, Prepared
<1>9. CASE Decode \/ Decoded \/ Rest \/ Yielded \/ Ended
  BY <1>2, <1>9 DEF Decode, Decoded, Rest, Yielded, Ended
<1> QED
  BY <1>3, <1>4, <1>5, <1>6, <1>7, <1>8, <1>9 DEF Next, DriverStep

-----------------------------------------------------------------------------
(* The driver's flags, and the wakeup.                                         *)

(* A step of the driver leaves its label and flags of their types, and the requests of others
   alone. *)
LEMMA DriverFlags ==
  ASSUME FlagTypes, DriverStep
  PROVE  /\ pc' \in Labels /\ woken' \in BOOLEAN /\ held' \in BOOLEAN
         /\ UNCHANGED <<closeVars, aborted>> /\ pc # "none"
<1>1. pc \in Labels /\ woken \in BOOLEAN /\ held \in BOOLEAN
  BY DEF FlagTypes
<1>2. UNCHANGED <<closeVars, aborted>> /\ pc # "none"
  BY DEF DriverStep, Top, TopClosed, Terminate, Woken, Locked, Turn, TaskEnds, Tasked, Admit, Group, Work,
    MixedDone, MixedFails, Prepared, PreparationCollapses, Decode, Decoded, Rest, Yielded, Ended
<1>3. pc' \in Labels
  BY DEF DriverStep, Top, TopClosed, Terminate, Woken, Locked, Turn, TaskEnds, Tasked, Admit, Group, Work,
    MixedDone, MixedFails, Prepared, PreparationCollapses, Decode, Decoded, Rest, Yielded, Ended, Go,
    Labels, Awaits
<1>4. UNCHANGED woken \/ woken' = FALSE
  BY DEF DriverStep, Top, TopClosed, Terminate, Woken, Locked, Turn, TaskEnds, Tasked, Admit, Group, Work,
    MixedDone, MixedFails, Prepared, PreparationCollapses, Decode, Decoded, Rest, Yielded, Ended, Go
<1>5. UNCHANGED held \/ held' = (exclusiveWaiters > 0)
  BY DEF DriverStep, Top, TopClosed, Terminate, Woken, Locked, Turn, TaskEnds, Tasked, Admit, Group, Work,
    MixedDone, MixedFails, Prepared, PreparationCollapses, Decode, Decoded, Rest, Yielded, Ended, Go
<1>6. woken' \in BOOLEAN
  BY <1>1, <1>4
<1>7. held' \in BOOLEAN
  <2>1. (exclusiveWaiters > 0) \in BOOLEAN
    OBVIOUS
  <2> QED
    BY <1>1, <1>5, <2>1
<1> QED
  BY <1>2, <1>3, <1>6, <1>7

(* Every step keeps the driver's label and the flags of their types. *)
LEMMA FlagsKept ==
  ASSUME IInv, [Next]_vars
  PROVE  FlagTypes'
<1>1. FlagTypes
  BY DEF IInv
<1>2. CASE UNCHANGED vars
  BY <1>1, <1>2 DEF vars, driverVars, closeVars, FlagTypes
<1>3. CASE DriverStep
  BY <1>1, <1>3, DriverFlags DEF closeVars, FlagTypes
<1>4. CASE OthersStep
  <2>1. pc' \in Labels /\ woken' \in BOOLEAN /\ UNCHANGED held /\ created' \in BOOLEAN
    BY <1>4, OthersRouse DEF Roused
  <2>2. aborted' \subseteq Aborting
    <3>1. ASSUME NEW c, aborted' = aborted \/ (c \in Aborting /\ aborted' = aborted \cup {c})
          PROVE  aborted' \subseteq Aborting
      BY <1>1, <3>1 DEF FlagTypes
    <3>2. ASSUME NEW r \in Requests, RequestStep(r)
          PROVE  aborted' = aborted \/ (r \in Aborting /\ aborted' = aborted \cup {r})
      BY <3>2 DEF RequestStep, Run, Submit, NotSubmitted, Finish, AbortRequest
    <3>3. ASSUME NEW x \in Leasers, LeaserStep(x)
          PROVE  aborted' = aborted \/ (x \in Aborting /\ aborted' = aborted \cup {x})
      BY <3>3 DEF LeaserStep, AcquireLease, LeaseGranted, AbortLease, LeaseRejected, DisposeLease
    <3>4. ASSUME NEW t \in Tasks, TaskStep(t)
          PROVE  aborted' = aborted \/ (t \in Aborting /\ aborted' = aborted \cup {t})
      BY <3>4 DEF TaskStep, RunPreparation, AbortTask
    <3>5. CloseStep => aborted' = aborted
      BY DEF CloseStep, Close, DriverStopped, ClosedIdle
    <3> QED
      BY <1>4, <3>1, <3>2, <3>3, <3>4, <3>5 DEF OthersStep
  <2>3. /\ UNCHANGED closer \/ closer' \in {"stopping", "idling", "closed"}
        /\ UNCHANGED groupClosed \/ groupClosed' = created
    BY <1>4 DEF closeVars, OthersStep, RequestStep, Run, Submit, NotSubmitted, Finish, AbortRequest,
      LeaserStep, AcquireLease, LeaseGranted, AbortLease, LeaseRejected, DisposeLease,
      TaskStep, RunPreparation, AbortTask, CloseStep, Close, Stop, DriverStopped, ClosedIdle
  <2>4. closer' \in {"open", "stopping", "idling", "closed"} /\ groupClosed' \in BOOLEAN
    BY <1>1, <2>3 DEF FlagTypes
  <2> QED
    BY <1>1, <2>1, <2>2, <2>4 DEF FlagTypes
<1> QED
  BY <1>2, <1>3, <1>4 DEF Next

(* A row comes to life by its submission alone.                                *)
LEMMA LiveRows ==
  ASSUME IInv, [Next]_vars, NEW r \in Requests, stage'[r] \in Live
  PROVE  stage[r] \in Live \/ created'
<1>1. RowInv /\ stage \in [Requests -> Stages]
  BY DEF IInv, RowInv, RowTypes
<1>2. CASE RowsRest
  BY <1>2 DEF RowsRest, rowVars
<1>3. CASE RowsFail \/ RowsPruned
  BY <1>1, <1>3, SettledIs DEF RowsFail, FailAll, RowsPruned, PruneCancelled, Live
<1>4. CASE RowsAdmitted
  <2>1. queue \in Seq(Requests) /\ queue # <<>>
    BY <1>1, <1>4 DEF RowsAdmitted, RowInv, RowTypes
  <2>2. Head(queue) \in Requests /\ stage[Head(queue)] = "queued"
    BY <1>1, <2>1, TailMembers DEF RowInv, StagesMatch
  <2>3. \/ stage' = stage \/ stage' = Settled({Head(queue)}) \/ stage' = [stage EXCEPT ![Head(queue)] = "preparing"]
    BY <1>4 DEF RowsAdmitted, AdmitNext, rowVars
  <2> QED
    BY <1>1, <2>2, <2>3, SettledIs DEF Live
<1>5. CASE RowsWorked
  <2>1. PICK P \in SUBSET prefill, D \in SUBSET running :
          \E J \in SUBSET P : \E F \in SUBSET ((P \cup D) \ J) : UnitOfWork(P, D, J, F)
    BY <1>5 DEF RowsWorked, Worked
  <2>2. PICK J \in SUBSET P : \E F \in SUBSET ((P \cup D) \ J) : UnitOfWork(P, D, J, F)
    BY <2>1
  <2>3. r \in J \/ stage'[r] \in {"settled", stage[r]}
    BY <2>2 DEF UnitOfWork
  <2>4. r \in J => stage[r] = "preparing"
    BY <1>1 DEF RowInv, StagesMatch
  <2> QED
    BY <2>3, <2>4 DEF Live
<1>6. ASSUME NEW d \in Requests, Submit(d) PROVE created'
  BY <1>6 DEF Submit
<1>7. ASSUME NEW d \in Requests, NotSubmitted(d) \/ Finish(d) PROVE stage[r] \in Live
  BY <1>1, <1>7, SettledIs DEF NotSubmitted, Finish, Live
<1> QED
  BY <1>2, <1>3, <1>4, <1>5, <1>6, <1>7, RowSteps

(* Every step keeps that rows and tasks are there only once the scheduler was made. *)
LEMMA SchedulerKept ==
  ASSUME IInv, [Next]_vars
  PROVE  SchedulerMade'
<1>1. FlagTypes /\ SchedulerMade
  BY DEF IInv
<1>2. created => created'
  BY <1>1, OthersRouse, DriverFlags DEF Next, vars, closeVars, Roused
<1>3. pc' # "none" => created'
  <2>1. CASE UNCHANGED vars
    BY <1>1, <2>1 DEF vars, driverVars, closeVars, SchedulerMade
  <2>2. CASE DriverStep
    BY <1>1, <1>2, <2>2, DriverFlags DEF SchedulerMade
  <2>3. CASE OthersStep
    BY <1>1, <1>2, <2>3, OthersRouse DEF Roused, SchedulerMade
  <2> QED
    BY <2>1, <2>2, <2>3 DEF Next
<1>4. \A r \in Requests : stage'[r] \in Live => created'
  BY <1>1, <1>2, LiveRows DEF SchedulerMade
<1> QED
  BY <1>3, <1>4 DEF SchedulerMade

(* While some exclusive caller is counted exclusiveWaiters is above zero. *)
LEMMA CountAboveZero ==
  ASSUME LeaseInv
  PROVE  exclusiveWaiters \in Nat /\ \A x \in Counted : exclusiveWaiters > 0
<1>1. exclusiveWaiters = Cardinality(Counted) /\ exclusiveWaiters \in Nat
  BY CountedFinite DEF LeaseInv
<1>2. Counted # {} => Cardinality(Counted) # 0
  BY CountedFinite, FS_EmptySet
<1> QED
  BY <1>1, <1>2

(* Who adds work for a driver that sleeps wakes it, or leaves the lease that    *)
(* holds it back in force.                                                     *)
LEMMA WakeupsKept ==
  ASSUME IInv, [Next]_vars
  PROVE  NoLostWakeup'
<1>1. RowInv /\ LeaseInv /\ FlagTypes /\ SchedulerMade /\ NoLostWakeup /\ TaskTypes
  BY DEF IInv
<1>2. queue \in Seq(Requests) /\ Queued = Members(queue) /\ Queued \subseteq Requests
  BY <1>1, MembersIn DEF RowInv, RowTypes, Queued, Members
<1>3. exclusiveWaiters \in Nat
  BY <1>1, CountAboveZero
<1> SUFFICES ASSUME pc' = "waiting", ~woken'
             PROVE  /\ exclusiveWaiters' > 0 \/ (queue' = <<>> /\ tasks' = <<>>)
                    /\ Queued' \cap aborted' = {}
  BY DEF NoLostWakeup
<1>4. ASSUME pc = "waiting" /\ ~woken, UNCHANGED <<queue, tasks, exclusiveWaiters, aborted>>
      PROVE  /\ exclusiveWaiters' > 0 \/ (queue' = <<>> /\ tasks' = <<>>)
             /\ Queued' \cap aborted' = {}
  BY <1>1, <1>4 DEF NoLostWakeup, Queued
<1>5. CASE UNCHANGED vars
  BY <1>4, <1>5 DEF vars, driverVars, rowVars, taskVars, leaseVars
<1>6. CASE DriverStep
  <2>1. Top /\ Idle
    BY <1>6 DEF DriverStep, Top, TopClosed, Terminate, Woken, Locked, Turn, TaskEnds, Tasked, Admit, Group, Work,
      MixedDone, MixedFails, Prepared, PreparationCollapses, Decode, Decoded, Rest, Yielded, Ended, Go
  <2>2. /\ queue' = Without(queue, aborted) /\ UNCHANGED <<tasks, exclusiveWaiters, aborted>>
        /\ exclusiveWaiters > 0 \/ (queue' = <<>> /\ tasks = <<>>)
    BY <2>1 DEF Top, Idle, PruneCancelled, taskVars, leaseVars
  <2>3. Members(queue') = Members(queue) \ aborted
    BY <1>2, <2>2, WithoutMembers
  <2>4. Queued' = Members(queue')
    BY DEF Queued, Members
  <2> QED
    BY <2>2, <2>3, <2>4
<1>7. CASE OthersStep
  <2>1. pc = "waiting" /\ ~woken /\ created
    BY <1>1, <1>7, OthersRouse DEF Roused, SchedulerMade
  <2>2. /\ exclusiveWaiters > 0 \/ (queue = <<>> /\ tasks = <<>>)
        /\ Queued \cap aborted = {}
    BY <1>1, <2>1 DEF NoLostWakeup
  <2>3. ~EnsureLoop(groupClosed)
    BY <1>1, <2>1, EnsureLoopIs
  <2>4. ASSUME UNCHANGED <<queue, tasks, exclusiveWaiters>>, NEW c, c \notin Queued, aborted' = aborted \cup {c}
        PROVE  /\ exclusiveWaiters' > 0 \/ (queue' = <<>> /\ tasks' = <<>>)
               /\ Queued' \cap aborted' = {}
    BY <2>2, <2>4 DEF Queued
  <2>5. ASSUME NEW r \in Requests, RequestStep(r)
        PROVE  /\ exclusiveWaiters' > 0 \/ (queue' = <<>> /\ tasks' = <<>>)
               /\ Queued' \cap aborted' = {}
    <3>1. CASE Run(r) \/ NotSubmitted(r) \/ Finish(r)
      BY <1>4, <2>1, <3>1 DEF Run, NotSubmitted, Finish, rowVars, taskVars, leaseVars
    <3>2. CASE Submit(r)
      BY <1>4, <2>1, <2>3, <3>2 DEF Submit, taskVars, leaseVars
    <3>3. CASE AbortRequest(r)
      <4>1. /\ UNCHANGED <<queue, tasks, exclusiveWaiters>> /\ aborted' = aborted \cup {r}
            /\ stage[r] \notin Live
        BY <2>3, <3>3 DEF AbortRequest, rowVars, taskVars, leaseVars, Live
      <4>2. r \notin Queued
        BY <1>1, <1>2, <4>1 DEF RowInv, StagesMatch, Live
      <4> QED
        BY <2>4, <4>1, <4>2
    <3> QED
      BY <2>5, <3>1, <3>2, <3>3 DEF RequestStep
  <2>6. ASSUME NEW x \in Leasers, LeaserStep(x)
        PROVE  /\ exclusiveWaiters' > 0 \/ (queue' = <<>> /\ tasks' = <<>>)
               /\ Queued' \cap aborted' = {}
    <3>1. CASE AcquireLease(x)
      <4>1. exclusiveWaiters' > 0
        BY <1>3, <3>1 DEF AcquireLease
      <4> QED
        BY <2>2, <3>1, <4>1 DEF AcquireLease, rowVars, Queued
    <3>2. CASE LeaseGranted(x)
      BY <1>4, <2>1, <3>2 DEF LeaseGranted, rowVars, taskVars
    <3>3. CASE AbortLease(x)
      <4>1. x \notin Queued
        BY <1>2
      <4> QED
        BY <2>4, <3>3, <4>1 DEF AbortLease, rowVars, taskVars
    <3>4. CASE LeaseRejected(x) \/ DisposeLease(x)
      <4>1. Resume /\ leaser[x] \in {"rejected", "holding"} /\ UNCHANGED <<queue, aborted>>
        BY <3>4 DEF LeaseRejected, DisposeLease, rowVars
      <4>2. x \in Counted
        BY <4>1 DEF Counted
      <4>3. exclusiveWaiters > 0 /\ exclusiveWaiters # 1 /\ exclusiveWaiters' = exclusiveWaiters - 1
        BY <1>1, <2>1, <2>3, <4>1, <4>2, CountAboveZero DEF Resume
      <4>4. exclusiveWaiters' > 0
        BY <1>3, <4>3
      <4> QED
        BY <2>2, <4>1, <4>4 DEF Queued
    <3> QED
      BY <2>6, <3>1, <3>2, <3>3, <3>4 DEF LeaserStep
  <2>7. ASSUME NEW t \in Tasks, TaskStep(t)
        PROVE  /\ exclusiveWaiters' > 0 \/ (queue' = <<>> /\ tasks' = <<>>)
               /\ Queued' \cap aborted' = {}
    <3>1. AbortTask(t)
      BY <2>3, <2>7 DEF TaskStep, RunPreparation
    <3>2. UNCHANGED <<queue, exclusiveWaiters>> /\ aborted' = aborted \cup {t}
      BY <3>1 DEF AbortTask, rowVars, leaseVars
    <3>3. tasks' = tasks \/ tasks' = Without(tasks, {t})
      BY <3>1 DEF AbortTask, taskVars
    <3>4. tasks = <<>> => tasks' = <<>>
      BY <1>1, <3>3, WithoutMembers DEF TaskTypes
    <3>5. t \notin Queued
      BY <1>2
    <3> QED
      BY <2>2, <3>2, <3>4, <3>5 DEF Queued
  <2>8. CASE CloseStep
    <3>1. ~Close
      BY <2>1 DEF Close, Stop
    <3> QED
      BY <1>4, <2>1, <2>8, <3>1 DEF CloseStep, DriverStopped, ClosedIdle, rowVars, taskVars, leaseVars
  <2> QED
    BY <1>7, <2>5, <2>6, <2>7, <2>8 DEF OthersStep
<1> QED
  BY <1>5, <1>6, <1>7 DEF Next

-----------------------------------------------------------------------------
(***************************************************************************)
(* The theorems.                                                           *)
(***************************************************************************)

(* The inductive invariant holds at the start. *)
LEMMA InitHolds == Init => IInv
<1> SUFFICES ASSUME Init PROVE IInv
  OBVIOUS
<1>1. PoolInv /\ MutexInv
  BY PoolInit, MutexInit DEF Init
<1>2. /\ stage = [r \in Requests |-> "idle"] /\ left = [r \in Requests |-> Chunks + Tokens]
      /\ queue = <<>> /\ prefill = {} /\ running = {} /\ context = NoKey
      /\ tasks = <<>> /\ task = [t \in Tasks |-> "idle"]
      /\ leaser = [x \in Leasers |-> "idle"] /\ exclusiveWaiters = 0
      /\ pc = "none" /\ woken = FALSE /\ held = FALSE
      /\ created = FALSE /\ groupClosed = FALSE /\ closer = "open"
      /\ aborted = {} /\ mutex = [c \in Callers |-> "idle"]
  BY DEF Init, Mutex!Init, Callers
<1>3. queue \in Seq(Requests) /\ Members(queue) = {} /\ Distinct(queue) /\ tasks \in Seq(Tasks)
  BY <1>2, EmptyMembers
<1>4. RowInv
  <2>1. Chunks + Tokens \in 1..(Chunks + Tokens)
    OBVIOUS
  <2>2. RowTypes
    BY <1>2, <1>3, <2>1 DEF RowTypes, Stages
  <2>3. StagesMatch
    BY <1>2, <1>3 DEF StagesMatch, Live
  <2>4. WorkLeft
    BY <1>2 DEF WorkLeft
  <2> QED
    BY <2>2, <2>3, <2>4 DEF RowInv
<1>5. LeaseInv
  <2>1. Counted = {}
    BY <1>2 DEF Counted
  <2>2. LeasersMatch
    BY <1>2, CallersAre DEF LeasersMatch
  <2> QED
    BY <1>2, <2>1, <2>2, FS_EmptySet DEF LeaseInv
<1>6. DriverLease /\ TaskRuns /\ SchedulerMade /\ NoLostWakeup /\ ContextType /\ TaskTypes
  BY <1>2, <1>3, CallersAre DEF DriverLease, AtRest, TaskRuns, SchedulerMade, Live, NoLostWakeup, ContextType, TaskTypes
<1>7. FlagTypes
  <2>1. woken \in BOOLEAN /\ held \in BOOLEAN /\ created \in BOOLEAN /\ groupClosed \in BOOLEAN
    BY <1>2
  <2> QED
    BY <1>2, <2>1 DEF FlagTypes, Labels, Awaits
<1>8. BatchIsSound
  <2>1. Rows = {}
    BY <1>2 DEF Rows
  <2>2. KvOf(Rows) = 0
    BY <2>1, SumEmpty DEF KvOf
  <2> QED
    BY <2>1, <2>2 DEF BatchIsSound, OneContext, KvWithinBudget
<1> QED
  BY <1>1, <1>4, <1>5, <1>6, <1>7, <1>8 DEF IInv

(* Every step keeps the inductive invariant. *)
LEMMA StepKeeps == IInv /\ [Next]_vars => IInv'
<1> SUFFICES ASSUME IInv, [Next]_vars PROVE IInv'
  OBVIOUS
<1>1. PoolInv'
  BY PoolMoves, PoolKept DEF IInv
<1>2. MutexInv'
  BY MutexMoves, MutexKept DEF IInv
<1> QED
  BY <1>1, <1>2, RowsKept, BatchKept, LeasesKept, DriverLeaseKept, TasksKept, FlagsKept, SchedulerKept,
    WakeupsKept DEF IInv

(* What the proofs below start from: the invariant holds in every state.       *)
THEOREM Invariant == Spec => []IInv
BY InitHolds, StepKeeps, PTL DEF Spec

(* The counts of the pool, of exclusiveWaiters and of the mutex are exact.     *)
THEOREM CountsSound == Spec => []CountsAreSound
<1>1. IInv => CountsAreSound
  <2> SUFFICES ASSUME IInv PROVE CountsAreSound
    OBVIOUS
  <2>1. WaitersCounted
    BY DEF IInv, LeaseInv, WaitersCounted, Counted
  <2>2. Mutex!MutualExclusion
    BY OneHolder DEF IInv
  <2>3. TypeOK
    <3>1. exclusiveWaiters \in 0..Cardinality(Leasers)
      BY CountedFinite, CallersFinite DEF IInv, LeaseInv
    <3>2. {woken, held, created, groupClosed} \subseteq BOOLEAN
      BY DEF IInv, FlagTypes
    <3>3. pc \in Awaits \cup {"top", "turn", "tasked", "admit", "group", "work", "decode", "rest"}
      BY DEF IInv, FlagTypes, Labels
    <3> QED
      BY <3>1, <3>2, <3>3 DEF IInv, PoolInv, MutexInv, RowInv, RowTypes, ContextType, TaskTypes, LeaseInv, FlagTypes,
        TypeOK, Rows
  <2> QED
    BY <2>1, <2>2, <2>3 DEF IInv, PoolInv, MutexInv, CountsAreSound
<1> QED
  BY <1>1, Invariant, PTL

(* An exclusive lease has the model alone: no row, no task, no driver at work. *)
THEOREM ExclusiveAlone == Spec => []ExclusiveIsAlone
<1>1. IInv => ExclusiveIsAlone
  <2> SUFFICES ASSUME IInv, NEW x \in Leasers, leaser[x] = "holding"
               PROVE  /\ Rows = {} /\ \A t \in Tasks : task[t] # "running"
                      /\ pc \in {"none", "waiting", "locking", "top", "ending"}
    BY DEF ExclusiveIsAlone
  <2>1. mutex[x] = "holding"
    BY DEF IInv, LeaseInv, LeasersMatch
  <2>2. mutex[Driver] # "holding"
    BY <2>1, OneHolder, CallersAre DEF IInv, Mutex!MutualExclusion, Callers
  <2>3. pc \in AtRest \cup {"locking", "top"} /\ running = {} /\ prefill = {}
    BY <2>2 DEF IInv, DriverLease
  <2>4. \A t \in Tasks : task[t] # "running"
    BY <2>3 DEF IInv, TaskRuns, AtRest
  <2> QED
    BY <2>3, <2>4 DEF Rows, AtRest
<1> QED
  BY <1>1, Invariant, PTL

(* No row is lost between the queue, the preparation and the batch.            *)
THEOREM RowsAreAccounted == Spec => []RowsAccounted
<1>1. IInv => RowsAccounted
  <2> SUFFICES ASSUME IInv PROVE RowsAccounted
    OBVIOUS
  <2>1. Queued = Members(queue) /\ queue \in Seq(Requests) /\ Distinct(queue)
    BY DEF Queued, Members, IInv, RowInv, RowTypes, StagesMatch
  <2>2. Len(queue) = Cardinality(Queued)
    BY <2>1, DistinctCount
  <2> QED
    BY <2>1, <2>2 DEF IInv, RowInv, StagesMatch, RowsAccounted, Live
<1> QED
  BY <1>1, Invariant, PTL

(* The driver never sleeps on work it may do.                                  *)
THEOREM WakeupsNotLost == Spec => []NoLostWakeup
<1>1. IInv => NoLostWakeup
  BY DEF IInv
<1> QED
  BY <1>1, Invariant, PTL

(* The rows share one context, and their projected KV is within the budget.    *)
THEOREM BatchSound == Spec => []BatchIsSound
<1>1. IInv => BatchIsSound
  BY DEF IInv
<1> QED
  BY <1>1, Invariant, PTL

(* Exclusive leases and the driver get the model in the order they asked.      *)
THEOREM InOrder == Spec => LeasesInOrder
<1> DEFINE Order == \A c, d \in Callers :
             mutex[c] = "waiting" /\ mutex'[c] = "holding" /\ mutex[d] # "idle" /\ c # d
               => \E i, j \in 1..Len(chain) : i < j /\ Mutex!IsGate(i, c) /\ Mutex!IsGate(j, d)
<1>1. IInv /\ [Next]_vars => [Order]_mutexVars
  BY MutexMoves, MutexInOrder DEF IInv
<1>2. Spec => [][Order]_mutexVars
  BY <1>1, Invariant, PTL DEF Spec
<1> QED
  BY <1>2 DEF LeasesInOrder, Mutex!NoOvertaking, Mutex!vars, mutexVars, Callers

(* The pool inside the gateway is first come, first served as well: no request  *)
(* gets its place among the active rows before one that waited ahead of it.     *)
THEOREM AdmitsInOrder == Spec => Pool!NoOvertaking
<1> DEFINE Order == \A c, d \in Requests :
             pool[c] # "holding" /\ pool'[c] = "holding" /\ pool[d] = "waiting" /\ pool'[d] = "waiting"
               => \E i, j \in 1..Len(waiting) : i < j /\ waiting[i] = c /\ waiting[j] = d
<1>1. IInv /\ [Next]_vars => [Order]_poolVars
  BY PoolMoves, PoolInOrder DEF IInv
<1>2. Spec => [][Order]_poolVars
  BY <1>1, Invariant, PTL DEF Spec
<1> QED
  BY <1>2 DEF Pool!NoOvertaking, Pool!vars, poolVars
=============================================================================

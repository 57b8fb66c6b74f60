------------------------ MODULE CompanionHostProofs ------------------------
(***************************************************************************)
(* Proofs about CompanionHost, for any callers, keep-alives and signals.   *)
(*                                                                         *)
(* A call's step changes where that call is and what is counted for it; so *)
(* the counts are proved of one call at a time, and a pipeline is disposed *)
(* only when the counts say that nobody is left who has it.                *)
(***************************************************************************)
EXTENDS CompanionHost, CollectionFacts

-----------------------------------------------------------------------------
(* The inductive invariant.                                                *)

Labels == {"new", "waiting", "draining", "joined", "rejected", "gave_up", "given", "turned_away", "again",
           "holding", "queued", "running", "finished", "done"}

\* The calls that have a pipeline of theirs.
Having == {"joined", "given", "holding", "queued", "running", "finished"}

TypeOK ==
  /\ kind \in {"image", "whisper"} /\ opened \in Nat /\ loads \in Nat
  /\ loading \in {"no", "going", "abandoned"} /\ waiters \in Nat /\ leases \in Nat
  /\ idleTimer \in BOOLEAN /\ pinned \in BOOLEAN /\ excused \in BOOLEAN
  /\ at \in [Callers -> Labels] /\ has \in [Callers -> Nat] /\ gone \subseteq Impatient
  /\ turns \in Seq(Takers) /\ closing \in {"no", "waiting", "done"}
  /\ alive \subseteq Nat /\ unloaded \subseteq Nat

\* What a call can be about to do.
CallsSound ==
  /\ \A c \in Preloaders : at[c] \notin {"gave_up", "holding", "queued", "running", "finished"}
  /\ gone # {} => kind = "image"
  /\ \A c \in Callers : at[c] = "rejected" => opened = 0
  /\ \A c \in Callers : at[c] = "joined" /\ kind = "image" /\ ~Closed => opened # 0

\* An opening that is not abandoned has a caller that still counts.
OpeningCounted ==
  /\ loading = "going" /\ ~Closed => waiters > 0
  /\ loading = "going" /\ kind = "whisper" => \E c \in Callers : at[c] = "waiting"
  /\ closing = "done" => loading = "no"

\* A call that has a pipeline has one that was opened.
PipelinesGiven == \A c \in Takers : at[c] \in Having => has[c] # 0

\* Who queued before a run that goes on has another pipeline.
TurnsSound ==
  /\ Distinct(turns) /\ Members(turns) = {c \in Callers : at[c] \in {"queued", "running"}}
  /\ \A i, j \in 1 .. Len(turns) : i < j /\ at[turns[j]] = "running" => has[turns[i]] # has[turns[j]]

IInv ==
  /\ TypeOK /\ CountsExact /\ PipelinesHeld /\ PipelinesGiven /\ OpeningWanted
  /\ OpeningCounted /\ CallsSound /\ TurnsSound /\ IdleIsArmed

-----------------------------------------------------------------------------
(* The counts.                                                             *)

Leased == {c \in Takers : at[c] \notin {"new", "done"}}
Waiting == {c \in Callers : at[c] \in Counting}

\* What a call counts for in each when it is suspended there.
Took(c, where) == IF c \in Takers /\ where \notin {"new", "done"} THEN 1 ELSE 0
Waits(where) == IF where \in Counting THEN 1 ELSE 0

\* The counts follow the call that moves.
CountsMove(c, w) ==
  leases' = leases + Took(c, w) - Took(c, at[c]) /\ waiters' = waiters + Waits(w) - Waits(at[c])

(* Who holds a lease, and who waits for an opening, are finitely many. *)
LEMMA CountsFinite ==
  IsFiniteSet(Leased) /\ IsFiniteSet(Waiting)
<1>1. IsFiniteSet(Takers) /\ IsFiniteSet(Callers)
  BY FS_Union, HostAssumption DEF Callers
<1> QED
  BY <1>1, FS_Subset DEF Leased, Waiting

(* A call that moves is counted where it is, and no other is counted otherwise. *)
LEMMA CallMoves ==
  ASSUME IInv, NEW c \in Callers, NEW w \in Labels, Go(c, w)
  PROVE  /\ at' \in [Callers -> Labels] /\ at'[c] = w /\ \A x \in Callers \ {c} : at'[x] = at[x]
         /\ Took(c, w) \in {0, 1} /\ Took(c, at[c]) \in {0, 1} /\ Waits(w) \in {0, 1} /\ Waits(at[c]) \in {0, 1}
         /\ Cardinality(Leased') = leases + Took(c, w) - Took(c, at[c]) /\ Cardinality(Leased') \in Nat
         /\ Cardinality(Waiting') = waiters + Waits(w) - Waits(at[c]) /\ Cardinality(Waiting') \in Nat
         /\ \A x \in Takers : at'[x] \notin {"new", "done"} => Cardinality(Leased') > 0
         /\ \A x \in Callers : at'[x] \in Counting => Cardinality(Waiting') > 0
<1>1. at' \in [Callers -> Labels] /\ at'[c] = w /\ \A x \in Callers \ {c} : at'[x] = at[x]
  BY DEF IInv, TypeOK, Go
<1>2. /\ IsFiniteSet(Leased) /\ IsFiniteSet(Waiting)
      /\ leases = Cardinality(Leased) /\ waiters = Cardinality(Waiting)
  BY CountsFinite DEF IInv, CountsExact, Leased, Waiting
<1>3. /\ \A x : x # c => (x \in Leased <=> x \in Leased')
      /\ \A x : x # c => (x \in Waiting <=> x \in Waiting')
  BY <1>1 DEF Leased, Waiting, Callers
<1>4. /\ c \in Leased <=> Took(c, at[c]) = 1
      /\ c \in Waiting <=> Waits(at[c]) = 1
      /\ Took(c, at[c]) \in {0, 1} /\ Waits(at[c]) \in {0, 1}
  BY DEF Leased, Waiting, Took, Waits
<1>5. /\ c \in Leased' <=> Took(c, w) = 1
      /\ c \in Waiting' <=> Waits(w) = 1
      /\ Took(c, w) \in {0, 1} /\ Waits(w) \in {0, 1}
  BY <1>1 DEF Leased, Waiting, Took, Waits
<1>6. /\ IsFiniteSet(Leased') /\ Cardinality(Leased') \in Nat /\ Cardinality(Leased) \in Nat
      /\ Cardinality(Leased') = leases + Took(c, w) - Took(c, at[c])
  <2>1. /\ IsFiniteSet(Leased') /\ Cardinality(Leased) \in Nat /\ Cardinality(Leased') \in Nat
        /\ c \in Leased /\ c \notin Leased' => Cardinality(Leased') = Cardinality(Leased) - 1
        /\ c \notin Leased /\ c \in Leased' => Cardinality(Leased') = Cardinality(Leased) + 1
        /\ (c \in Leased <=> c \in Leased') => Cardinality(Leased') = Cardinality(Leased)
    BY <1>2, <1>3, OneMoves
  <2> HIDE DEF Leased, Took
  <2> QED
    BY <1>2, <1>4, <1>5, <2>1
<1>7. /\ IsFiniteSet(Waiting') /\ Cardinality(Waiting') \in Nat /\ Cardinality(Waiting) \in Nat
      /\ Cardinality(Waiting') = waiters + Waits(w) - Waits(at[c])
  <2>1. /\ IsFiniteSet(Waiting') /\ Cardinality(Waiting) \in Nat /\ Cardinality(Waiting') \in Nat
        /\ c \in Waiting /\ c \notin Waiting' => Cardinality(Waiting') = Cardinality(Waiting) - 1
        /\ c \notin Waiting /\ c \in Waiting' => Cardinality(Waiting') = Cardinality(Waiting) + 1
        /\ (c \in Waiting <=> c \in Waiting') => Cardinality(Waiting') = Cardinality(Waiting)
    BY <1>2, <1>3, OneMoves
  <2> HIDE DEF Waiting, Waits
  <2> QED
    BY <1>2, <1>4, <1>5, <2>1
<1>8. ASSUME NEW x \in Takers, at'[x] \notin {"new", "done"}
      PROVE  Cardinality(Leased') > 0
  <2>1. x \in Leased'
    BY <1>8 DEF Leased
  <2> QED
    BY <1>6, <2>1, NoneCounted
<1>9. ASSUME NEW x \in Callers, at'[x] \in Counting
      PROVE  Cardinality(Waiting') > 0
  <2>1. x \in Waiting'
    BY <1>9 DEF Waiting
  <2> QED
    BY <1>7, <2>1, NoneCounted
<1> QED
  BY <1>1, <1>4, <1>5, <1>6, <1>7, <1>8, <1>9

(* Counts that follow the call that moves stay exact. *)
LEMMA CountsFollow ==
  ASSUME IInv, NEW c \in Callers, NEW w \in Labels, Go(c, w),
         CountsMove(c, w)
  PROVE  /\ CountsExact' /\ leases' \in Nat /\ waiters' \in Nat
         /\ \A x \in Takers : at'[x] \notin {"new", "done"} => leases' > 0
         /\ \A x \in Callers : at'[x] \in Counting => waiters' > 0
<1>1. leases' = Cardinality(Leased') /\ waiters' = Cardinality(Waiting')
  BY CallMoves DEF CountsMove
<1>2. CountsExact'
  BY <1>1 DEF CountsExact, Leased, Waiting
<1> QED
  BY <1>1, <1>2, CallMoves

(* Whoever has a lease, or waits, is counted. *)
LEMMA SomeCounted ==
  ASSUME IInv
  PROVE  /\ \A c \in Takers : at[c] \notin {"new", "done"} => leases > 0
         /\ \A c \in Callers : at[c] \in Counting => waiters > 0
<1>1. /\ IsFiniteSet(Leased) /\ IsFiniteSet(Waiting)
      /\ leases = Cardinality(Leased) /\ waiters = Cardinality(Waiting)
  BY CountsFinite DEF IInv, CountsExact, Leased, Waiting
<1>2. ASSUME NEW c \in Takers, at[c] \notin {"new", "done"}
      PROVE  leases > 0
  <2>1. c \in Leased
    BY <1>2 DEF Leased
  <2> QED
    BY <1>1, <2>1, NoneCounted
<1>3. ASSUME NEW c \in Callers, at[c] \in Counting
      PROVE  waiters > 0
  <2>1. c \in Waiting
    BY <1>3 DEF Waiting
  <2> QED
    BY <1>1, <2>1, NoneCounted
<1> QED
  BY <1>2, <1>3

-----------------------------------------------------------------------------
(* The turns.                                                              *)

(* Nobody enters or leaves the turns, or begins to run. *)
LEMMA TurnsStay ==
  ASSUME IInv, UNCHANGED turns,
         \A x \in Callers : at'[x] \in {"queued", "running"} <=> at[x] \in {"queued", "running"},
         \A x \in Callers : at'[x] = "running" => at[x] = "running",
         \A x \in Callers : at[x] \in {"queued", "running"} => has'[x] = has[x]
  PROVE  TurnsSound'
<1>1. /\ Distinct(turns) /\ Members(turns) = {c \in Callers : at[c] \in {"queued", "running"}}
      /\ \A i, j \in 1 .. Len(turns) : i < j /\ at[turns[j]] = "running" => has[turns[i]] # has[turns[j]]
  BY DEF IInv, TurnsSound
<1>2. Members(turns') = {c \in Callers : at'[c] \in {"queued", "running"}} /\ Distinct(turns')
  BY <1>1
<1>3. \A i \in 1 .. Len(turns) : turns[i] \in Callers /\ at[turns[i]] \in {"queued", "running"}
  BY <1>1 DEF Members
<1>4. ASSUME NEW i \in 1 .. Len(turns'), NEW j \in 1 .. Len(turns'), i < j, at'[turns'[j]] = "running"
      PROVE  has'[turns'[i]] # has'[turns'[j]]
  BY <1>1, <1>3, <1>4
<1> QED
  BY <1>2, <1>4 DEF TurnsSound

(* A call leaves its turn. *)
LEMMA TurnsLose ==
  ASSUME IInv, NEW c \in Callers, turns' = Without(turns, {c}), UNCHANGED has, Go(c, "finished")
  PROVE  TurnsSound' /\ turns' \in Seq(Takers)
<1>1. /\ Distinct(turns) /\ Members(turns) = {x \in Callers : at[x] \in {"queued", "running"}}
      /\ \A i, j \in 1 .. Len(turns) : i < j /\ at[turns[j]] = "running" => has[turns[i]] # has[turns[j]]
      /\ turns \in Seq(Takers)
  BY DEF IInv, TurnsSound, TypeOK
<1>2. /\ turns' \in Seq(Takers) /\ Members(turns') = Members(turns) \ {c} /\ Distinct(turns')
  BY <1>1, WithoutMembers
<1>3. at'[c] = "finished" /\ \A x \in Callers \ {c} : at'[x] = at[x]
  BY CallMoves DEF Labels
<1>4. Members(turns') = {x \in Callers : at'[x] \in {"queued", "running"}}
  BY <1>1, <1>2, <1>3
<1>5. ASSUME NEW i \in 1 .. Len(turns'), NEW j \in 1 .. Len(turns'), i < j, at'[turns'[j]] = "running"
      PROVE  has'[turns'[i]] # has'[turns'[j]]
  <2>1. PICK k \in 1 .. Len(turns), l \in 1 .. Len(turns) :
          k < l /\ turns[k] = turns'[i] /\ turns[l] = turns'[j]
    BY <1>1, <1>5, WithoutOrder
  <2>2. turns'[j] \in Members(turns')
    BY DEF Members
  <2>3. at[turns[l]] = "running"
    BY <1>3, <1>4, <1>5, <2>1, <2>2
  <2> QED
    BY <1>1, <2>1, <2>3
<1> QED
  BY <1>2, <1>4, <1>5 DEF TurnsSound

(* A call queues for its turn. *)
LEMMA TurnsGain ==
  ASSUME IInv, NEW c \in Takers, at[c] = "holding", turns' = Append(turns, c), UNCHANGED has, Go(c, "queued")
  PROVE  TurnsSound' /\ turns' \in Seq(Takers)
<1>1. /\ Distinct(turns) /\ Members(turns) = {x \in Callers : at[x] \in {"queued", "running"}}
      /\ \A i, j \in 1 .. Len(turns) : i < j /\ at[turns[j]] = "running" => has[turns[i]] # has[turns[j]]
      /\ turns \in Seq(Takers) /\ c \in Callers
  BY DEF IInv, TurnsSound, TypeOK, Callers
<1>2. c \notin Members(turns)
  BY <1>1
<1>3. /\ turns' \in Seq(Takers) /\ Members(turns') = Members(turns) \cup {c} /\ Distinct(turns')
  BY <1>1, <1>2, AppendMembers
<1>4. at'[c] = "queued" /\ \A x \in Callers \ {c} : at'[x] = at[x]
  BY <1>1, CallMoves DEF Labels
<1>5. Members(turns') = {x \in Callers : at'[x] \in {"queued", "running"}}
  BY <1>1, <1>3, <1>4
<1>6. /\ Len(turns) \in Nat /\ Len(turns') = Len(turns) + 1 /\ turns'[Len(turns) + 1] = c
      /\ \A i \in 1 .. Len(turns) : turns'[i] = turns[i]
  BY <1>1, AppendProperties, LenProperties
<1>7. ASSUME NEW i \in 1 .. Len(turns'), NEW j \in 1 .. Len(turns'), i < j, at'[turns'[j]] = "running"
      PROVE  has'[turns'[i]] # has'[turns'[j]]
  <2>1. j # Len(turns) + 1
    BY <1>4, <1>6, <1>7
  <2>2. i \in 1 .. Len(turns) /\ j \in 1 .. Len(turns)
    BY <1>6, <1>7, <2>1
  <2>3. turns[j] \in Members(turns)
    BY <2>2 DEF Members
  <2>4. at[turns[j]] = "running"
    BY <1>1, <1>2, <1>4, <1>6, <1>7, <2>2, <2>3
  <2> QED
    BY <1>1, <1>6, <1>7, <2>2, <2>4
<1> QED
  BY <1>3, <1>5, <1>7 DEF TurnsSound

-----------------------------------------------------------------------------
(* The steps of a call.                                                    *)

(* A call enters: it is refused, waits for an abandoned opening, has the    *)
(* pipeline there is, or waits for one.                                     *)
LEMMA EnterKeeps ==
  ASSUME IInv, NEW c \in Callers, Enter(c),
         \/ /\ at[c] = "new" /\ ~Closed /\ c \in Takers
            /\ leases' = leases + 1 /\ idleTimer' = FALSE /\ excused' = FALSE
         \/ /\ at[c] = "new" /\ ~Closed /\ c \in Preloaders /\ UNCHANGED <<leases, idleTimer, excused>>
         \/ at[c] = "again" /\ UNCHANGED <<leases, idleTimer, excused>>,
         UNCHANGED <<kind, opened, loads, gone, turns, pinned, closing, alive, unloaded>>
  PROVE  IInv'
<1>1. PICK w \in {"turned_away", "draining", "given", "waiting"} :
        /\ Go(c, w)
        /\ w = "turned_away" <=> Closed
        /\ w = "draining" <=> ~Closed /\ loading = "abandoned"
        /\ w = "given" => opened # 0 /\ has' = [has EXCEPT ![c] = opened]
        /\ w # "given" => UNCHANGED has
        /\ w = "waiting" => opened = 0 /\ loading # "abandoned" /\ loading' = "going" /\ waiters' = waiters + 1
        /\ w # "waiting" => UNCHANGED <<loading, waiters>>
  <2>1. CASE Closed
    BY <2>1 DEF Enter
  <2>2. CASE ~Closed /\ loading = "abandoned"
    BY <2>2 DEF Enter
  <2>3. CASE ~Closed /\ loading # "abandoned" /\ opened # 0
    BY <2>3 DEF Enter
  <2>4. CASE ~Closed /\ loading # "abandoned" /\ opened = 0
    BY <2>4 DEF Enter
  <2> QED
    BY <2>1, <2>2, <2>3, <2>4
<1>2. /\ at' \in [Callers -> Labels] /\ at'[c] = w /\ \A x \in Callers \ {c} : at'[x] = at[x]
      /\ w \in Labels /\ at[c] \in {"new", "again"}
  BY <1>1, CallMoves DEF Labels
<1>3. /\ has' \in [Callers -> Nat] /\ \A x \in Callers \ {c} : has'[x] = has[x]
      /\ w = "given" => has'[c] = opened /\ opened # 0
  BY <1>1 DEF IInv, TypeOK
<1>4. CountsMove(c, w)
  <2>1. leases \in Nat /\ waiters \in Nat /\ (c \in Preloaders => c \notin Takers)
    BY HostAssumption DEF IInv, TypeOK
  <2>2. Waits(at[c]) = 0 /\ Waits(w) = (IF w = "waiting" THEN 1 ELSE 0)
    BY <1>2 DEF Waits, Counting
  <2>3. waiters' = waiters + Waits(w) - Waits(at[c])
    BY <1>1, <2>1, <2>2
  <2>4. Took(c, w) = (IF c \in Takers THEN 1 ELSE 0) /\ Took(c, at[c]) = (IF c \in Takers /\ at[c] # "new" THEN 1 ELSE 0)
    BY <1>2 DEF Took
  <2> QED
    BY <1>2, <2>1, <2>3, <2>4 DEF CountsMove
<1>5. /\ CountsExact' /\ leases' \in Nat /\ waiters' \in Nat
      /\ \A x \in Takers : at'[x] \notin {"new", "done"} => leases' > 0
      /\ \A x \in Callers : at'[x] \in Counting => waiters' > 0
  BY <1>1, <1>2, <1>4, CountsFollow
<1>6. TypeOK'
  BY <1>1, <1>2, <1>3, <1>5 DEF IInv, TypeOK
<1>7. PipelinesHeld' /\ PipelinesGiven'
  <2>1. PipelinesHeld /\ PipelinesGiven
    BY DEF IInv
  <2>2. alive' = {opened'} \ {0} /\ (opened' # 0 => loading' = "no") /\ (closing' = "done" => alive' = {})
    BY <1>1, <2>1 DEF PipelinesHeld
  <2>3. ASSUME NEW x \in Takers, at'[x] \in Having
        PROVE  has'[x] # 0 /\ (has'[x] = opened' \/ has'[x] \in unloaded' \/ Closed')
    BY <1>1, <1>2, <1>3, <2>1, <2>3 DEF PipelinesHeld, PipelinesGiven, Having, Closed, Callers
  <2> QED
    BY <2>2, <2>3 DEF PipelinesHeld, PipelinesGiven, Having
<1>8. OpeningWanted'
  BY <1>1, <1>2 DEF IInv, OpeningWanted, Closed
<1>9. OpeningCounted'
  <2>1. OpeningCounted
    BY DEF IInv
  <2>2. CASE w = "waiting"
    BY <1>1, <1>2, <1>5, <2>1, <2>2 DEF OpeningCounted, Closed, Counting
  <2>3. CASE w # "waiting"
    BY <1>1, <1>2, <2>1, <2>3 DEF OpeningCounted, Closed
  <2> QED
    BY <2>2, <2>3
<1>10. CallsSound'
  BY <1>1, <1>2 DEF IInv, CallsSound, Closed, Callers
<1>11. TurnsSound'
  BY <1>1, <1>2, <1>3, TurnsStay
<1>12. IdleIsArmed'
  <2>1. leases \in Nat /\ waiters \in Nat /\ IdleIsArmed
    BY DEF IInv, TypeOK
  <2>2. waiters' = 0 => waiters = 0
    BY <1>1, <2>1
  <2>3. CASE leases' = leases + 1
    <3>1. leases' # 0
      BY <2>1, <2>3
    <3> QED
      BY <3>1 DEF IdleIsArmed
  <2>4. CASE UNCHANGED <<leases, idleTimer, excused>>
    BY <2>1, <2>2, <2>4 DEF IdleIsArmed, Closed
  <2> QED
    BY <2>3, <2>4
<1> QED
  BY <1>5, <1>6, <1>7, <1>8, <1>9, <1>10, <1>11, <1>12 DEF IInv

(* armIdle disposes what nobody leases, unless it is to stay or its timer runs. *)
LEMMA Armed ==
  ASSUME NEW keep \in BOOLEAN, ArmIdle(keep), waiters' \in Nat
  PROVE  /\ idleTimer' \in BOOLEAN
         /\ \/ UNCHANGED <<opened, alive>>
            \/ /\ opened' = 0 /\ alive' = alive \ {opened} /\ leases' = 0 /\ ~Closed
               /\ kind = "image" => waiters' = 0
         /\ leases' = 0 /\ opened' # 0 /\ waiters' = 0 /\ ~pinned /\ ~Closed => idleTimer'
BY DEF ArmIdle, DisposePipeline

(* A call goes on with its pipeline or leaves, and gives back what was counted. *)
LEMMA LeaveKeeps ==
  ASSUME IInv, NEW c \in Callers, NEW w \in {"holding", "done"}, Go(c, w),
         at[c] \in {"joined", "rejected", "gave_up", "given", "turned_away", "holding", "finished"},
         w = "holding" => at[c] \in {"joined", "given"} /\ c \in Takers,
         CountsMove(c, w),
         \/ UNCHANGED <<opened, alive>>
         \/ /\ opened' = 0 /\ alive' = alive \ {opened} /\ leases' = 0 /\ ~Closed
            /\ kind = "image" => waiters' = 0,
         \/ UNCHANGED loading
         \/ loading = "going" /\ loading' = "abandoned" /\ waiters' = 0,
         loading' = "going" /\ ~Closed /\ kind = "image" /\ at[c] \in Counting => waiters # 1,
         excused' \in BOOLEAN, idleTimer' \in BOOLEAN, IdleIsArmed',
         UNCHANGED <<kind, loads, has, gone, turns, pinned, closing, unloaded>>
  PROVE  IInv'
<1>1. /\ at' \in [Callers -> Labels] /\ at'[c] = w /\ \A x \in Callers \ {c} : at'[x] = at[x]
      /\ w \in Labels
  BY CallMoves DEF Labels
<1>2. /\ CountsExact' /\ leases' \in Nat /\ waiters' \in Nat
      /\ \A x \in Takers : at'[x] \notin {"new", "done"} => leases' > 0
      /\ \A x \in Callers : at'[x] \in Counting => waiters' > 0
  BY <1>1, CountsFollow
<1>3. TypeOK'
  BY <1>1, <1>2 DEF IInv, TypeOK
<1>4. PipelinesHeld' /\ PipelinesGiven'
  <2>1. PipelinesHeld /\ PipelinesGiven
    BY DEF IInv
  <2>2. alive' = {opened'} \ {0} /\ (opened' # 0 => loading' = "no") /\ (closing' = "done" => alive' = {})
    BY <2>1 DEF PipelinesHeld
  <2>3. ASSUME NEW x \in Takers, at'[x] \in Having
        PROVE  has'[x] # 0 /\ (has'[x] = opened' \/ has'[x] \in unloaded' \/ Closed')
    <3>1. at[x] \in Having /\ at'[x] \notin {"new", "done"}
      BY <1>1, <2>3 DEF Having, Callers
    <3>2. leases' # 0
      BY <1>2, <3>1
    <3> QED
      BY <2>1, <3>1, <3>2 DEF PipelinesHeld, PipelinesGiven, Having, Closed
  <2> QED
    BY <2>2, <2>3 DEF PipelinesHeld, PipelinesGiven, Having
<1>5. OpeningWanted'
  <2>1. ASSUME NEW x \in Callers, at'[x] = "waiting"
        PROVE  loading' = "going" \/ (loading' = "abandoned" /\ Closed')
    <3>1. at[x] = "waiting" /\ at'[x] \in Counting
      BY <1>1, <2>1 DEF Counting
    <3>2. waiters' # 0
      BY <1>2, <3>1
    <3> QED
      BY <3>1, <3>2 DEF IInv, OpeningWanted, Closed
  <2>2. ASSUME NEW x \in Callers, at'[x] = "draining"
        PROVE  loading' = "abandoned"
    BY <1>1, <2>2 DEF IInv, OpeningWanted
  <2> QED
    BY <2>1, <2>2 DEF OpeningWanted
<1>6. OpeningCounted'
  <2>1. OpeningCounted
    BY DEF IInv
  <2>2. ASSUME loading' = "going", ~Closed'
        PROVE  waiters' > 0
    <3>1. loading = "going" /\ ~Closed /\ waiters > 0 /\ waiters \in Nat /\ kind \in {"image", "whisper"}
      BY <2>1, <2>2 DEF OpeningCounted, Closed, IInv, TypeOK
    <3>2. CASE kind = "whisper"
      <4>1. PICK x \in Callers : at[x] = "waiting"
        BY <2>1, <3>1, <3>2 DEF OpeningCounted
      <4> QED
        BY <1>1, <1>2, <4>1 DEF Counting
    <3>3. CASE kind = "image"
      <4>1. Waits(w) = 0 /\ Waits(at[c]) = (IF at[c] \in Counting THEN 1 ELSE 0)
        BY <1>1 DEF Waits, Counting
      <4>2. at[c] \in Counting => waiters # 1
        BY <2>2, <3>3 DEF Closed
      <4> QED
        BY <3>1, <4>1, <4>2 DEF CountsMove
    <3> QED
      BY <3>1, <3>2, <3>3
  <2>3. ASSUME loading' = "going", kind' = "whisper"
        PROVE  \E x \in Callers : at'[x] = "waiting"
    BY <1>1, <2>1, <2>3 DEF OpeningCounted
  <2>4. closing' = "done" => loading' = "no"
    BY <2>1 DEF OpeningCounted
  <2> QED
    BY <2>2, <2>3, <2>4 DEF OpeningCounted
<1>7. CallsSound'
  <2>1. CallsSound
    BY DEF IInv
  <2>2. \A x \in Preloaders : at'[x] \notin {"gave_up", "holding", "queued", "running", "finished"}
    BY <1>1, <2>1, HostAssumption DEF CallsSound, Callers, IInv
  <2>3. \A x \in Callers : at'[x] = "rejected" => opened' = 0
    BY <1>1, <2>1 DEF CallsSound
  <2>4. ASSUME NEW x \in Callers, at'[x] = "joined", kind' = "image", ~Closed'
        PROVE  opened' # 0
    <3>1. at[x] = "joined" /\ at'[x] \in Counting
      BY <1>1, <2>4 DEF Counting
    <3>2. waiters' # 0
      BY <1>2, <3>1
    <3> QED
      BY <2>1, <2>4, <3>1, <3>2 DEF CallsSound, Closed
  <2> QED
    BY <2>1, <2>2, <2>3, <2>4 DEF CallsSound
<1>8. TurnsSound'
  BY <1>1, TurnsStay
<1> QED
  BY <1>2, <1>3, <1>4, <1>5, <1>6, <1>7, <1>8 DEF IInv

(* A call resumes: it has its pipeline, or gives its lease back. *)
LEMMA ResumeKeeps ==
  ASSUME IInv, NEW c \in Callers, Resume(c)
  PROVE  IInv'
<1> DEFINE counted == at[c] \in Counting
           good == at[c] \in {"joined", "given"} /\ c \notin gone
           taker == c \in Takers
           w == IF good /\ taker THEN "holding" ELSE "done"
<1>1. /\ at[c] \in {"joined", "rejected", "gave_up", "given", "turned_away"} /\ Go(c, w)
      /\ waiters' = IF counted THEN waiters - 1 ELSE waiters
      /\ loading' = IF counted /\ ~good /\ loading = "going" /\ waiters = 1 /\ kind = "image"
                      THEN "abandoned" ELSE loading
      /\ taker /\ ~good => leases' = leases - 1 /\ ArmIdle(c \in Keeping)
      /\ ~(taker /\ ~good) => UNCHANGED <<leases, idleTimer, opened, alive>>
      /\ excused' = (excused \/ (good /\ ~taker))
      /\ UNCHANGED <<kind, loads, has, gone, turns, pinned, closing, unloaded>>
  BY DEF Resume, LastWaiter
<1>2. /\ leases \in Nat /\ waiters \in Nat /\ excused \in BOOLEAN /\ idleTimer \in BOOLEAN /\ kind \in {"image", "whisper"}
      /\ c \in Preloaders => c \notin Takers /\ c \notin gone /\ at[c] # "gave_up"
      /\ c \in Takers \/ c \in Preloaders
  BY HostAssumption DEF IInv, TypeOK, CallsSound, Callers
<1>3. w \in {"holding", "done"} /\ (w = "holding" => at[c] \in {"joined", "given"} /\ c \in Takers)
  OBVIOUS
<1>4. CountsMove(c, w)
  <2>1. Waits(at[c]) = (IF counted THEN 1 ELSE 0) /\ Waits(w) = 0
    BY <1>3 DEF Waits, Counting
  <2>2. Took(c, at[c]) = (IF taker THEN 1 ELSE 0) /\ Took(c, w) = (IF taker /\ good THEN 1 ELSE 0)
    BY <1>1, <1>3 DEF Took
  <2> HIDE DEF counted, good, taker, w
  <2> QED
    BY <1>1, <1>2, <2>1, <2>2 DEF CountsMove
<1>5. CountsExact' /\ leases' \in Nat /\ waiters' \in Nat /\ (taker /\ good => leases' > 0)
  <2>1. w \in Labels /\ (taker /\ good => at'[c] \notin {"new", "done"})
    BY <1>1, <1>3, CallMoves DEF Labels
  <2> HIDE DEF w, good
  <2> QED
    BY <1>1, <1>4, <2>1, CountsFollow
<1>6. excused' \in BOOLEAN
  BY <1>1, <1>2
<1>7. /\ idleTimer' \in BOOLEAN
      /\ \/ UNCHANGED <<opened, alive>>
         \/ /\ opened' = 0 /\ alive' = alive \ {opened} /\ leases' = 0 /\ ~Closed
            /\ kind = "image" => waiters' = 0
      /\ taker /\ ~good /\ leases' = 0 /\ opened' # 0 /\ waiters' = 0 /\ ~pinned /\ ~Closed => idleTimer'
  <2>1. CASE taker /\ ~good
    <3>1. (c \in Keeping) \in BOOLEAN
      OBVIOUS
    <3>2. ArmIdle(c \in Keeping)
      BY <1>1, <2>1
    <3> HIDE DEF taker, good
    <3> QED
      BY <1>5, <3>1, <3>2, Armed
  <2>2. CASE ~(taker /\ ~good)
    BY <1>1, <1>2, <2>2
  <2> QED
    BY <2>1, <2>2
<1>8. IdleIsArmed'
  <2> SUFFICES ASSUME opened' # 0, leases' = 0, waiters' = 0, ~pinned, ~excused', ~Closed
               PROVE  idleTimer'
    BY <1>1 DEF IdleIsArmed, Closed
  <2>1. CASE taker /\ ~good
    BY <1>7, <2>1
  <2>2. CASE ~taker /\ ~good
    <3>1. at[c] \in {"rejected", "turned_away"} /\ opened' = opened
      BY <1>1, <1>2, <2>2
    <3>2. at[c] = "turned_away" /\ opened # 0
      BY <3>1 DEF IInv, CallsSound
    <3>3. UNCHANGED <<leases, idleTimer, opened, waiters>> /\ ~excused
      BY <1>1, <2>2, <3>2 DEF Counting
    <3> QED
      BY <3>2, <3>3 DEF IInv, IdleIsArmed
  <2>3. CASE good
    <3>1. ~taker => excused'
      BY <1>1, <2>3
    <3>2. taker => leases' # 0
      <4> HIDE DEF taker, good
      <4> QED
        BY <1>5, <2>3
    <3> QED
      BY <3>1, <3>2
  <2> QED
    BY <2>1, <2>2, <2>3
<1>9. UNCHANGED loading \/ (loading = "going" /\ loading' = "abandoned" /\ waiters' = 0)
  BY <1>1
<1>10. ASSUME loading' = "going", ~Closed, kind = "image", counted
       PROVE  waiters # 1
  <2>1. loading = "going" /\ (~good => waiters # 1)
    BY <1>1, <1>10
  <2>2. CASE good
    <3>1. at[c] = "joined"
      BY <1>10, <2>2 DEF Counting
    <3>2. opened # 0 /\ loading = "no"
      BY <1>10, <3>1 DEF IInv, CallsSound, PipelinesHeld
    <3> QED
      BY <2>1, <3>2
  <2> QED
    BY <2>1, <2>2
<1> HIDE DEF counted, good, taker, w
<1>11. UNCHANGED <<kind, loads, has, gone, turns, pinned, closing, unloaded>>
  BY <1>1
<1>12. /\ at[c] \in {"joined", "rejected", "gave_up", "given", "turned_away", "holding", "finished"} /\ Go(c, w)
       /\ loading' = "going" /\ ~Closed /\ kind = "image" /\ at[c] \in Counting => waiters # 1
  BY <1>1, <1>10 DEF counted
<1> QED
  BY <1>3, <1>4, <1>6, <1>7, <1>8, <1>9, <1>11, <1>12, LeaveKeeps

(* A lease ends. *)
LEMMA ReleaseKeeps ==
  ASSUME IInv, NEW c \in Callers, ReleaseLease(c)
  PROVE  IInv'
<1>1. /\ at[c] \in {"holding", "finished"} /\ Go(c, "done")
      /\ leases' = leases - 1 /\ UNCHANGED waiters /\ ArmIdle(c \in Keeping)
      /\ UNCHANGED <<kind, loads, loading, has, gone, turns, pinned, closing, unloaded, excused>>
  BY DEF ReleaseLease
<1>2. leases \in Nat /\ waiters \in Nat /\ excused \in BOOLEAN /\ c \in Takers
  BY <1>1 DEF IInv, TypeOK, CallsSound, Callers
<1>3. CountsMove(c, "done")
  <2>1. Waits(at[c]) = 0 /\ Waits("done") = 0 /\ Took(c, at[c]) = 1 /\ Took(c, "done") = 0
    BY <1>1, <1>2 DEF Waits, Counting, Took
  <2> QED
    BY <1>1, <1>2, <2>1 DEF CountsMove
<1>4. CountsExact' /\ leases' \in Nat /\ waiters' \in Nat
  BY <1>1, <1>3, CountsFollow DEF Labels
<1>5. /\ idleTimer' \in BOOLEAN
      /\ \/ UNCHANGED <<opened, alive>>
         \/ /\ opened' = 0 /\ alive' = alive \ {opened} /\ leases' = 0 /\ ~Closed
            /\ kind = "image" => waiters' = 0
      /\ leases' = 0 /\ opened' # 0 /\ waiters' = 0 /\ ~pinned /\ ~Closed => idleTimer'
  <2>1. (c \in Keeping) \in BOOLEAN
    OBVIOUS
  <2> QED
    BY <1>1, <1>4, <2>1, Armed
<1>6. IdleIsArmed'
  BY <1>1, <1>5 DEF IdleIsArmed, Closed
<1>7. at[c] \notin Counting
  BY <1>1 DEF Counting
<1> QED
  BY <1>1, <1>2, <1>3, <1>5, <1>6, <1>7, LeaveKeeps

(* A step that moves one call among those with a lease, and nothing else. *)
LEMMA WithinKeeps ==
  ASSUME IInv, NEW c \in Takers, NEW w, Go(c, w), UNCHANGED <<kind, slotVars, has, pinned, closing, alive, unloaded, excused>>,
         gone' \subseteq Impatient, gone' = gone \/ kind = "image", turns' \in Seq(Takers), TurnsSound',
         \/ w = at[c] /\ at[c] \in Labels
         \/ at[c] = "waiting" /\ w = "gave_up" /\ kind = "image"
         \/ at[c] \in {"draining", "again"} /\ w = "turned_away"
         \/ at[c] \in {"holding", "queued", "running"} /\ w \in {"queued", "running", "finished"}
  PROVE  IInv'
<1>1. /\ c \in Callers /\ w \in Labels /\ at[c] \in Labels
      /\ c \notin Preloaders
  BY HostAssumption DEF Callers, Labels
<1>2. at' \in [Callers -> Labels] /\ at'[c] = w /\ \A x \in Callers \ {c} : at'[x] = at[x]
  BY <1>1, CallMoves
<1>3. leases \in Nat /\ waiters \in Nat /\ UNCHANGED <<opened, loads, loading, waiters, leases, idleTimer>>
  BY DEF IInv, TypeOK, slotVars
<1>4. CountsMove(c, w)
  <2>1. Waits(at[c]) = Waits(w) /\ Took(c, at[c]) = Took(c, w) /\ Waits(w) \in Nat /\ Took(c, w) \in Nat
    BY DEF Waits, Counting, Took
  <2>2. UNCHANGED <<leases, waiters>>
    BY <1>3
  <2> QED
    BY <1>3, <2>1, <2>2 DEF CountsMove
<1>5. CountsExact' /\ leases' \in Nat /\ waiters' \in Nat
  BY <1>1, <1>4, CountsFollow
<1>6. TypeOK'
  BY <1>2, <1>3 DEF IInv, TypeOK
<1>7. PipelinesHeld' /\ PipelinesGiven'
  <2>1. PipelinesHeld /\ PipelinesGiven
    BY DEF IInv
  <2>2. \A x \in Takers : at'[x] \in Having => at[x] \in Having
    BY <1>1, <1>2 DEF Having, Callers
  <2> QED
    BY <1>3, <2>1, <2>2 DEF PipelinesHeld, PipelinesGiven, Having, Closed
<1>8. OpeningWanted'
  BY <1>2, <1>3 DEF IInv, OpeningWanted, Closed
<1>9. OpeningCounted'
  <2>1. OpeningCounted
    BY DEF IInv
  <2>2. ASSUME kind = "whisper", NEW x \in Callers, at[x] = "waiting"
        PROVE  at'[x] = "waiting"
    BY <1>2, <2>2
  <2> QED
    BY <1>3, <2>1, <2>2 DEF OpeningCounted, Closed
<1>10. CallsSound'
  BY <1>1, <1>2, <1>3 DEF IInv, CallsSound, Closed, Callers
<1>11. IdleIsArmed'
  BY <1>3 DEF IInv, IdleIsArmed, Closed
<1> QED
  BY <1>5, <1>6, <1>7, <1>8, <1>9, <1>10, <1>11 DEF IInv

(* A signal aborts. *)
LEMMA AbortKeeps ==
  ASSUME IInv, NEW c \in Callers, Abort(c)
  PROVE  IInv'
<1> DEFINE w == CASE at[c] = "waiting" -> "gave_up"
                  [] at[c] = "draining" -> "turned_away"
                  [] at[c] = "queued" -> "finished"
                  [] OTHER -> at[c]
<1>1. /\ kind = "image" /\ c \in Impatient /\ gone' = gone \cup {c} /\ Go(c, w)
      /\ at[c] \in {"draining", "again", "waiting", "joined", "given", "queued"}
      /\ turns' = IF at[c] = "queued" THEN Without(turns, {c}) ELSE turns
      /\ UNCHANGED <<kind, slotVars, has, pinned, closing, alive, unloaded, excused>>
  BY DEF Abort
<1>2. c \in Takers /\ gone' \subseteq Impatient /\ turns \in Seq(Takers)
  BY <1>1, HostAssumption DEF IInv, TypeOK
<1>3. TurnsSound' /\ turns' \in Seq(Takers)
  <2>1. CASE at[c] = "queued"
    <3>1. turns' = Without(turns, {c}) /\ UNCHANGED has /\ Go(c, "finished")
      BY <1>1, <2>1
    <3> QED
      BY <3>1, TurnsLose
  <2>2. CASE at[c] # "queued"
    <3>1. w \in Labels /\ w \notin {"queued", "running"} /\ at[c] \notin {"queued", "running"}
      BY <1>1, <2>2 DEF Labels
    <3>2. at'[c] = w /\ \A x \in Callers \ {c} : at'[x] = at[x]
      BY <1>1, <3>1, CallMoves
    <3> HIDE DEF w
    <3>3. UNCHANGED <<turns, has>>
      BY <1>1, <2>2
    <3> QED
      BY <1>2, <3>1, <3>2, <3>3, TurnsStay
  <2> QED
    BY <2>1, <2>2
<1>4. \/ w = at[c] /\ at[c] \in Labels
      \/ at[c] = "waiting" /\ w = "gave_up" /\ kind = "image"
      \/ at[c] = "draining" /\ w = "turned_away"
      \/ at[c] \in {"holding", "queued", "running"} /\ w \in {"queued", "running", "finished"}
  BY <1>1 DEF Labels
<1> HIDE DEF w
<1> QED
  BY <1>1, <1>2, <1>3, <1>4, WithinKeeps

(* A run queues, begins or ends. *)
LEMMA RunsKeep ==
  ASSUME IInv, NEW c \in Callers, Generate(c) \/ Run(c) \/ RunEnds(c)
  PROVE  IInv'
<1>1. c \in Takers /\ gone \subseteq Impatient /\ turns \in Seq(Takers)
  BY DEF IInv, TypeOK, CallsSound, Callers, Generate, Run, RunEnds
<1>2. CASE Generate(c)
  <2>1. TurnsSound' /\ turns' \in Seq(Takers)
    BY <1>1, <1>2, TurnsGain DEF Generate
  <2> QED
    BY <1>1, <1>2, <2>1, WithinKeeps DEF Generate
<1>3. CASE RunEnds(c)
  <2>1. TurnsSound' /\ turns' \in Seq(Takers)
    BY <1>1, <1>3, TurnsLose DEF RunEnds
  <2> QED
    BY <1>1, <1>3, <2>1, WithinKeeps DEF RunEnds
<1>4. CASE Run(c)
  <2>1. at[c] = "queued" /\ Go(c, "running") /\ UNCHANGED <<turns, has>>
    BY <1>4 DEF Run
  <2>2. PICK n \in 1 .. Len(turns) : turns[n] = c /\ \A k \in 1 .. (n - 1) : has[turns[k]] # has[c]
    BY <1>4 DEF Run
  <2>3. at'[c] = "running" /\ \A x \in Callers \ {c} : at'[x] = at[x]
    BY <2>1, CallMoves DEF Labels
  <2>4. /\ Distinct(turns) /\ Members(turns) = {x \in Callers : at[x] \in {"queued", "running"}}
        /\ \A i, j \in 1 .. Len(turns) : i < j /\ at[turns[j]] = "running" => has[turns[i]] # has[turns[j]]
        /\ Len(turns) \in Nat
    BY <1>1, LenProperties DEF IInv, TurnsSound
  <2>5. Members(turns') = {x \in Callers : at'[x] \in {"queued", "running"}} /\ Distinct(turns')
    BY <2>1, <2>3, <2>4
  <2>6. ASSUME NEW i \in 1 .. Len(turns), NEW j \in 1 .. Len(turns), i < j, at'[turns[j]] = "running"
        PROVE  has[turns[i]] # has[turns[j]]
    <3>1. CASE turns[j] = c
      <4>1. j = n
        BY <2>2, <2>4, <3>1 DEF Distinct
      <4>2. i \in 1 .. (n - 1)
        BY <2>4, <2>6, <4>1
      <4> QED
        BY <2>2, <3>1, <4>2
    <3>2. CASE turns[j] # c
      <4>1. turns[j] \in Members(turns)
        BY DEF Members
      <4>2. at[turns[j]] = "running"
        BY <2>3, <2>4, <2>6, <3>2, <4>1
      <4> QED
        BY <2>4, <2>6, <4>2
    <3> QED
      BY <3>1, <3>2
  <2>7. TurnsSound'
    BY <2>1, <2>5, <2>6 DEF TurnsSound
  <2> QED
    BY <1>1, <1>4, <2>1, <2>7, WithinKeeps DEF Run
<1> QED
  BY <1>2, <1>3, <1>4

-----------------------------------------------------------------------------
(* The backend's answer, and the host's own steps.                         *)

(* An opening that ends, in a pipeline or a failure, keeps the invariant. *)
LEMMA LoadEndsKeeps ==
  ASSUME IInv, LoadEnds
  PROVE  IInv'
<1> DEFINE n == loads + 1
<1>1. PICK good \in BOOLEAN :
        /\ good => loading = "going" /\ ~Closed
        /\ at' = [c \in Callers |->
             CASE at[c] = "waiting" -> IF good THEN "joined" ELSE "rejected"
               [] at[c] = "draining" -> "again"
               [] OTHER -> at[c]]
        /\ has' = [c \in Callers |-> IF good /\ at[c] = "waiting" THEN n ELSE has[c]]
        /\ good => opened' = n /\ loads' = n /\ alive' = alive \cup {n}
        /\ ~good => UNCHANGED <<opened, loads, alive>>
  BY DEF LoadEnds
<1>2. /\ loading # "no" /\ NextTurn /\ loading' = "no"
      /\ UNCHANGED <<kind, waiters, leases, idleTimer, gone, turns, pinned, closing, unloaded, excused>>
  BY DEF LoadEnds
<1>3. loads \in Nat /\ n \in Nat /\ n # 0 /\ waiters \in Nat /\ at \in [Callers -> Labels] /\ has \in [Callers -> Nat]
  BY DEF IInv, TypeOK
<1> HIDE DEF n
<1>4. opened = 0 /\ alive = {} /\ closing # "done"
  BY <1>2 DEF IInv, PipelinesHeld, OpeningCounted
<1>5. \A c \in Callers :
        /\ at[c] = "waiting" => at'[c] = IF good THEN "joined" ELSE "rejected"
        /\ at[c] = "draining" => at'[c] = "again"
        /\ at[c] \notin {"waiting", "draining"} => at'[c] = at[c]
        /\ at[c] \notin {"joined", "rejected", "gave_up", "given", "turned_away", "again"}
        /\ at[c] \in Labels
  BY <1>1, <1>2, <1>3 DEF NextTurn, Resumable
<1>6. \A c \in Callers : has'[c] = IF good /\ at[c] = "waiting" THEN n ELSE has[c]
  BY <1>1
<1>7. TypeOK'
  <2>1. at' \in [Callers -> Labels]
    <3>1. at' = [c \in Callers |-> at'[c]]
      BY <1>1
    <3>2. \A c \in Callers : at'[c] \in Labels
      BY <1>5 DEF Labels
    <3> QED
      BY <3>1, <3>2
  <2>2. has' \in [Callers -> Nat]
    BY <1>1, <1>3
  <2> QED
    BY <1>1, <1>2, <1>3, <2>1, <2>2 DEF IInv, TypeOK
<1>8. CountsExact'
  <2>1. {c \in Takers : at'[c] \notin {"new", "done"}} = {c \in Takers : at[c] \notin {"new", "done"}}
    BY <1>5 DEF Callers
  <2>2. {c \in Callers : at'[c] \in Counting} = {c \in Callers : at[c] \in Counting}
    BY <1>5 DEF Counting
  <2> QED
    BY <1>2, <2>1, <2>2 DEF IInv, CountsExact
<1>9. PipelinesHeld' /\ PipelinesGiven'
  <2>1. alive' = {opened'} \ {0} /\ (opened' # 0 => loading' = "no") /\ (closing' = "done" => alive' = {})
    BY <1>1, <1>2, <1>3, <1>4
  <2>2. ASSUME NEW c \in Takers, at'[c] \in Having
        PROVE  has'[c] # 0 /\ (has'[c] = opened' \/ has'[c] \in unloaded' \/ Closed')
    <3>1. c \in Callers
      BY DEF Callers
    <3>2. CASE at[c] = "waiting"
      BY <1>1, <1>3, <1>5, <1>6, <2>2, <3>1, <3>2 DEF Having
    <3>3. CASE at[c] # "waiting"
      <4>1. at[c] \in Having /\ has'[c] = has[c]
        BY <1>5, <1>6, <2>2, <3>1, <3>3 DEF Having
      <4>2. has[c] # 0 /\ (has[c] = opened \/ has[c] \in unloaded \/ Closed)
        BY <4>1 DEF IInv, PipelinesHeld, PipelinesGiven, Having
      <4> QED
        BY <1>2, <1>4, <4>1, <4>2 DEF Closed
    <3> QED
      BY <3>2, <3>3
  <2> QED
    BY <2>1, <2>2 DEF PipelinesHeld, PipelinesGiven, Having
<1>10. OpeningWanted'
  BY <1>5 DEF OpeningWanted
<1>11. OpeningCounted'
  BY <1>2 DEF OpeningCounted
<1>12. CallsSound'
  <2>1. CallsSound
    BY DEF IInv
  <2>2. \A c \in Preloaders : at'[c] \notin {"gave_up", "holding", "queued", "running", "finished"}
    BY <1>5, <2>1 DEF CallsSound, Callers
  <2>3. \A c \in Callers : at'[c] = "rejected" => opened' = 0
    BY <1>1, <1>4, <1>5
  <2>4. \A c \in Callers : at'[c] = "joined" => opened' # 0
    BY <1>1, <1>3, <1>5
  <2> QED
    BY <1>2, <2>1, <2>2, <2>3, <2>4 DEF CallsSound
<1>13. TurnsSound'
  <2>1. \A x \in Callers : /\ at'[x] \in {"queued", "running"} <=> at[x] \in {"queued", "running"}
                           /\ at'[x] = "running" => at[x] = "running"
                           /\ at[x] \in {"queued", "running"} => has'[x] = has[x]
    BY <1>5, <1>6
  <2> QED
    BY <1>2, <2>1, TurnsStay
<1>14. IdleIsArmed'
  <2>1. CASE good
    <3>1. waiters' # 0
      BY <1>1, <1>2, <1>3, <2>1 DEF IInv, OpeningCounted
    <3> QED
      BY <3>1 DEF IdleIsArmed
  <2>2. CASE ~good
    BY <1>1, <1>4, <2>2 DEF IdleIsArmed
  <2> QED
    BY <2>1, <2>2
<1> QED
  BY <1>7, <1>8, <1>9, <1>10, <1>11, <1>12, <1>13, <1>14 DEF IInv

(* The host's own steps: nobody's call moves. *)
LEMMA HostKeeps ==
  ASSUME IInv,
         IdleTimerFires \/ (\E force \in BOOLEAN : Unload(force)) \/ Pin \/ Unpin \/ HostClose \/ CloseEnds \/ UNCHANGED cvars
  PROVE  IInv'
<1>1. UNCHANGED <<kind, loads, waiters, leases, at, has, gone, turns>>
  BY DEF IdleTimerFires, Unload, Pin, Unpin, HostClose, CloseEnds, cvars, callVars, slotVars
<1>2. /\ TypeOK /\ CountsExact /\ PipelinesHeld /\ PipelinesGiven /\ OpeningWanted
      /\ OpeningCounted /\ CallsSound /\ TurnsSound /\ IdleIsArmed
  BY DEF IInv
<1>3. CountsExact' /\ TurnsSound' /\ PipelinesGiven'
  BY <1>1, <1>2 DEF CountsExact, TurnsSound, PipelinesGiven
<1>4. \A c \in Takers : at[c] \in Having => leases # 0
  BY <1>2, SomeCounted DEF Having
<1>5. CASE IdleTimerFires
  <2>1. /\ NextTurn /\ UNCHANGED <<loading, pinned, closing, unloaded, excused>>
        /\ \/ UNCHANGED <<opened, alive>> /\ leases # 0
           \/ opened' = 0 /\ alive' = alive \ {opened} /\ leases = 0
        /\ idleTimer' = FALSE
    BY <1>5 DEF IdleTimerFires, DisposePipeline
  <2>2. TypeOK'
    <3>0. opened \in Nat /\ alive \subseteq Nat /\ unloaded \subseteq Nat
      BY <1>2 DEF TypeOK
    <3>1. opened' \in Nat /\ alive' \subseteq Nat /\ unloaded' \subseteq Nat
      <4>1. opened' = opened \/ opened' = 0
        BY <2>1
      <4>2. alive' \subseteq alive
        BY <2>1
      <4>3. unloaded' \subseteq unloaded \cup {opened}
        BY <2>1
      <4> QED
        BY <3>0, <4>1, <4>2, <4>3
    <3>2. idleTimer' \in BOOLEAN /\ pinned' \in BOOLEAN /\ excused' \in BOOLEAN
      BY <1>2, <2>1 DEF TypeOK
    <3>3. loading' \in {"no", "going", "abandoned"} /\ closing' \in {"no", "waiting", "done"}
      BY <1>2, <2>1 DEF TypeOK
    <3> QED
      BY <1>1, <1>2, <3>1, <3>2, <3>3 DEF TypeOK
  <2>3. PipelinesHeld'
    BY <1>1, <1>2, <1>4, <2>1 DEF PipelinesHeld, Having, Closed
  <2>4. OpeningWanted' /\ OpeningCounted'
    BY <1>1, <1>2, <2>1 DEF OpeningWanted, OpeningCounted, Closed
  <2>5. CallsSound'
    BY <1>1, <1>2, <2>1 DEF CallsSound, Closed, NextTurn, Resumable
  <2>6. IdleIsArmed'
    BY <1>1, <2>1 DEF IdleIsArmed
  <2> QED
    BY <1>3, <2>2, <2>3, <2>4, <2>5, <2>6 DEF IInv
<1>6. ASSUME NEW force \in BOOLEAN, Unload(force)
      PROVE  IInv'
  <2>1. /\ NextTurn /\ UNCHANGED <<loading, pinned, closing, excused>> /\ idleTimer' = FALSE
        /\ \/ UNCHANGED <<opened, alive, unloaded>> /\ leases # 0
           \/ opened' = 0 /\ alive' = alive \ {opened} /\ UNCHANGED unloaded /\ leases = 0
           \/ opened' = 0 /\ alive' = alive \ {opened} /\ unloaded' = unloaded \cup {opened}
    <3>1. leases > 0 <=> leases # 0
      BY <1>2 DEF TypeOK
    <3> QED
      BY <1>6, <3>1 DEF Unload, DisposePipeline
  <2>2. TypeOK'
    <3>0. opened \in Nat /\ alive \subseteq Nat /\ unloaded \subseteq Nat
      BY <1>2 DEF TypeOK
    <3>1. opened' \in Nat /\ alive' \subseteq Nat /\ unloaded' \subseteq Nat
      <4>1. opened' = opened \/ opened' = 0
        BY <2>1
      <4>2. alive' \subseteq alive
        BY <2>1
      <4>3. unloaded' \subseteq unloaded \cup {opened}
        BY <2>1
      <4> QED
        BY <3>0, <4>1, <4>2, <4>3
    <3>2. idleTimer' \in BOOLEAN /\ pinned' \in BOOLEAN /\ excused' \in BOOLEAN
      BY <1>2, <2>1 DEF TypeOK
    <3>3. loading' \in {"no", "going", "abandoned"} /\ closing' \in {"no", "waiting", "done"}
      BY <1>2, <2>1 DEF TypeOK
    <3> QED
      BY <1>1, <1>2, <3>1, <3>2, <3>3 DEF TypeOK
  <2>3. PipelinesHeld'
    BY <1>1, <1>2, <1>4, <2>1 DEF PipelinesHeld, Having, Closed
  <2>4. OpeningWanted' /\ OpeningCounted'
    BY <1>1, <1>2, <2>1 DEF OpeningWanted, OpeningCounted, Closed
  <2>5. CallsSound'
    BY <1>1, <1>2, <2>1 DEF CallsSound, Closed, NextTurn, Resumable
  <2>6. IdleIsArmed'
    BY <1>1, <2>1 DEF IdleIsArmed
  <2> QED
    BY <1>3, <2>2, <2>3, <2>4, <2>5, <2>6 DEF IInv
<1>7. CASE HostClose
  <2>1. /\ closing = "no" /\ NextTurn /\ UNCHANGED <<pinned, unloaded, excused>>
        /\ loading' = IF kind = "image" /\ loading = "going" THEN "abandoned" ELSE loading
        /\ \/ loading = "no" /\ closing' = "done" /\ opened' = 0 /\ alive' = alive \ {opened} /\ idleTimer' = FALSE
           \/ loading # "no" /\ closing' = "waiting" /\ UNCHANGED <<opened, alive, idleTimer>>
    BY <1>7 DEF HostClose, Closed, DisposePipeline
  <2>2. TypeOK'
    <3>0. opened \in Nat /\ alive \subseteq Nat /\ unloaded \subseteq Nat
      BY <1>2 DEF TypeOK
    <3>1. opened' \in Nat /\ alive' \subseteq Nat /\ unloaded' \subseteq Nat
      <4>1. opened' = opened \/ opened' = 0
        BY <2>1
      <4>2. alive' \subseteq alive
        BY <2>1
      <4>3. unloaded' \subseteq unloaded \cup {opened}
        BY <2>1
      <4> QED
        BY <3>0, <4>1, <4>2, <4>3
    <3>2. idleTimer' \in BOOLEAN /\ pinned' \in BOOLEAN /\ excused' \in BOOLEAN
      BY <1>2, <2>1 DEF TypeOK
    <3>3. loading' \in {"no", "going", "abandoned"} /\ closing' \in {"no", "waiting", "done"}
      BY <1>2, <2>1 DEF TypeOK
    <3> QED
      BY <1>1, <1>2, <3>1, <3>2, <3>3 DEF TypeOK
  <2>3. PipelinesHeld'
    BY <1>1, <1>2, <2>1 DEF PipelinesHeld, Closed
  <2>4. OpeningWanted' /\ OpeningCounted'
    BY <1>1, <1>2, <2>1 DEF OpeningWanted, OpeningCounted, Closed
  <2>5. CallsSound'
    BY <1>1, <1>2, <2>1 DEF CallsSound, Closed, NextTurn, Resumable
  <2>6. IdleIsArmed'
    BY <1>1, <2>1 DEF IdleIsArmed, Closed
  <2> QED
    BY <1>3, <2>2, <2>3, <2>4, <2>5, <2>6 DEF IInv
<1>8. CASE CloseEnds
  <2>1. /\ closing = "waiting" /\ loading = "no" /\ closing' = "done" /\ UNCHANGED <<loading, pinned, unloaded, excused>>
        /\ opened' = 0 /\ alive' = alive \ {opened} /\ idleTimer' = FALSE
    BY <1>8 DEF CloseEnds, DisposePipeline
  <2>2. TypeOK'
    <3>0. opened \in Nat /\ alive \subseteq Nat /\ unloaded \subseteq Nat
      BY <1>2 DEF TypeOK
    <3>1. opened' \in Nat /\ alive' \subseteq Nat /\ unloaded' \subseteq Nat
      <4>1. opened' = opened \/ opened' = 0
        BY <2>1
      <4>2. alive' \subseteq alive
        BY <2>1
      <4>3. unloaded' \subseteq unloaded \cup {opened}
        BY <2>1
      <4> QED
        BY <3>0, <4>1, <4>2, <4>3
    <3>2. idleTimer' \in BOOLEAN /\ pinned' \in BOOLEAN /\ excused' \in BOOLEAN
      BY <1>2, <2>1 DEF TypeOK
    <3>3. loading' \in {"no", "going", "abandoned"} /\ closing' \in {"no", "waiting", "done"}
      BY <1>2, <2>1 DEF TypeOK
    <3> QED
      BY <1>1, <1>2, <3>1, <3>2, <3>3 DEF TypeOK
  <2>3. PipelinesHeld'
    BY <1>1, <1>2, <2>1 DEF PipelinesHeld, Closed
  <2>4. OpeningWanted' /\ OpeningCounted'
    BY <1>1, <1>2, <2>1 DEF OpeningWanted, OpeningCounted, Closed
  <2>5. CallsSound'
    BY <1>1, <1>2, <2>1 DEF CallsSound, Closed
  <2>6. IdleIsArmed'
    BY <2>1 DEF IdleIsArmed
  <2> QED
    BY <1>3, <2>2, <2>3, <2>4, <2>5, <2>6 DEF IInv
<1>9. CASE Pin \/ Unpin \/ UNCHANGED cvars
  <2>1. /\ UNCHANGED <<opened, loading, closing, alive, unloaded>>
        /\ \/ pinned' = TRUE /\ idleTimer' = FALSE /\ UNCHANGED excused
           \/ pinned' = FALSE /\ excused' = TRUE /\ UNCHANGED idleTimer
           \/ UNCHANGED <<pinned, idleTimer, excused>>
    BY <1>9 DEF Pin, Unpin, cvars, slotVars
  <2>2. TypeOK'
    <3>0. opened \in Nat /\ alive \subseteq Nat /\ unloaded \subseteq Nat
      BY <1>2 DEF TypeOK
    <3>1. opened' \in Nat /\ alive' \subseteq Nat /\ unloaded' \subseteq Nat
      <4>1. opened' = opened \/ opened' = 0
        BY <2>1
      <4>2. alive' \subseteq alive
        BY <2>1
      <4>3. unloaded' \subseteq unloaded \cup {opened}
        BY <2>1
      <4> QED
        BY <3>0, <4>1, <4>2, <4>3
    <3>2. idleTimer' \in BOOLEAN /\ pinned' \in BOOLEAN /\ excused' \in BOOLEAN
      BY <1>2, <2>1 DEF TypeOK
    <3>3. loading' \in {"no", "going", "abandoned"} /\ closing' \in {"no", "waiting", "done"}
      BY <1>2, <2>1 DEF TypeOK
    <3> QED
      BY <1>1, <1>2, <3>1, <3>2, <3>3 DEF TypeOK
  <2>3. PipelinesHeld'
    BY <1>1, <1>2, <2>1 DEF PipelinesHeld, Closed
  <2>4. OpeningWanted' /\ OpeningCounted'
    BY <1>1, <1>2, <2>1 DEF OpeningWanted, OpeningCounted, Closed
  <2>5. CallsSound'
    BY <1>1, <1>2, <2>1 DEF CallsSound, Closed
  <2>6. IdleIsArmed'
    BY <1>1, <1>2, <2>1 DEF IdleIsArmed, Closed
  <2> QED
    BY <1>3, <2>2, <2>3, <2>4, <2>5, <2>6 DEF IInv
<1> QED
  BY <1>5, <1>6, <1>7, <1>8, <1>9

(* Every step keeps the invariant. *)
LEMMA StepKeeps ==
  ASSUME IInv, [CompanionNext]_cvars
  PROVE  IInv'
<1>1. ASSUME NEW c \in Callers, Acquire(c) \/ Preload(c) \/ Retry(c)
      PROVE  IInv'
  <2>1. CASE Acquire(c)
    BY <2>1, EnterKeeps DEF Acquire
  <2>2. CASE Preload(c)
    BY <2>2, EnterKeeps DEF Preload
  <2>3. CASE Retry(c) /\ c \notin gone
    BY <2>3, EnterKeeps DEF Retry
  <2>4. CASE Retry(c) /\ c \in gone
    <3>1. /\ at[c] = "again" /\ Go(c, "turned_away")
          /\ UNCHANGED <<has, loading, waiters, kind, opened, loads, leases, idleTimer, gone, turns, pinned, closing, alive,
                         unloaded, excused>>
      BY <2>4 DEF Retry
    <3>2. c \in Takers
      BY <2>4, HostAssumption DEF IInv, TypeOK
    <3>3. at'[c] = "turned_away" /\ \A x \in Callers \ {c} : at'[x] = at[x]
      BY <3>1, CallMoves DEF Labels
    <3>4. TurnsSound'
      BY <3>1, <3>3, TurnsStay
    <3> QED
      BY <3>1, <3>2, <3>4, WithinKeeps DEF IInv, TypeOK, slotVars
  <2> QED
    BY <1>1, <2>1, <2>2, <2>3, <2>4
<1>2. ASSUME NEW c \in Callers, Resume(c) \/ Run(c) \/ RunEnds(c) \/ Abort(c) \/ Generate(c) \/ ReleaseLease(c)
      PROVE  IInv'
  BY <1>2, ResumeKeeps, RunsKeep, AbortKeeps, ReleaseKeeps
<1> QED
  BY <1>1, <1>2, LoadEndsKeeps, HostKeeps DEF CompanionNext, CallStep

(* At the start nobody has called. *)
LEMMA InvInit ==
  ASSUME HostInit
  PROVE  IInv
<1>1. at = [c \in Callers |-> "new"] /\ has = [c \in Callers |-> 0] /\ turns = <<>>
  BY DEF HostInit
<1>2. CountsExact
  <2>1. {c \in Takers : at[c] \notin {"new", "done"}} = {} /\ {c \in Callers : at[c] \in Counting} = {}
    BY <1>1 DEF Counting, Callers
  <2> QED
    BY <2>1, FS_EmptySet DEF CountsExact, HostInit
<1>3. TurnsSound
  <2>1. turns = <<>> /\ Len(turns) = 0 /\ {c \in Callers : at[c] \in {"queued", "running"}} = {}
    BY <1>1 DEF Callers
  <2>2. Members(turns) = {} /\ Distinct(turns)
    BY <2>1, EmptyMembers
  <2>3. 1 .. Len(turns) = {}
    BY <2>1
  <2> QED
    BY <2>1, <2>2, <2>3 DEF TurnsSound
<1>4. TypeOK
  <2>1. turns \in Seq(Takers)
    BY <1>1, EmptyMembers
  <2>2. at \in [Callers -> Labels] /\ has \in [Callers -> Nat]
    BY <1>1 DEF Labels
  <2>3. idleTimer \in BOOLEAN /\ pinned \in BOOLEAN /\ excused \in BOOLEAN
    BY DEF HostInit
  <2>4. alive \subseteq Nat /\ unloaded \subseteq Nat /\ gone \subseteq Impatient
    BY DEF HostInit
  <2> QED
    BY <2>1, <2>2, <2>3, <2>4 DEF HostInit, TypeOK
<1>5. PipelinesHeld /\ PipelinesGiven
  BY DEF HostInit, PipelinesHeld, PipelinesGiven, Having, Callers
<1>6. OpeningWanted /\ OpeningCounted /\ CallsSound /\ IdleIsArmed
  BY DEF HostInit, OpeningWanted, OpeningCounted, CallsSound, IdleIsArmed, Callers
<1> QED
  BY <1>2, <1>3, <1>4, <1>5, <1>6 DEF IInv

(* Of two runs of one pipeline, one queued before the other. *)
LEMMA OneRuns ==
  ASSUME IInv
  PROVE  RunsAlone
<1>1. TurnsSound /\ turns \in Seq(Takers)
  BY DEF IInv, TypeOK
<1>2. ASSUME NEW c \in Takers, NEW d \in Takers, at[c] = "running", at[d] = "running", has[c] = has[d]
      PROVE  c = d
  <2>1. c \in Members(turns) /\ d \in Members(turns)
    BY <1>1, <1>2 DEF TurnsSound, Callers
  <2>2. PICK i \in 1 .. Len(turns), j \in 1 .. Len(turns) : turns[i] = c /\ turns[j] = d
    BY <2>1 DEF Members
  <2>3. ~(i < j) /\ ~(j < i)
    BY <1>1, <1>2, <2>2 DEF TurnsSound
  <2>4. i = j
    BY <1>1, <2>3
  <2> QED
    BY <2>2, <2>4
<1> QED
  BY <1>2 DEF RunsAlone

-----------------------------------------------------------------------------
(* The theorems.                                                           *)

(* The invariant holds of every behaviour of the host, for any finite sets *)
(* of callers: ensureOpened, acquire, armIdle, unload and close of         *)
(* image-model-host.ts and whisper-model-host.ts.                          *)
THEOREM Invariant == HostSpec => []IInv
<1>1. HostInit => IInv
  BY InvInit
<1>2. IInv /\ [CompanionNext]_cvars => IInv'
  BY StepKeeps
<1> QED
  BY <1>1, <1>2, PTL DEF HostSpec

(* The counts are exact, nothing leaks and close leaves nothing open, an    *)
(* opening that somebody waits for goes on, the runs of a pipeline take     *)
(* turns, and an idle pipeline has its timer.                               *)
THEOREM HostIsSound == HostSpec => []HostSound
<1>1. IInv => HostSound
  BY OneRuns DEF IInv, HostSound
<1> QED
  BY <1>1, Invariant, PTL
=============================================================================

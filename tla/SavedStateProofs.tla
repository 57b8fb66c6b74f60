-------------------------- MODULE SavedStateProofs --------------------------
(***************************************************************************)
(* Proofs about what is saved: the checkpoints of running requests, for    *)
(* any attempts, keys, cap and versions, and the prefixes written in the   *)
(* background, for any prefixes.                                           *)
(*                                                                         *)
(* The checkpoints' argument is about who is in the queue and in which     *)
(* order: a write of a response that completed can only be the one in      *)
(* flight, and has the response's unlink behind it; whoever has a key now  *)
(* has no unlink of it behind his writes; and what is dropped is answered. *)
(* The prefixes' is about the few places that clean a record.              *)
(***************************************************************************)
EXTENDS Services, CollectionFacts

-----------------------------------------------------------------------------
(* The order of a queue, and what dropping, appending and removing the head *)
(* do to it.                                                               *)

\* x is before y somewhere in the queue.
Before(q, x, y) == \E i, j \in 1 .. Len(q) : i < j /\ q[i] = x /\ q[j] = y

(* A queue without twins before one another has every entry once. *)
LEMMA OrderedDistinct ==
  ASSUME NEW S, NEW q \in Seq(S), \A x : ~Before(q, x, x)
  PROVE  Distinct(q)
<1>1. Len(q) \in Nat
  BY LenProperties
<1>2. ASSUME NEW i \in 1 .. Len(q), NEW j \in 1 .. Len(q), q[i] = q[j]
      PROVE  i = j
  <2>1. ~(i < j) /\ ~(j < i)
    BY <1>2 DEF Before
  <2> QED
    BY <1>1, <2>1
<1> QED
  BY <1>2 DEF Distinct

(* The last entry is behind all others. *)
LEMMA AppendOrder ==
  ASSUME NEW S, NEW q \in Seq(S), NEW e \in S, NEW x, NEW y, Before(Append(q, e), x, y)
  PROVE  Before(q, x, y) \/ (y = e /\ x \in Members(q))
<1>1. Len(q) \in Nat /\ Len(Append(q, e)) = Len(q) + 1 /\ Append(q, e)[Len(q) + 1] = e
      /\ \A i \in 1 .. Len(q) : Append(q, e)[i] = q[i]
  BY AppendProperties, LenProperties
<1>2. PICK i \in 1 .. Len(q) + 1, j \in 1 .. Len(q) + 1 : i < j /\ Append(q, e)[i] = x /\ Append(q, e)[j] = y
  BY <1>1 DEF Before
<1>3. i \in 1 .. Len(q) /\ q[i] = x
  BY <1>1, <1>2
<1>4. CASE j = Len(q) + 1
  BY <1>1, <1>2, <1>3, <1>4 DEF Members
<1>5. CASE j # Len(q) + 1
  <2>1. j \in 1 .. Len(q)
    BY <1>1, <1>5
  <2>2. q[j] = y
    BY <1>1, <1>2, <2>1
  <2> QED
    BY <1>2, <1>3, <2>1, <2>2 DEF Before
<1> QED
  BY <1>4, <1>5

(* The head is before all others, who keep their order. *)
LEMMA TailOrder ==
  ASSUME NEW S, NEW q \in Seq(S), q # <<>>
  PROVE  /\ \A x, y : Before(Tail(q), x, y) => Before(q, x, y)
         /\ \A y \in Members(Tail(q)) : Before(q, Head(q), y)
<1>1. /\ Len(q) \in Nat \ {0} /\ Head(q) = q[1] /\ Len(Tail(q)) = Len(q) - 1
      /\ \A i \in 1 .. Len(q) - 1 : Tail(q)[i] = q[i + 1]
  BY EmptySeq, LenProperties, HeadTailProperties
<1>2. ASSUME NEW x, NEW y, Before(Tail(q), x, y)
      PROVE  Before(q, x, y)
  <2>1. PICK i \in 1 .. Len(q) - 1, j \in 1 .. Len(q) - 1 : i < j /\ Tail(q)[i] = x /\ Tail(q)[j] = y
    BY <1>1, <1>2 DEF Before
  <2>2. i + 1 \in 1 .. Len(q) /\ j + 1 \in 1 .. Len(q) /\ i + 1 < j + 1 /\ q[i + 1] = x /\ q[j + 1] = y
    BY <1>1, <2>1
  <2> QED
    BY <2>2 DEF Before
<1>3. ASSUME NEW y \in Members(Tail(q))
      PROVE  Before(q, Head(q), y)
  <2>1. PICK i \in 1 .. Len(q) - 1 : Tail(q)[i] = y
    BY <1>1 DEF Members
  <2>2. 1 \in 1 .. Len(q) /\ i + 1 \in 1 .. Len(q) /\ 1 < i + 1 /\ q[i + 1] = y
    BY <1>1, <2>1
  <2> QED
    BY <1>1, <2>2 DEF Before
<1> QED
  BY <1>2, <1>3

(* How many of a finite set of numbers come up to each: a count from 1 on. *)
LEMMA RanksIncrease ==
  ASSUME NEW n \in Nat, NEW K \in SUBSET (1 .. n)
  PROVE  /\ IsFiniteSet(K) /\ Cardinality(K) \in Nat
         /\ \A i \in K : Cardinality({j \in K : j <= i}) \in 1 .. Cardinality(K)
         /\ \A i, k \in K : i < k => Cardinality({j \in K : j <= i}) < Cardinality({j \in K : j <= k})
<1> DEFINE Up(i) == {j \in K : j <= i}
<1>1. IsFiniteSet(K) /\ Cardinality(K) \in Nat
  BY IntervalCardinality, FS_Subset, FS_CardinalityType
<1>2. ASSUME NEW i \in K
      PROVE  IsFiniteSet(Up(i)) /\ Cardinality(Up(i)) \in 1 .. Cardinality(K)
  <2>1. IsFiniteSet(Up(i)) /\ Cardinality(Up(i)) <= Cardinality(K)
    BY <1>1, FS_Subset
  <2>2. i \in Up(i)
    OBVIOUS
  <2>3. Cardinality(Up(i)) \in Nat /\ Cardinality(Up(i)) > 0
    BY <2>1, <2>2, NoneCounted
  <2> QED
    BY <1>1, <2>1, <2>3
<1>3. ASSUME NEW i \in K, NEW k \in K, i < k
      PROVE  Cardinality(Up(i)) < Cardinality(Up(k))
  <2>1. Up(i) \subseteq Up(k) /\ k \in Up(k) /\ k \notin Up(i)
    <3>1. i \in Int /\ k \in Int /\ \A j \in K : j \in Int
      OBVIOUS
    <3>2. (\A j \in K : j <= i => j <= k) /\ k <= k /\ ~(k <= i)
      BY <1>3, <3>1
    <3> QED
      BY <3>2
  <2>2. /\ IsFiniteSet(Up(k)) /\ Cardinality(Up(i)) <= Cardinality(Up(k))
        /\ Cardinality(Up(i)) # Cardinality(Up(k))
    BY <1>2, <2>1, FS_Subset
  <2>3. Cardinality(Up(i)) \in Nat /\ Cardinality(Up(k)) \in Nat
    BY <1>2, <1>1
  <2> HIDE DEF Up
  <2> QED
    BY <2>2, <2>3
<1> QED
  BY <1>1, <1>2, <1>3

(* The numbers of a finite set in their order. *)
LEMMA RanksReached ==
  ASSUME NEW n \in Nat, NEW K \in SUBSET (1 .. n), NEW m \in 1 .. Cardinality(K)
  PROVE  \E i \in K : Cardinality({j \in K : j <= i}) = m
<1> DEFINE rank == [i \in K |-> Cardinality({j \in K : j <= i})]
           C == 1 .. Cardinality(K)
<1>1. /\ IsFiniteSet(K) /\ Cardinality(K) \in Nat
      /\ \A i \in K : rank[i] \in C
      /\ \A i, k \in K : i < k => rank[i] < rank[k]
  BY RanksIncrease
<1>2. IsFiniteSet(C) /\ Cardinality(C) = Cardinality(K)
  BY <1>1, IntervalCardinality
<1>3. rank \in [K -> C]
  BY <1>1
<1>4. \A i, k \in K : rank[i] = rank[k] => i = k
  <2> SUFFICES ASSUME NEW i \in K, NEW k \in K, rank[i] = rank[k], i # k
               PROVE  FALSE
    OBVIOUS
  <2>1. i < k \/ k < i
    OBVIOUS
  <2>2. rank[i] \in Int /\ rank[k] \in Int
    BY <1>1
  <2> HIDE DEF rank
  <2> QED
    BY <1>1, <2>1, <2>2
<1> HIDE DEF rank, C
<1>5. rank \in Injection(K, C)
  BY <1>3, <1>4 DEF Injection, IsInjective
<1>6. rank \in Surjection(K, C)
  BY <1>2, <1>5, FS_Injection
<1>7. \E i \in K : rank[i] = m
  BY <1>6 DEF Surjection, C
<1> QED
  BY <1>7 DEF rank

(* Drop leaves the entries that are not dropped, in their order. *)
LEMMA DropPicks ==
  ASSUME NEW S, NEW q \in Seq(S), NEW D
  PROVE  /\ Drop(q, D) \in Seq(S)
         /\ \E f \in [1 .. Len(Drop(q, D)) -> {i \in 1 .. Len(q) : i \notin D}] :
              /\ \A m \in 1 .. Len(Drop(q, D)) : Drop(q, D)[m] = q[f[m]]
              /\ \A m, l \in 1 .. Len(Drop(q, D)) : m < l => f[m] < f[l]
              /\ \A i \in 1 .. Len(q) : i \notin D => \E m \in 1 .. Len(Drop(q, D)) : f[m] = i
<1> DEFINE K == {i \in 1 .. Len(q) : i \notin D}
           c == Cardinality(K)
           R(i) == Cardinality({j \in K : j <= i})
           f == [m \in 1 .. c |-> CHOOSE i \in K : R(i) = m]
           r == [m \in 1 .. c |-> q[f[m]]]
<1>1. Len(q) \in Nat /\ \A i \in 1 .. Len(q) : q[i] \in S
  BY LenProperties, ElementOfSeq
<1>2. K \in SUBSET (1 .. Len(q)) /\ \A i \in K : i \in Int
  BY <1>1
<1>3. /\ c \in Nat /\ \A i \in K : R(i) \in 1 .. c
      /\ \A i, k \in K : i < k => R(i) < R(k)
  BY <1>1, <1>2, RanksIncrease
<1>4. \A m \in 1 .. c : \E i \in K : R(i) = m
  BY <1>1, <1>2, RanksReached
<1>5. Drop(q, D) = r
  BY DEF Drop
<1> HIDE DEF K, c, R
<1>6. \A m \in 1 .. c : f[m] \in K /\ R(f[m]) = m
  BY <1>4
<1>7. f \in [1 .. c -> K]
  BY <1>6
<1>8. \A i \in K : f[R(i)] = i
  <2> SUFFICES ASSUME NEW i \in K, f[R(i)] # i
               PROVE  FALSE
    OBVIOUS
  <2>1. R(i) \in 1 .. c
    BY <1>3
  <2>2. f[R(i)] \in K /\ R(f[R(i)]) = R(i)
    BY <1>6, <2>1
  <2>3. i \in Int /\ f[R(i)] \in Int
    BY <1>2, <2>2
  <2>4. i < f[R(i)] \/ f[R(i)] < i
    BY <2>3
  <2>5. R(i) < R(i)
    BY <1>3, <2>2, <2>4
  <2> QED
    BY <1>3, <2>1, <2>5
<1>9. ASSUME NEW m \in 1 .. c, NEW l \in 1 .. c, m < l
      PROVE  f[m] < f[l]
  <2>1. f[m] \in K /\ f[l] \in K /\ R(f[m]) = m /\ R(f[l]) = l
    BY <1>6
  <2>2. f[m] \in Int /\ f[l] \in Int
    BY <1>2, <2>1
  <2>3. f[l] < f[m] => l < m
    BY <1>3, <2>1
  <2>4. f[m] # f[l]
    BY <1>3, <1>9, <2>1
  <2> QED
    BY <1>3, <1>9, <2>2, <2>3, <2>4
<1> HIDE DEF f
<1>10. r \in [1 .. c -> S]
  BY <1>1, <1>2, <1>7
<1>11. r \in Seq(S) /\ Len(r) = c
  BY <1>3, <1>10, IsASeq, LenProperties
<1>12. \A i \in 1 .. Len(q) : i \notin D => \E m \in 1 .. c : f[m] = i
  BY <1>3, <1>8 DEF K
<1>13. /\ f \in [1 .. Len(r) -> {i \in 1 .. Len(q) : i \notin D}]
       /\ \A m \in 1 .. Len(r) : r[m] = q[f[m]]
  BY <1>7, <1>11 DEF K
<1> HIDE DEF r
<1> QED
  BY <1>5, <1>9, <1>11, <1>12, <1>13

(* What Drop leaves of a queue in which every entry is once. *)
LEMMA DropLeaves ==
  ASSUME NEW S, NEW q \in Seq(S), Distinct(q), NEW D \in SUBSET (1 .. Len(q))
  PROVE  /\ Drop(q, D) \in Seq(S) /\ Members(Drop(q, D)) = Members(q) \ {q[i] : i \in D}
         /\ \A x, y : Before(Drop(q, D), x, y) => Before(q, x, y)
         /\ q # <<>> /\ 1 \notin D => Drop(q, D) # <<>> /\ Head(Drop(q, D)) = Head(q)
<1> DEFINE r == Drop(q, D)
<1>1. PICK f \in [1 .. Len(r) -> {i \in 1 .. Len(q) : i \notin D}] :
        /\ \A m \in 1 .. Len(r) : r[m] = q[f[m]]
        /\ \A m, l \in 1 .. Len(r) : m < l => f[m] < f[l]
        /\ \A i \in 1 .. Len(q) : i \notin D => \E m \in 1 .. Len(r) : f[m] = i
  BY DropPicks
<1>2. r \in Seq(S)
  BY DropPicks
<1> HIDE DEF r
<1>3. Len(q) \in Nat /\ Len(r) \in Nat
  BY <1>2, LenProperties
<1>4. Members(r) = Members(q) \ {q[i] : i \in D}
  <2>1. ASSUME NEW x \in Members(r)
        PROVE  x \in Members(q) \ {q[i] : i \in D}
    <3>1. PICK m \in 1 .. Len(r) : x = r[m]
      BY DEF Members
    <3>2. f[m] \in 1 .. Len(q) /\ f[m] \notin D /\ x = q[f[m]]
      BY <1>1, <3>1
    <3>3. \A i \in D : q[i] # x
      BY <3>2 DEF Distinct
    <3> QED
      BY <3>2, <3>3 DEF Members
  <2>2. ASSUME NEW x \in Members(q) \ {q[i] : i \in D}
        PROVE  x \in Members(r)
    <3>1. PICK i \in 1 .. Len(q) : x = q[i] /\ i \notin D
      BY DEF Members
    <3>2. PICK m \in 1 .. Len(r) : f[m] = i
      BY <1>1, <3>1
    <3> QED
      BY <1>1, <3>1, <3>2 DEF Members
  <2> QED
    BY <2>1, <2>2
<1>5. ASSUME NEW x, NEW y, Before(r, x, y)
      PROVE  Before(q, x, y)
  <2>1. PICK m \in 1 .. Len(r), l \in 1 .. Len(r) : m < l /\ r[m] = x /\ r[l] = y
    BY <1>5 DEF Before
  <2>2. f[m] \in 1 .. Len(q) /\ f[l] \in 1 .. Len(q) /\ f[m] < f[l] /\ q[f[m]] = x /\ q[f[l]] = y
    BY <1>1, <2>1
  <2> QED
    BY <2>2 DEF Before
<1>6. ASSUME q # <<>>, 1 \notin D
      PROVE  r # <<>> /\ Head(r) = Head(q)
  <2>1. 1 \in 1 .. Len(q) /\ Head(q) = q[1]
    BY <1>3, <1>6, EmptySeq, HeadTailProperties
  <2>2. PICK m \in 1 .. Len(r) : f[m] = 1
    BY <1>1, <1>6, <2>1
  <2>3. r # <<>> /\ Head(r) = r[1] /\ 1 \in 1 .. Len(r)
    BY <1>2, <1>3, <2>2, EmptySeq, HeadTailProperties
  <2>4. m = 1
    <3>1. f[1] \in 1 .. Len(q)
      BY <1>1, <2>3
    <3>2. 1 < m => f[1] < 1
      BY <1>1, <2>2, <2>3
    <3> QED
      BY <1>3, <3>1, <3>2
  <2> QED
    BY <1>1, <2>1, <2>2, <2>3, <2>4
<1> QED
  BY <1>2, <1>4, <1>5, <1>6 DEF r

-----------------------------------------------------------------------------
(* The queue of spills.                                                    *)

Entries == [attempt : Attempts, version : Nat, barrier : Nat]

\* What the queue's turn is about: the writer has it, it is not dropped.
Busy(q, s) == writing # "no" /\ s = Head(q)

\* r is q without those shed, and with what is new behind: only writes that wait
\* are dropped.
Follows(q, r, new, shed) ==
  /\ r \in Seq(Entries)
  /\ Members(r) = (Members(q) \cup new) \ shed /\ shed \subseteq Members(q)
  /\ \A x, y : Before(r, x, y) => Before(q, x, y) \/ (y \in new /\ x \in Members(q))
  /\ \A s \in shed : IsWrite(s) /\ ~Busy(q, s)
  /\ writing # "no" => r # <<>> /\ Head(r) = Head(q)

\* A queue that can be worked on: nothing is in it twice, and what is in flight is.
Sound(q) == q \in Seq(Entries) /\ (\A x : ~Before(q, x, x)) /\ (writing # "no" => q # <<>>)

(* Dropping some that can be dropped. *)
LEMMA DropFollows ==
  ASSUME NEW q, Sound(q), NEW D \in SUBSET Droppable(q, 0)
  PROVE  Follows(q, Drop(q, D), {}, {q[i] : i \in D}) /\ Sound(Drop(q, D))
<1>1. q \in Seq(Entries) /\ Distinct(q) /\ Len(q) \in Nat
  BY OrderedDistinct, LenProperties DEF Sound
<1>2. D \in SUBSET (1 .. Len(q))
  BY DEF Droppable
<1>3. /\ Drop(q, D) \in Seq(Entries) /\ Members(Drop(q, D)) = Members(q) \ {q[i] : i \in D}
      /\ \A x, y : Before(Drop(q, D), x, y) => Before(q, x, y)
      /\ q # <<>> /\ 1 \notin D => Drop(q, D) # <<>> /\ Head(Drop(q, D)) = Head(q)
  BY <1>1, <1>2, DropLeaves
<1>4. writing # "no" => 1 \notin D
  BY DEF Droppable
<1>5. ASSUME NEW s \in {q[i] : i \in D}
      PROVE  s \in Members(q) /\ IsWrite(s) /\ ~Busy(q, s)
  <2>1. PICK i \in D : s = q[i]
    BY <1>5
  <2>2. IsWrite(s) /\ s \in Members(q)
    BY <1>2, <2>1 DEF Droppable, Members
  <2>3. CASE Busy(q, s)
    <3>1. q # <<>> /\ Head(q) = q[1] /\ 1 \in 1 .. Len(q)
      BY <1>1, <2>3, EmptySeq, HeadTailProperties DEF Sound, Busy
    <3>2. i = 1
      BY <1>1, <1>2, <2>1, <2>3, <3>1 DEF Distinct, Busy
    <3> QED
      BY <1>4, <2>1, <2>3, <3>2 DEF Busy
  <2> QED
    BY <2>2, <2>3
<1> HIDE DEF Droppable
<1>6. Follows(q, Drop(q, D), {}, {q[i] : i \in D})
  BY <1>3, <1>4, <1>5 DEF Follows, Sound
<1> QED
  BY <1>3, <1>4, <1>6 DEF Sound

(* Appending one, which may displace others. *)
LEMMA AppendFollows ==
  ASSUME NEW q, Sound(q), NEW e \in Entries, e \notin Members(q),
         NEW D \in SUBSET Droppable(Append(q, e), Len(Append(q, e)))
  PROVE  LET p == Append(q, e) IN
           Follows(q, Drop(p, D), {e}, {p[i] : i \in D}) /\ Sound(Drop(p, D))
<1> DEFINE p == Append(q, e)
           shed == {p[i] : i \in D}
<1>1. /\ q \in Seq(Entries) /\ Len(q) \in Nat /\ p \in Seq(Entries) /\ Len(p) = Len(q) + 1 /\ p[Len(q) + 1] = e
      /\ \A i \in 1 .. Len(q) : p[i] = q[i]
  BY AppendProperties, LenProperties DEF Sound
<1>2. Members(p) = Members(q) \cup {e}
  BY <1>1, AppendMembers
<1>3. \A x, y : Before(p, x, y) => Before(q, x, y) \/ (y = e /\ x \in Members(q))
  BY <1>1, AppendOrder
<1> HIDE DEF p
<1>4. /\ \A x : ~Before(p, x, x)
      /\ Distinct(p) /\ p # <<>> /\ Head(p) = p[1] /\ 1 \in 1 .. Len(p)
  <2>1. \A x : ~Before(p, x, x)
    BY <1>3 DEF Sound
  <2> QED
    BY <1>1, <2>1, OrderedDistinct, EmptySeq, HeadTailProperties
<1>5. \A i \in D : i \in 1 .. Len(q) /\ p[i] = q[i] /\ IsWrite(q[i]) /\ ~(i = 1 /\ writing # "no")
  <2>1. \A i \in D : i \in 1 .. Len(p) /\ IsWrite(p[i]) /\ i # Len(p) /\ ~(i = 1 /\ writing # "no")
    BY DEF Droppable, p
  <2> QED
    BY <1>1, <2>1
<1>6. D \in SUBSET (1 .. Len(p))
  BY <1>1, <1>5
<1>7. /\ Drop(p, D) \in Seq(Entries) /\ Members(Drop(p, D)) = Members(p) \ shed
      /\ \A x, y : Before(Drop(p, D), x, y) => Before(p, x, y)
      /\ 1 \notin D => Drop(p, D) # <<>> /\ Head(Drop(p, D)) = Head(p)
  BY <1>1, <1>4, <1>6, DropLeaves
<1>8. writing # "no" => q # <<>> /\ Head(q) = q[1] /\ 1 \in 1 .. Len(q) /\ Head(p) = Head(q)
  <2>1. q # <<>> => Head(q) = q[1] /\ 1 \in 1 .. Len(q)
    BY <1>1, EmptySeq, HeadTailProperties
  <2> QED
    BY <1>1, <1>4, <2>1 DEF Sound
<1>9. ASSUME NEW s \in shed
      PROVE  s \in Members(q) /\ IsWrite(s) /\ ~Busy(q, s)
  <2>1. PICK i \in D : s = q[i] /\ s = p[i]
    BY <1>5
  <2>2. IsWrite(s) /\ s \in Members(q)
    BY <1>5, <2>1 DEF Members
  <2>3. CASE Busy(q, s)
    <3>1. p[i] = p[1]
      BY <1>4, <1>8, <2>1, <2>3 DEF Busy
    <3>2. i = 1
      BY <1>4, <1>6, <3>1 DEF Distinct
    <3> QED
      BY <1>5, <2>3, <3>2 DEF Busy
  <2> QED
    BY <2>2, <2>3
<1> HIDE DEF shed
<1>10. writing # "no" => Drop(p, D) # <<>> /\ Head(Drop(p, D)) = Head(q)
  BY <1>5, <1>7, <1>8
<1>11. Follows(q, Drop(p, D), {e}, shed)
  BY <1>2, <1>3, <1>7, <1>9, <1>10 DEF Follows
<1>12. Sound(Drop(p, D))
  BY <1>4, <1>7, <1>10 DEF Sound
<1> QED
  BY <1>11, <1>12 DEF shed, p

(* Dropping some, then appending one. *)
LEMMA FollowsTwice ==
  ASSUME NEW q, NEW left, NEW r, NEW e, NEW own, NEW shed, e \notin Members(q),
         Follows(q, left, {}, own), Follows(left, r, {e}, shed)
  PROVE  Follows(q, r, {e}, own \cup shed)
<1>1. Members(r) = (Members(q) \cup {e}) \ (own \cup shed) /\ own \cup shed \subseteq Members(q)
  BY DEF Follows
<1>2. \A x, y : Before(r, x, y) => Before(q, x, y) \/ (y \in {e} /\ x \in Members(q))
  BY DEF Follows
<1>3. \A s \in own \cup shed : IsWrite(s) /\ ~Busy(q, s)
  BY DEF Follows, Busy
<1> QED
  BY <1>1, <1>2, <1>3 DEF Follows

-----------------------------------------------------------------------------
(* The inductive invariant.                                                *)

CheckpointTypes ==
  /\ request \in [Attempts -> {"none", "running", "released", "completed"}]
  /\ attempts \in [Keys -> Attempts \cup {NoAttempt}]
  /\ pending \in [Attempts -> Nat] /\ lagging \in [Attempts -> BOOLEAN]
  /\ version \in [Attempts -> Nat] /\ kept \in [Attempts -> Nat]
  /\ spills \in Seq(Entries) /\ writing \in {"no", "storing", "renamed"}
  /\ files \subseteq Attempts \X Nat /\ evicted \subseteq Attempts \X Nat /\ finished \subseteq Attempts
  /\ unlinking \in [Keys -> SUBSET Nat] /\ unlinkFailed \in [Keys -> SUBSET Nat]
  /\ unlinked \in [Keys -> Nat] /\ barriers \in Nat

\* Whoever has a key has not completed, and it is his.
OwnersSound ==
  \A k \in Keys : attempts[k] # NoAttempt => KeyOf[attempts[k]] = k /\ request[attempts[k]] \in {"running", "released"}

\* An attempt that has not begun has left nothing anywhere.
Unbegun ==
  /\ \A a \in Attempts : request[a] = "none" =>
       /\ version[a] = 0 /\ kept[a] = 0 /\ \A v : <<a, v>> \notin Landed
       /\ \A s \in Members(spills) : s.attempt # a
  /\ \A a \in finished : request[a] = "completed"

\* The writes of an attempt are in the order of their versions, the unlinks in
\* that of their barriers.
InOrder(x, y) ==
  /\ IsWrite(x) /\ IsWrite(y) /\ x.attempt = y.attempt => x.version < y.version
  /\ ~IsWrite(x) /\ ~IsWrite(y) => x.barrier < y.barrier

QueueSound ==
  /\ writing # "no" => spills # <<>> /\ IsWrite(Head(spills))
  /\ \A s \in Members(spills) : s.barrier <= barriers /\ (IsWrite(s) => 0 < s.version /\ s.version <= version[s.attempt])
  /\ \A x, y : Before(spills, x, y) => InOrder(x, y)

Writes(a) == {s \in Members(spills) : IsWrite(s) /\ s.attempt = a}
Unlinks(k) == {s \in Members(spills) : ~IsWrite(s) /\ KeyOf[s.attempt] = k}

PendingExact == \A a \in Attempts : pending[a] = Cardinality(Writes(a))

\* An unlink that fails is noticed: no later one has succeeded before it.
UnlinksSound ==
  \A k \in Keys : unlinked[k] <= barriers /\ \A s \in Unlinks(k) : s.barrier \in unlinking[k] /\ s.barrier > unlinked[k]

\* What a completed response has left is still to be unlinked, or failed to be.
FinishedSound ==
  /\ \A s \in Members(spills) : IsWrite(s) /\ s.attempt \in finished =>
       Busy(spills, s) /\ Unlinks(KeyOf[s.attempt]) # {}
  /\ \A f \in files : f[1] \in finished => Unlinks(KeyOf[f[1]]) # {} \/ unlinkFailed[KeyOf[f[1]]] # {}

NoFiles(a) == \A v : <<a, v>> \notin Landed

\* Of the others' writes of his key only the one in flight is left.
Alone(a) ==
  \A s \in Members(spills) : IsWrite(s) /\ KeyOf[s.attempt] = KeyOf[a] /\ s.attempt # a => Busy(spills, s) /\ NoFiles(a)

\* The unlinks of the key are ahead of whatever he writes.
Ahead(a) ==
  \A u \in Unlinks(KeyOf[a]) : NoFiles(a) /\ \A w \in Writes(a) : ~Before(spills, w, u)

\* What is in the queue is newer than what has landed.
FilesOlder(a) ==
  \A v : <<a, v>> \in Landed =>
    /\ v <= version[a]
    /\ \A w \in Writes(a) : v < w.version \/ (Busy(spills, w) /\ writing = "renamed" /\ v = w.version)

KeptStored(a) ==
  kept[a] > 0 => <<a, kept[a]>> \in Landed /\ \A w \in Writes(a) : kept[a] < w.version

\* The latest version has landed, or is in the queue, or known to be lost.
LatestKnown(a) ==
  version[a] > 0 => lagging[a] \/ <<a, version[a]>> \in Landed \/ \E w \in Writes(a) : w.version = version[a]

Holds(a) == Alone(a) /\ Ahead(a) /\ FilesOlder(a) /\ KeptStored(a) /\ LatestKnown(a)

CurrentSound == \A a \in Attempts : attempts[KeyOf[a]] = a => Holds(a)

IInv ==
  CheckpointTypes /\ OwnersSound /\ Unbegun /\ QueueSound /\ PendingExact /\ UnlinksSound /\ FinishedSound /\ CurrentSound

(* The queue can be worked on. *)
LEMMA QueueWorks ==
  ASSUME IInv
  PROVE  Sound(spills) /\ Members(spills) \subseteq Entries
<1>1. spills \in Seq(Entries) /\ Members(spills) \subseteq Entries
  BY MembersIn DEF IInv, CheckpointTypes
<1>2. ASSUME NEW x, Before(spills, x, x)
      PROVE  FALSE
  <2>1. x \in Entries
    BY <1>1, <1>2 DEF Before, Members
  <2>2. InOrder(x, x)
    BY <1>2 DEF IInv, QueueSound
  <2>3. x.version \in Nat /\ x.barrier \in Nat
    BY <2>1 DEF Entries
  <2> QED
    BY <2>2, <2>3 DEF InOrder
<1> QED
  BY <1>1, <1>2 DEF Sound, IInv, QueueSound

(* The writes of an attempt are finitely many. *)
LEMMA WritesFinite ==
  ASSUME IInv, NEW a \in Attempts
  PROVE  /\ IsFiniteSet(Writes(a)) /\ Cardinality(Writes(a)) \in Nat
         /\ pending[a] = Cardinality(Writes(a))
<1> DEFINE f == [i \in 1 .. Len(spills) |-> spills[i]]
<1>1. IsFiniteSet(1 .. Len(spills))
  <2>1. Len(spills) \in Nat
    BY LenProperties DEF IInv, CheckpointTypes
  <2> QED
    BY <2>1, IntervalCardinality
<1>2. f \in Surjection(1 .. Len(spills), Members(spills))
  BY DEF Surjection, Members
<1>3. IsFiniteSet(Members(spills))
  BY <1>1, <1>2, FS_Surjection
<1>4. Writes(a) \in SUBSET Members(spills)
  BY DEF Writes
<1> QED
  BY <1>3, <1>4, FS_Subset, FS_CardinalityType DEF IInv, PendingExact

(* What is answered is no longer pending, what is new is. *)
LEMMA PendingFollows ==
  ASSUME IInv, NEW a \in Attempts, NEW new, NEW shed,
         Members(spills') = (Members(spills) \cup new) \ shed,
         shed \subseteq Members(spills), \A s \in shed : IsWrite(s)
  PROVE  LET lost == Cardinality({s \in shed : s.attempt = a}) IN
         /\ lost \in Nat /\ pending[a] - lost \in Nat
         /\ new = {} => Cardinality(Writes(a)') = pending[a] - lost
         /\ \A e : new = {e} /\ e \notin Members(spills) =>
              Cardinality(Writes(a)') = IF IsWrite(e) /\ e.attempt = a THEN pending[a] - lost + 1 ELSE pending[a] - lost
<1> DEFINE mine == {s \in shed : s.attempt = a}
           stay == Writes(a) \ mine
<1>1. IsFiniteSet(Writes(a)) /\ Cardinality(Writes(a)) \in Nat /\ pending[a] = Cardinality(Writes(a))
  BY WritesFinite
<1>2. mine \in SUBSET Writes(a)
  BY DEF Writes
<1>3. IsFiniteSet(mine) /\ Cardinality(mine) <= Cardinality(Writes(a)) /\ Writes(a) \cap mine = mine
  BY <1>1, <1>2, FS_Subset
<1>4. Cardinality(mine) \in Nat
  BY <1>3, FS_CardinalityType
<1>5. IsFiniteSet(stay) /\ Cardinality(stay) = Cardinality(Writes(a)) - Cardinality(mine)
  <2> HIDE DEF mine
  <2>1. /\ IsFiniteSet(Writes(a) \ mine)
        /\ Cardinality(Writes(a) \ mine) = Cardinality(Writes(a)) - Cardinality(Writes(a) \cap mine)
    BY <1>1, FS_Difference
  <2> QED
    BY <1>3, <2>1
<1>6. Cardinality(stay) = pending[a] - Cardinality(mine) /\ pending[a] - Cardinality(mine) \in Nat
  <2> HIDE DEF mine, stay
  <2> QED
    BY <1>1, <1>3, <1>4, <1>5
<1>7. ASSUME new = {}
      PROVE  Writes(a)' = stay
  BY <1>7 DEF Writes
<1>8. ASSUME NEW e, new = {e}, e \notin Members(spills)
      PROVE  /\ IsWrite(e) /\ e.attempt = a => Writes(a)' = stay \cup {e} /\ e \notin stay
             /\ ~(IsWrite(e) /\ e.attempt = a) => Writes(a)' = stay
  BY <1>8 DEF Writes
<1>9. ASSUME NEW e, new = {e}, e \notin Members(spills)
      PROVE  Cardinality(Writes(a)') =
               IF IsWrite(e) /\ e.attempt = a THEN pending[a] - Cardinality(mine) + 1 ELSE pending[a] - Cardinality(mine)
  <2>1. CASE IsWrite(e) /\ e.attempt = a
    <3>1. Cardinality(stay \cup {e}) = Cardinality(stay) + 1
      BY <1>5, <1>8, <1>9, <2>1, FS_AddElement
    <3> QED
      BY <1>6, <1>8, <1>9, <2>1, <3>1
  <2>2. CASE ~(IsWrite(e) /\ e.attempt = a)
    BY <1>6, <1>8, <1>9, <2>2
  <2> QED
    BY <2>1, <2>2
<1> QED
  BY <1>4, <1>6, <1>7, <1>9

-----------------------------------------------------------------------------
(* The answers.                                                            *)

(* An answer releases some keys and gives none away. *)
LEMMA ReleasesSome ==
  ASSUME NEW s, NEW cur \in [Keys -> Attempts \cup {NoAttempt}], NEW rq, attempts' = ReleaseSettled(s, cur, rq)
  PROVE  /\ attempts' \in [Keys -> Attempts \cup {NoAttempt}]
         /\ \A k \in Keys : attempts'[k] # NoAttempt => attempts'[k] = cur[k]
BY DEF ReleaseSettled

(* An answered attempt lags or not as its latest version's write fared. *)
LEMMA Lags ==
  ASSUME IInv, NEW s, NEW stored \in BOOLEAN, NEW rq
  PROVE  /\ Answered(s, stored, rq) \in [Attempts -> BOOLEAN]
         /\ \A a \in Attempts :
              /\ (\E w \in s : w.attempt = a /\ w.version = version[a]) /\ rq[a] # "completed" =>
                   (Answered(s, stored, rq)[a] <=> ~stored)
              /\ ~(\E w \in s : w.attempt = a /\ w.version = version[a]) => Answered(s, stored, rq)[a] = lagging[a]
<1>1. lagging \in [Attempts -> BOOLEAN]
  BY DEF IInv, CheckpointTypes
<1> QED
  BY <1>1 DEF Answered

(* Who drops out of the queue with his latest write lags behind. *)
LEMMA DroppedLag ==
  ASSUME IInv, NEW shed, NEW rq, NEW c \in Attempts, rq[c] # "completed"
  PROVE  LET now == Answered(shed, FALSE, rq)[c] IN
         (lagging[c] => now) /\ \A s \in shed : s.attempt = c /\ s.version = version[c] => now
<1>1. CASE \E w \in shed : w.attempt = c /\ w.version = version[c]
  <2>1. Answered(shed, FALSE, rq)[c]
    BY <1>1, Lags
  <2> QED
    BY <2>1
<1>2. CASE ~\E w \in shed : w.attempt = c /\ w.version = version[c]
  <2>1. Answered(shed, FALSE, rq)[c] = lagging[c]
    BY <1>2, Lags
  <2> QED
    BY <1>2, <2>1
<1> QED
  BY <1>1, <1>2

(* The keys' holders and the requests agree after an answer. *)
LEMMA OwnersStay ==
  ASSUME IInv, NEW a \in Attempts, NEW end \in {"running", "released", "completed"},
         request' = [request EXCEPT ![a] = end],
         \A k \in Keys : attempts'[k] # NoAttempt => attempts'[k] = attempts[k] \/ (k = KeyOf[a] /\ attempts'[k] = a),
         end = "completed" => attempts'[KeyOf[a]] # a
  PROVE  OwnersSound' /\ request' \in [Attempts -> {"none", "running", "released", "completed"}]
<1>1. /\ request' \in [Attempts -> {"none", "running", "released", "completed"}]
      /\ request'[a] = end /\ \A b \in Attempts \ {a} : request'[b] = request[b]
      /\ attempts \in [Keys -> Attempts \cup {NoAttempt}]
  BY DEF IInv, CheckpointTypes
<1>2. ASSUME NEW k \in Keys, attempts'[k] # NoAttempt
      PROVE  KeyOf[attempts'[k]] = k /\ request'[attempts'[k]] \in {"running", "released"}
  <2>1. CASE k = KeyOf[a] /\ attempts'[k] = a
    BY <1>1, <2>1
  <2>2. CASE attempts'[k] = attempts[k]
    <3>1. attempts[k] \in Attempts /\ KeyOf[attempts[k]] = k /\ request[attempts[k]] \in {"running", "released"}
      BY <1>1, <1>2, <2>2 DEF IInv, OwnersSound
    <3>2. CASE attempts[k] = a
      BY <1>1, <2>2, <3>1, <3>2
    <3>3. CASE attempts[k] # a
      BY <1>1, <2>2, <3>1, <3>3
    <3> QED
      BY <3>2, <3>3
  <2> QED
    BY <1>2, <2>1, <2>2
<1> QED
  BY <1>1, <1>2 DEF OwnersSound

-----------------------------------------------------------------------------
(* Something is enqueued, or dropped from the queue.                       *)

(* Who is in the queue afterwards. *)
LEMMA FollowsKeeps ==
  ASSUME NEW new, NEW shed, Follows(spills, spills', new, shed), UNCHANGED writing
  PROVE  /\ \A k : Unlinks(k) \subseteq Unlinks(k)' /\ Unlinks(k)' \subseteq Unlinks(k) \cup new
         /\ \A a : Writes(a)' \subseteq Writes(a) \cup new /\ Writes(a) \ shed \subseteq Writes(a)'
         /\ \A s : Busy(spills, s) => Busy(spills, s)'
         /\ Members(spills') \subseteq Members(spills) \cup new
BY DEF Follows, Unlinks, Writes, Busy

(* The queue stays in order. *)
LEMMA QueueFollows ==
  ASSUME IInv, NEW new, NEW shed, Follows(spills, spills', new, shed), UNCHANGED writing,
         version' \in [Attempts -> Nat], \A b \in Attempts : version[b] <= version'[b],
         barriers' \in Nat, barriers <= barriers',
         \A e \in new : /\ e \in Entries /\ e.barrier <= barriers'
                        /\ IsWrite(e) => 0 < e.version /\ e.version <= version'[e.attempt]
                        /\ \A x \in Members(spills) : InOrder(x, e)
  PROVE  QueueSound'
<1>1. /\ Members(spills) \subseteq Entries /\ QueueSound /\ version \in [Attempts -> Nat] /\ barriers \in Nat
  BY QueueWorks DEF IInv, CheckpointTypes
<1>2. writing' # "no" => spills' # <<>> /\ IsWrite(Head(spills'))
  BY <1>1 DEF QueueSound, Follows
<1>3. ASSUME NEW s \in Members(spills')
      PROVE  s.barrier <= barriers' /\ (IsWrite(s) => 0 < s.version /\ s.version <= version'[s.attempt])
  <2>1. CASE s \in new
    BY <2>1
  <2>2. CASE s \notin new
    <3>1. s \in Members(spills)
      BY <2>2 DEF Follows
    <3>2. s.attempt \in Attempts /\ s.barrier \in Nat /\ s.version \in Nat
      BY <1>1, <3>1 DEF Entries
    <3>3. s.barrier <= barriers /\ (IsWrite(s) => 0 < s.version /\ s.version <= version[s.attempt])
      BY <1>1, <3>1 DEF QueueSound
    <3>4. version[s.attempt] \in Nat /\ version'[s.attempt] \in Nat /\ version[s.attempt] <= version'[s.attempt]
      BY <1>1, <3>2
    <3> QED
      BY <1>1, <3>2, <3>3, <3>4
  <2> QED
    BY <2>1, <2>2
<1>4. ASSUME NEW x, NEW y, Before(spills', x, y)
      PROVE  InOrder(x, y)
  BY <1>1, <1>4 DEF Follows, QueueSound
<1> QED
  BY <1>2, <1>3, <1>4 DEF QueueSound

(* What holds of the holder of a key goes on when others' entries come and go, *)
(* and his own are dropped and answered.                                       *)
LEMMA OthersHold ==
  ASSUME IInv, NEW new, NEW shed, Follows(spills, spills', new, shed), UNCHANGED <<Landed, writing>>,
         NEW c \in Attempts, Holds(c), kept'[c] = kept[c], version'[c] = version[c],
         \A e \in new : KeyOf[e.attempt] # KeyOf[c],
         lagging[c] => lagging'[c],
         \A s \in shed : s.attempt = c /\ s.version = version[c] => lagging'[c]
  PROVE  Holds(c)'
<1>1. /\ Unlinks(KeyOf[c])' = Unlinks(KeyOf[c]) /\ Writes(c)' \subseteq Writes(c) /\ Writes(c) \ shed \subseteq Writes(c)'
  BY FollowsKeeps DEF Unlinks, Writes
<1>2. Alone(c)'
  <2>1. ASSUME NEW s \in Members(spills'), IsWrite(s), KeyOf[s.attempt] = KeyOf[c], s.attempt # c
        PROVE  Busy(spills, s)' /\ NoFiles(c)'
    <3>1. s \in Members(spills)
      BY <2>1 DEF Follows
    <3> QED
      BY <2>1, <3>1, FollowsKeeps DEF Holds, Alone, NoFiles
  <2> QED
    BY <2>1 DEF Alone
<1>3. Ahead(c)'
  <2>1. ASSUME NEW u \in Unlinks(KeyOf[c])', NEW w \in Writes(c)', Before(spills', w, u)
        PROVE  FALSE
    <3>1. u \in Unlinks(KeyOf[c]) /\ w \in Writes(c) /\ u \notin new
      BY <1>1 DEF Unlinks
    <3> QED
      BY <2>1, <3>1 DEF Follows, Holds, Ahead
  <2> QED
    BY <1>1, <2>1 DEF Ahead, Holds, NoFiles
<1>4. FilesOlder(c)'
  <2>1. \A w : Busy(spills, w) => Busy(spills, w)'
    BY FollowsKeeps
  <2> QED
    BY <1>1, <2>1 DEF FilesOlder, Holds
<1>5. KeptStored(c)'
  BY <1>1 DEF KeptStored, Holds
<1>6. LatestKnown(c)'
  BY <1>1 DEF LatestKnown, Holds, Writes
<1> QED
  BY <1>2, <1>3, <1>4, <1>5, <1>6 DEF Holds

(* Every write that waits can be dropped. *)
LEMMA WaitingDroppable ==
  ASSUME IInv, NEW s \in Members(spills), IsWrite(s), ~Busy(spills, s)
  PROVE  \E i \in Droppable(spills, 0) : spills[i] = s
<1>1. PICK i \in 1 .. Len(spills) : spills[i] = s
  BY DEF Members
<1>2. ~(i = 1 /\ writing # "no")
  <2>1. spills \in Seq(Entries) /\ Len(spills) \in Nat
    BY LenProperties DEF IInv, CheckpointTypes
  <2>2. spills # <<>> => Head(spills) = spills[1]
    BY <2>1, HeadTailProperties
  <2>3. spills # <<>>
    BY <1>1, <2>1, EmptySeq
  <2> QED
    BY <1>1, <2>2, <2>3 DEF Busy
<1>3. i # 0
  BY <1>1, LenProperties DEF IInv, CheckpointTypes
<1> QED
  BY <1>1, <1>2, <1>3 DEF Droppable

(* An answer to writes that are dropped keeps the counts. *)
LEMMA CountsFollow ==
  ASSUME IInv, NEW new, NEW shed, Follows(spills, spills', new, shed), pending' = Counted(shed),
         \/ new = {}
         \/ \E e : new = {e} /\ ~IsWrite(e) /\ e \notin Members(spills)
  PROVE  PendingExact' /\ pending' \in [Attempts -> Nat]
<1>1. ASSUME NEW a \in Attempts
      PROVE  pending'[a] = Cardinality(Writes(a)') /\ pending'[a] \in Nat
  <2> DEFINE lost == Cardinality({s \in shed : s.attempt = a})
  <2>1. pending'[a] = pending[a] - lost
    BY DEF Counted
  <2>2. pending[a] - lost \in Nat /\ Cardinality(Writes(a)') = pending[a] - lost
    <3>1. /\ Members(spills') = (Members(spills) \cup new) \ shed
          /\ shed \subseteq Members(spills) /\ \A s \in shed : IsWrite(s)
      BY DEF Follows
    <3>2. CASE new = {}
      BY <3>1, <3>2, PendingFollows
    <3>3. CASE \E e : new = {e} /\ ~IsWrite(e) /\ e \notin Members(spills)
      BY <3>1, <3>3, PendingFollows
    <3> QED
      BY <3>2, <3>3
  <2> QED
    BY <2>1, <2>2
<1>2. pending' = [a \in Attempts |-> pending'[a]]
  BY DEF Counted
<1> QED
  BY <1>1, <1>2 DEF PendingExact

(* begin: the attempt has its key to itself. *)
LEMMA BeginKeeps ==
  ASSUME IInv, NEW a \in Attempts, Begin(a)
  PROVE  IInv'
<1> DEFINE k == KeyOf[a]
           dropped == {i \in Droppable(spills, 0) : KeyOf[spills[i].attempt] = k}
           shed == {spills[i] : i \in dropped}
           cur == [attempts EXCEPT ![k] = a]
           rq == [request EXCEPT ![a] = "running"]
<1>1. /\ request[a] = "none" /\ request' = rq /\ spills' = Drop(spills, dropped)
      /\ Answer(shed, FALSE, cur, rq)
      /\ UNCHANGED <<version, writing, files, evicted, unlinking, unlinkFailed, unlinked, barriers, finished, kept, crashes>>
      /\ UNCHANGED Landed
  BY DEF Begin, Landed
<1>2. Follows(spills, spills', {}, shed) /\ Sound(spills')
  BY <1>1, QueueWorks, DropFollows
<1>3. /\ k \in Keys /\ cur \in [Keys -> Attempts \cup {NoAttempt}] /\ cur[k] = a
      /\ \A j \in Keys \ {k} : cur[j] = attempts[j]
      /\ attempts \in [Keys -> Attempts \cup {NoAttempt}] /\ a # NoAttempt
  BY CheckpointsAssumption DEF Keys, IInv, CheckpointTypes
<1>4. /\ pending' = Counted(shed) /\ lagging' = Answered(shed, FALSE, rq)
      /\ attempts' = ReleaseSettled(shed, cur, rq)
  BY <1>1 DEF Answer
<1> HIDE DEF dropped, shed, cur
<1>5. /\ attempts' \in [Keys -> Attempts \cup {NoAttempt}]
      /\ \A j \in Keys : attempts'[j] # NoAttempt => attempts'[j] = cur[j]
  BY <1>3, <1>4, ReleasesSome
<1>6. PendingExact' /\ pending' \in [Attempts -> Nat]
  BY <1>2, <1>4, CountsFollow
<1>7. OwnersSound' /\ request' \in [Attempts -> {"none", "running", "released", "completed"}]
  BY <1>1, <1>3, <1>5, OwnersStay
<1>8. CheckpointTypes'
  <2>1. lagging' \in [Attempts -> BOOLEAN]
    BY <1>4, Lags
  <2> QED
    BY <1>1, <1>2, <1>5, <1>6, <1>7, <2>1 DEF IInv, CheckpointTypes, Sound
<1>9. Members(spills') \subseteq Members(spills)
  BY <1>2 DEF Follows
<1>10. request'[a] = "running" /\ \A b \in Attempts \ {a} : request'[b] = request[b]
  BY <1>1 DEF IInv, CheckpointTypes
<1>11. Unbegun'
  BY <1>1, <1>9, <1>10 DEF IInv, Unbegun, CheckpointTypes
<1>12. QueueSound'
  <2>1. version \in [Attempts -> Nat] /\ barriers \in Nat
    BY DEF IInv, CheckpointTypes
  <2> QED
    BY <1>1, <1>2, <2>1, QueueFollows
<1>13. UnlinksSound'
  BY <1>1, <1>2, FollowsKeeps DEF IInv, UnlinksSound
<1>14. FinishedSound'
  <2>1. \A j : Unlinks(j) \subseteq Unlinks(j)'
    BY <1>1, <1>2, FollowsKeeps
  <2>2. \A s : Busy(spills, s) => Busy(spills, s)'
    BY <1>1, <1>2, FollowsKeeps
  <2> QED
    BY <1>1, <1>9, <2>1, <2>2 DEF IInv, FinishedSound
<1>15. ASSUME NEW c \in Attempts, attempts'[KeyOf[c]] = c
       PROVE  Holds(c)'
  <2>1. KeyOf[c] \in Keys /\ c # NoAttempt /\ cur[KeyOf[c]] = c
    BY <1>5, <1>15, CheckpointsAssumption DEF Keys
  <2>2. CASE c = a
    <3>1. /\ version'[a] = 0 /\ kept'[a] = 0 /\ NoFiles(a)'
          /\ \A s \in Members(spills) : s.attempt # a
      BY <1>1 DEF IInv, Unbegun, NoFiles
    <3>2. Writes(a)' = {}
      BY <1>9, <3>1 DEF Writes
    <3>3. ASSUME NEW s \in Members(spills'), IsWrite(s), KeyOf[s.attempt] = k
          PROVE  Busy(spills, s)'
      <4>1. s \in Members(spills) /\ s \notin shed
        BY <1>2 DEF Follows
      <4>2. Busy(spills, s)
        BY <3>3, <4>1, WaitingDroppable DEF shed, dropped
      <4> QED
        BY <1>1, <1>2, <4>2, FollowsKeeps
    <3>4. Alone(a)'
      BY <3>1, <3>3 DEF Alone
    <3>5. Ahead(a)' /\ FilesOlder(a)'
      BY <3>1, <3>2 DEF Ahead, FilesOlder, NoFiles
    <3>6. KeptStored(a)' /\ LatestKnown(a)'
      BY <3>1 DEF KeptStored, LatestKnown
    <3> QED
      BY <2>2, <3>4, <3>5, <3>6 DEF Holds
  <2>3. CASE c # a
    <3>1. KeyOf[c] # k /\ attempts[KeyOf[c]] = c
      BY <1>3, <2>1, <2>3
    <3>2. Holds(c)
      BY <3>1 DEF IInv, CurrentSound
    <3>3. \A s \in shed : s.attempt # c
      BY <3>1 DEF shed, dropped
    <3>4. lagging'[c] = lagging[c]
      BY <1>4, <3>3, Lags
    <3> QED
      BY <1>1, <1>2, <3>2, <3>3, <3>4, OthersHold
  <2> QED
    BY <2>2, <2>3
<1> QED
  BY <1>6, <1>7, <1>8, <1>11, <1>12, <1>13, <1>14, <1>15 DEF IInv, CurrentSound

(* enqueue: the new checkpoint is behind all others, and newer than his. *)
LEMMA CheckpointKeeps ==
  ASSUME IInv, NEW a \in Attempts, Checkpoint(a)
  PROVE  IInv'
<1> DEFINE k == KeyOf[a]
           v == version[a] + 1
           e == Write(a, v)
           q == Append(spills, e)
           shed == {q[i] : i \in Shed(q)}
<1>1. /\ request[a] = "running" /\ attempts[k] = a
      /\ version' = [version EXCEPT ![a] = v] /\ spills' = Drop(q, Shed(q))
      /\ pending' = [Counted(shed) EXCEPT ![a] = @ + 1]
      /\ lagging' = [b \in Attempts |-> IF b = a THEN lagging[b] ELSE Answered(shed, FALSE, request)[b]]
      /\ attempts' = ReleaseSettled(shed, attempts, request)
      /\ UNCHANGED <<request, writing, files, evicted, unlinking, unlinkFailed, unlinked, barriers, finished, kept, crashes>>
      /\ UNCHANGED Landed
  BY DEF Checkpoint, Landed
<1>2. /\ version \in [Attempts -> Nat] /\ v \in Nat /\ 0 < v /\ version[a] < v /\ version[a] \in Nat
      /\ version' \in [Attempts -> Nat] /\ version'[a] = v /\ \A b \in Attempts \ {a} : version'[b] = version[b]
  BY <1>1 DEF IInv, CheckpointTypes
<1>3. /\ e \in Entries /\ e.attempt = a /\ e.version = v /\ e.barrier = 0 /\ IsWrite(e)
  BY <1>2 DEF Write, Entries, IsWrite
<1>4. \A s \in Members(spills) : IsWrite(s) /\ s.attempt = a => s.version \in Nat /\ s.version < v
  <2> SUFFICES ASSUME NEW s \in Members(spills), IsWrite(s), s.attempt = a
               PROVE  s.version \in Nat /\ s.version < v
    OBVIOUS
  <2>1. s \in Entries /\ s.version <= version[a]
    BY QueueWorks DEF IInv, QueueSound
  <2>2. s.version \in Nat
    BY <2>1 DEF Entries
  <2> QED
    BY <1>2, <2>1, <2>2
<1>5. e \notin Members(spills)
  BY <1>2, <1>3, <1>4
<1>6. Shed(q) \in SUBSET Droppable(q, Len(q))
  BY DEF Shed
<1>7. Follows(spills, spills', {e}, shed) /\ Sound(spills')
  BY <1>1, <1>3, <1>5, <1>6, QueueWorks, AppendFollows
<1> HIDE DEF v, e, q, shed
<1>8. /\ attempts \in [Keys -> Attempts \cup {NoAttempt}] /\ k \in Keys /\ a # NoAttempt
      /\ attempts' \in [Keys -> Attempts \cup {NoAttempt}]
      /\ \A j \in Keys : attempts'[j] # NoAttempt => attempts'[j] = attempts[j]
  <2>1. attempts \in [Keys -> Attempts \cup {NoAttempt}]
    BY DEF IInv, CheckpointTypes
  <2> QED
    BY <1>1, <2>1, CheckpointsAssumption, ReleasesSome DEF Keys
<1>9. PendingExact' /\ pending' \in [Attempts -> Nat]
  <2>1. /\ Members(spills') = (Members(spills) \cup {e}) \ shed
        /\ shed \subseteq Members(spills) /\ \A s \in shed : IsWrite(s)
    BY <1>7 DEF Follows
  <2>2. ASSUME NEW b \in Attempts
        PROVE  pending'[b] = Cardinality(Writes(b)') /\ pending'[b] \in Nat
    <3> DEFINE lost == Cardinality({s \in shed : s.attempt = b})
    <3>1. pending'[b] = IF b = a THEN pending[b] - lost + 1 ELSE pending[b] - lost
      BY <1>1 DEF Counted
    <3>2. /\ pending[b] - lost \in Nat
          /\ Cardinality(Writes(b)') = IF IsWrite(e) /\ e.attempt = b THEN pending[b] - lost + 1 ELSE pending[b] - lost
      BY <1>5, <2>1, PendingFollows
    <3> HIDE DEF lost
    <3> QED
      BY <1>3, <3>1, <3>2
  <2>3. pending' = [b \in Attempts |-> pending'[b]]
    BY <1>1 DEF Counted
  <2> QED
    BY <2>2, <2>3 DEF PendingExact
<1>10. OwnersSound'
  BY <1>1, <1>8 DEF IInv, OwnersSound
<1>11. CheckpointTypes'
  <2>1. lagging' \in [Attempts -> BOOLEAN]
    <3>1. Answered(shed, FALSE, request) \in [Attempts -> BOOLEAN] /\ lagging \in [Attempts -> BOOLEAN]
      BY Lags DEF IInv, CheckpointTypes
    <3> QED
      BY <1>1, <3>1
  <2> QED
    BY <1>1, <1>2, <1>7, <1>8, <1>9, <2>1 DEF IInv, CheckpointTypes, Sound
<1>12. /\ Members(spills') \subseteq Members(spills) \cup {e}
       /\ \A j : Unlinks(j)' = Unlinks(j)
       /\ \A s : Busy(spills, s) => Busy(spills, s)'
       /\ \A b : Writes(b)' \subseteq Writes(b) \cup {e}
       /\ e \in Members(spills')
  <2>1. e \in Members(spills')
    BY <1>5, <1>7 DEF Follows
  <2> QED
    BY <1>1, <1>3, <1>7, <2>1, FollowsKeeps DEF Unlinks
<1>13. Unbegun'
  BY <1>1, <1>2, <1>3, <1>12 DEF IInv, Unbegun
<1>14. QueueSound'
  <2>1. barriers \in Nat
    BY DEF IInv, CheckpointTypes
  <2>2. ASSUME NEW x \in Members(spills)
        PROVE  InOrder(x, e)
    BY <1>3, <1>4 DEF InOrder
  <2>3. \A b \in Attempts : version[b] <= version'[b]
    BY <1>2
  <2>4. e.barrier <= barriers /\ e.version <= version'[e.attempt] /\ 0 < e.version
    BY <1>2, <1>3, <2>1
  <2> QED
    BY <1>1, <1>2, <1>3, <1>7, <2>1, <2>2, <2>3, <2>4, QueueFollows
<1>15. UnlinksSound'
  BY <1>1, <1>12 DEF IInv, UnlinksSound
<1>16. FinishedSound'
  <2>1. a \notin finished
    BY <1>1 DEF IInv, Unbegun
  <2> QED
    BY <1>1, <1>3, <1>12, <2>1 DEF IInv, FinishedSound
<1>17. ASSUME NEW c \in Attempts, attempts'[KeyOf[c]] = c
       PROVE  Holds(c)'
  <2>1. KeyOf[c] \in Keys /\ c # NoAttempt /\ attempts[KeyOf[c]] = c
    BY <1>8, <1>17, CheckpointsAssumption DEF Keys
  <2>2. Holds(c)
    BY <2>1 DEF IInv, CurrentSound
  <2>3. CASE c = a
    <3>1. Alone(a)'
      BY <1>1, <1>3, <1>12, <2>2, <2>3 DEF Holds, Alone, NoFiles
    <3>2. Ahead(a)'
      <4>1. ASSUME NEW u \in Unlinks(k)', NEW w \in Writes(a)', Before(spills', w, u)
            PROVE  FALSE
        <5>1. u \in Unlinks(k) /\ u # e
          BY <1>3, <1>12 DEF Unlinks
        <5>2. Before(spills, w, u)
          BY <1>7, <4>1, <5>1 DEF Follows
        <5>3. w \in Writes(a)
          BY <5>2 DEF Before, Members, Writes
        <5> QED
          BY <2>2, <2>3, <5>1, <5>2, <5>3 DEF Holds, Ahead
      <4> QED
        BY <1>1, <1>12, <2>2, <2>3, <4>1 DEF Holds, Ahead, NoFiles
    <3>3. ASSUME NEW f, <<a, f>> \in Landed
          PROVE  f \in Nat /\ f <= version[a] /\ f < v
      <4>1. f \in Nat /\ f <= version[a]
        BY <2>2, <2>3, <3>3 DEF Holds, FilesOlder, IInv, CheckpointTypes, Landed
      <4> QED
        BY <1>2, <4>1
    <3>4. FilesOlder(a)'
      <4>1. ASSUME NEW f, <<a, f>> \in Landed
            PROVE  /\ f <= v
                   /\ \A w \in Writes(a)' : f < w.version \/ (Busy(spills, w)' /\ writing' = "renamed" /\ f = w.version)
        <5>1. f <= v
          BY <1>2, <3>3, <4>1
        <5>2. ASSUME NEW w \in Writes(a)', w # e
              PROVE  f < w.version \/ (Busy(spills, w)' /\ writing' = "renamed" /\ f = w.version)
          <6>1. w \in Writes(a)
            BY <1>12, <5>2
          <6> QED
            BY <1>1, <1>12, <2>2, <2>3, <4>1, <6>1 DEF Holds, FilesOlder
        <5> QED
          BY <1>3, <3>3, <4>1, <5>1, <5>2
      <4> QED
        BY <1>1, <1>2, <4>1 DEF FilesOlder
    <3>5. KeptStored(a)'
      <4>1. ASSUME kept[a] > 0
            PROVE  <<a, kept[a]>> \in Landed /\ \A w \in Writes(a)' : kept[a] < w.version
        <5>1. <<a, kept[a]>> \in Landed /\ \A w \in Writes(a) : kept[a] < w.version
          BY <2>2, <2>3, <4>1 DEF Holds, KeptStored
        <5> QED
          BY <1>3, <1>12, <3>3, <5>1
      <4> QED
        BY <1>1, <4>1 DEF KeptStored
    <3>6. LatestKnown(a)'
      BY <1>2, <1>3, <1>12 DEF LatestKnown, Writes
    <3> QED
      BY <2>3, <3>1, <3>2, <3>4, <3>5, <3>6 DEF Holds
  <2>4. CASE c # a
    <3>1. KeyOf[c] # k /\ request[c] # "completed"
      BY <1>1, <2>1, <2>4 DEF IInv, OwnersSound
    <3>2. lagging'[c] = Answered(shed, FALSE, request)[c]
      BY <1>1, <2>4
    <3>3. /\ lagging[c] => lagging'[c]
          /\ \A s \in shed : s.attempt = c /\ s.version = version[c] => lagging'[c]
      BY <3>1, <3>2, DroppedLag
    <3>4. kept'[c] = kept[c] /\ version'[c] = version[c] /\ UNCHANGED <<Landed, writing>>
      BY <1>1, <1>2, <2>4
    <3>5. \A x \in {e} : KeyOf[x.attempt] # KeyOf[c]
      BY <1>3, <3>1
    <3> QED
      BY <1>7, <2>2, <3>3, <3>4, <3>5, OthersHold
  <2> QED
    BY <2>3, <2>4
<1> QED
  BY <1>9, <1>10, <1>11, <1>13, <1>14, <1>15, <1>16, <1>17 DEF IInv, CurrentSound

(* complete, for an attempt that has lost its key: what it queued is dropped. *)
LEMMA CompleteWithoutKey ==
  ASSUME IInv, NEW a \in Attempts, Complete(a), attempts[KeyOf[a]] # a
  PROVE  IInv'
<1> DEFINE k == KeyOf[a]
           own == {i \in Droppable(spills, 0) : spills[i].attempt = a}
           shed == {spills[i] : i \in own}
           rq == [request EXCEPT ![a] = "completed"]
<1>1. /\ request[a] = "running" /\ request' = rq /\ spills' = Drop(spills, own)
      /\ Answer(shed, FALSE, attempts, rq)
      /\ UNCHANGED <<version, writing, files, evicted, unlinking, unlinkFailed, unlinked, barriers, finished, kept, crashes>>
      /\ UNCHANGED Landed
  BY DEF Complete, Landed
<1>2. Follows(spills, spills', {}, shed) /\ Sound(spills')
  BY <1>1, QueueWorks, DropFollows
<1>3. /\ pending' = Counted(shed) /\ lagging' = Answered(shed, FALSE, rq)
      /\ attempts' = ReleaseSettled(shed, attempts, rq)
  BY <1>1 DEF Answer
<1>4. \A s \in shed : s.attempt = a
  OBVIOUS
<1> HIDE DEF own, shed
<1>5. /\ attempts \in [Keys -> Attempts \cup {NoAttempt}] /\ k \in Keys /\ a # NoAttempt
      /\ attempts' \in [Keys -> Attempts \cup {NoAttempt}]
      /\ \A j \in Keys : attempts'[j] # NoAttempt => attempts'[j] = attempts[j]
  <2>1. attempts \in [Keys -> Attempts \cup {NoAttempt}]
    BY DEF IInv, CheckpointTypes
  <2> QED
    BY <1>3, <2>1, CheckpointsAssumption, ReleasesSome DEF Keys
<1>6. PendingExact' /\ pending' \in [Attempts -> Nat]
  BY <1>2, <1>3, CountsFollow
<1>7. OwnersSound' /\ request' \in [Attempts -> {"none", "running", "released", "completed"}]
  <2>1. attempts'[k] # a
    BY <1>5
  <2> QED
    BY <1>1, <1>5, <2>1, OwnersStay
<1>8. CheckpointTypes'
  <2>1. lagging' \in [Attempts -> BOOLEAN]
    BY <1>3, Lags
  <2> QED
    BY <1>1, <1>2, <1>5, <1>6, <1>7, <2>1 DEF IInv, CheckpointTypes, Sound
<1>9. request'[a] = "completed" /\ \A b \in Attempts \ {a} : request'[b] = request[b]
  BY <1>1 DEF IInv, CheckpointTypes
<1>10. /\ Members(spills') \subseteq Members(spills) /\ \A j : Unlinks(j) \subseteq Unlinks(j)' /\ Unlinks(j)' \subseteq Unlinks(j)
       /\ \A s : Busy(spills, s) => Busy(spills, s)'
  BY <1>1, <1>2, FollowsKeeps
<1>11. Unbegun'
  BY <1>1, <1>9, <1>10 DEF IInv, Unbegun, CheckpointTypes
<1>12. QueueSound'
  <2>1. version \in [Attempts -> Nat] /\ barriers \in Nat
    BY DEF IInv, CheckpointTypes
  <2> QED
    BY <1>1, <1>2, <2>1, QueueFollows
<1>13. UnlinksSound' /\ FinishedSound'
  BY <1>1, <1>10 DEF IInv, UnlinksSound, FinishedSound
<1>14. ASSUME NEW c \in Attempts, attempts'[KeyOf[c]] = c
       PROVE  Holds(c)'
  <2>1. KeyOf[c] \in Keys /\ c # NoAttempt /\ attempts[KeyOf[c]] = c
    BY <1>5, <1>14, CheckpointsAssumption DEF Keys
  <2>2. Holds(c) /\ c # a /\ request'[c] # "completed"
    BY <1>7, <1>14, <2>1 DEF IInv, CurrentSound, OwnersSound
  <2>3. /\ lagging[c] => lagging'[c]
        /\ \A s \in shed : s.attempt = c /\ s.version = version[c] => lagging'[c]
    BY <1>1, <1>3, <2>2, DroppedLag
  <2>4. kept'[c] = kept[c] /\ version'[c] = version[c] /\ UNCHANGED <<Landed, writing>>
    BY <1>1
  <2> QED
    BY <1>2, <2>2, <2>3, <2>4, OthersHold
<1> QED
  BY <1>6, <1>7, <1>8, <1>11, <1>12, <1>13, <1>14 DEF IInv, CurrentSound

(* complete, for an attempt that has its key: its unlink is behind whatever it *)
(* has in flight, and whoever begins next is behind its unlink.                *)
LEMMA CompleteWithKey ==
  ASSUME IInv, NEW a \in Attempts, Complete(a), attempts[KeyOf[a]] = a
  PROVE  IInv'
<1> DEFINE k == KeyOf[a]
           own == {i \in Droppable(spills, 0) : spills[i].attempt = a}
           mine == {spills[i] : i \in own}
           left == Drop(spills, own)
           e == Unlink(a, barriers + 1)
           q == Append(left, e)
           others == {q[i] : i \in Shed(q)}
           shed == mine \cup others
           cur == [attempts EXCEPT ![k] = NoAttempt]
           rq == [request EXCEPT ![a] = "completed"]
<1>1. /\ request[a] = "running" /\ request' = rq /\ spills' = Drop(q, Shed(q)) /\ barriers' = barriers + 1
      /\ unlinking' = [unlinking EXCEPT ![k] = @ \cup {barriers + 1}]
      /\ finished' = finished \cup {a}
      /\ Answer(shed, FALSE, cur, rq)
      /\ UNCHANGED <<version, writing, files, evicted, unlinkFailed, unlinked, kept, crashes>>
      /\ UNCHANGED Landed
  BY DEF Complete, Landed
<1>2. barriers \in Nat /\ barriers' \in Nat /\ barriers < barriers' /\ barriers <= barriers'
  BY <1>1 DEF IInv, CheckpointTypes
<1>3. /\ e \in Entries /\ e.attempt = a /\ e.barrier = barriers' /\ ~IsWrite(e)
  BY <1>1, <1>2 DEF Unlink, Entries, IsWrite
<1>4. \A s \in Members(spills) : s.barrier \in Nat /\ s.barrier < barriers'
  <2> SUFFICES ASSUME NEW s \in Members(spills)
               PROVE  s.barrier \in Nat /\ s.barrier < barriers'
    OBVIOUS
  <2>1. s \in Entries /\ s.barrier <= barriers
    BY QueueWorks DEF IInv, QueueSound
  <2>2. s.barrier \in Nat
    BY <2>1 DEF Entries
  <2> QED
    BY <1>2, <2>1, <2>2
<1>5. e \notin Members(spills)
  BY <1>2, <1>3, <1>4
<1>6. Follows(spills, left, {}, mine) /\ Sound(left)
  BY QueueWorks, DropFollows
<1>7. e \notin Members(left)
  BY <1>5, <1>6 DEF Follows
<1>8. Shed(q) \in SUBSET Droppable(q, Len(q))
  BY DEF Shed
<1> HIDE DEF e, left
<1>9. Follows(left, spills', {e}, others) /\ Sound(spills')
  BY <1>1, <1>3, <1>6, <1>7, <1>8, AppendFollows
<1> HIDE DEF q
<1>10. Follows(spills, spills', {e}, shed)
  <2> HIDE DEF mine, others
  <2> QED
    BY <1>5, <1>6, <1>9, FollowsTwice
<1>11. \A s \in mine : s.attempt = a
  OBVIOUS
<1>12. mine \subseteq shed
  OBVIOUS
<1> HIDE DEF own, mine, others, shed, cur
<1>13. /\ pending' = Counted(shed) /\ lagging' = Answered(shed, FALSE, rq)
       /\ attempts' = ReleaseSettled(shed, cur, rq)
  BY <1>1 DEF Answer
<1>14. /\ attempts \in [Keys -> Attempts \cup {NoAttempt}] /\ k \in Keys /\ a # NoAttempt
       /\ cur \in [Keys -> Attempts \cup {NoAttempt}] /\ cur[k] = NoAttempt
       /\ \A j \in Keys \ {k} : cur[j] = attempts[j]
  BY CheckpointsAssumption DEF cur, Keys, IInv, CheckpointTypes
<1>15. /\ attempts' \in [Keys -> Attempts \cup {NoAttempt}] /\ attempts'[k] = NoAttempt
       /\ \A j \in Keys : attempts'[j] # NoAttempt => j # k /\ attempts'[j] = attempts[j]
  <2>1. /\ attempts' \in [Keys -> Attempts \cup {NoAttempt}]
        /\ \A j \in Keys : attempts'[j] # NoAttempt => attempts'[j] = cur[j]
    BY <1>13, <1>14, ReleasesSome
  <2> QED
    BY <1>14, <2>1
<1>16. PendingExact' /\ pending' \in [Attempts -> Nat]
  BY <1>3, <1>5, <1>10, <1>13, CountsFollow
<1>17. OwnersSound' /\ request' \in [Attempts -> {"none", "running", "released", "completed"}]
  <2>1. attempts'[k] # a
    BY <1>14, <1>15
  <2> QED
    BY <1>1, <1>15, <2>1, OwnersStay
<1>18. CheckpointTypes'
  <2>1. lagging' \in [Attempts -> BOOLEAN]
    BY <1>13, Lags
  <2>2. unlinking' \in [Keys -> SUBSET Nat] /\ finished' \subseteq Attempts
    BY <1>1, <1>2 DEF IInv, CheckpointTypes
  <2> QED
    BY <1>1, <1>2, <1>9, <1>15, <1>16, <1>17, <2>1, <2>2 DEF IInv, CheckpointTypes, Sound
<1>19. request'[a] = "completed" /\ \A b \in Attempts \ {a} : request'[b] = request[b]
  BY <1>1 DEF IInv, CheckpointTypes
<1>20. /\ Members(spills') \subseteq Members(spills) \cup {e}
       /\ \A j : Unlinks(j) \subseteq Unlinks(j)' /\ Unlinks(j)' \subseteq Unlinks(j) \cup {e}
       /\ \A s : Busy(spills, s) => Busy(spills, s)'
  BY <1>1, <1>10, FollowsKeeps
<1>21. e \in Unlinks(k)'
  BY <1>3, <1>5, <1>10 DEF Follows, Unlinks
<1>22. Unbegun'
  BY <1>1, <1>3, <1>19, <1>20 DEF IInv, Unbegun, CheckpointTypes
<1>23. QueueSound'
  <2>1. version \in [Attempts -> Nat]
    BY DEF IInv, CheckpointTypes
  <2>2. \A x \in Members(spills) : InOrder(x, e)
    BY <1>3, <1>4 DEF InOrder
  <2>3. \A x \in {e} : x \in Entries /\ x.barrier <= barriers' /\ ~IsWrite(x) /\ \A y \in Members(spills) : InOrder(y, x)
    BY <1>2, <1>3, <2>2
  <2>4. version' \in [Attempts -> Nat] /\ \A b \in Attempts : version[b] <= version'[b]
    BY <1>1, <2>1
  <2> QED
    BY <1>1, <1>2, <1>10, <2>3, <2>4, QueueFollows
<1>24. UnlinksSound'
  <2> SUFFICES ASSUME NEW j \in Keys
               PROVE  /\ unlinked[j] <= barriers'
                      /\ \A s \in Unlinks(j)' : s.barrier \in unlinking'[j] /\ s.barrier > unlinked[j]
    BY <1>1 DEF UnlinksSound
  <2>1. unlinked[j] \in Nat /\ unlinked[j] <= barriers
    BY DEF IInv, CheckpointTypes, UnlinksSound
  <2>2. unlinked[j] < barriers'
    BY <1>2, <2>1
  <2>3. unlinking[j] \subseteq unlinking'[j] /\ barriers' \in unlinking'[k]
    BY <1>1, <1>14 DEF IInv, CheckpointTypes
  <2>4. ASSUME NEW s \in Unlinks(j)'
        PROVE  s.barrier \in unlinking'[j] /\ s.barrier > unlinked[j]
    <3>1. CASE s \in Unlinks(j)
      BY <2>3, <3>1 DEF IInv, UnlinksSound
    <3>2. CASE s = e
      <4>1. j = k
        BY <1>3, <3>2 DEF Unlinks
      <4> QED
        BY <1>3, <2>2, <2>1, <1>2, <2>3, <3>2, <4>1
    <3> QED
      BY <1>20, <3>1, <3>2
  <2> QED
    BY <1>2, <2>1, <2>2, <2>4
<1>25. FinishedSound'
  <2>1. ASSUME NEW s \in Members(spills'), IsWrite(s), s.attempt \in finished'
        PROVE  Busy(spills, s)' /\ Unlinks(KeyOf[s.attempt])' # {}
    <3>1. s \in Members(spills) /\ s \notin shed
      BY <1>3, <1>10, <2>1 DEF Follows
    <3>2. CASE s.attempt = a
      <4>1. Busy(spills, s)
        BY <1>12, <2>1, <3>1, <3>2, WaitingDroppable DEF mine, own
      <4> QED
        BY <1>20, <1>21, <3>2, <4>1
    <3>3. CASE s.attempt \in finished
      BY <1>20, <2>1, <3>1, <3>3 DEF IInv, FinishedSound
    <3> QED
      BY <1>1, <2>1, <3>2, <3>3
  <2>2. ASSUME NEW f \in files, f[1] \in finished'
        PROVE  Unlinks(KeyOf[f[1]])' # {} \/ unlinkFailed[KeyOf[f[1]]] # {}
    <3>1. CASE f[1] = a
      BY <1>21, <3>1
    <3>2. CASE f[1] \in finished
      BY <1>20, <3>2 DEF IInv, FinishedSound
    <3> QED
      BY <1>1, <2>2, <3>1, <3>2
  <2> QED
    BY <1>1, <2>1, <2>2 DEF FinishedSound
<1>26. ASSUME NEW c \in Attempts, attempts'[KeyOf[c]] = c
       PROVE  Holds(c)'
  <2>1. KeyOf[c] \in Keys /\ c # NoAttempt /\ KeyOf[c] # k /\ attempts[KeyOf[c]] = c
    BY <1>15, <1>26, CheckpointsAssumption DEF Keys
  <2>2. Holds(c) /\ request'[c] # "completed"
    BY <1>17, <1>26, <2>1 DEF IInv, CurrentSound, OwnersSound
  <2>3. /\ lagging[c] => lagging'[c]
        /\ \A s \in shed : s.attempt = c /\ s.version = version[c] => lagging'[c]
    BY <1>1, <1>13, <2>2, DroppedLag
  <2>4. kept'[c] = kept[c] /\ version'[c] = version[c] /\ UNCHANGED <<Landed, writing>>
    BY <1>1
  <2>5. \A x \in {e} : KeyOf[x.attempt] # KeyOf[c]
    BY <1>3, <2>1
  <2> QED
    BY <1>10, <2>2, <2>3, <2>4, <2>5, OthersHold
<1> QED
  BY <1>16, <1>17, <1>18, <1>22, <1>23, <1>24, <1>25, <1>26 DEF IInv, CurrentSound

(* release: the request is over, its queue and its files stay. *)
LEMMA ReleaseKeeps ==
  ASSUME IInv, NEW a \in Attempts, Release(a)
  PROVE  IInv'
<1>1. /\ request[a] = "running" /\ request' = [request EXCEPT ![a] = "released"]
      /\ UNCHANGED <<pending, lagging, version, spills, writing, files, evicted,
                     unlinking, unlinkFailed, unlinked, barriers, finished, kept, crashes>>
      /\ UNCHANGED Landed
  BY DEF Release, Landed
<1>2. /\ attempts' \in [Keys -> Attempts \cup {NoAttempt}]
      /\ \A j \in Keys : attempts'[j] # NoAttempt => attempts'[j] = attempts[j]
  BY DEF Release, IInv, CheckpointTypes
<1>3. OwnersSound' /\ request' \in [Attempts -> {"none", "running", "released", "completed"}]
  BY <1>1, <1>2, OwnersStay
<1>4. CheckpointTypes'
  BY <1>1, <1>2, <1>3 DEF IInv, CheckpointTypes
<1>5. PendingExact' /\ QueueSound' /\ UnlinksSound' /\ FinishedSound'
  BY <1>1 DEF IInv, PendingExact, QueueSound, UnlinksSound, FinishedSound, Writes, Unlinks, Busy
<1>6. Unbegun'
  BY <1>1 DEF IInv, Unbegun, CheckpointTypes
<1>7. ASSUME NEW c \in Attempts, attempts'[KeyOf[c]] = c
      PROVE  Holds(c)'
  <2>1. attempts[KeyOf[c]] = c
    BY <1>2, <1>7, CheckpointsAssumption DEF Keys
  <2>2. Holds(c)
    BY <2>1 DEF IInv, CurrentSound
  <2> QED
    BY <1>1, <2>2 DEF Holds, Alone, Ahead, FilesOlder, KeptStored, LatestKnown, NoFiles, Writes, Unlinks, Busy
<1> QED
  BY <1>3, <1>4, <1>5, <1>6, <1>7 DEF IInv, CurrentSound

-----------------------------------------------------------------------------
(* The queue's turn.                                                       *)

(* The head leaves a queue whose other entries are behind it. *)
LEMMA HeadLeaves ==
  ASSUME IInv, spills # <<>>
  PROVE  LET h == Head(spills) IN
         /\ h \in Members(spills) /\ h \in Entries /\ Tail(spills) \in Seq(Entries)
         /\ Members(Tail(spills)) = Members(spills) \ {h}
         /\ \A x, y : Before(Tail(spills), x, y) => Before(spills, x, y)
         /\ \A s \in Members(spills) : s # h => Before(spills, h, s) /\ InOrder(h, s)
<1>1. spills \in Seq(Entries) /\ Distinct(spills)
  BY QueueWorks, OrderedDistinct DEF Sound
<1>2. /\ Head(spills) \in Members(spills) /\ Head(spills) \in Entries /\ Tail(spills) \in Seq(Entries)
      /\ Members(spills) = Members(Tail(spills)) \cup {Head(spills)} /\ Head(spills) \notin Members(Tail(spills))
  BY <1>1, TailMembers
<1>3. /\ \A x, y : Before(Tail(spills), x, y) => Before(spills, x, y)
      /\ \A s \in Members(Tail(spills)) : Before(spills, Head(spills), s)
  BY <1>1, TailOrder
<1>4. \A x, y : Before(spills, x, y) => InOrder(x, y)
  BY DEF IInv, QueueSound
<1> QED
  BY <1>2, <1>3, <1>4

(* What stays in the queue is in order. *)
LEMMA TailSound ==
  ASSUME IInv, spills # <<>>, spills' = Tail(spills), writing' = "no", UNCHANGED <<version, barriers>>
  PROVE  /\ QueueSound' /\ spills' \in Seq(Entries)
         /\ Members(spills') = Members(spills) \ {Head(spills)}
         /\ \A c : Writes(c)' = Writes(c) \ {Head(spills)}
         /\ \A k : Unlinks(k)' = Unlinks(k) \ {Head(spills)}
         /\ \A s : ~Busy(spills, s)'
<1>1. /\ Members(spills') = Members(spills) \ {Head(spills)} /\ spills' \in Seq(Entries)
      /\ \A x, y : Before(spills', x, y) => Before(spills, x, y)
  BY HeadLeaves
<1>2. QueueSound'
  BY <1>1 DEF IInv, QueueSound
<1> QED
  BY <1>1, <1>2 DEF Writes, Unlinks, Busy

(* The holder of a key, when the write at the head is answered. *)
LEMMA HolderAnswered ==
  ASSUME IInv, spills # <<>>, IsWrite(Head(spills)), NEW stored \in BOOLEAN, Done(stored),
         UNCHANGED <<request, version, barriers>>,
         Landed' \subseteq Landed \cup {<<Head(spills).attempt, Head(spills).version>>},
         NEW c \in Attempts, attempts[KeyOf[c]] = c,
         c # Head(spills).attempt => kept'[c] = kept[c],
         KeyOf[c] # KeyOf[Head(spills).attempt] => \A v : <<c, v>> \in Landed => <<c, v>> \in Landed',
         c = Head(spills).attempt =>
           \/ /\ ~stored /\ kept'[c] = kept[c]
              /\ \A v : <<c, v>> \in Landed /\ v # Head(spills).version => <<c, v>> \in Landed'
           \/ kept'[c] = Head(spills).version /\ <<c, Head(spills).version>> \in Landed'
  PROVE  Holds(c)'
<1> DEFINE h == Head(spills)
<1>1. /\ h \in Members(spills) /\ h \in Entries
      /\ \A x, y : Before(Tail(spills), x, y) => Before(spills, x, y)
      /\ \A s \in Members(spills) : s # h => Before(spills, h, s) /\ InOrder(h, s)
  BY HeadLeaves
<1>2. spills' = Tail(spills) /\ writing' = "no" /\ lagging' = Answered({h}, stored, request)
  BY DEF Done, Answer
<1>3. /\ Members(spills') = Members(spills) \ {h} /\ Writes(c)' = Writes(c) \ {h}
      /\ Unlinks(KeyOf[c])' = Unlinks(KeyOf[c]) \ {h} /\ \A s : ~Busy(spills, s)'
  BY <1>2, TailSound
<1>4. Holds(c) /\ request[c] # "completed"
  <2>1. KeyOf[c] \in Keys /\ c # NoAttempt
    BY CheckpointsAssumption DEF Keys
  <2> QED
    BY <2>1 DEF IInv, CurrentSound, OwnersSound
<1>5. h.version \in Nat /\ h.version <= version[h.attempt] /\ version \in [Attempts -> Nat] /\ h.attempt \in Attempts
  BY <1>1 DEF IInv, QueueSound, Entries, CheckpointTypes
<1>6. \A v : <<c, v>> \in Landed' => v \in Nat /\ (<<c, v>> \in Landed \/ (h.attempt = c /\ v = h.version))
  BY <1>5 DEF IInv, CheckpointTypes, Landed
<1> HIDE DEF h
<1>7. \A w \in Writes(c) : w # h /\ h.attempt = c => h.version < w.version
  BY <1>1 DEF InOrder, Writes, h
<1>8. h.attempt # c /\ KeyOf[h.attempt] = KeyOf[c] => NoFiles(c)
  BY <1>1, <1>4 DEF Holds, Alone, h
<1>9. h.attempt = c => h \in Writes(c)
  BY <1>1 DEF Writes, h
<1>10. Alone(c)'
  <2>1. ASSUME NEW s \in Members(spills'), IsWrite(s), KeyOf[s.attempt] = KeyOf[c], s.attempt # c
        PROVE  FALSE
    <3>1. s \in Members(spills) /\ s # h
      BY <1>3, <2>1
    <3>2. Busy(spills, s)
      BY <1>4, <2>1, <3>1 DEF Holds, Alone
    <3> QED
      BY <3>1, <3>2 DEF Busy, h
  <2> QED
    BY <2>1 DEF Alone
<1>11. Ahead(c)'
  <2> SUFFICES ASSUME NEW u \in Unlinks(KeyOf[c])'
               PROVE  NoFiles(c)' /\ \A w \in Writes(c)' : ~Before(spills', w, u)
    BY DEF Ahead
  <2>1. u \in Unlinks(KeyOf[c]) /\ u # h /\ u \in Members(spills)
    BY <1>3 DEF Unlinks
  <2>2. NoFiles(c) /\ \A w \in Writes(c) : ~Before(spills, w, u)
    BY <1>4, <2>1 DEF Holds, Ahead
  <2>3. h.attempt # c
    BY <1>1, <1>9, <2>1, <2>2 DEF h
  <2>4. NoFiles(c)'
    BY <1>6, <2>2, <2>3 DEF NoFiles
  <2> QED
    BY <1>1, <1>2, <1>3, <2>2, <2>4
<1>12. FilesOlder(c)'
  <2> SUFFICES ASSUME NEW v, <<c, v>> \in Landed'
               PROVE  v <= version[c] /\ \A w \in Writes(c)' : v < w.version
    BY DEF FilesOlder
  <2>1. CASE <<c, v>> \in Landed
    <3>1. v <= version[c]
      BY <1>4, <2>1 DEF Holds, FilesOlder
    <3>2. ASSUME NEW w \in Writes(c)'
          PROVE  v < w.version
      <4>1. w \in Writes(c) /\ ~Busy(spills, w)
        BY <1>3 DEF Busy, h
      <4> QED
        BY <1>4, <2>1, <4>1 DEF Holds, FilesOlder
    <3> QED
      BY <3>1, <3>2
  <2>2. CASE h.attempt = c /\ v = h.version
    BY <1>3, <1>5, <1>7, <2>2
  <2> QED
    BY <1>6, <2>1, <2>2
<1>13. KeptStored(c)'
  <2> SUFFICES ASSUME kept'[c] > 0
               PROVE  <<c, kept'[c]>> \in Landed' /\ \A w \in Writes(c)' : kept'[c] < w.version
    BY DEF KeptStored
  <2>1. kept[c] > 0 => <<c, kept[c]>> \in Landed /\ \A w \in Writes(c) : kept[c] < w.version
    BY <1>4 DEF Holds, KeptStored
  <2>2. CASE h.attempt = c /\ kept'[c] = h.version /\ <<c, h.version>> \in Landed'
    BY <1>3, <1>7, <2>2
  <2>3. CASE h.attempt = c /\ kept'[c] = kept[c] /\ \A v : <<c, v>> \in Landed /\ v # h.version => <<c, v>> \in Landed'
    <3>1. kept[c] # h.version
      <4>1. kept[c] < h.version /\ kept[c] \in Nat
        BY <1>9, <2>1, <2>3 DEF IInv, CheckpointTypes
      <4> QED
        BY <1>5, <4>1
    <3> QED
      BY <1>3, <2>1, <2>3, <3>1
  <2>4. CASE h.attempt # c
    <3>1. kept'[c] = kept[c]
      BY <2>4 DEF h
    <3>2. KeyOf[h.attempt] # KeyOf[c]
      BY <1>8, <2>1, <2>4, <3>1 DEF NoFiles
    <3> QED
      BY <1>3, <2>1, <3>1, <3>2 DEF h
  <2> QED
    BY <2>2, <2>3, <2>4 DEF h
<1>14. LatestKnown(c)'
  <2> SUFFICES ASSUME version[c] > 0
               PROVE  lagging'[c] \/ <<c, version[c]>> \in Landed' \/ \E w \in Writes(c)' : w.version = version[c]
    BY DEF LatestKnown
  <2>1. lagging[c] \/ <<c, version[c]>> \in Landed \/ \E w \in Writes(c) : w.version = version[c]
    BY <1>4 DEF Holds, LatestKnown
  <2>2. CASE h.attempt = c /\ h.version = version[c]
    <3>1. lagging'[c] <=> ~stored
      <4>1. \E w \in {h} : w.attempt = c /\ w.version = version[c]
        BY <2>2
      <4>2. Answered({h}, stored, request)[c] <=> ~stored
        BY <1>4, <4>1 DEF Answered
      <4> QED
        BY <1>2, <4>2
    <3>2. stored => <<c, version[c]>> \in Landed'
      BY <2>2 DEF h
    <3> QED
      BY <3>1, <3>2
  <2>3. CASE ~(h.attempt = c /\ h.version = version[c])
    <3>1. lagging'[c] = lagging[c]
      <4>1. ~\E w \in {h} : w.attempt = c /\ w.version = version[c]
        BY <2>3
      <4>2. Answered({h}, stored, request)[c] = lagging[c]
        BY <4>1 DEF Answered
      <4> QED
        BY <1>2, <4>2
    <3>2. ASSUME NEW w \in Writes(c), w.version = version[c]
          PROVE  w \in Writes(c)'
      BY <1>3, <2>3, <3>2 DEF Writes
    <3>3. CASE <<c, version[c]>> \in Landed
      <4>1. CASE h.attempt = c
        <5>1. version[c] \in Nat /\ h.version < version[c]
          BY <1>5, <2>3, <4>1
        <5>2. version[c] < h.version \/ version[c] = h.version
          BY <1>4, <1>9, <3>3, <4>1 DEF Holds, FilesOlder
        <5> QED
          BY <1>5, <5>1, <5>2
      <4>2. CASE h.attempt # c
        <5>1. KeyOf[h.attempt] # KeyOf[c]
          BY <1>8, <3>3, <4>2 DEF NoFiles
        <5> QED
          BY <3>3, <5>1 DEF h
      <4> QED
        BY <4>1, <4>2
    <3>4. CASE lagging[c]
      BY <3>1, <3>4
    <3> QED
      BY <2>1, <3>2, <3>3, <3>4
  <2> QED
    BY <2>2, <2>3
<1> QED
  BY <1>10, <1>11, <1>12, <1>13, <1>14 DEF Holds

(* What a turn that answers a write keeps, whatever it does to the files. *)
LEMMA AnswerKeeps ==
  ASSUME IInv, spills # <<>>, IsWrite(Head(spills)), NEW stored \in BOOLEAN, Done(stored),
         UNCHANGED <<request, version, unlinking, unlinkFailed, unlinked, barriers, finished, crashes>>,
         files' \subseteq files \cup {<<Head(spills).attempt, Head(spills).version>>},
         Landed' \subseteq Landed \cup {<<Head(spills).attempt, Head(spills).version>>},
         kept' \in [Attempts -> Nat],
         \A c \in Attempts : c # Head(spills).attempt => kept'[c] = kept[c],
         \A c \in Attempts : KeyOf[c] # KeyOf[Head(spills).attempt] =>
           \A v : <<c, v>> \in Landed => <<c, v>> \in Landed',
         Current(Head(spills)) =>
           \/ /\ ~stored /\ kept' = kept
              /\ \A v : <<Head(spills).attempt, v>> \in Landed /\ v # Head(spills).version => <<Head(spills).attempt, v>> \in Landed'
           \/ /\ kept'[Head(spills).attempt] = Head(spills).version
              /\ <<Head(spills).attempt, Head(spills).version>> \in Landed'
  PROVE  IInv'
<1> DEFINE h == Head(spills)
           file == <<h.attempt, h.version>>
<1>1. h \in Members(spills) /\ h \in Entries /\ h.attempt \in Attempts /\ h.version \in Nat
  BY HeadLeaves DEF Entries
<1>2. /\ spills' = Tail(spills) /\ writing' = "no"
      /\ pending' = Counted({h}) /\ lagging' = Answered({h}, stored, request)
      /\ attempts' = ReleaseSettled({h}, attempts, request)
  BY DEF Done, Answer
<1>3. /\ QueueSound' /\ spills' \in Seq(Entries)
      /\ Members(spills') = Members(spills) \ {h}
      /\ \A c : Writes(c)' = Writes(c) \ {h}
      /\ \A k : Unlinks(k)' = Unlinks(k)
      /\ \A s : ~Busy(spills, s)'
  BY <1>2, TailSound DEF Unlinks
<1>4. /\ attempts \in [Keys -> Attempts \cup {NoAttempt}]
      /\ attempts' \in [Keys -> Attempts \cup {NoAttempt}]
      /\ \A j \in Keys : attempts'[j] # NoAttempt => attempts'[j] = attempts[j]
  <2>1. attempts \in [Keys -> Attempts \cup {NoAttempt}]
    BY DEF IInv, CheckpointTypes
  <2> QED
    BY <1>2, <2>1, ReleasesSome
<1>5. files' \subseteq Attempts \X Nat /\ evicted' \subseteq Attempts \X Nat
  BY <1>1 DEF IInv, CheckpointTypes, Landed
<1>6. PendingExact' /\ pending' \in [Attempts -> Nat]
  <2>1. ASSUME NEW a \in Attempts
        PROVE  pending'[a] = Cardinality(Writes(a)') /\ pending'[a] \in Nat
    <3> DEFINE lost == Cardinality({s \in {h} : s.attempt = a})
    <3>1. Members(spills') = (Members(spills) \cup {}) \ {h} /\ {h} \subseteq Members(spills) /\ \A s \in {h} : IsWrite(s)
      BY <1>1, <1>3
    <3>2. pending[a] - lost \in Nat /\ Cardinality(Writes(a)') = pending[a] - lost
      BY <3>1, PendingFollows
    <3> QED
      BY <1>2, <3>2 DEF Counted
  <2>2. pending' = [a \in Attempts |-> pending'[a]]
    BY <1>2 DEF Counted
  <2> QED
    BY <2>1, <2>2 DEF PendingExact
<1>7. OwnersSound'
  BY <1>4 DEF IInv, OwnersSound
<1>8. CheckpointTypes'
  <2>1. lagging' \in [Attempts -> BOOLEAN]
    BY <1>2, Lags
  <2> QED
    BY <1>2, <1>3, <1>4, <1>5, <1>6, <2>1 DEF IInv, CheckpointTypes
<1> HIDE DEF h
<1>9. Unbegun'
  <2>1. request[h.attempt] # "none"
    BY <1>1 DEF IInv, Unbegun
  <2>2. ASSUME NEW a \in Attempts, request[a] = "none"
        PROVE  /\ version[a] = 0 /\ kept'[a] = 0 /\ \A v : <<a, v>> \notin Landed'
               /\ \A s \in Members(spills') : s.attempt # a
    <3>1. /\ version[a] = 0 /\ kept[a] = 0 /\ a # h.attempt
          /\ \A v : <<a, v>> \notin Landed /\ <<a, v>> # file
          /\ \A s \in Members(spills) : s.attempt # a
      BY <2>1, <2>2 DEF IInv, Unbegun
    <3> QED
      BY <1>3, <3>1 DEF h
  <2>3. \A a \in finished : request[a] = "completed"
    BY DEF IInv, Unbegun
  <2> QED
    BY <2>2, <2>3 DEF Unbegun
<1>10. UnlinksSound'
  BY <1>3 DEF IInv, UnlinksSound
<1>11. FinishedSound'
  <2>1. ASSUME NEW s \in Members(spills'), IsWrite(s), s.attempt \in finished
        PROVE  FALSE
    <3>1. s \in Members(spills) /\ s # h
      BY <1>3
    <3>2. Busy(spills, s)
      BY <2>1, <3>1 DEF IInv, FinishedSound
    <3> QED
      BY <3>1, <3>2 DEF Busy, h
  <2>2. ASSUME NEW f \in files', f[1] \in finished
        PROVE  Unlinks(KeyOf[f[1]]) # {} \/ unlinkFailed[KeyOf[f[1]]] # {}
    <3>1. CASE f \in files
      BY <2>2, <3>1 DEF IInv, FinishedSound
    <3>2. CASE f = file
      BY <1>1, <2>2, <3>2 DEF IInv, FinishedSound, h
    <3> QED
      BY <3>1, <3>2 DEF h
  <2> QED
    BY <1>3, <2>1, <2>2 DEF FinishedSound
<1>12. ASSUME NEW c \in Attempts, attempts'[KeyOf[c]] = c
       PROVE  Holds(c)'
  <2>1. KeyOf[c] \in Keys /\ c # NoAttempt /\ attempts[KeyOf[c]] = c
    BY <1>4, <1>12, CheckpointsAssumption DEF Keys
  <2>2. c = h.attempt => Current(h)
    BY <2>1 DEF IInv, OwnersSound, Current
  <2>3. c # h.attempt => kept'[c] = kept[c]
    BY DEF h
  <2>4. KeyOf[c] # KeyOf[h.attempt] => \A v : <<c, v>> \in Landed => <<c, v>> \in Landed'
    BY DEF h
  <2>5. c = h.attempt =>
          \/ /\ ~stored /\ kept'[c] = kept[c]
             /\ \A v : <<c, v>> \in Landed /\ v # h.version => <<c, v>> \in Landed'
          \/ kept'[c] = h.version /\ <<c, h.version>> \in Landed'
    BY <2>2 DEF h
  <2> QED
    BY <2>1, <2>3, <2>4, <2>5, HolderAnswered DEF h
<1> QED
  BY <1>6, <1>3, <1>7, <1>8, <1>9, <1>10, <1>11, <1>12 DEF IInv, CurrentSound

(* The writer turns to the next write, or skips one nobody wants. *)
LEMMA StartWriteKeeps ==
  ASSUME IInv, StartWrite
  PROVE  IInv'
<1>1. /\ spills # <<>> /\ writing = "no" /\ IsWrite(Head(spills))
      /\ UNCHANGED <<request, version, files, evicted, unlinking, unlinkFailed, unlinked, barriers, finished, kept, crashes>>
      /\ UNCHANGED Landed
  BY DEF StartWrite, Landed
<1>2. CASE Current(Head(spills))
  <2>1. writing' = "storing" /\ UNCHANGED <<attempts, pending, lagging, spills>>
    BY <1>2 DEF StartWrite
  <2>2. ~\E s : Busy(spills, s)
    BY <1>1 DEF Busy
  <2>3. /\ CheckpointTypes' /\ OwnersSound' /\ Unbegun' /\ PendingExact' /\ UnlinksSound'
    BY <1>1, <2>1 DEF IInv, CheckpointTypes, OwnersSound, Unbegun, PendingExact, UnlinksSound, Writes, Unlinks
  <2>4. QueueSound'
    BY <1>1, <2>1 DEF IInv, QueueSound
  <2>5. FinishedSound'
    BY <1>1, <2>1, <2>2 DEF IInv, FinishedSound, Unlinks
  <2>6. ASSUME NEW c \in Attempts, attempts[KeyOf[c]] = c
        PROVE  Holds(c)'
    <3>1. Holds(c)
      BY <2>6 DEF IInv, CurrentSound
    <3>2. FilesOlder(c)'
      <4>1. \A v : <<c, v>> \in Landed => v <= version[c] /\ \A w \in Writes(c) : v < w.version
        BY <1>1, <3>1 DEF Holds, FilesOlder
      <4> QED
        BY <1>1, <2>1, <4>1 DEF FilesOlder, Writes
    <3> QED
      BY <1>1, <2>1, <2>2, <3>1, <3>2 DEF Holds, Alone, Ahead, KeptStored, LatestKnown, NoFiles, Writes, Unlinks
  <2> QED
    BY <2>1, <2>3, <2>4, <2>5, <2>6 DEF IInv, CurrentSound
<1>3. CASE ~Current(Head(spills))
  <2>1. Done(TRUE)
    BY <1>3 DEF StartWrite
  <2>2. kept' \in [Attempts -> Nat]
    BY <1>1 DEF IInv, CheckpointTypes
  <2> QED
    BY <1>1, <1>3, <2>1, <2>2, AnswerKeeps
<1> QED
  BY <1>2, <1>3

(* The file is there, and nobody knows it yet. *)
LEMMA RenamedKeeps ==
  ASSUME IInv, Renamed
  PROVE  IInv'
<1> DEFINE h == Head(spills)
           file == <<h.attempt, h.version>>
<1>1. /\ writing = "storing" /\ writing' = "renamed" /\ files' = files \cup {file} /\ Landed' = Landed \cup {file}
      /\ UNCHANGED <<ram, spills, evicted, finished, kept, crashes>>
  BY DEF Renamed, Landed
<1>2. spills # <<>> /\ IsWrite(h)
  BY <1>1 DEF IInv, QueueSound
<1>3. /\ h \in Members(spills) /\ h \in Entries /\ h.attempt \in Attempts /\ h.version \in Nat
      /\ \A s \in Members(spills) : s # h => Before(spills, h, s) /\ InOrder(h, s)
  BY <1>2, HeadLeaves DEF Entries
<1>4. Busy(spills, h) /\ \A s : Busy(spills, s)' <=> Busy(spills, s)
  BY <1>1 DEF Busy
<1>5. /\ \A c : Writes(c)' = Writes(c) /\ \A k : Unlinks(k)' = Unlinks(k)
  BY <1>1 DEF Writes, Unlinks
<1>6. CheckpointTypes' /\ OwnersSound' /\ PendingExact' /\ UnlinksSound'
  BY <1>1, <1>3, <1>5 DEF IInv, CheckpointTypes, OwnersSound, PendingExact, UnlinksSound, ram
<1>7. QueueSound'
  BY <1>1, <1>2 DEF IInv, QueueSound, ram
<1>8. Unbegun'
  <2>1. request[h.attempt] # "none"
    BY <1>3 DEF IInv, Unbegun
  <2>2. \A a, v : <<a, v>> \in Landed' => <<a, v>> \in Landed \/ a = h.attempt
    BY <1>1
  <2> QED
    BY <1>1, <2>1, <2>2 DEF IInv, Unbegun, ram
<1>9. FinishedSound'
  <2>1. file[1] \in finished => Unlinks(KeyOf[file[1]]) # {}
    BY <1>2, <1>3 DEF IInv, FinishedSound
  <2> QED
    BY <1>1, <1>4, <1>5, <2>1 DEF IInv, FinishedSound, ram
<1>10. ASSUME NEW c \in Attempts, attempts[KeyOf[c]] = c
       PROVE  Holds(c)'
  <2>1. Holds(c)
    BY <1>10 DEF IInv, CurrentSound
  <2>2. \A v : <<c, v>> \in Landed' => <<c, v>> \in Landed \/ (c = h.attempt /\ v = h.version)
    BY <1>1
  <2> HIDE DEF h
  <2>3. c = h.attempt => h \in Writes(c) /\ \A u \in Unlinks(KeyOf[c]) : Before(spills, h, u)
    BY <1>2, <1>3 DEF Writes, Unlinks
  <2>4. Alone(c)'
    <3>1. ASSUME NEW s \in Members(spills), IsWrite(s), KeyOf[s.attempt] = KeyOf[c], s.attempt # c
          PROVE  Busy(spills, s) /\ NoFiles(c)'
      <4>1. Busy(spills, s) /\ NoFiles(c)
        BY <2>1, <3>1 DEF Holds, Alone
      <4>2. c # h.attempt
        BY <3>1, <4>1 DEF Busy, h
      <4> QED
        BY <2>2, <4>1, <4>2 DEF NoFiles
    <3> QED
      BY <1>1, <1>4, <3>1 DEF Alone
  <2>5. Ahead(c)'
    <3>1. ASSUME NEW u \in Unlinks(KeyOf[c])
          PROVE  NoFiles(c)' /\ \A w \in Writes(c) : ~Before(spills, w, u)
      <4>1. NoFiles(c) /\ \A w \in Writes(c) : ~Before(spills, w, u)
        BY <2>1 DEF Holds, Ahead
      <4>2. c # h.attempt
        BY <2>3, <4>1
      <4> QED
        BY <2>2, <4>1, <4>2 DEF NoFiles
    <3> QED
      BY <1>1, <1>5, <3>1 DEF Ahead
  <2>6. FilesOlder(c)'
    <3>1. ASSUME NEW v, <<c, v>> \in Landed'
          PROVE  /\ v <= version[c]
                 /\ \A w \in Writes(c) : v < w.version \/ (Busy(spills, w) /\ v = w.version)
      <4>1. CASE <<c, v>> \in Landed
        BY <1>1, <2>1, <4>1 DEF Holds, FilesOlder
      <4>2. CASE c = h.attempt /\ v = h.version
        <5>1. v <= version[c]
          BY <1>2, <1>3, <4>2 DEF IInv, QueueSound, h
        <5>2. \A w \in Writes(c) : w # h => v < w.version
          BY <1>2, <1>3, <4>2 DEF InOrder, Writes, h
        <5> QED
          BY <1>4, <4>2, <5>1, <5>2
      <4> QED
        BY <2>2, <3>1, <4>1, <4>2
    <3> QED
      BY <1>1, <1>4, <1>5, <3>1 DEF FilesOlder, ram
  <2>7. KeptStored(c)' /\ LatestKnown(c)'
    BY <1>1, <1>5, <2>1 DEF Holds, KeptStored, LatestKnown, ram
  <2> QED
    BY <2>4, <2>5, <2>6, <2>7 DEF Holds
<1> QED
  BY <1>1, <1>6, <1>7, <1>8, <1>9, <1>10 DEF IInv, CurrentSound, ram

(* A write fails: what was on disk before it stays. *)
LEMMA WriteFailsKeeps ==
  ASSUME IInv, WriteFails
  PROVE  IInv'
<1>1. /\ spills # <<>> /\ IsWrite(Head(spills))
      /\ Done(FALSE) /\ files' = files \ {<<Head(spills).attempt, Head(spills).version>>}
      /\ UNCHANGED <<request, version, evicted, unlinking, unlinkFailed, unlinked, barriers, finished, kept, crashes>>
  BY DEF WriteFails, IInv, QueueSound
<1>2. kept' \in [Attempts -> Nat]
  BY <1>1 DEF IInv, CheckpointTypes
<1>3. /\ files' \subseteq files \cup {<<Head(spills).attempt, Head(spills).version>>}
      /\ Landed' \subseteq Landed \cup {<<Head(spills).attempt, Head(spills).version>>}
  BY <1>1 DEF Landed
<1>4. \A c, v : <<c, v>> \in Landed /\ (c # Head(spills).attempt \/ v # Head(spills).version) => <<c, v>> \in Landed'
  BY <1>1 DEF Landed
<1>5. \A c \in Attempts : KeyOf[c] # KeyOf[Head(spills).attempt] => \A v : <<c, v>> \in Landed => <<c, v>> \in Landed'
  BY <1>4
<1> QED
  BY <1>1, <1>2, <1>3, <1>4, <1>5, AnswerKeeps

(* A write is stored: it takes the place of the older ones. *)
LEMMA StoredKeeps ==
  ASSUME IInv, Stored
  PROVE  IInv'
<1> DEFINE h == Head(spills)
           file == <<h.attempt, h.version>>
<1>1. /\ spills # <<>> /\ IsWrite(h)
      /\ kept' = [kept EXCEPT ![h.attempt] = IF Current(h) THEN h.version ELSE @]
      /\ UNCHANGED <<request, version, unlinking, unlinkFailed, unlinked, barriers, finished, crashes>>
  BY DEF Stored, IInv, QueueSound
<1>2. h.attempt \in Attempts /\ h.version \in Nat
  BY <1>1, HeadLeaves DEF Entries
<1>3. PICK stored \in BOOLEAN :
        /\ Done(stored)
        /\ files' \subseteq files \cup {file} /\ Landed' \subseteq Landed \cup {file}
        /\ Landed \ FilesOf(KeyOf[h.attempt]) \subseteq Landed'
        /\ Current(h) => file \in Landed'
  <2>1. PICK lost \in SUBSET (files \ FilesOf(KeyOf[h.attempt])) :
          \/ Done(TRUE) /\ EvictToCap(Landing(h, file), lost)
          \/ /\ ~Current(h) /\ Done(FALSE)
             /\ EvictToCap((files \ FilesOf(KeyOf[h.attempt])) \cup {file}, lost)
    BY DEF Stored
  <2>2. CASE Done(TRUE) /\ EvictToCap(Landing(h, file), lost)
    <3>1. lost \subseteq files /\ files' = Landing(h, file) \ lost /\ Landed' = Landing(h, file) \cup evicted \cup lost
      BY <2>2 DEF EvictToCap, Landed
    <3>2. /\ Landing(h, file) \subseteq files \cup {file} /\ files \ FilesOf(KeyOf[h.attempt]) \subseteq Landing(h, file)
          /\ Current(h) => file \in Landing(h, file)
      BY DEF Landing
    <3> QED
      BY <2>2, <3>1, <3>2 DEF Landed
  <2>3. CASE ~Current(h) /\ Done(FALSE) /\ EvictToCap((files \ FilesOf(KeyOf[h.attempt])) \cup {file}, lost)
    <3>1. /\ lost \subseteq files /\ files' = ((files \ FilesOf(KeyOf[h.attempt])) \cup {file}) \ lost
          /\ Landed' = (files \ FilesOf(KeyOf[h.attempt])) \cup {file} \cup evicted \cup lost
      BY <2>3 DEF EvictToCap, Landed
    <3> QED
      BY <2>3, <3>1 DEF Landed
  <2> QED
    BY <2>1, <2>2, <2>3
<1>4. /\ kept' \in [Attempts -> Nat] /\ \A c \in Attempts : c # h.attempt => kept'[c] = kept[c]
      /\ Current(h) => kept'[h.attempt] = h.version
  BY <1>1, <1>2 DEF IInv, CheckpointTypes
<1>5. \A c \in Attempts : KeyOf[c] # KeyOf[h.attempt] => \A v : <<c, v>> \in Landed => <<c, v>> \in Landed'
  BY <1>3 DEF FilesOf
<1> QED
  BY <1>1, <1>3, <1>4, <1>5, AnswerKeeps

(* The cap takes files for a prefix: what has landed is the same. *)
LEMMA PrefixStoredKeeps ==
  ASSUME IInv, PrefixStored
  PROVE  IInv'
<1>1. /\ files' \subseteq files /\ evicted' \subseteq evicted \cup files /\ UNCHANGED Landed
      /\ UNCHANGED <<ram, spills, writing, finished, kept, crashes>>
  BY DEF PrefixStored, EvictToCap, Landed
<1>2. /\ CheckpointTypes' /\ OwnersSound' /\ Unbegun' /\ QueueSound'
  BY <1>1 DEF IInv, CheckpointTypes, OwnersSound, Unbegun, QueueSound, ram
<1>3. PendingExact' /\ UnlinksSound' /\ FinishedSound'
  BY <1>1 DEF IInv, PendingExact, UnlinksSound, FinishedSound, Writes, Unlinks, Busy, ram
<1>4. CurrentSound'
  BY <1>1 DEF IInv, CurrentSound, Holds, Alone, Ahead, FilesOlder, KeptStored, LatestKnown, NoFiles,
              Writes, Unlinks, Busy, ram
<1> QED
  BY <1>2, <1>3, <1>4 DEF IInv

(* The unlink of a completed response: its key is closed or holds nothing old. *)
LEMMA UnlinkedKeeps ==
  ASSUME IInv, Unlinked
  PROVE  IInv'
<1> DEFINE h == Head(spills)
           k == KeyOf[h.attempt]
           left == unlinking[k] \ {h.barrier}
<1>1. /\ spills # <<>> /\ writing = "no" /\ ~IsWrite(h) /\ spills' = Tail(spills)
      /\ unlinking' = [unlinking EXCEPT ![k] = left]
      /\ UNCHANGED <<request, attempts, pending, lagging, version, writing, evicted, barriers, finished, kept, crashes>>
  BY DEF Unlinked
<1>2. \/ /\ files' = files \ FilesOf(k)
         /\ unlinkFailed' = [unlinkFailed EXCEPT ![k] = {b \in @ : b > h.barrier}]
         /\ unlinked' = [unlinked EXCEPT ![k] = IF left = {} THEN 0 ELSE h.barrier]
      \/ /\ UNCHANGED files
         /\ unlinkFailed' = [unlinkFailed EXCEPT ![k] =
                               IF h.barrier > unlinked[k] THEN @ \cup {h.barrier} ELSE @]
         /\ unlinked' = [unlinked EXCEPT ![k] = IF left = {} THEN 0 ELSE @]
  BY DEF Unlinked
<1>3. /\ h \in Members(spills) /\ h \in Entries /\ h.attempt \in Attempts /\ h.barrier \in Nat /\ k \in Keys
      /\ \A x, y : Before(Tail(spills), x, y) => Before(spills, x, y)
      /\ \A s \in Members(spills) : s # h => Before(spills, h, s) /\ InOrder(h, s)
  BY <1>1, HeadLeaves DEF Entries, Keys
<1>4. /\ QueueSound' /\ spills' \in Seq(Entries)
      /\ Members(spills') = Members(spills) \ {h}
      /\ \A c : Writes(c)' = Writes(c)
      /\ \A j : Unlinks(j)' = Unlinks(j) \ {h}
      /\ \A s : ~Busy(spills, s) /\ ~Busy(spills, s)'
  BY <1>1, TailSound DEF Writes, Busy
<1>5. h \in Unlinks(k) /\ h.barrier \in unlinking[k] /\ h.barrier > unlinked[k] /\ h.barrier <= barriers
  BY <1>1, <1>3 DEF Unlinks, IInv, UnlinksSound, QueueSound
<1>6. /\ unlinking \in [Keys -> SUBSET Nat] /\ unlinkFailed \in [Keys -> SUBSET Nat] /\ unlinked \in [Keys -> Nat]
      /\ barriers \in Nat /\ files \subseteq Attempts \X Nat
  BY DEF IInv, CheckpointTypes
<1> HIDE DEF h
<1>7. /\ unlinking'[k] = left /\ \A j \in Keys \ {k} : unlinking'[j] = unlinking[j] /\ unlinkFailed'[j] = unlinkFailed[j] /\ unlinked'[j] = unlinked[j]
      /\ unlinking' \in [Keys -> SUBSET Nat] /\ unlinkFailed' \in [Keys -> SUBSET Nat] /\ unlinked' \in [Keys -> Nat]
      /\ unlinked'[k] \in {0, h.barrier, unlinked[k]}
  <2>1. left \in SUBSET Nat
    BY <1>3, <1>6
  <2> HIDE DEF left, k
  <2>2. unlinking'[k] = left /\ (\A j \in Keys \ {k} : unlinking'[j] = unlinking[j]) /\ unlinking' \in [Keys -> SUBSET Nat]
    BY <1>1, <1>3, <1>6, <2>1
  <2>3. (\A j \in Keys \ {k} : unlinkFailed'[j] = unlinkFailed[j]) /\ unlinkFailed' \in [Keys -> SUBSET Nat]
    <3>1. CASE unlinkFailed' = [unlinkFailed EXCEPT ![k] = {b \in @ : b > h.barrier}]
      BY <1>3, <1>6, <3>1
    <3>2. CASE unlinkFailed' = [unlinkFailed EXCEPT ![k] = IF h.barrier > unlinked[k] THEN @ \cup {h.barrier} ELSE @]
      BY <1>3, <1>6, <3>2
    <3> QED
      BY <1>2, <3>1, <3>2
  <2>4. /\ \A j \in Keys \ {k} : unlinked'[j] = unlinked[j]
        /\ unlinked' \in [Keys -> Nat] /\ unlinked'[k] \in {0, h.barrier, unlinked[k]}
    BY <1>2, <1>3, <1>6
  <2> QED
    BY <2>2, <2>3, <2>4
<1>8. /\ files' \subseteq files /\ Landed' \subseteq Landed
      /\ \A c, v : KeyOf[c] # k /\ <<c, v>> \in Landed => <<c, v>> \in Landed'
  BY <1>1, <1>2 DEF FilesOf, Landed
<1>9. CheckpointTypes' /\ OwnersSound' /\ PendingExact'
  BY <1>1, <1>4, <1>6, <1>7, <1>8 DEF IInv, CheckpointTypes, OwnersSound, PendingExact
<1>10. Unbegun'
  BY <1>1, <1>4, <1>8 DEF IInv, Unbegun
<1>11. UnlinksSound'
  <2> SUFFICES ASSUME NEW j \in Keys
               PROVE  /\ unlinked'[j] <= barriers
                      /\ \A s \in Unlinks(j)' : s.barrier \in unlinking'[j] /\ s.barrier > unlinked'[j]
    BY <1>1 DEF UnlinksSound
  <2>1. unlinked[j] <= barriers /\ \A s \in Unlinks(j) : s.barrier \in unlinking[j] /\ s.barrier > unlinked[j]
    BY DEF IInv, UnlinksSound
  <2>2. CASE j = k
    <3>1. unlinked'[k] <= barriers
      BY <1>3, <1>5, <1>6, <1>7, <2>1, <2>2
    <3>2. ASSUME NEW s \in Unlinks(j)'
          PROVE  s.barrier \in left /\ s.barrier > unlinked'[k]
      <4>1. s \in Unlinks(k) /\ s \in Members(spills) /\ s # h /\ ~IsWrite(s)
        BY <1>4, <2>2 DEF Unlinks
      <4>2. h.barrier < s.barrier
        BY <1>1, <1>3, <4>1 DEF InOrder, h
      <4>3. s.barrier \in Nat /\ s.barrier \in unlinking[k] /\ s.barrier > unlinked[k] /\ unlinked[k] \in Nat
        BY <1>3, <1>6, <2>1, <2>2, <4>1
      <4>4. s.barrier > 0 /\ s.barrier > h.barrier
        BY <1>3, <4>2, <4>3
      <4> QED
        BY <1>3, <1>7, <4>3, <4>4
    <3> QED
      BY <1>7, <2>2, <3>1, <3>2
  <2>3. CASE j # k
    BY <1>4, <1>7, <2>1, <2>3
  <2> QED
    BY <2>2, <2>3
<1>12. FinishedSound'
  <2>1. ASSUME NEW s \in Members(spills'), IsWrite(s), s.attempt \in finished
        PROVE  FALSE
    BY <1>4, <2>1 DEF IInv, FinishedSound
  <2>2. ASSUME NEW f \in files', f[1] \in finished
        PROVE  Unlinks(KeyOf[f[1]])' # {} \/ unlinkFailed'[KeyOf[f[1]]] # {}
    <3>1. f \in files /\ KeyOf[f[1]] \in Keys
      BY <1>6, <1>8 DEF Keys
    <3>2. Unlinks(KeyOf[f[1]]) # {} \/ unlinkFailed[KeyOf[f[1]]] # {}
      BY <2>2, <3>1 DEF IInv, FinishedSound
    <3>3. CASE KeyOf[f[1]] # k
      <4>1. h \notin Unlinks(KeyOf[f[1]])
        BY <3>3 DEF Unlinks
      <4> QED
        BY <1>4, <1>7, <3>1, <3>2, <3>3, <4>1
    <3>4. CASE KeyOf[f[1]] = k
      <4>1. unlinkFailed' = [unlinkFailed EXCEPT ![k] = IF h.barrier > unlinked[k] THEN @ \cup {h.barrier} ELSE @]
        BY <1>2, <3>1, <3>4 DEF FilesOf
      <4>2. h.barrier \in unlinkFailed'[k]
        BY <1>3, <1>5, <1>6, <4>1
      <4> QED
        BY <3>4, <4>2
    <3> QED
      BY <3>3, <3>4
  <2> QED
    BY <1>1, <2>1, <2>2 DEF FinishedSound
<1>13. ASSUME NEW c \in Attempts, attempts[KeyOf[c]] = c
       PROVE  Holds(c)'
  <2>1. Holds(c)
    BY <1>13 DEF IInv, CurrentSound
  <2>2. \A v : <<c, v>> \in Landed' <=> <<c, v>> \in Landed
    <3>1. KeyOf[c] = k => NoFiles(c)
      BY <1>5, <2>1 DEF Holds, Ahead
    <3> QED
      BY <1>8, <3>1 DEF NoFiles
  <2>3. Alone(c)'
    BY <1>4, <2>1 DEF Holds, Alone
  <2>4. Ahead(c)'
    BY <1>1, <1>3, <1>4, <2>1, <2>2 DEF Holds, Ahead, NoFiles
  <2>5. FilesOlder(c)'
    BY <1>1, <1>4, <2>1, <2>2 DEF Holds, FilesOlder
  <2>6. KeptStored(c)' /\ LatestKnown(c)'
    BY <1>1, <1>4, <2>1, <2>2 DEF Holds, KeptStored, LatestKnown
  <2> QED
    BY <2>3, <2>4, <2>5, <2>6 DEF Holds
<1> QED
  BY <1>1, <1>4, <1>9, <1>10, <1>11, <1>12, <1>13 DEF IInv, CurrentSound

-----------------------------------------------------------------------------
(* The start, a crash, and the theorems.                                   *)

(* An empty queue. *)
LEMMA NothingQueued ==
  ASSUME NEW q, q = <<>>
  PROVE  q \in Seq(Entries) /\ Members(q) = {} /\ \A x, y : ~Before(q, x, y)
<1>1. q \in Seq(Entries) /\ Members(q) = {}
  BY EmptyMembers
<1> QED
  BY <1>1 DEF Before, Members

(* A fresh process has nothing to unlink and nobody to serve. *)
LEMMA InvInit ==
  ASSUME CheckpointsInit
  PROVE  IInv
<1>1. spills \in Seq(Entries) /\ Members(spills) = {} /\ \A x, y : ~Before(spills, x, y)
  BY NothingQueued DEF CheckpointsInit
<1>2. /\ \A a : Writes(a) = {} /\ \A k : Unlinks(k) = {}
  BY <1>1 DEF Writes, Unlinks
<1>3. CheckpointTypes
  BY <1>1 DEF CheckpointsInit, CheckpointTypes, Fresh, Zeros
<1>4. PendingExact
  BY <1>2, FS_EmptySet DEF CheckpointsInit, PendingExact, Zeros
<1>5. OwnersSound /\ CurrentSound
  BY CheckpointsAssumption DEF CheckpointsInit, OwnersSound, CurrentSound, Fresh, Keys
<1>6. Unbegun /\ QueueSound /\ UnlinksSound /\ FinishedSound
  BY <1>1, <1>2 DEF CheckpointsInit, Unbegun, QueueSound, UnlinksSound, FinishedSound, Fresh, Zeros, Landed
<1> QED
  BY <1>3, <1>4, <1>5, <1>6 DEF IInv

(* A crash leaves only the files, and no one who completed or has a key. *)
LEMMA CrashKeeps ==
  ASSUME IInv, Crash
  PROVE  IInv'
<1>1. spills' \in Seq(Entries) /\ Members(spills') = {} /\ \A x, y : ~Before(spills', x, y)
  BY NothingQueued DEF Crash
<1>2. /\ \A a : Writes(a)' = {} /\ \A k : Unlinks(k)' = {}
  BY <1>1 DEF Writes, Unlinks
<1>3. CheckpointTypes'
  BY <1>1 DEF Crash, IInv, CheckpointTypes, Fresh, Zeros
<1>4. PendingExact'
  BY <1>2, FS_EmptySet DEF Crash, PendingExact, Zeros
<1>5. OwnersSound' /\ CurrentSound'
  BY CheckpointsAssumption DEF Crash, OwnersSound, CurrentSound, Fresh, Keys
<1>6. Unbegun' /\ QueueSound' /\ UnlinksSound' /\ FinishedSound'
  BY <1>1, <1>2 DEF Crash, IInv, Unbegun, QueueSound, UnlinksSound, FinishedSound, Fresh, Zeros, Landed
<1> QED
  BY <1>3, <1>4, <1>5, <1>6 DEF IInv

(* Every step of the checkpoints keeps the invariant. *)
LEMMA StepKeeps ==
  ASSUME IInv, [CheckpointsNext]_checkpointVars
  PROVE  IInv'
<1>1. CASE \E a \in Attempts : Begin(a) \/ Checkpoint(a) \/ Complete(a) \/ Release(a)
  BY <1>1, BeginKeeps, CheckpointKeeps, CompleteWithKey, CompleteWithoutKey, ReleaseKeeps
<1>2. CASE QueueStep
  BY <1>2, StartWriteKeeps, RenamedKeeps, WriteFailsKeeps, StoredKeeps, UnlinkedKeeps DEF QueueStep
<1>3. CASE Crash
  BY <1>3, CrashKeeps
<1>4. CASE PrefixStored
  BY <1>4, PrefixStoredKeeps
<1>5. CASE UNCHANGED checkpointVars
  <2>1. /\ CheckpointTypes' /\ OwnersSound' /\ Unbegun' /\ QueueSound'
    BY <1>5 DEF IInv, CheckpointTypes, OwnersSound, Unbegun, QueueSound, checkpointVars, ram, Landed
  <2>2. PendingExact' /\ UnlinksSound' /\ FinishedSound'
    BY <1>5 DEF IInv, PendingExact, UnlinksSound, FinishedSound, Writes, Unlinks, Busy, checkpointVars, ram, Landed
  <2>3. CurrentSound'
    BY <1>5 DEF IInv, CurrentSound, Holds, Alone, Ahead, FilesOlder, KeptStored, LatestKnown, NoFiles,
                Writes, Unlinks, Busy, checkpointVars, ram, Landed
  <2> QED
    BY <2>1, <2>2, <2>3 DEF IInv
<1> QED
  BY <1>1, <1>2, <1>3, <1>4, <1>5 DEF CheckpointsNext

(* Every state: the queue, the counts and what has landed agree, whatever the  *)
(* cap of the store takes of it.                                               *)
THEOREM Invariant == CheckpointsSpec => []IInv
<1>1. CheckpointsInit => IInv
  BY InvInit
<1>2. IInv /\ [CheckpointsNext]_checkpointVars => IInv'
  BY StepKeeps
<1> QED
  BY <1>1, <1>2, PTL DEF CheckpointsSpec

(* "A completed response is ineligible immediately, before queued unlink": its  *)
(* key restores nothing as long as a file of it is there (complete, Unlinked).  *)
THEOREM CompletedStaysClosed == CheckpointsSpec => []CompletedIsIneligible
<1>1. IInv => CompletedIsIneligible
  <2> SUFFICES ASSUME IInv, NEW f \in files, f[1] \in finished, CanRestore(KeyOf[f[1]])
               PROVE  FALSE
    BY DEF CompletedIsIneligible
  <2>1. KeyOf[f[1]] \in Keys
    BY DEF IInv, CheckpointTypes, Keys
  <2>2. Unlinks(KeyOf[f[1]]) # {} \/ unlinkFailed[KeyOf[f[1]]] # {}
    BY DEF IInv, FinishedSound
  <2> QED
    BY <2>1, <2>2 DEF CanRestore, IInv, UnlinksSound
<1> QED
  BY <1>1, Invariant, PTL

(* What flush calls durable has reached the disk: of the latest checkpoint of   *)
(* every attempt that has its key, nothing but the cap of the shared store can  *)
(* have taken the file (flush, every way a write can end, evictToCap).          *)
THEOREM FlushedIsStored == CheckpointsSpec => []DurableIsStored
<1>1. IInv => DurableIsStored
  <2> SUFFICES ASSUME IInv, Durable, NEW k \in Keys, attempts[k] # NoAttempt, version[attempts[k]] > 0
               PROVE  <<attempts[k], version[attempts[k]]>> \in Landed
    BY DEF DurableIsStored
  <2> DEFINE a == attempts[k]
  <2>1. a \in Attempts /\ KeyOf[a] = k /\ pending[a] = 0 /\ ~lagging[a]
    BY DEF IInv, CheckpointTypes, OwnersSound, Durable
  <2> HIDE DEF a
  <2>2. Writes(a) = {}
    <3>1. IsFiniteSet(Writes(a)) /\ Cardinality(Writes(a)) = 0
      BY <2>1, WritesFinite
    <3> QED
      BY <3>1, FS_EmptySet
  <2>3. Holds(a) /\ version[a] > 0
    BY <2>1 DEF IInv, CurrentSound, a
  <2>4. <<a, version[a]>> \in Landed
    BY <2>1, <2>2, <2>3 DEF Holds, LatestKnown
  <2> QED
    BY <2>4 DEF a
<1> QED
  BY <1>1, Invariant, PTL

(* "A crash during a write leaves the prior point": what an attempt has stored  *)
(* stays on disk until something newer of it is there, whatever its own writes  *)
(* do; only the cap takes it (storeGenerationCheckpoint, evictToCap).           *)
THEOREM PriorPointIsKept == CheckpointsSpec => []PriorPointStays
<1>1. IInv => PriorPointStays
  <2> SUFFICES ASSUME IInv, NEW k \in Keys, attempts[k] # NoAttempt, kept[attempts[k]] > 0
               PROVE  \E v \in kept[attempts[k]] .. version[attempts[k]] : <<attempts[k], v>> \in Landed
    BY DEF PriorPointStays
  <2> DEFINE a == attempts[k]
  <2>1. a \in Attempts /\ KeyOf[a] = k
    BY DEF IInv, CheckpointTypes, OwnersSound
  <2> HIDE DEF a
  <2>2. Holds(a) /\ kept[a] > 0
    BY <2>1 DEF IInv, CurrentSound, a
  <2>3. <<a, kept[a]>> \in Landed
    BY <2>2 DEF Holds, KeptStored
  <2>4. kept[a] <= version[a]
    BY <2>2, <2>3 DEF Holds, FilesOlder
  <2>5. kept[a] \in kept[a] .. version[a]
    BY <2>1, <2>4 DEF IInv, CheckpointTypes
  <2> QED
    BY <2>3, <2>5 DEF a
<1> QED
  BY <1>1, Invariant, PTL

-----------------------------------------------------------------------------
(* Prefixes that are written in the background (Durability).               *)

\* Versions count from 1, and a flush forces a prefix.
DirtyTypes ==
  /\ puts \in [KeptPrefixes -> Nat] /\ dirty \in [KeptPrefixes -> Nat]
  /\ attempt \in [KeptPrefixes -> Nat]
  /\ flush = "attempting" => current \in KeptPrefixes

\* What a step may do to the dirty records.
CleansOnlyDurable == \A p \in KeptPrefixes : dirty[p] # 0 /\ dirty'[p] = 0 => IsDurable(p, onDisk')

(* Only a prefix that is on disk comes out of an attempt as stored at once. *)
LEMMA TryCleans ==
  ASSUME DirtyTypes, NEW p \in KeptPrefixes, NEW force, NEW fired, Try(p, force, fired), UNCHANGED onDisk
  PROVE  CleansOnlyDurable /\ dirty' \in [KeptPrefixes -> Nat] /\ attempt' \in [KeptPrefixes -> Nat]
<1>1. Outcome(p) = "stored" => dirty[p] = 0 \/ IsDurable(p, onDisk)
  BY DEF Outcome
<1>2. dirty' = IF Outcome(p) = "stored" THEN [dirty EXCEPT ![p] = 0] ELSE dirty
  BY DEF Try
<1>3. attempt' = [attempt EXCEPT ![p] = dirty[p]] \/ attempt' = attempt
  BY DEF Try
<1>4. dirty' \in [KeptPrefixes -> Nat] /\ attempt' \in [KeptPrefixes -> Nat]
  BY <1>2, <1>3 DEF DirtyTypes
<1>5. CleansOnlyDurable
  BY <1>1, <1>2 DEF CleansOnlyDurable, DirtyTypes, IsDurable
<1> QED
  BY <1>4, <1>5

(* An attempt that ends well has made its prefix durable. *)
LEMMA AttemptCleans ==
  ASSUME DirtyTypes, NEW p \in KeptPrefixes, NEW stored \in BOOLEAN, AttemptEnds(p, stored),
         stored => IsDurable(p, onDisk')
  PROVE  CleansOnlyDurable /\ DirtyTypes'
<1>1. dirty' = (IF stored /\ dirty[p] = attempt[p] THEN [dirty EXCEPT ![p] = 0] ELSE dirty)
      /\ attempt' = [attempt EXCEPT ![p] = 0] /\ UNCHANGED <<puts, flush, current>>
  BY DEF AttemptEnds
<1>2. DirtyTypes'
  BY <1>1 DEF DirtyTypes
<1>3. CleansOnlyDurable
  BY <1>1 DEF CleansOnlyDurable, DirtyTypes
<1> QED
  BY <1>2, <1>3

(* A new version is not a clean one. *)
LEMMA ScheduleCleans ==
  ASSUME DirtyTypes, NEW p \in KeptPrefixes, Schedule(p), UNCHANGED <<attempt, flush, current>>
  PROVE  CleansOnlyDurable /\ DirtyTypes'
<1>1. puts' = [puts EXCEPT ![p] = @ + 1] /\ dirty' = [dirty EXCEPT ![p] = puts[p] + 1]
  BY DEF Schedule
<1>2. puts[p] + 1 \in Nat /\ puts[p] + 1 # 0
  BY DEF DirtyTypes
<1> QED
  BY <1>1, <1>2 DEF DirtyTypes, CleansOnlyDurable

(* Each step keeps the types and cleans only what is durable. *)
LEMMA DurabilityStep ==
  ASSUME DirtyTypes, [DurabilityNext]_dvars
  PROVE  CleansOnlyDurable /\ DirtyTypes'
<1>1. ASSUME NEW p \in KeptPrefixes, Put(p)
      PROVE  CleansOnlyDurable /\ DirtyTypes'
  BY <1>1, ScheduleCleans DEF Put, flushVars
<1>2. ASSUME NEW p \in KeptPrefixes, Evict(p)
      PROVE  CleansOnlyDurable /\ DirtyTypes'
  <2>1. UNCHANGED <<attempt, flush, current>>
    BY <1>2 DEF Evict, flushVars
  <2>2. CASE UNCHANGED <<puts, dirty>>
    BY <2>1, <2>2 DEF DirtyTypes, CleansOnlyDurable
  <2>3. CASE Schedule(p)
    BY <2>1, <2>3, ScheduleCleans
  <2> QED
    BY <1>2, <2>2, <2>3 DEF Evict
<1>3. ASSUME NEW p \in KeptPrefixes, TimerFires(p)
      PROVE  CleansOnlyDurable /\ DirtyTypes'
  <2>1. UNCHANGED <<onDisk, puts, flush, current>>
    BY <1>3 DEF TimerFires, flushVars
  <2>2. CASE UNCHANGED <<dirty, attempt>>
    BY <2>1, <2>2 DEF DirtyTypes, CleansOnlyDurable
  <2>3. CASE Try(p, FALSE, [timer EXCEPT ![p] = FALSE])
    BY <2>1, <2>3, TryCleans DEF DirtyTypes
  <2> QED
    BY <1>3, <2>2, <2>3 DEF TimerFires
<1>4. CASE WriterStep
  <2>1. PICK p \in KeptPrefixes : Written(p) \/ StoreFails(p)
    BY <1>4 DEF WriterStep
  <2>2. CASE Written(p)
    <3>1. IsDurable(p, onDisk')
      BY <2>2 DEF Written, IsDurable
    <3> QED
      BY <2>2, <3>1, AttemptCleans DEF Written
  <2>3. CASE StoreFails(p)
    BY <2>3, AttemptCleans DEF StoreFails
  <2> QED
    BY <2>1, <2>2, <2>3
<1>5. CASE FlushStarts \/ Settled \/ Drained \/ Forced
  <2>1. UNCHANGED <<puts, dirty, attempt>> /\ flush' # "attempting"
    BY <1>5 DEF FlushStarts, Settled, Drained, Forced, recordVars
  <2>2. CleansOnlyDurable
    BY <2>1 DEF CleansOnlyDurable
  <2>3. DirtyTypes'
    BY <2>1 DEF DirtyTypes
  <2> QED
    BY <2>2, <2>3
<1>6. ASSUME NEW p \in KeptPrefixes, ForceDue(p)
      PROVE  CleansOnlyDurable /\ DirtyTypes'
  <2>1. UNCHANGED <<puts, dirty, attempt>> /\ current' = p
    BY <1>6 DEF ForceDue, recordVars
  <2>2. CleansOnlyDurable
    BY <2>1 DEF CleansOnlyDurable
  <2>3. DirtyTypes'
    BY <2>1 DEF DirtyTypes
  <2> QED
    BY <2>2, <2>3
<1>7. CASE Attempting
  <2>1. /\ current \in KeptPrefixes /\ Try(current, TRUE, timer) /\ flush' # "attempting" /\ UNCHANGED <<onDisk, puts>>
    BY <1>7 DEF Attempting, DirtyTypes
  <2> QED
    BY <2>1, TryCleans DEF DirtyTypes
<1>8. CASE FlushEnds
  <2>1. /\ dirty' = [p \in KeptPrefixes |-> IF <<p, dirty[p]>> \in missing /\ Reconciled(p) THEN 0 ELSE dirty[p]]
        /\ flush' = "no" /\ UNCHANGED <<onDisk, puts, attempt>>
    BY <1>8 DEF FlushEnds
  <2> QED
    BY <2>1 DEF DirtyTypes, CleansOnlyDurable, Reconciled
<1>9. CASE UNCHANGED dvars
  BY <1>9 DEF dvars, recordVars, flushVars, DirtyTypes, CleansOnlyDurable
<1>10. CASE FlushStep
  BY <1>5, <1>6, <1>7, <1>8, <1>10 DEF FlushStep
<1>11. CASE \E p \in KeptPrefixes : Put(p) \/ Evict(p) \/ TimerFires(p)
  BY <1>1, <1>2, <1>3, <1>11
<1> QED
  BY <1>4, <1>5, <1>9, <1>10, <1>11 DEF DurabilityNext

(* "A dirty record stays present until SpillQueue reports that its atomic store *)
(* completed": no step cleans a record whose prefix is not on disk (#attempt,   *)
(* #flushInner).                                                                *)
THEOREM DirtyStaysDirty == DurabilitySpec => CleanMeansDurable
<1>1. DurabilityInit => DirtyTypes
  BY DEF DurabilityInit, DirtyTypes, None
<1>2. DirtyTypes /\ [DurabilityNext]_dvars => DirtyTypes'
  BY DurabilityStep
<1>3. DirtyTypes /\ [DurabilityNext]_dvars =>
        [\A p \in KeptPrefixes : dirty[p] # 0 /\ dirty'[p] = 0 => IsDurable(p, onDisk')]_dvars
  BY DurabilityStep DEF CleansOnlyDurable
<1> QED
  BY <1>1, <1>2, <1>3, PTL DEF DurabilitySpec, CleanMeansDurable

-----------------------------------------------------------------------------
(* The components side by side.                                            *)

(* Where they are put side by side, each component is the one it is alone:  *)
(* what is proved of it alone holds there.                                  *)
THEOREM EachAsAlone ==
  ServicesSpec => Spec /\ Pool!Spec /\ CheckpointsSpec /\ DurabilitySpec /\ HostSpec
<1> DEFINE all == <<part, vars, poolVars, checkpointVars, dvars, cvars>>
<1>1. ServicesInit => Init /\ Pool!Init /\ CheckpointsInit /\ DurabilityInit /\ HostInit
  BY DEF ServicesInit
<1>2. [ServicesNext]_all =>
        /\ [Next]_vars /\ [Pool!Next]_(Pool!vars) /\ [CheckpointsNext]_checkpointVars
        /\ [DurabilityNext]_dvars /\ [CompanionNext]_cvars
  BY DEF ServicesNext, poolVars, Pool!vars
<1> QED
  BY <1>1, <1>2, PTL DEF ServicesSpec, Spec, Pool!Spec, CheckpointsSpec, DurabilitySpec, HostSpec

(* What is saved stays right there: the four properties of the checkpoints and  *)
(* of the prefixes (persistence.ts, continuation-persistence.ts, durability.ts). *)
THEOREM SavedThere ==
  ServicesSpec => [](CompletedIsIneligible /\ DurableIsStored /\ PriorPointStays) /\ CleanMeansDurable
BY EachAsAlone, CompletedStaysClosed, FlushedIsStored, PriorPointIsKept, DirtyStaysDirty, PTL
=============================================================================

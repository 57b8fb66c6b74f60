--------------------- MODULE ExecutionCoordinatorProofs ---------------------
(***************************************************************************)
(* Proofs about ExecutionCoordinator, for any clients and queue bound.     *)
(***************************************************************************)
EXTENDS ExecutionCoordinator, SequenceTheorems, FiniteSetTheorems, TLAPS

USE ClientsAssumption, MaxQueuedAssumption

ClosedMeansEmpty == closed => queue = <<>>

IInv ==
  /\ TypeOK /\ MutualExclusion /\ LeasesCounted
  /\ QueueIsWaiters /\ HeadMustWait /\ ClosedMeansEmpty

(***************************************************************************)
(* Sets of clients and the queue.                                          *)
(***************************************************************************)
LEMMA AskingFinite ==
  ASSUME NEW S \in SUBSET Clients, NEW md
  PROVE  /\ IsFiniteSet(Asking(S, md)) /\ Cardinality(Asking(S, md)) \in Nat
         /\ Cardinality(Asking(S, md)) = 0 <=> Asking(S, md) = {}
<1>1. Asking(S, md) \subseteq Clients
  BY DEF Asking
<1>2. IsFiniteSet(Asking(S, md))
  BY <1>1, FS_Subset
<1> QED
  BY <1>2, FS_CardinalityType, FS_EmptySet

(* Those who ask for a mode among two disjoint sets of clients are counted separately. *)
LEMMA AskingUnion ==
  ASSUME NEW S \in SUBSET Clients, NEW T \in SUBSET Clients, S \cap T = {}, NEW md
  PROVE  Cardinality(Asking(S \cup T, md)) = Cardinality(Asking(S, md)) + Cardinality(Asking(T, md))
<1>1. Asking(S \cup T, md) = Asking(S, md) \cup Asking(T, md)
  BY DEF Asking
<1>2. Asking(S, md) \cap Asking(T, md) = {}
  BY DEF Asking
<1> DEFINE A == Asking(S, md)
           B == Asking(T, md)
<1>3. IsFiniteSet(A) /\ IsFiniteSet(B) /\ Cardinality(A) \in Nat /\ Cardinality(B) \in Nat
  BY AskingFinite
<1>4. Cardinality(A \cap B) = 0
  BY <1>2, FS_EmptySet
<1> HIDE DEF A, B
<1>5. Cardinality(A \cup B) = Cardinality(A) + Cardinality(B) - Cardinality(A \cap B)
  BY <1>3, FS_Union
<1>6. Cardinality(A \cup B) = Cardinality(A) + Cardinality(B)
  BY <1>3, <1>4, <1>5
<1> QED
  BY <1>1, <1>6 DEF A, B

(* What is left of a queue when its i-th waiter goes. *)
LEMMA WithoutIs ==
  ASSUME queue \in Seq(Clients), NEW i \in 1..Len(queue)
  PROVE  /\ Others(i) \in Seq(Clients) /\ Len(Others(i)) = Len(queue) - 1
         /\ \A j \in 1..Len(queue) - 1 :
              Others(i)[j] = IF j < i THEN queue[j] ELSE queue[j + 1]
<1> DEFINE A == SubSeq(queue, 1, i - 1)
           B == SubSeq(queue, i + 1, Len(queue))
<1>1. \A j \in 1..Len(queue) : queue[j] \in Clients
  BY ElementOfSeq
<1>2. A \in Seq(Clients) /\ Len(A) = i - 1 /\ \A j \in 1..i - 1 : A[j] = queue[j]
  <2>1. \A j \in 1..i - 1 : queue[j] \in Clients
    BY <1>1
  <2> QED
    BY <2>1, SubSeqProperties, Z3
<1>3. B \in Seq(Clients) /\ Len(B) = Len(queue) - i /\ \A j \in 1..Len(queue) - i : B[j] = queue[i + j]
  <2>1. \A j \in i + 1..Len(queue) : queue[j] \in Clients
    BY <1>1
  <2>2. Len(queue) \in Nat
    BY LenProperties
  <2> QED
    BY <2>1, <2>2, SubSeqProperties, Z3
<1> HIDE DEF A, B
<1>4. Others(i) = A \o B
  BY DEF Others, A, B
<1>5. Len(queue) \in Nat
  BY LenProperties
<1>6. /\ A \o B \in Seq(Clients) /\ Len(A \o B) = Len(A) + Len(B)
      /\ \A j \in 1..Len(A) + Len(B) : (A \o B)[j] = IF j <= Len(A) THEN A[j] ELSE B[j - Len(A)]
  BY <1>2, <1>3, ConcatProperties
<1>7. ASSUME NEW j \in 1..Len(queue) - 1
      PROVE  Others(i)[j] = IF j < i THEN queue[j] ELSE queue[j + 1]
  <2>1. CASE j < i
    BY <1>2, <1>3, <1>4, <1>5, <1>6, <2>1
  <2>2. CASE ~(j < i)
    <3>1. (A \o B)[j] = B[j - (i - 1)]
      BY <1>2, <1>3, <1>5, <1>6, <2>2
    <3>2. j - (i - 1) \in 1..Len(queue) - i /\ i + (j - (i - 1)) = j + 1
      BY <1>5, <2>2
    <3> QED
      BY <1>3, <1>4, <2>2, <3>1, <3>2
  <2> QED
    BY <2>1, <2>2
<1> QED
  BY <1>2, <1>3, <1>4, <1>5, <1>6, <1>7

(* What is left of a queue when its first n go. *)
LEMMA RestIs ==
  ASSUME NEW q \in Seq(Clients), NEW n \in 0..Len(q)
  PROVE  /\ SubSeq(q, n + 1, Len(q)) \in Seq(Clients)
         /\ Len(SubSeq(q, n + 1, Len(q))) = Len(q) - n
         /\ \A j \in 1..Len(q) - n : SubSeq(q, n + 1, Len(q))[j] = q[n + j]
<1>1. \A j \in n + 1..Len(q) : q[j] \in Clients
  BY ElementOfSeq
<1>2. Len(q) \in Nat
  BY LenProperties
<1> QED
  BY <1>1, <1>2, SubSeqProperties, Z3

(***************************************************************************)
(* One drain.  H are the holders that stay, q the clients that wait.       *)
(***************************************************************************)
DrainStarts(q, r, w, c, H) ==
  /\ q \in Seq(Clients) /\ H = Holding \ {c}
  /\ \A d \in Clients \ {c} : state[d] = "queued" <=> \E i \in 1..Len(q) : q[i] = d
  /\ \A i \in 1..Len(q) : q[i] # c
  /\ \A i, j \in 1..Len(q) : q[i] = q[j] => i = j
  /\ r = Cardinality(Asking(H, "shared")) /\ w \in BOOLEAN
  /\ w <=> Asking(H, "exclusive") # {}
  /\ \A d \in Asking(H, "exclusive") : H = {d}

(* A drain from a state in which the counts and the queue are right leaves them right, and
   nobody at the head who could go. *)
LEMMA DrainKeeps ==
  ASSUME TypeOK, NEW q, NEW r, NEW w, NEW c \in Clients, NEW H, DrainStarts(q, r, w, c, H),
         NEW n \in 0..Len(q), Drain(q, r, w, c, n), mode' = mode
  PROVE  /\ state' \in [Clients -> States] /\ queue' \in Seq(Clients) /\ Len(queue') <= Len(q)
         /\ readers' \in Nat /\ writer' \in BOOLEAN
         /\ MutualExclusion' /\ LeasesCounted' /\ QueueIsWaiters' /\ HeadMustWait'
<1> DEFINE G == {q[i] : i \in 1..n}
<1>q. q \in Seq(Clients) /\ Len(q) \in Nat /\ \A i \in 1..Len(q) : q[i] \in Clients
  BY ElementOfSeq, LenProperties DEF DrainStarts
<1>g. G \subseteq Clients /\ H \subseteq Clients
  BY <1>q DEF DrainStarts, Holding
<1>d. G \cap H = {} /\ c \notin G
  BY <1>q DEF DrainStarts, Holding
<1>1. /\ queue' = SubSeq(q, n + 1, Len(q))
      /\ readers' = r + Cardinality(Asking(G, "shared"))
      /\ writer' = (w \/ Asking(G, "exclusive") # {})
      /\ state' = [d \in Clients |-> IF d \in G THEN "holding" ELSE IF d = c THEN "idle" ELSE state[d]]
  BY DEF Drain
<1>2. DrainsTo(q, mode, r, w, n)
  BY DEF Drain
<1>h. Holding' = H \cup G
  BY <1>1, <1>g, <1>d DEF Holding, DrainStarts
<1>s. \A d \in Clients : state'[d] = "queued" <=> d # c /\ d \notin G /\ state[d] = "queued"
  BY <1>1
<1>m. \A S, md : Asking(S, md)' = Asking(S', md)
  BY DEF Asking
<1> HIDE DEF G
<1>3. state' \in [Clients -> States]
  BY <1>1 DEF TypeOK, States
<1>4. /\ queue' \in Seq(Clients) /\ Len(queue') = Len(q) - n
      /\ \A j \in 1..Len(q) - n : queue'[j] = q[n + j]
  BY <1>1, <1>q, RestIs
<1>5. Len(queue') <= Len(q)
  BY <1>4, <1>q
<1>6. readers' \in Nat /\ writer' \in BOOLEAN
  <2>1. Cardinality(Asking(H, "shared")) \in Nat /\ Cardinality(Asking(G, "shared")) \in Nat
    BY <1>g, AskingFinite
  <2>2. readers' \in Nat
    BY <1>1, <2>1 DEF DrainStarts
  <2>3. writer' \in BOOLEAN
    BY <1>1 DEF DrainStarts
  <2> QED
    BY <2>2, <2>3
<1>7. QueueIsWaiters'
  <2>1. ASSUME NEW d \in Clients, state'[d] = "queued"
        PROVE  \E j \in 1..Len(queue') : queue'[j] = d
    <3>1. PICK i \in 1..Len(q) : q[i] = d
      BY <1>s, <2>1 DEF DrainStarts
    <3>2. ~(i <= n)
      BY <1>s, <2>1, <3>1 DEF G
    <3>3. i - n \in 1..Len(q) - n /\ n + (i - n) = i
      BY <1>q, <3>2
    <3> QED
      BY <1>4, <3>1, <3>3
  <2>2. ASSUME NEW j \in 1..Len(queue')
        PROVE  state'[queue'[j]] = "queued"
    <3>1. n + j \in 1..Len(q) /\ queue'[j] = q[n + j] /\ ~(n + j <= n)
      BY <1>4, <1>q
    <3>2. q[n + j] \in Clients \ {c} /\ state[q[n + j]] = "queued"
      BY <1>q, <3>1 DEF DrainStarts
    <3>3. \A i \in 1..n : q[i] # q[n + j]
      BY <1>q, <3>1 DEF DrainStarts
    <3>4. q[n + j] \notin G
      BY <3>3 DEF G
    <3> QED
      BY <1>s, <3>1, <3>2, <3>4
  <2>3. ASSUME NEW i \in 1..Len(queue'), NEW j \in 1..Len(queue'), queue'[i] = queue'[j]
        PROVE  i = j
    <3>1. n + i \in 1..Len(q) /\ n + j \in 1..Len(q) /\ q[n + i] = q[n + j]
      BY <1>4, <1>q, <2>3
    <3>2. n + i = n + j
      BY <3>1 DEF DrainStarts
    <3> QED
      BY <3>2
  <2> QED
    BY <2>1, <2>2, <2>3 DEF QueueIsWaiters
<1>8. \A d \in Clients : mode[d] \in {"shared", "exclusive"}
  BY DEF TypeOK, Modes
<1>9. CASE \E i \in 1..n : mode[q[i]] = "exclusive"
  <2>1. n = 1 /\ r = 0 /\ ~w /\ mode[q[1]] = "exclusive"
    BY <1>2, <1>9 DEF DrainsTo
  <2>2. Asking(H, "shared") = {} /\ Asking(H, "exclusive") = {}
    BY <1>g, <2>1, AskingFinite DEF DrainStarts
  <2>3. H = {}
    BY <1>g, <1>8, <2>2 DEF Asking
  <2>4. G = {q[1]} /\ q[1] \in Clients
    BY <1>q, <2>1 DEF G
  <2>5. Holding' = {q[1]}
    BY <1>h, <2>3, <2>4
  <2>6. Asking({q[1]}, "shared") = {} /\ Asking({q[1]}, "exclusive") = {q[1]}
    BY <2>1 DEF Asking
  <2>7. readers' = 0 /\ writer'
    <3>1. Cardinality(Asking(G, "shared")) = 0
      BY <2>4, <2>6, FS_EmptySet
    <3>2. readers' = 0
      BY <1>1, <2>1, <3>1
    <3>3. writer'
      BY <1>1, <2>4, <2>6
    <3> QED
      BY <3>2, <3>3
  <2>8. Asking(Holding, "shared")' = {} /\ Asking(Holding, "exclusive")' = {q[1]}
    BY <2>5, <2>6 DEF Asking
  <2>9. MutualExclusion'
    BY <2>5, <2>8 DEF MutualExclusion
  <2>10. LeasesCounted'
    BY <2>7, <2>8, FS_EmptySet DEF LeasesCounted
  <2>11. HeadMustWait'
    BY <2>7 DEF HeadMustWait
  <2> QED
    BY <1>3, <1>4, <1>5, <1>6, <1>7, <2>9, <2>10, <2>11
<1>10. CASE \A i \in 1..n : mode[q[i]] # "exclusive"
  <2>1. \A d \in G : mode[d] = "shared"
    BY <1>q, <1>8, <1>10 DEF G
  <2>2. Asking(G, "exclusive") = {} /\ Asking(G, "shared") = G
    BY <2>1 DEF Asking
  <2>3. Asking(Holding, "exclusive")' = Asking(H, "exclusive")
    BY <1>h, <2>2 DEF Asking
  <2>4. Asking(Holding, "shared")' = Asking(H \cup G, "shared")
    BY <1>h DEF Asking
  <2>5. Cardinality(Asking(H \cup G, "shared")) = Cardinality(Asking(H, "shared")) + Cardinality(Asking(G, "shared"))
    BY <1>g, <1>d, AskingUnion
  <2>6. readers' = Cardinality(Asking(Holding, "shared")')
    BY <1>1, <2>4, <2>5 DEF DrainStarts
  <2>7. writer' <=> Asking(Holding, "exclusive")' # {}
    BY <1>1, <2>2, <2>3 DEF DrainStarts
  <2>8. LeasesCounted'
    BY <2>6, <2>7 DEF LeasesCounted
  <2>9. MutualExclusion'
    <3> SUFFICES ASSUME NEW d \in Asking(H, "exclusive")
                 PROVE  Holding' = {d}
      BY <2>3 DEF MutualExclusion
    <3>1. w
      BY DEF DrainStarts
    <3>2. n = 0
      BY <1>2, <3>1 DEF DrainsTo
    <3>3. G = {}
      BY <3>2 DEF G
    <3> QED
      BY <1>h, <3>3 DEF DrainStarts
  <2>10. HeadMustWait'
    <3> SUFFICES ASSUME queue' # <<>>, ~writer'
                 PROVE  mode[queue'[1]] = "exclusive" /\ readers' > 0
      BY DEF HeadMustWait
    <3>1. n < Len(q) /\ ~w
      <4>1. Len(queue') # 0
        BY <1>4, EmptySeq
      <4>2. n < Len(q)
        BY <1>4, <1>q, <4>1
      <4>3. ~w
        BY <1>1
      <4> QED
        BY <4>2, <4>3
    <3>2. queue'[1] = q[n + 1]
      BY <1>4, <1>q, <3>1
    <3>3. CASE n > 0
      <4>1. q[1] \in G /\ mode[q[1]] # "exclusive"
        BY <1>10, <3>3 DEF G
      <4>2. mode[q[n + 1]] = "exclusive"
        BY <1>2, <3>1, <4>1 DEF DrainsTo
      <4>3. Cardinality(Asking(G, "shared")) # 0 /\ Cardinality(Asking(G, "shared")) \in Nat
        BY <1>g, <2>2, <4>1, AskingFinite
      <4>4. r \in Nat
        BY <1>g, AskingFinite DEF DrainStarts
      <4>5. readers' > 0
        BY <1>1, <4>3, <4>4
      <4> QED
        BY <3>2, <4>2, <4>5
    <3>4. CASE ~(n > 0)
      <4>1. n = 0 /\ r > 0 /\ mode[q[1]] = "exclusive"
        BY <1>2, <3>1, <3>4 DEF DrainsTo
      <4>2. Cardinality(Asking(G, "shared")) \in Nat /\ r \in Nat
        BY <1>g, AskingFinite DEF DrainStarts
      <4>3. readers' > 0
        BY <1>1, <4>1, <4>2
      <4> QED
        BY <3>2, <4>1, <4>3
    <3> QED
      BY <3>3, <3>4
  <2> QED
    BY <1>3, <1>4, <1>5, <1>6, <1>7, <2>8, <2>9, <2>10
<1> QED
  BY <1>9, <1>10

(* Taking a waiter out of the queue leaves a state a drain can start from. *)
LEMMA CancelStarts ==
  ASSUME IInv, NEW i \in 1..Len(queue)
  PROVE  DrainStarts(Others(i), readers, writer, queue[i], Holding)
<1>1. /\ queue \in Seq(Clients) /\ Len(queue) \in Nat /\ queue[i] \in Clients
      /\ readers \in Nat /\ writer \in BOOLEAN
  BY ElementOfSeq, LenProperties DEF IInv, TypeOK
<1>2. /\ Others(i) \in Seq(Clients) /\ Len(Others(i)) = Len(queue) - 1
      /\ \A j \in 1..Len(queue) - 1 : Others(i)[j] = IF j < i THEN queue[j] ELSE queue[j + 1]
  BY <1>1, WithoutIs
<1>3. \A j \in 1..Len(queue) : state[queue[j]] = "queued"
  BY <1>1, ElementOfSeq DEF IInv, QueueIsWaiters
<1>4. Holding = Holding \ {queue[i]}
  BY <1>3 DEF Holding
<1>5. \A j, k \in 1..Len(queue) : queue[j] = queue[k] => j = k
  BY DEF IInv, QueueIsWaiters
<1>6. \A j \in 1..Len(Others(i)) :
        \E k \in 1..Len(queue) : k # i /\ Others(i)[j] = queue[k] /\ k = IF j < i THEN j ELSE j + 1
  BY <1>1, <1>2
<1>7. \A k \in 1..Len(queue) : k # i => \E j \in 1..Len(Others(i)) : Others(i)[j] = queue[k]
  <2> SUFFICES ASSUME NEW k \in 1..Len(queue), k # i
               PROVE  \E j \in 1..Len(Others(i)) : Others(i)[j] = queue[k]
    OBVIOUS
  <2>1. CASE k < i
    BY <1>1, <1>2, <2>1
  <2>2. CASE ~(k < i)
    <3>1. k - 1 \in 1..Len(queue) - 1 /\ ~(k - 1 < i) /\ (k - 1) + 1 = k
      BY <1>1, <2>2
    <3> QED
      BY <1>2, <3>1
  <2> QED
    BY <2>1, <2>2
<1>8. \A j \in 1..Len(Others(i)) : Others(i)[j] # queue[i]
  BY <1>5, <1>6
<1>9. \A j, k \in 1..Len(Others(i)) : Others(i)[j] = Others(i)[k] => j = k
  BY <1>1, <1>2, <1>5
<1>10. \A d \in Clients \ {queue[i]} :
         state[d] = "queued" <=> \E j \in 1..Len(Others(i)) : Others(i)[j] = d
  <2>1. \A d \in Clients : state[d] = "queued" <=> \E j \in 1..Len(queue) : queue[j] = d
    BY DEF IInv, QueueIsWaiters
  <2> SUFFICES ASSUME NEW d \in Clients, d # queue[i]
               PROVE  state[d] = "queued" <=> \E j \in 1..Len(Others(i)) : Others(i)[j] = d
    OBVIOUS
  <2>2. ASSUME NEW k \in 1..Len(queue), queue[k] = d
        PROVE  \E j \in 1..Len(Others(i)) : Others(i)[j] = d
    <3>1. k # i
      BY <2>2
    <3> QED
      BY <1>7, <2>2, <3>1
  <2>3. ASSUME NEW j \in 1..Len(Others(i)), Others(i)[j] = d
        PROVE  \E k \in 1..Len(queue) : queue[k] = d
    BY <1>6, <2>3
  <2> QED
    BY <2>1, <2>2, <2>3
<1>11. /\ readers = Cardinality(Asking(Holding, "shared"))
       /\ writer <=> Asking(Holding, "exclusive") # {}
       /\ \A d \in Asking(Holding, "exclusive") : Holding = {d}
  BY DEF IInv, LeasesCounted, MutualExclusion
<1> QED
  BY <1>1, <1>2, <1>4, <1>8, <1>9, <1>10, <1>11 DEF DrainStarts

(* Giving a lease back leaves a state a drain can start from. *)
LEMMA DisposeStarts ==
  ASSUME IInv, NEW c \in Clients, state[c] = "holding"
  PROVE  DrainStarts(queue, IF mode[c] = "shared" THEN readers - 1 ELSE readers,
                     mode[c] = "shared" /\ writer, c, Holding \ {c})
<1> DEFINE H == Holding \ {c}
<1>1. queue \in Seq(Clients) /\ writer \in BOOLEAN /\ mode[c] \in {"shared", "exclusive"}
  BY DEF IInv, TypeOK, Modes
<1>2. /\ \A d \in Clients : state[d] = "queued" <=> \E i \in 1..Len(queue) : queue[i] = d
      /\ \A i, j \in 1..Len(queue) : queue[i] = queue[j] => i = j
  BY DEF IInv, QueueIsWaiters
<1>3. \A i \in 1..Len(queue) : queue[i] # c
  BY <1>2
<1>4. c \in Holding /\ Holding \subseteq Clients
  BY DEF Holding
<1>5. /\ readers = Cardinality(Asking(Holding, "shared"))
      /\ writer <=> Asking(Holding, "exclusive") # {}
      /\ \A d \in Asking(Holding, "exclusive") : Holding = {d}
  BY DEF IInv, LeasesCounted, MutualExclusion
<1>6. CASE mode[c] = "shared"
  <2>1. Asking(H, "shared") = Asking(Holding, "shared") \ {c} /\ c \in Asking(Holding, "shared")
    BY <1>4, <1>6 DEF Asking
  <2>2. IsFiniteSet(Asking(Holding, "shared"))
    BY <1>4, AskingFinite
  <2>3. Cardinality(Asking(H, "shared")) = readers - 1
    BY <1>5, <2>1, <2>2, FS_RemoveElement
  <2>4. Asking(H, "exclusive") = Asking(Holding, "exclusive")
    BY <1>6 DEF Asking
  <2>5. Asking(Holding, "exclusive") = {}
    BY <1>4, <1>5, <1>6 DEF Asking
  <2> QED
    BY <1>1, <1>2, <1>3, <1>5, <1>6, <2>3, <2>4, <2>5 DEF DrainStarts
<1>7. CASE mode[c] = "exclusive"
  <2>1. Holding = {c}
    BY <1>4, <1>5, <1>7 DEF Asking
  <2>2. Asking(Holding, "shared") = {} /\ Asking(H, "shared") = {} /\ Asking(H, "exclusive") = {}
    BY <1>7, <2>1 DEF Asking
  <2>3. readers = 0 /\ Cardinality(Asking(H, "shared")) = 0
    BY <1>5, <2>2, FS_EmptySet
  <2> QED
    BY <1>1, <1>2, <1>3, <1>7, <2>2, <2>3 DEF DrainStarts
<1> QED
  BY <1>1, <1>6, <1>7

(***************************************************************************)
(* Arrivals.                                                               *)
(***************************************************************************)
LEMMA GrantKeeps ==
  ASSUME IInv, NEW c \in Clients, NEW md \in Modes, Grant(c, md)
  PROVE  IInv'
<1> USE DEF Grant
<1>1. queue = <<>> /\ Len(queue) = 0 /\ ~writer /\ (md = "shared" \/ readers = 0)
  BY EmptySeq DEF Free
<1>2. TypeOK'
  BY DEF IInv, TypeOK, States, Modes
<1>3. Holding' = Holding \cup {c} /\ c \notin Holding /\ Holding \subseteq Clients
  BY DEF Holding, IInv, TypeOK
<1>4. /\ readers = Cardinality(Asking(Holding, "shared"))
      /\ Asking(Holding, "exclusive") = {}
  BY <1>1 DEF IInv, LeasesCounted
<1>5. \A d \in Holding : mode'[d] = mode[d]
  BY <1>3 DEF IInv, TypeOK
<1>6. mode'[c] = md
  BY DEF IInv, TypeOK
<1>7. QueueIsWaiters' /\ HeadMustWait' /\ ClosedMeansEmpty'
  <2>1. \A d \in Clients : state'[d] # "queued"
    BY <1>1 DEF IInv, TypeOK, QueueIsWaiters
  <2> QED
    BY <1>1, <2>1 DEF QueueIsWaiters, HeadMustWait, ClosedMeansEmpty
<1>8. CASE md = "shared"
  <2>1. Asking(Holding, "shared")' = Asking(Holding, "shared") \cup {c}
    BY <1>3, <1>5, <1>6, <1>8 DEF Asking
  <2>2. Asking(Holding, "exclusive")' = {}
    BY <1>3, <1>4, <1>5, <1>6, <1>8 DEF Asking
  <2>3. c \notin Asking(Holding, "shared") /\ IsFiniteSet(Asking(Holding, "shared"))
    BY <1>3, AskingFinite DEF Asking
  <2>4. Cardinality(Asking(Holding, "shared")') = readers + 1
    BY <1>4, <2>1, <2>3, FS_AddElement
  <2>5. LeasesCounted'
    BY <1>8, <2>2, <2>4 DEF LeasesCounted
  <2>6. MutualExclusion'
    BY <2>2 DEF MutualExclusion
  <2> QED
    BY <1>2, <1>7, <2>5, <2>6 DEF IInv
<1>9. CASE md = "exclusive"
  <2>1. Asking(Holding, "shared") = {}
    BY <1>1, <1>3, <1>4, <1>9, AskingFinite
  <2>2. Holding = {}
    BY <1>3, <1>4, <2>1 DEF Asking, IInv, TypeOK, Modes
  <2>3. Holding' = {c}
    BY <1>3, <2>2
  <2>4. Asking(Holding, "shared")' = {} /\ Asking(Holding, "exclusive")' = {c}
    BY <1>6, <1>9, <2>3 DEF Asking
  <2>5. LeasesCounted'
    BY <1>1, <1>9, <2>4, FS_EmptySet DEF LeasesCounted
  <2>6. MutualExclusion'
    BY <2>3, <2>4 DEF MutualExclusion
  <2> QED
    BY <1>2, <1>7, <2>5, <2>6 DEF IInv
<1> QED
  BY <1>8, <1>9 DEF Modes

(* A call that has to wait keeps the invariant. *)
LEMMA EnqueueKeeps ==
  ASSUME IInv, NEW c \in Clients, NEW md \in Modes, Enqueue(c, md)
  PROVE  IInv'
<1> USE DEF Enqueue
<1>1. queue \in Seq(Clients) /\ Len(queue) \in Nat /\ readers \in Nat
  BY LenProperties DEF IInv, TypeOK
<1>2. /\ queue' \in Seq(Clients) /\ queue' # <<>> /\ Len(queue') = Len(queue) + 1
      /\ \A i \in 1..Len(queue) : queue'[i] = queue[i]
      /\ queue'[Len(queue) + 1] = c
  BY <1>1, AppendProperties
<1>3. TypeOK'
  BY <1>1, <1>2 DEF IInv, TypeOK, States
<1>4. Holding' = Holding /\ c \notin Holding
  BY DEF Holding, IInv, TypeOK
<1>5. Asking(Holding, "shared")' = Asking(Holding, "shared") /\ Asking(Holding, "exclusive")' = Asking(Holding, "exclusive")
  BY <1>4 DEF Asking, IInv, TypeOK
<1>6. LeasesCounted' /\ MutualExclusion'
  BY <1>4, <1>5 DEF IInv, LeasesCounted, MutualExclusion
<1>7. \A i \in 1..Len(queue) : queue[i] \in Clients /\ state[queue[i]] = "queued" /\ queue[i] # c
  BY <1>1, ElementOfSeq DEF IInv, QueueIsWaiters
<1>8. QueueIsWaiters'
  <2>1. \A d \in Clients : state'[d] = "queued" <=> d = c \/ state[d] = "queued"
    BY DEF IInv, TypeOK
  <2>2. \A d \in Clients : state[d] = "queued" <=> \E i \in 1..Len(queue) : queue[i] = d
    BY DEF IInv, QueueIsWaiters
  <2>3. \A d : (\E i \in 1..Len(queue') : queue'[i] = d) <=> (d = c \/ \E i \in 1..Len(queue) : queue[i] = d)
    BY <1>1, <1>2
  <2>4. \A i, j \in 1..Len(queue) : queue[i] = queue[j] => i = j
    BY DEF IInv, QueueIsWaiters
  <2>5. \A i, j \in 1..Len(queue') : queue'[i] = queue'[j] => i = j
    BY <1>1, <1>2, <1>7, <2>4
  <2> QED
    BY <2>1, <2>2, <2>3, <2>5 DEF QueueIsWaiters
<1>9. HeadMustWait'
  <2>1. CASE queue = <<>>
    <3>1. queue'[1] = c /\ mode'[c] = md
      BY <1>2, <2>1, EmptySeq DEF IInv, TypeOK
    <3>2. writer \/ (md = "exclusive" /\ readers # 0)
      BY <2>1 DEF Free, Modes
    <3> QED
      BY <1>1, <3>1, <3>2 DEF HeadMustWait
  <2>2. CASE queue # <<>>
    <3>1. Len(queue) # 0
      BY <1>1, <2>2, EmptySeq
    <3>2. queue'[1] = queue[1] /\ queue[1] # c /\ queue[1] \in Clients
      BY <1>1, <1>2, <1>7, <3>1
    <3>3. mode'[queue[1]] = mode[queue[1]]
      BY <3>2 DEF IInv, TypeOK
    <3> QED
      BY <2>2, <3>2, <3>3 DEF IInv, HeadMustWait
  <2> QED
    BY <2>1, <2>2
<1>10. ClosedMeansEmpty'
  BY DEF ClosedMeansEmpty
<1> QED
  BY <1>3, <1>6, <1>8, <1>9, <1>10 DEF IInv

(***************************************************************************)
(* The invariant.                                                          *)
(***************************************************************************)
LEMMA InvInit ==
  ASSUME Init
  PROVE  IInv
<1>1. queue = <<>> /\ queue \in Seq(Clients) /\ Len(queue) = 0
  BY EmptySeq DEF Init
<1>2. TypeOK
  <2>1. state \in [Clients -> States] /\ mode \in [Clients -> Modes]
    BY DEF Init, States, Modes
  <2>2. Len(queue) <= MaxQueued
    BY <1>1, MaxQueuedAssumption
  <2>3. readers \in Nat /\ writer \in BOOLEAN /\ closed \in BOOLEAN
    BY DEF Init
  <2> QED
    BY <1>1, <2>1, <2>2, <2>3 DEF TypeOK
<1>3. Holding = {}
  BY DEF Init, Holding
<1>4. Asking(Holding, "shared") = {} /\ Asking(Holding, "exclusive") = {}
  BY <1>3 DEF Asking
<1>5. LeasesCounted /\ MutualExclusion
  BY <1>4, FS_EmptySet DEF Init, LeasesCounted, MutualExclusion
<1>6. QueueIsWaiters /\ HeadMustWait /\ ClosedMeansEmpty
  BY <1>1 DEF Init, QueueIsWaiters, HeadMustWait, ClosedMeansEmpty
<1> QED
  BY <1>2, <1>5, <1>6 DEF IInv

(* A drain of a queue no longer than it was keeps the invariant. *)
LEMMA DrainKeepsInv ==
  ASSUME IInv, NEW q, NEW r, NEW w, NEW c \in Clients, NEW H, DrainStarts(q, r, w, c, H),
         NEW n \in 0..Len(q), Drain(q, r, w, c, n), UNCHANGED <<mode, closed>>,
         Len(q) <= Len(queue), closed => q = <<>>
  PROVE  IInv'
<1>1. /\ state' \in [Clients -> States] /\ queue' \in Seq(Clients) /\ Len(queue') <= Len(q)
      /\ readers' \in Nat /\ writer' \in BOOLEAN
      /\ MutualExclusion' /\ LeasesCounted' /\ QueueIsWaiters' /\ HeadMustWait'
  BY DrainKeeps DEF IInv
<1>2. /\ queue \in Seq(Clients) /\ Len(queue) \in Nat /\ Len(queue) <= MaxQueued
      /\ q \in Seq(Clients) /\ Len(q) \in Nat /\ Len(queue') \in Nat
  BY <1>1, LenProperties DEF IInv, TypeOK, DrainStarts
<1>3. Len(queue') <= MaxQueued
  BY <1>1, <1>2
<1>4. TypeOK'
  BY <1>1, <1>3 DEF IInv, TypeOK
<1>5. ClosedMeansEmpty'
  <2> SUFFICES ASSUME closed
               PROVE  queue' = <<>>
    BY DEF ClosedMeansEmpty
  <2>1. Len(q) = 0
    BY EmptySeq
  <2> QED
    BY <1>1, <1>2, <2>1, EmptySeq
<1> QED
  BY <1>1, <1>4, <1>5 DEF IInv

(* A cancellation is the removal of one waiter and a drain of the others. *)
LEMMA CancelDrains ==
  ASSUME IInv, NEW i \in 1..Len(queue), Cancel(i)
  PROVE  /\ ~closed /\ queue[i] \in Clients /\ Len(Others(i)) <= Len(queue)
         /\ \E n \in 0..Len(Others(i)) : Drain(Others(i), readers, writer, queue[i], n)
<1>1. queue \in Seq(Clients) /\ Len(queue) \in Nat /\ queue[i] \in Clients
  BY ElementOfSeq, LenProperties DEF IInv, TypeOK
<1>2. Len(Others(i)) = Len(queue) - 1
  BY <1>1, WithoutIs
<1>3. PICK n \in 0..Len(queue) : Drain(Others(i), readers, writer, queue[i], n)
  BY DEF Cancel
<1>4. n \in 0..Len(Others(i))
  BY <1>3 DEF Drain, DrainsTo
<1>5. ~closed
  BY <1>1, EmptySeq DEF IInv, ClosedMeansEmpty
<1> QED
  BY <1>1, <1>2, <1>3, <1>4, <1>5

(* Every step keeps the inductive invariant. *)
LEMMA InvNext ==
  ASSUME IInv, [Next]_vars
  PROVE  IInv'
<1>1. ASSUME NEW c \in Clients, NEW md \in Modes, Grant(c, md) \/ Enqueue(c, md)
      PROVE  IInv'
  BY <1>1, GrantKeeps, EnqueueKeeps
<1>2. ASSUME NEW i \in 1..Len(queue), Cancel(i)
      PROVE  IInv'
  <2>1. PICK n \in 0..Len(Others(i)) : Drain(Others(i), readers, writer, queue[i], n)
    BY <1>2, CancelDrains
  <2>2. ~closed /\ queue[i] \in Clients /\ Len(Others(i)) <= Len(queue)
    BY <1>2, CancelDrains
  <2>3. UNCHANGED <<mode, closed>>
    BY <1>2 DEF Cancel
  <2> QED
    BY <2>1, <2>2, <2>3, CancelStarts, DrainKeepsInv
<1>3. ASSUME NEW c \in Clients, Dispose(c)
      PROVE  IInv'
  <2> DEFINE r == IF mode[c] = "shared" THEN readers - 1 ELSE readers
             w == mode[c] = "shared" /\ writer
  <2>1. state[c] = "holding" /\ UNCHANGED <<mode, closed>>
    BY <1>3 DEF Dispose
  <2>2. PICK n \in 0..Len(queue) : Drain(queue, r, w, c, n)
    BY <1>3 DEF Dispose
  <2>3. DrainStarts(queue, r, w, c, Holding \ {c})
    BY <2>1, DisposeStarts
  <2>4. closed => queue = <<>>
    BY DEF IInv, ClosedMeansEmpty
  <2>5. Len(queue) <= Len(queue)
    BY LenProperties DEF IInv, TypeOK
  <2> HIDE DEF r, w
  <2> QED
    BY <2>1, <2>2, <2>3, <2>4, <2>5, DrainKeepsInv
<1>4. CASE Close
  <2> USE <1>4 DEF Close
  <2>1. TypeOK'
    BY EmptySeq DEF IInv, TypeOK, States
  <2>2. Holding' = Holding
    BY DEF Holding
  <2>3. LeasesCounted' /\ MutualExclusion'
    BY <2>2 DEF IInv, LeasesCounted, MutualExclusion, Asking
  <2>4. QueueIsWaiters' /\ HeadMustWait' /\ ClosedMeansEmpty'
    BY EmptySeq DEF QueueIsWaiters, HeadMustWait, ClosedMeansEmpty
  <2> QED
    BY <2>1, <2>3, <2>4 DEF IInv
<1>5. CASE UNCHANGED vars
  BY <1>5 DEF vars, IInv, TypeOK, MutualExclusion, LeasesCounted, QueueIsWaiters, HeadMustWait,
              ClosedMeansEmpty, Holding, Asking
<1> QED
  BY <1>1, <1>2, <1>3, <1>4, <1>5 DEF Next

(* The inductive invariant holds throughout every behaviour of the coordinator. *)
LEMMA Invariance == Spec => []IInv
<1>1. Init => IInv
  BY InvInit
<1>2. IInv /\ [Next]_vars => IInv'
  BY InvNext
<1> QED
  BY <1>1, <1>2, PTL DEF Spec

(* The fields keep their types, and the queue its bound. *)
THEOREM TypeCorrect == Spec => []TypeOK
<1>1. IInv => TypeOK
  BY DEF IInv
<1> QED
  BY <1>1, Invariance, PTL

(* An exclusive lease excludes every other, for any number of clients. *)
THEOREM Exclusion == Spec => []MutualExclusion
<1>1. IInv => MutualExclusion
  BY DEF IInv
<1> QED
  BY <1>1, Invariance, PTL

(* readers and writer are exactly the leases outstanding. *)
THEOREM LeasesExact == Spec => []LeasesCounted
<1>1. IInv => LeasesCounted
  BY DEF IInv
<1> QED
  BY <1>1, Invariance, PTL

(* The queue is exactly the clients that wait, each once. *)
THEOREM QueueExact == Spec => []QueueIsWaiters
<1>1. IInv => QueueIsWaiters
  BY DEF IInv
<1> QED
  BY <1>1, Invariance, PTL

(* The head of the queue is never left waiting when it could be let in. *)
THEOREM NoIdleWaiter == Spec => []HeadMustWait
<1>1. IInv => HeadMustWait
  BY DEF IInv
<1> QED
  BY <1>1, Invariance, PTL

(***************************************************************************)
(* The order of service.                                                   *)
(***************************************************************************)
LEMMA DrainInOrder ==
  ASSUME TypeOK, NEW q, NEW r, NEW w, NEW c \in Clients, NEW H, DrainStarts(q, r, w, c, H),
         NEW n \in 0..Len(q), Drain(q, r, w, c, n),
         NEW d \in Clients, NEW e \in Clients,
         state[d] # "holding", state'[d] = "holding", state[e] = "queued", state'[e] = "queued"
  PROVE  \E i, j \in 1..Len(q) : i < j /\ q[i] = d /\ q[j] = e
<1>1. state' = [x \in Clients |-> IF x \in {q[i] : i \in 1..n} THEN "holding"
                                  ELSE IF x = c THEN "idle" ELSE state[x]]
  BY DEF Drain
<1>2. Len(q) \in Nat
  BY LenProperties DEF DrainStarts
<1>3. PICK i \in 1..n : q[i] = d
  BY <1>1
<1>4. e # c /\ e \notin {q[k] : k \in 1..n}
  BY <1>1
<1>5. PICK j \in 1..Len(q) : q[j] = e
  BY <1>4 DEF DrainStarts
<1>6. ~(j <= n)
  BY <1>4, <1>5
<1> QED
  BY <1>2, <1>3, <1>5, <1>6

(* A client who is let in past one who still waits was before it in the queue. *)
LEMMA StepInOrder ==
  ASSUME IInv, [Next]_vars, NEW d \in Clients, NEW e \in Clients,
         state[d] # "holding", state'[d] = "holding", state[e] = "queued", state'[e] = "queued"
  PROVE  \E i, j \in 1..Len(queue) : i < j /\ queue[i] = d /\ queue[j] = e
<1>1. ASSUME NEW c \in Clients, NEW md \in Modes, Grant(c, md) \/ Enqueue(c, md)
      PROVE  FALSE
  <2>1. CASE Grant(c, md)
    <3>1. queue # <<>>
      BY EmptySeq DEF IInv, QueueIsWaiters
    <3> QED
      BY <2>1, <3>1 DEF Grant, Free
  <2>2. CASE Enqueue(c, md)
    BY <2>2 DEF Enqueue, IInv, TypeOK
  <2> QED
    BY <1>1, <2>1, <2>2
<1>2. ASSUME NEW k \in 1..Len(queue), Cancel(k)
      PROVE  \E i, j \in 1..Len(queue) : i < j /\ queue[i] = d /\ queue[j] = e
  <2>1. PICK n \in 0..Len(Others(k)) : Drain(Others(k), readers, writer, queue[k], n)
    BY <1>2, CancelDrains
  <2>2. queue[k] \in Clients
    BY <1>2, CancelDrains
  <2>3. PICK i, j \in 1..Len(Others(k)) : i < j /\ Others(k)[i] = d /\ Others(k)[j] = e
    BY <2>1, <2>2, CancelStarts, DrainInOrder DEF IInv
  <2>4. Len(queue) \in Nat /\ queue \in Seq(Clients)
    BY LenProperties DEF IInv, TypeOK
  <2>5. /\ Len(Others(k)) = Len(queue) - 1
        /\ \A x \in 1..Len(queue) - 1 : Others(k)[x] = IF x < k THEN queue[x] ELSE queue[x + 1]
    BY <2>4, WithoutIs
  <2> DEFINE At(x) == IF x < k THEN x ELSE x + 1
  <2>6. At(i) \in 1..Len(queue) /\ At(j) \in 1..Len(queue) /\ At(i) < At(j)
    BY <2>3, <2>4, <2>5
  <2>7. queue[At(i)] = d /\ queue[At(j)] = e
    BY <2>3, <2>4, <2>5
  <2> QED
    BY <2>6, <2>7
<1>3. ASSUME NEW c \in Clients, Dispose(c)
      PROVE  \E i, j \in 1..Len(queue) : i < j /\ queue[i] = d /\ queue[j] = e
  <2> DEFINE r == IF mode[c] = "shared" THEN readers - 1 ELSE readers
             w == mode[c] = "shared" /\ writer
  <2>1. PICK n \in 0..Len(queue) : Drain(queue, r, w, c, n)
    BY <1>3 DEF Dispose
  <2>2. DrainStarts(queue, r, w, c, Holding \ {c})
    BY <1>3, DisposeStarts DEF Dispose
  <2> HIDE DEF r, w
  <2> QED
    BY <2>1, <2>2, DrainInOrder DEF IInv
<1>4. CASE Close
  BY <1>4 DEF Close
<1>5. CASE UNCHANGED vars
  BY <1>5 DEF vars
<1> QED
  BY <1>1, <1>2, <1>3, <1>4, <1>5 DEF Next

(* First come, first served: no step lets anyone in past a client that waits. *)
THEOREM InOrder == Spec => NoOvertaking
<1>1. IInv /\ [Next]_vars =>
        [\A c, d \in Clients :
           state[c] # "holding" /\ state'[c] = "holding" /\ state[d] = "queued" /\ state'[d] = "queued"
             => \E i, j \in 1..Len(queue) : i < j /\ queue[i] = c /\ queue[j] = d]_vars
  BY StepInOrder
<1> QED
  BY <1>1, Invariance, PTL DEF Spec, NoOvertaking

(* A closed coordinator grants nothing: its queue is empty, and it admits nobody. *)
THEOREM NothingOnceClosed == Spec => NoLeaseOnceClosed
<1>1. ASSUME IInv, [Next]_vars, closed, NEW c \in Clients, state'[c] = "holding"
      PROVE  state[c] = "holding"
  <2>1. queue = <<>> /\ Len(queue) = 0
    BY <1>1, EmptySeq DEF IInv, ClosedMeansEmpty
  <2>2. ASSUME NEW d \in Clients, Dispose(d)
        PROVE  state[c] = "holding"
    <3>1. PICK n \in 0..Len(queue) :
            Drain(queue, IF mode[d] = "shared" THEN readers - 1 ELSE readers, mode[d] = "shared" /\ writer, d, n)
      BY <2>2 DEF Dispose
    <3>2. n = 0
      BY <2>1
    <3>3. state'[c] = IF c = d THEN "idle" ELSE state[c]
      BY <3>1, <3>2 DEF Drain
    <3> QED
      BY <1>1, <3>3
  <2>3. CASE Close \/ UNCHANGED vars
    BY <1>1, <2>3 DEF Close, vars
  <2>4. \A i \in 1..Len(queue) : ~Cancel(i)
    BY <2>1
  <2>5. \A d \in Clients, md \in Modes : ~Grant(d, md) /\ ~Enqueue(d, md)
    BY <1>1 DEF Grant, Enqueue
  <2> QED
    BY <1>1, <2>2, <2>3, <2>4, <2>5 DEF Next
<1>2. IInv /\ [Next]_vars => [closed => \A c \in Clients : state'[c] = "holding" => state[c] = "holding"]_vars
  BY <1>1
<1> QED
  BY <1>2, Invariance, PTL DEF Spec, NoLeaseOnceClosed

=============================================================================

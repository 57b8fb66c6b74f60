-------------------------- MODULE CollectionFacts --------------------------
(***************************************************************************)
(* Facts about the operators on sets and queues that the modules are built *)
(* from, for every argument: sums over finite sets, queues without some of *)
(* their elements, and queues of sequences laid end to end.  They are      *)
(* recursive functions, so each fact is proved by a least counterexample:  *)
(* a set of finite sets, or of numbers, that is not empty has a minimal    *)
(* member.                                                                 *)
(***************************************************************************)
EXTENDS Collections, Integers, FiniteSets, Functions, SequencesExt, FiniteSetTheorems, SequenceTheorems,
        WellFoundedInduction, TLAPS

(* Some member of a set of subsets of a finite set includes no other member. *)
LEMMA MinimalSet ==
  ASSUME NEW S, IsFiniteSet(S), NEW T \in SUBSET SUBSET S, T # {}
  PROVE  \E x \in T : \A y \in T : y \subseteq x => y = x
<1>1. IsWellFoundedOn(StrictSubsetOrdering(S), SUBSET S)
  BY FS_StrictSubsetOrderingWellFounded, FS_FiniteSubsetsOfFinite
<1>2. PICK x \in T : \A y \in T : ~(<<y, x>> \in StrictSubsetOrdering(S))
  BY <1>1, WFMin
<1> QED
  BY <1>2 DEF StrictSubsetOrdering

(* A chain of subsets of a finite set has a member that all the others include. *)
LEMMA LeastOfChain ==
  ASSUME NEW S, IsFiniteSet(S), NEW T \in SUBSET SUBSET S, T # {},
         \A x, y \in T : x \subseteq y \/ y \subseteq x
  PROVE  \E x \in T : \A y \in T : x \subseteq y
<1>1. PICK x \in T : \A y \in T : y \subseteq x => y = x
  BY MinimalSet
<1>2. \A y \in T : x \subseteq y
  BY <1>1
<1> QED
  BY <1>2

(* A set of natural numbers has a least member. *)
LEMMA LeastNumber ==
  ASSUME NEW T \in SUBSET Nat, T # {}
  PROVE  \E n \in T : \A k \in T : n <= k
<1>1. PICK top \in T : TRUE
  OBVIOUS
<1> DEFINE Below(k) == 0..k
           Down == {Below(k) : k \in {j \in T : j <= top}}
           Top == 0..top
<1>2. IsFiniteSet(Top)
  BY FS_Interval
<1>3. Down \in SUBSET SUBSET Top /\ Down # {}
  OBVIOUS
<1>4. PICK x \in Down : \A y \in Down : y \subseteq x => y = x
  <2> HIDE DEF Down, Top
  <2> QED
    BY <1>2, <1>3, MinimalSet
<1>5. PICK n \in T : n <= top /\ x = 0..n
  OBVIOUS
<1>6. ASSUME NEW k \in T, k < n
      PROVE  FALSE
  <2>1. 0..k \in Down /\ 0..k \subseteq 0..n
    BY <1>5, <1>6
  <2>2. n \in 0..n /\ n \notin 0..k
    BY <1>6
  <2> QED
    BY <1>4, <1>5, <2>1, <2>2
<1> QED
  BY <1>6

-----------------------------------------------------------------------------
(***************************************************************************)
(* Sums over finite sets.                                                  *)
(***************************************************************************)
Choice(s) == CHOOSE x \in s : TRUE

SumStep(f, g, s) == IF s = {} THEN 0 ELSE f[Choice(s)] + g[s \ {Choice(s)}]

(* g gives the sum of f over each subset of S. *)
Sums(f, S, g) == g = [s \in SUBSET S |-> SumStep(f, g, s)]

SumsOf(f, S) == CHOOSE g : Sums(f, S, g)

(* The sum the community module defines is the value, at the whole set, of the recursive
   function it chooses. *)
LEMMA SumIs ==
  ASSUME NEW f, NEW S
  PROVE  SumFunctionOnSet(f, S) = SumsOf(f, S)[S]
BY DEF SumFunctionOnSet, FoldFunctionOnSet, MapThenFoldSet, SumsOf, Sums, SumStep, Choice

(* Two functions that both obey the recursion of a sum agree on every finite set: there is no
   smallest one on which they differ. *)
LEMMA SumsAgree ==
  ASSUME NEW f, NEW S, NEW g, Sums(f, S, g), NEW T, NEW h, Sums(f, T, h),
         NEW U, U \subseteq S, U \subseteq T, IsFiniteSet(U)
  PROVE  g[U] = h[U]
<1> DEFINE Bad == {V \in SUBSET U : g[V] # h[V]}
<1> SUFFICES ASSUME Bad # {}
             PROVE  FALSE
  OBVIOUS
<1>1. PICK V \in Bad : \A W \in Bad : W \subseteq V => W = V
  <2>1. Bad \in SUBSET SUBSET U
    OBVIOUS
  <2> HIDE DEF Bad
  <2> QED
    BY <2>1, MinimalSet
<1>2. g[V] = SumStep(f, g, V) /\ h[V] = SumStep(f, h, V)
  BY DEF Sums
<1>3. CASE V = {}
  BY <1>2, <1>3 DEF SumStep
<1>4. CASE V # {}
  <2> DEFINE W == V \ {Choice(V)}
  <2>1. Choice(V) \in V
    BY <1>4 DEF Choice
  <2>2. W \notin Bad
    BY <1>1, <2>1
  <2>3. g[W] = h[W]
    BY <2>2
  <2> QED
    BY <1>2, <1>4, <2>3 DEF SumStep
<1> QED
  BY <1>3, <1>4

(* The function chosen for a finite set does obey the recursion: there is no smallest set
   without one that does. *)
LEMMA SumsExist ==
  ASSUME NEW f, NEW S, IsFiniteSet(S)
  PROVE  Sums(f, S, SumsOf(f, S))
<1> DEFINE Bad == {T \in SUBSET S : ~Sums(f, T, SumsOf(f, T))}
<1> SUFFICES ASSUME Bad # {}
             PROVE  FALSE
  OBVIOUS
<1>1. PICK T \in Bad : \A U \in Bad : U \subseteq T => U = T
  <2>1. Bad \in SUBSET SUBSET S
    OBVIOUS
  <2> HIDE DEF Bad
  <2> QED
    BY <2>1, MinimalSet
<1> DEFINE c == Choice(T)
           Own(s) == SumsOf(f, s)[s]
           g == [s \in SUBSET T |-> IF s = T /\ T # {} THEN f[c] + Own(T \ {c})
                                    ELSE IF s = {} THEN 0 ELSE Own(s)]
<1>2. ASSUME NEW s \in SUBSET T, s # T
      PROVE  Sums(f, s, SumsOf(f, s))
  BY <1>1, <1>2
<1>3. ASSUME NEW s \in SUBSET T
      PROVE  g[s] = SumStep(f, g, s)
  <2>1. CASE s = {}
    BY <2>1 DEF SumStep
  <2>2. CASE s # {}
    <3> DEFINE r == s \ {Choice(s)}
    <3>1. Choice(s) \in s
      BY <2>2 DEF Choice
    <3>2. r \in SUBSET T /\ r # T /\ r # s
      BY <3>1
    <3>3. g[r] = Own(r)
      <4>1. CASE r = {}
        <5>1. Sums(f, {}, SumsOf(f, {}))
          BY <1>2, <3>2, <4>1
        <5>2. Own({}) = 0
          BY <5>1 DEF Sums, SumStep
        <5> QED
          BY <3>2, <4>1, <5>2
      <4>2. CASE r # {}
        BY <3>2, <4>2
      <4> QED
        BY <4>1, <4>2
    <3>4. g[s] = f[Choice(s)] + Own(r)
      <4>1. CASE s = T
        BY <2>2, <4>1
      <4>2. CASE s # T
        <5>1. Sums(f, s, SumsOf(f, s)) /\ Sums(f, r, SumsOf(f, r))
          BY <1>2, <3>2, <4>2
        <5>2. IsFiniteSet(r)
          BY <3>2, FS_Subset
        <5>3. SumsOf(f, s)[r] = Own(r)
          BY <5>1, <5>2, SumsAgree
        <5>4. Own(s) = SumStep(f, SumsOf(f, s), s)
          BY <5>1 DEF Sums
        <5> QED
          BY <2>2, <4>2, <5>3, <5>4 DEF SumStep
      <4> QED
        BY <4>1, <4>2
    <3> QED
      BY <2>2, <3>3, <3>4 DEF SumStep
  <2> QED
    BY <2>1, <2>2
<1>4. Sums(f, T, g)
  <2> HIDE DEF g
  <2>1. g = [s \in SUBSET T |-> g[s]]
    BY DEF g
  <2> QED
    BY <1>3, <2>1 DEF Sums
<1>5. Sums(f, T, SumsOf(f, T))
  <2> HIDE DEF g
  <2> QED
    BY <1>4 DEF SumsOf
<1> QED
  BY <1>5

(* The sum over no element is zero. *)
LEMMA SumEmpty ==
  ASSUME NEW f
  PROVE  SumFunctionOnSet(f, {}) = 0
<1>1. Sums(f, {}, SumsOf(f, {}))
  BY SumsExist, FS_EmptySet
<1>2. SumsOf(f, {})[{}] = 0
  BY <1>1 DEF Sums, SumStep
<1> QED
  BY <1>2, SumIs

(* The sum over a set is the chosen element's part and the sum over the others. *)
LEMMA SumOfChoice ==
  ASSUME NEW f, NEW S, IsFiniteSet(S), S # {}
  PROVE  SumFunctionOnSet(f, S) = f[Choice(S)] + SumFunctionOnSet(f, S \ {Choice(S)})
<1> DEFINE r == S \ {Choice(S)}
<1>1. IsFiniteSet(r)
  BY FS_Subset
<1>2. Sums(f, S, SumsOf(f, S)) /\ Sums(f, r, SumsOf(f, r))
  BY <1>1, SumsExist
<1>3. SumsOf(f, S)[r] = SumsOf(f, r)[r]
  BY <1>1, <1>2, SumsAgree
<1>4. SumsOf(f, S)[S] = SumStep(f, SumsOf(f, S), S)
  BY <1>2 DEF Sums
<1> QED
  BY <1>3, <1>4, SumIs DEF SumStep

(* A finite sum of natural numbers is a natural number. *)
LEMMA SumNat ==
  ASSUME NEW S, IsFiniteSet(S), NEW f, \A x \in S : f[x] \in Nat
  PROVE  SumFunctionOnSet(f, S) \in Nat
<1> DEFINE Bad == {T \in SUBSET S : SumFunctionOnSet(f, T) \notin Nat}
<1> SUFFICES ASSUME Bad # {}
             PROVE  FALSE
  OBVIOUS
<1>1. PICK T \in Bad : \A U \in Bad : U \subseteq T => U = T
  <2>1. Bad \in SUBSET SUBSET S
    OBVIOUS
  <2> HIDE DEF Bad
  <2> QED
    BY <2>1, MinimalSet
<1>2. T # {}
  BY SumEmpty
<1>3. Choice(T) \in T
  BY <1>2 DEF Choice
<1>4. T \ {Choice(T)} \notin Bad
  BY <1>1, <1>3
<1>5. SumFunctionOnSet(f, T \ {Choice(T)}) \in Nat /\ f[Choice(T)] \in Nat
  BY <1>3, <1>4
<1>6. IsFiniteSet(T)
  BY FS_Subset
<1>7. SumFunctionOnSet(f, T) = f[Choice(T)] + SumFunctionOnSet(f, T \ {Choice(T)})
  BY <1>2, <1>6, SumOfChoice
<1> QED
  BY <1>5, <1>7

(* Taking any member out of a set takes its number out of the sum. *)
LEMMA SumWithout ==
  ASSUME NEW S, IsFiniteSet(S), NEW f, \A x \in S : f[x] \in Nat, NEW x \in S
  PROVE  SumFunctionOnSet(f, S) = f[x] + SumFunctionOnSet(f, S \ {x})
<1> DEFINE Sum(T) == SumFunctionOnSet(f, T)
           Bad == {T \in SUBSET S : \E y \in T : Sum(T) # f[y] + Sum(T \ {y})}
<1> SUFFICES ASSUME Bad # {}
             PROVE  FALSE
  OBVIOUS
<1>1. PICK T \in Bad : \A U \in Bad : U \subseteq T => U = T
  <2>1. Bad \in SUBSET SUBSET S
    OBVIOUS
  <2> HIDE DEF Bad
  <2> QED
    BY <2>1, MinimalSet
<1>2. PICK y \in T : Sum(T) # f[y] + Sum(T \ {y})
  OBVIOUS
<1> DEFINE c == Choice(T)
<1>3. c \in T
  BY DEF Choice
<1>4. IsFiniteSet(T)
  BY FS_Subset
<1>5. Sum(T) = f[c] + Sum(T \ {c})
  BY <1>2, <1>4, SumOfChoice
<1>6. c # y
  BY <1>2, <1>5
<1>7. Sum(T \ {c}) = f[y] + Sum((T \ {c}) \ {y})
  <2>1. T \ {c} \notin Bad /\ y \in T \ {c}
    BY <1>1, <1>3, <1>6
  <2> QED
    BY <2>1
<1>8. Sum(T \ {y}) = f[c] + Sum((T \ {y}) \ {c})
  <2>1. T \ {y} \notin Bad /\ c \in T \ {y}
    BY <1>1, <1>3, <1>6
  <2> QED
    BY <2>1
<1>9. (T \ {c}) \ {y} = (T \ {y}) \ {c}
  OBVIOUS
<1>10. Sum((T \ {c}) \ {y}) \in Nat /\ f[c] \in Nat /\ f[y] \in Nat
  <2>1. IsFiniteSet((T \ {c}) \ {y})
    BY <1>4, FS_Subset
  <2> QED
    BY <1>3, <2>1, SumNat
<1>11. Sum(T) = f[y] + Sum(T \ {y})
  <2> DEFINE rest == Sum((T \ {c}) \ {y})
  <2>1. Sum(T \ {c}) = f[y] + rest /\ Sum(T \ {y}) = f[c] + rest
    BY <1>7, <1>8, <1>9
  <2> HIDE DEF rest, c, Sum
  <2>2. rest \in Nat /\ f[c] \in Nat /\ f[y] \in Nat
    BY <1>10 DEF rest
  <2> QED
    BY <1>5, <2>1, <2>2
<1> QED
  BY <1>2, <1>11

(* One more element adds its own part to the sum. *)
LEMMA SumWith ==
  ASSUME NEW S, IsFiniteSet(S), NEW f, NEW x, \A y \in S \cup {x} : f[y] \in Nat, x \notin S
  PROVE  SumFunctionOnSet(f, S \cup {x}) = SumFunctionOnSet(f, S) + f[x]
<1>1. IsFiniteSet(S \cup {x}) /\ (S \cup {x}) \ {x} = S
  BY FS_AddElement
<1>2. SumFunctionOnSet(f, S) \in Nat
  BY SumNat
<1>3. SumFunctionOnSet(f, S \cup {x}) = f[x] + SumFunctionOnSet(f, (S \cup {x}) \ {x})
  BY <1>1, SumWithout
<1>4. SumFunctionOnSet(f, S \cup {x}) = f[x] + SumFunctionOnSet(f, S) /\ f[x] \in Nat
  BY <1>1, <1>3
<1> QED
  BY <1>2, <1>4

(* The sum over a part of a set is at most that over the whole. *)
LEMMA SumSubset ==
  ASSUME NEW S, IsFiniteSet(S), NEW f, \A x \in S : f[x] \in Nat, NEW T \in SUBSET S
  PROVE  SumFunctionOnSet(f, T) <= SumFunctionOnSet(f, S)
<1> DEFINE Sum(U) == SumFunctionOnSet(f, U)
           Bad == {U \in SUBSET S : T \subseteq U /\ ~(Sum(T) <= Sum(U))}
<1> SUFFICES ASSUME Bad # {}
             PROVE  FALSE
  OBVIOUS
<1>1. PICK U \in Bad : \A V \in Bad : V \subseteq U => V = U
  <2>1. Bad \in SUBSET SUBSET S
    OBVIOUS
  <2> HIDE DEF Bad
  <2> QED
    BY <2>1, MinimalSet
<1>2. IsFiniteSet(U) /\ IsFiniteSet(T)
  BY FS_Subset
<1>3. Sum(T) \in Nat
  BY <1>2, SumNat
<1>4. PICK x \in U : x \notin T
  <2>1. T # U
    BY <1>3
  <2> QED
    BY <2>1
<1>5. U \ {x} \notin Bad
  BY <1>1, <1>4
<1>6. Sum(T) <= Sum(U \ {x})
  BY <1>4, <1>5
<1>7. Sum(U) = f[x] + Sum(U \ {x})
  BY <1>2, SumWithout
<1>8. Sum(U \ {x}) \in Nat /\ f[x] \in Nat
  <2>1. IsFiniteSet(U \ {x})
    BY <1>2, FS_Subset
  <2> QED
    BY <2>1, SumNat
<1> HIDE DEF Sum
<1>9. Sum(T) <= Sum(U)
  BY <1>3, <1>6, <1>7, <1>8
<1> QED
  BY <1>9

(* Two functions that agree on a set have the same sum over it. *)
LEMMA SumSame ==
  ASSUME NEW S, IsFiniteSet(S), NEW f, NEW g, \A x \in S : f[x] = g[x]
  PROVE  SumFunctionOnSet(f, S) = SumFunctionOnSet(g, S)
<1> DEFINE Bad == {T \in SUBSET S : SumFunctionOnSet(f, T) # SumFunctionOnSet(g, T)}
<1> SUFFICES ASSUME Bad # {}
             PROVE  FALSE
  OBVIOUS
<1>1. PICK T \in Bad : \A U \in Bad : U \subseteq T => U = T
  <2>1. Bad \in SUBSET SUBSET S
    OBVIOUS
  <2> HIDE DEF Bad
  <2> QED
    BY <2>1, MinimalSet
<1>2. T # {}
  BY SumEmpty
<1>3. Choice(T) \in T
  BY <1>2 DEF Choice
<1>4. T \ {Choice(T)} \notin Bad
  BY <1>1, <1>3
<1>5. IsFiniteSet(T)
  BY FS_Subset
<1>6. /\ SumFunctionOnSet(f, T) = f[Choice(T)] + SumFunctionOnSet(f, T \ {Choice(T)})
      /\ SumFunctionOnSet(g, T) = g[Choice(T)] + SumFunctionOnSet(g, T \ {Choice(T)})
  BY <1>2, <1>5, SumOfChoice
<1> QED
  BY <1>3, <1>4, <1>6

(* A function that is nowhere larger than another one has no larger sum. *)
LEMMA SumAtMost ==
  ASSUME NEW S, IsFiniteSet(S), NEW f, NEW g, \A x \in S : f[x] \in Nat /\ g[x] \in Nat /\ f[x] <= g[x]
  PROVE  SumFunctionOnSet(f, S) <= SumFunctionOnSet(g, S)
<1> DEFINE Bad == {T \in SUBSET S : ~(SumFunctionOnSet(f, T) <= SumFunctionOnSet(g, T))}
<1> SUFFICES ASSUME Bad # {}
             PROVE  FALSE
  OBVIOUS
<1>1. PICK T \in Bad : \A U \in Bad : U \subseteq T => U = T
  <2>1. Bad \in SUBSET SUBSET S
    OBVIOUS
  <2> HIDE DEF Bad
  <2> QED
    BY <2>1, MinimalSet
<1>2. T # {}
  BY SumEmpty
<1>3. PICK x \in T : TRUE
  BY <1>2
<1>4. IsFiniteSet(T) /\ IsFiniteSet(T \ {x})
  BY FS_Subset
<1>5. SumFunctionOnSet(f, T \ {x}) <= SumFunctionOnSet(g, T \ {x})
  BY <1>1, <1>3
<1>6. /\ SumFunctionOnSet(f, T) = f[x] + SumFunctionOnSet(f, T \ {x})
      /\ SumFunctionOnSet(g, T) = g[x] + SumFunctionOnSet(g, T \ {x})
  BY <1>4, SumWithout
<1>7. SumFunctionOnSet(f, T \ {x}) \in Nat /\ SumFunctionOnSet(g, T \ {x}) \in Nat
  BY <1>4, SumNat
<1>8. f[x] \in Nat /\ g[x] \in Nat /\ f[x] <= g[x]
  OBVIOUS
<1>9. SumFunctionOnSet(f, T) <= SumFunctionOnSet(g, T)
  BY <1>5, <1>6, <1>7, <1>8
<1> QED
  BY <1>9

(* What is zero outside of a set has the same sum over the set. *)
LEMMA SumRestricted ==
  ASSUME NEW S, IsFiniteSet(S), NEW A \in SUBSET S, NEW f, NEW g,
         \A x \in S : g[x] \in Nat /\ f[x] = IF x \in A THEN g[x] ELSE 0
  PROVE  SumFunctionOnSet(f, S) = SumFunctionOnSet(g, A)
<1> DEFINE Bad == {T \in SUBSET S : SumFunctionOnSet(f, T) # SumFunctionOnSet(g, T \cap A)}
<1>1. Bad = {}
  <2> SUFFICES ASSUME Bad # {}
               PROVE  FALSE
    OBVIOUS
  <2>1. PICK T \in Bad : \A U \in Bad : U \subseteq T => U = T
    <3>1. Bad \in SUBSET SUBSET S
      OBVIOUS
    <3> HIDE DEF Bad
    <3> QED
      BY <3>1, MinimalSet
  <2>2. T # {}
    <3>1. {} \cap A = {}
      OBVIOUS
    <3> QED
      BY <3>1, SumEmpty
  <2>3. PICK x \in T : TRUE
    BY <2>2
  <2>4. IsFiniteSet(T) /\ IsFiniteSet(T \ {x}) /\ IsFiniteSet(T \cap A) /\ IsFiniteSet((T \ {x}) \cap A)
    BY FS_Subset
  <2>5. SumFunctionOnSet(f, T \ {x}) = SumFunctionOnSet(g, (T \ {x}) \cap A)
    BY <2>1, <2>3
  <2>6. \A y \in T : f[y] \in Nat /\ g[y] \in Nat
    OBVIOUS
  <2>7. SumFunctionOnSet(f, T) = f[x] + SumFunctionOnSet(f, T \ {x})
    BY <2>4, <2>6, SumWithout
  <2>8. SumFunctionOnSet(g, T \cap A) = f[x] + SumFunctionOnSet(g, (T \ {x}) \cap A)
    <3>1. SumFunctionOnSet(g, (T \ {x}) \cap A) \in Nat
      BY <2>4, <2>6, SumNat
    <3>2. CASE x \in A
      <4>1. (T \cap A) \ {x} = (T \ {x}) \cap A
        OBVIOUS
      <4> QED
        BY <2>4, <2>6, <3>2, <4>1, SumWithout
    <3>3. CASE x \notin A
      <4>1. T \cap A = (T \ {x}) \cap A /\ f[x] = 0
        BY <3>3
      <4> QED
        BY <3>1, <4>1
    <3> QED
      BY <3>2, <3>3
  <2> QED
    BY <2>5, <2>7, <2>8
<1>2. S \cap A = A /\ S \in SUBSET S
  OBVIOUS
<1> QED
  BY <1>1, <1>2

-----------------------------------------------------------------------------
(***************************************************************************)
(* Queues without some of their elements.                                  *)
(***************************************************************************)
RestStep(queue, gone, rest, i) ==
  IF i = 0 THEN <<>>
  ELSE IF queue[i] \in gone THEN rest[i - 1] ELSE Append(rest[i - 1], queue[i])

Rests(queue, gone, n, rest) == rest = [i \in 0..n |-> RestStep(queue, gone, rest, i)]

(* The function that filters a queue from its front exists up to every length: there is no
   least one to which it does not. *)
LEMMA RestsExist ==
  ASSUME NEW queue, NEW gone, NEW n \in Nat
  PROVE  \E rest : Rests(queue, gone, n, rest)
<1> DEFINE Bad == {k \in Nat : ~\E rest : Rests(queue, gone, k, rest)}
<1> SUFFICES ASSUME Bad # {}
             PROVE  FALSE
  OBVIOUS
<1>1. PICK k \in Bad : \A j \in Bad : k <= j
  <2>1. Bad \in SUBSET Nat
    OBVIOUS
  <2> HIDE DEF Bad
  <2> QED
    BY <2>1, LeastNumber
<1>2. CASE k = 0
  <2> DEFINE rest == [i \in 0..0 |-> <<>>]
  <2>1. Rests(queue, gone, 0, rest)
    BY DEF Rests, RestStep
  <2> QED
    BY <1>2, <2>1
<1>3. CASE k # 0
  <2>1. k - 1 \in Nat /\ k - 1 \notin Bad
    BY <1>1, <1>3
  <2>2. PICK short : Rests(queue, gone, k - 1, short)
    BY <2>1
  <2> DEFINE rest == [i \in 0..k |-> IF i = k THEN RestStep(queue, gone, short, k) ELSE short[i]]
  <2>3. \A i \in 0..k : rest[i] = RestStep(queue, gone, rest, i)
    <3>1. \A i \in 0..k - 1 : short[i] = RestStep(queue, gone, short, i)
      BY <2>2 DEF Rests
    <3>2. \A i \in 0..k - 1 : rest[i] = short[i]
      BY <2>1
    <3>3. \A i \in 0..k : RestStep(queue, gone, rest, i) = RestStep(queue, gone, short, i)
      BY <2>1, <3>2 DEF RestStep
    <3> QED
      BY <2>1, <3>1, <3>3
  <2>4. Rests(queue, gone, k, rest)
    <3>1. rest = [i \in 0..k |-> rest[i]]
      OBVIOUS
    <3> HIDE DEF rest
    <3> QED
      BY <2>3, <3>1 DEF Rests
  <2> QED
    BY <2>4
<1> QED
  BY <1>2, <1>3

(* f[i] is where the i-th element of part comes from: in order, and all but *)
(* the elements of gone, of the first n of the queue.                       *)
Picks(f, part, queue, gone, n) ==
  /\ f \in [1..Len(part) -> 1..n]
  /\ \A i, j \in 1..Len(part) : i < j => f[i] < f[j]
  /\ \A i \in 1..Len(part) : part[i] = queue[f[i]] /\ part[i] \notin gone
  /\ \A k \in 1..n : queue[k] \notin gone => \E i \in 1..Len(part) : f[i] = k

(* A filter of the first entries, extended by the next one, picks the entries that are not gone
   among them. *)
LEMMA PicksMore ==
  ASSUME NEW S, NEW queue \in Seq(S), NEW gone, NEW n \in 1..Len(queue),
         NEW part \in Seq(S), NEW f, Picks(f, part, queue, gone, n - 1)
  PROVE  /\ queue[n] \in gone => Picks(f, part, queue, gone, n)
         /\ queue[n] \notin gone => \E g : Picks(g, Append(part, queue[n]), queue, gone, n)
<1>1. Len(queue) \in Nat /\ Len(part) \in Nat /\ queue[n] \in S
  BY LenProperties, ElementOfSeq
<1>2. n \in Nat /\ n >= 1 /\ 1..n - 1 \subseteq 1..n
  BY <1>1
<1>3. CASE queue[n] \in gone
  <2>1. f \in [1..Len(part) -> 1..n]
    BY <1>2 DEF Picks
  <2>2. \A k \in 1..n : queue[k] \notin gone => \E i \in 1..Len(part) : f[i] = k
    BY <1>2, <1>3 DEF Picks
  <2> QED
    BY <1>3, <2>1, <2>2 DEF Picks
<1>4. CASE queue[n] \notin gone
  <2> DEFINE last == Len(part) + 1
             long == Append(part, queue[n])
             g == [i \in 1..last |-> IF i = last THEN n ELSE f[i]]
  <2>1. /\ Len(long) = last /\ long[last] = queue[n]
        /\ \A i \in 1..Len(part) : long[i] = part[i]
    BY <1>1, AppendProperties
  <2>2. 1..last = 1..Len(part) \cup {last} /\ last \notin 1..Len(part)
    BY <1>1
  <2>3. \A i \in 1..Len(part) : f[i] \in 1..n - 1
    BY DEF Picks
  <2>4. g[last] = n /\ \A i \in 1..Len(part) : g[i] = f[i]
    BY <2>2
  <2>5. g \in [1..last -> 1..n]
    BY <1>2, <2>2, <2>3
  <2> HIDE DEF last, long, g
  <2>6. \A i, j \in 1..last : i < j => g[i] < g[j]
    <3> SUFFICES ASSUME NEW i \in 1..last, NEW j \in 1..last, i < j
                 PROVE  g[i] < g[j]
      OBVIOUS
    <3>1. i \in 1..Len(part)
      BY <1>1, <2>2 DEF last
    <3>2. CASE j = last
      BY <1>2, <2>3, <2>4, <3>1, <3>2
    <3>3. CASE j \in 1..Len(part)
      BY <2>4, <3>1, <3>3 DEF Picks
    <3> QED
      BY <2>2, <3>2, <3>3
  <2>7. \A i \in 1..last : long[i] = queue[g[i]] /\ long[i] \notin gone
    BY <1>4, <2>1, <2>2, <2>4 DEF Picks
  <2>8. \A k \in 1..n : queue[k] \notin gone => \E i \in 1..last : g[i] = k
    <3> SUFFICES ASSUME NEW k \in 1..n, queue[k] \notin gone
                 PROVE  \E i \in 1..last : g[i] = k
      OBVIOUS
    <3>1. CASE k = n
      BY <2>2, <2>4, <3>1
    <3>2. CASE k # n
      <4>1. k \in 1..n - 1
        BY <1>2, <3>2
      <4>2. PICK i \in 1..Len(part) : f[i] = k
        BY <4>1 DEF Picks
      <4> QED
        BY <2>2, <2>4, <4>2
    <3> QED
      BY <3>1, <3>2
  <2>9. Picks(g, long, queue, gone, n)
    BY <2>1, <2>5, <2>6, <2>7, <2>8 DEF Picks
  <2> QED
    BY <1>4, <2>9 DEF long
<1> QED
  BY <1>3, <1>4

(* Without keeps the entries that are not gone, in their order. *)
LEMMA WithoutPicks ==
  ASSUME NEW S, NEW queue \in Seq(S), NEW gone
  PROVE  /\ Without(queue, gone) \in Seq(S)
         /\ \E f : Picks(f, Without(queue, gone), queue, gone, Len(queue))
<1> DEFINE n == Len(queue)
           rest == CHOOSE rest : Rests(queue, gone, n, rest)
<1>1. n \in Nat /\ \A i \in 1..n : queue[i] \in S
  BY LenProperties, ElementOfSeq
<1>2. Without(queue, gone) = rest[n]
  BY DEF Without, Rests, RestStep
<1>3. Rests(queue, gone, n, rest)
  BY <1>1, RestsExist
<1>4. \A i \in 0..n : rest[i] = RestStep(queue, gone, rest, i)
  BY <1>3 DEF Rests
<1> HIDE DEF n, rest
<1> DEFINE Good(i) == rest[i] \in Seq(S) /\ \E f : Picks(f, rest[i], queue, gone, i)
           Bad == {i \in 0..n : ~Good(i)}
<1>5. Bad = {}
  <2> SUFFICES ASSUME Bad # {}
               PROVE  FALSE
    OBVIOUS
  <2>1. PICK i \in Bad : \A j \in Bad : i <= j
    <3>1. Bad \in SUBSET Nat
      BY <1>1
    <3> HIDE DEF Bad
    <3> QED
      BY <3>1, LeastNumber
  <2>2. CASE i = 0
    <3>1. rest[0] = <<>>
      BY <1>1, <1>4 DEF RestStep
    <3>2. Picks([k \in 1..0 |-> 0], <<>>, queue, gone, 0)
      BY DEF Picks
    <3> QED
      BY <2>2, <3>1, <3>2, EmptySeq
  <2>3. CASE i # 0
    <3>1. i \in 1..n /\ i - 1 \in 0..n /\ i - 1 \notin Bad
      BY <1>1, <2>1, <2>3
    <3>2. rest[i - 1] \in Seq(S) /\ \E f : Picks(f, rest[i - 1], queue, gone, i - 1)
      BY <3>1
    <3>3. PICK f : Picks(f, rest[i - 1], queue, gone, i - 1)
      BY <3>2
    <3>4. /\ queue[i] \in gone => Picks(f, rest[i - 1], queue, gone, i)
          /\ queue[i] \notin gone => \E g : Picks(g, Append(rest[i - 1], queue[i]), queue, gone, i)
      BY <3>1, <3>2, <3>3, PicksMore DEF n
    <3>5. rest[i] = IF queue[i] \in gone THEN rest[i - 1] ELSE Append(rest[i - 1], queue[i])
      BY <1>1, <1>4, <3>1 DEF RestStep
    <3>6. rest[i] \in Seq(S)
      BY <1>1, <3>1, <3>2, <3>5, AppendProperties
    <3>7. \E g : Picks(g, rest[i], queue, gone, i)
      BY <3>4, <3>5
    <3> QED
      BY <3>6, <3>7
  <2> QED
    BY <2>2, <2>3
<1>6. Good(n)
  BY <1>1, <1>5
<1> QED
  BY <1>2, <1>6 DEF n

(* An interval from one has as many members as its end says. *)
LEMMA IntervalCardinality ==
  ASSUME NEW n \in Nat
  PROVE  IsFiniteSet(1..n) /\ Cardinality(1..n) = n
<1>1. IsFiniteSet(1..n) /\ Cardinality(1..n) = IF 1 > n THEN 0 ELSE n - 1 + 1
  BY FS_Interval
<1> QED
  BY <1>1

(* What leaves a queue, what stays, and that who stays keeps his place. *)
LEMMA WithoutIs ==
  ASSUME NEW S, NEW queue \in Seq(S), NEW gone
  PROVE  /\ Without(queue, gone) \in Seq(S) /\ Len(Without(queue, gone)) <= Len(queue)
         /\ \A x : (\E i \in 1..Len(Without(queue, gone)) : Without(queue, gone)[i] = x)
                    <=> x \notin gone /\ \E i \in 1..Len(queue) : queue[i] = x
         /\ (\A i, j \in 1..Len(queue) : queue[i] = queue[j] => i = j) =>
              \A i, j \in 1..Len(Without(queue, gone)) :
                Without(queue, gone)[i] = Without(queue, gone)[j] => i = j
<1> DEFINE rest == Without(queue, gone)
<1>1. rest \in Seq(S) /\ Len(rest) \in Nat /\ Len(queue) \in Nat
  BY WithoutPicks, LenProperties
<1>2. PICK f : Picks(f, rest, queue, gone, Len(queue))
  BY WithoutPicks
<1> HIDE DEF rest
<1>3. \A i, j \in 1..Len(rest) : f[i] = f[j] => i = j
  <2> SUFFICES ASSUME NEW i \in 1..Len(rest), NEW j \in 1..Len(rest), f[i] = f[j], i # j
               PROVE  FALSE
    OBVIOUS
  <2>1. f[i] \in 1..Len(queue) /\ f[j] \in 1..Len(queue)
    BY <1>2 DEF Picks
  <2>2. i < j \/ j < i
    BY <1>1
  <2>3. f[i] < f[j] \/ f[j] < f[i]
    BY <1>2, <2>2 DEF Picks
  <2> QED
    BY <1>1, <2>1, <2>3
<1>4. Len(rest) <= Len(queue)
  <2>1. f \in Injection(1..Len(rest), 1..Len(queue))
    BY <1>2, <1>3 DEF Picks, Injection, IsInjective
  <2>2. IsFiniteSet(1..Len(queue)) /\ Cardinality(1..Len(queue)) = Len(queue)
    BY <1>1, IntervalCardinality
  <2>3. IsFiniteSet(1..Len(rest)) /\ Cardinality(1..Len(rest)) = Len(rest)
    BY <1>1, IntervalCardinality
  <2> QED
    BY <2>1, <2>2, <2>3, FS_Injection
<1>5. ASSUME NEW x
      PROVE  (\E i \in 1..Len(rest) : rest[i] = x)
             <=> x \notin gone /\ \E i \in 1..Len(queue) : queue[i] = x
  <2>1. ASSUME NEW i \in 1..Len(rest), rest[i] = x
        PROVE  x \notin gone /\ \E k \in 1..Len(queue) : queue[k] = x
    BY <1>2, <2>1 DEF Picks
  <2>2. ASSUME NEW k \in 1..Len(queue), queue[k] = x, x \notin gone
        PROVE  \E i \in 1..Len(rest) : rest[i] = x
    BY <1>2, <2>2 DEF Picks
  <2> QED
    BY <2>1, <2>2
<1>6. ASSUME \A i, j \in 1..Len(queue) : queue[i] = queue[j] => i = j,
             NEW i \in 1..Len(rest), NEW j \in 1..Len(rest), rest[i] = rest[j]
      PROVE  i = j
  <2>1. f[i] \in 1..Len(queue) /\ f[j] \in 1..Len(queue) /\ queue[f[i]] = queue[f[j]]
    BY <1>2, <1>6 DEF Picks
  <2> QED
    BY <1>3, <1>6, <2>1
<1> QED
  BY <1>1, <1>4, <1>5, <1>6 DEF rest

(* A set that differs from a finite one in one element at the most. *)
LEMMA OneMoves ==
  ASSUME NEW A, IsFiniteSet(A), NEW B, NEW e, \A x : x # e => (x \in A <=> x \in B)
  PROVE  /\ IsFiniteSet(B) /\ Cardinality(A) \in Nat /\ Cardinality(B) \in Nat
         /\ e \in A /\ e \notin B => Cardinality(B) = Cardinality(A) - 1
         /\ e \notin A /\ e \in B => Cardinality(B) = Cardinality(A) + 1
         /\ (e \in A <=> e \in B) => Cardinality(B) = Cardinality(A)
<1>1. Cardinality(A) \in Nat
  BY FS_CardinalityType
<1>2. CASE e \in A /\ e \notin B
  <2>1. B = A \ {e}
    BY <1>2
  <2> QED
    BY <1>1, <1>2, <2>1, FS_RemoveElement, FS_CardinalityType
<1>3. CASE e \notin A /\ e \in B
  <2>1. B = A \cup {e}
    BY <1>3
  <2> QED
    BY <1>1, <1>3, <2>1, FS_AddElement, FS_CardinalityType
<1>4. CASE e \in A <=> e \in B
  <2>1. B = A
    BY <1>4
  <2> QED
    BY <1>1, <1>4, <2>1
<1> QED
  BY <1>2, <1>3, <1>4

(* A finite set counts none exactly when it is empty. *)
LEMMA NoneCounted ==
  ASSUME NEW A, IsFiniteSet(A), NEW e \in A
  PROVE  Cardinality(A) \in Nat /\ Cardinality(A) > 0
BY FS_CardinalityType, FS_EmptySet

(* Two that a queue without some keeps were in this order in the queue. *)
LEMMA WithoutOrder ==
  ASSUME NEW S, NEW queue \in Seq(S), NEW gone,
         NEW i \in 1..Len(Without(queue, gone)), NEW j \in 1..Len(Without(queue, gone)), i < j
  PROVE  \E k, l \in 1..Len(queue) :
           k < l /\ queue[k] = Without(queue, gone)[i] /\ queue[l] = Without(queue, gone)[j]
<1> DEFINE rest == Without(queue, gone)
<1>1. PICK f : Picks(f, rest, queue, gone, Len(queue))
  BY WithoutPicks
<1> HIDE DEF rest
<1>2. f[i] \in 1..Len(queue) /\ f[j] \in 1..Len(queue) /\ f[i] < f[j]
      /\ queue[f[i]] = rest[i] /\ queue[f[j]] = rest[j]
  BY <1>1 DEF Picks, rest
<1> QED
  BY <1>2 DEF rest

-----------------------------------------------------------------------------
(* Queues: who is in one, and that nobody is in it twice.                  *)

Members(queue) == {queue[i] : i \in 1..Len(queue)}

Distinct(queue) == \A i, j \in 1..Len(queue) : queue[i] = queue[j] => i = j

(* The empty queue has no members, and none twice. *)
LEMMA EmptyMembers ==
  ASSUME NEW S
  PROVE  <<>> \in Seq(S) /\ Members(<<>>) = {} /\ Distinct(<<>>)
<1>1. <<>> \in Seq(S) /\ Len(<<>>) = 0
  BY EmptySeq
<1> QED
  BY <1>1 DEF Members, Distinct

(* The members of a queue are of the set it is over, and there are none only if it is empty. *)
LEMMA MembersIn ==
  ASSUME NEW S, NEW queue \in Seq(S)
  PROVE  Members(queue) \subseteq S /\ (queue = <<>> <=> Members(queue) = {})
<1>1. Len(queue) \in Nat /\ \A i \in 1..Len(queue) : queue[i] \in S
  BY LenProperties, ElementOfSeq
<1>2. queue # <<>> => 1 \in 1..Len(queue)
  BY <1>1, EmptySeq
<1>3. queue = <<>> => Members(queue) = {}
  BY EmptyMembers
<1> QED
  BY <1>1, <1>2, <1>3 DEF Members

(* Appending adds one member, and keeps the entries distinct if it is new. *)
LEMMA AppendMembers ==
  ASSUME NEW S, NEW queue \in Seq(S), NEW e \in S
  PROVE  /\ Append(queue, e) \in Seq(S) /\ Members(Append(queue, e)) = Members(queue) \cup {e}
         /\ Distinct(queue) /\ e \notin Members(queue) => Distinct(Append(queue, e))
<1> DEFINE longer == Append(queue, e)
<1>1. /\ longer \in Seq(S) /\ Len(longer) = Len(queue) + 1 /\ Len(queue) \in Nat
      /\ \A i \in 1..Len(queue) : longer[i] = queue[i]
      /\ longer[Len(queue) + 1] = e
  BY AppendProperties, LenProperties
<1>2. /\ \A i \in 1..Len(queue) : i \in 1..Len(queue) + 1
      /\ \A i \in 1..Len(queue) + 1 : i \in 1..Len(queue) \/ i = Len(queue) + 1
      /\ Len(queue) + 1 \in 1..Len(queue) + 1
  BY <1>1
<1> HIDE DEF longer
<1>3. Members(longer) = Members(queue) \cup {e}
  <2>1. ASSUME NEW x \in Members(longer) PROVE x \in Members(queue) \cup {e}
    BY <1>1, <1>2, <2>1 DEF Members
  <2>2. ASSUME NEW x \in Members(queue) PROVE x \in Members(longer)
    BY <1>1, <1>2 DEF Members
  <2>3. e \in Members(longer)
    BY <1>1, <1>2 DEF Members
  <2> QED
    BY <2>1, <2>2, <2>3
<1>4. ASSUME Distinct(queue), e \notin Members(queue),
             NEW i \in 1..Len(queue) + 1, NEW j \in 1..Len(queue) + 1, longer[i] = longer[j]
      PROVE  i = j
  <2>1. \A k \in 1..Len(queue) : queue[k] # e
    BY <1>4 DEF Members
  <2> QED
    BY <1>1, <1>2, <1>4, <2>1 DEF Distinct
<1> QED
  BY <1>1, <1>3, <1>4 DEF Distinct, longer

(* Taking the head leaves the other members, distinct if they were. *)
LEMMA TailMembers ==
  ASSUME NEW S, NEW queue \in Seq(S), queue # <<>>
  PROVE  /\ Head(queue) \in Members(queue) /\ Head(queue) \in S
         /\ Tail(queue) \in Seq(S) /\ Members(queue) = Members(Tail(queue)) \cup {Head(queue)}
         /\ Distinct(queue) => Distinct(Tail(queue)) /\ Head(queue) \notin Members(Tail(queue))
<1> DEFINE rest == Tail(queue)
           n == Len(queue)
<1>1. /\ Head(queue) = queue[1] /\ n \in Nat \ {0} /\ 1 \in 1..n
      /\ rest \in Seq(S) /\ Len(rest) = n - 1 /\ \A i \in 1..n - 1 : rest[i] = queue[i + 1]
      /\ Head(queue) \in S
  BY EmptySeq, LenProperties, HeadTailProperties
<1>2. /\ \A i \in 1..n - 1 : i + 1 \in 1..n /\ i + 1 # 1
      /\ \A i \in 1..n : i # 1 => i - 1 \in 1..n - 1 /\ (i - 1) + 1 = i
  BY <1>1
<1> HIDE DEF rest, n
<1>3. Members(queue) = {queue[i] : i \in 1..n} /\ Members(rest) = {queue[i + 1] : i \in 1..n - 1}
  BY <1>1 DEF Members, n
<1>4. Members(queue) = Members(rest) \cup {Head(queue)}
  <2>1. ASSUME NEW x \in Members(queue) PROVE x \in Members(rest) \cup {Head(queue)}
    <3>1. PICK i \in 1..n : x = queue[i]
      BY <1>3
    <3> QED
      BY <1>1, <1>2, <1>3, <3>1
  <2>2. ASSUME NEW x \in Members(rest) PROVE x \in Members(queue)
    BY <1>2, <1>3, <2>2
  <2>3. Head(queue) \in Members(queue)
    BY <1>1, <1>3
  <2> QED
    BY <2>1, <2>2, <2>3
<1>5. ASSUME Distinct(queue) PROVE Distinct(rest) /\ Head(queue) \notin Members(rest)
  <2>1. \A i, j \in 1..n : queue[i] = queue[j] => i = j
    BY <1>5 DEF Distinct, n
  <2>2. ASSUME NEW i \in 1..n - 1, NEW j \in 1..n - 1, rest[i] = rest[j] PROVE i = j
    <3>1. i + 1 \in 1..n /\ j + 1 \in 1..n /\ queue[i + 1] = queue[j + 1]
      BY <1>1, <1>2, <2>2
    <3>2. i + 1 = j + 1
      BY <2>1, <3>1
    <3> QED
      BY <3>2
  <2>3. \A i \in 1..n - 1 : queue[i + 1] # Head(queue)
    BY <1>1, <1>2, <2>1
  <2> QED
    BY <1>1, <1>3, <2>2, <2>3 DEF Distinct
<1> QED
  BY <1>1, <1>4, <1>5 DEF rest

(* Filtering leaves the members that are not gone, distinct if they were. *)
LEMMA WithoutMembers ==
  ASSUME NEW S, NEW queue \in Seq(S), NEW gone
  PROVE  /\ Without(queue, gone) \in Seq(S) /\ Members(Without(queue, gone)) = Members(queue) \ gone
         /\ Distinct(queue) => Distinct(Without(queue, gone))
         /\ Without(queue, gone) # <<>> => queue # <<>>
<1> DEFINE rest == Without(queue, gone)
<1>1. /\ rest \in Seq(S)
      /\ \A x : (\E i \in 1..Len(rest) : rest[i] = x) <=> x \notin gone /\ \E i \in 1..Len(queue) : queue[i] = x
      /\ Distinct(queue) => Distinct(rest)
  BY WithoutIs DEF Distinct
<1> HIDE DEF rest
<1>2. Members(rest) = Members(queue) \ gone
  <2>1. \A q, x : x \in Members(q) <=> \E i \in 1..Len(q) : q[i] = x
    BY DEF Members
  <2> QED
    BY <1>1, <2>1
<1>3. rest # <<>> => queue # <<>>
  BY <1>1, <1>2, MembersIn
<1> QED
  BY <1>1, <1>2, <1>3 DEF rest

(* A queue of distinct elements is as long as the set of them is large. *)
LEMMA DistinctCount ==
  ASSUME NEW S, NEW queue \in Seq(S), Distinct(queue)
  PROVE  Len(queue) = Cardinality(Members(queue))
<1> DEFINE f == [i \in 1..Len(queue) |-> queue[i]]
<1>1. Len(queue) \in Nat
  BY LenProperties
<1>2. IsFiniteSet(1..Len(queue)) /\ Cardinality(1..Len(queue)) = Len(queue)
  BY <1>1, IntervalCardinality
<1>3. f \in Bijection(1..Len(queue), Members(queue))
  BY DEF Bijection, Injection, Surjection, IsInjective, Members, Distinct
<1>4. ExistsBijection(1..Len(queue), Members(queue))
  BY <1>3 DEF ExistsBijection
<1> QED
  BY <1>2, <1>4, FS_Bijection

-----------------------------------------------------------------------------
(***************************************************************************)
(* The events of a queue laid end to end (FlattenSeq).                     *)
(***************************************************************************)

FlatStep(seqs, f, i) == IF i = 1 THEN seqs[i] ELSE f[i - 1] \o seqs[i]

\* f[i] is the concatenation of the first i sequences.
Flattens(seqs, n, f) == f = [i \in 1..n |-> FlatStep(seqs, f, i)]

(* Every sequence of sequences has such a function. *)
LEMMA FlattensExist ==
  ASSUME NEW seqs, NEW n \in Nat
  PROVE  \E f : Flattens(seqs, n, f)
<1> DEFINE Bad == {k \in Nat : ~\E f : Flattens(seqs, k, f)}
<1> SUFFICES ASSUME Bad # {}
             PROVE  FALSE
  OBVIOUS
<1>1. PICK k \in Bad : \A j \in Bad : k <= j
  <2>1. Bad \in SUBSET Nat
    OBVIOUS
  <2> HIDE DEF Bad
  <2> QED
    BY <2>1, LeastNumber
<1>2. CASE k = 0
  <2> DEFINE f == [i \in 1..0 |-> <<>>]
  <2>1. f = [i \in 1..0 |-> FlatStep(seqs, f, i)]
    OBVIOUS
  <2>2. Flattens(seqs, 0, f)
    BY <2>1 DEF Flattens
  <2> QED
    BY <1>2, <2>2
<1>3. CASE k # 0
  <2>1. k - 1 \in Nat /\ k - 1 \notin Bad
    BY <1>1, <1>3
  <2>2. PICK short : Flattens(seqs, k - 1, short)
    BY <2>1
  <2> DEFINE f == [i \in 1..k |-> IF i = k THEN FlatStep(seqs, short, k) ELSE short[i]]
  <2>3. \A i \in 1..k : f[i] = FlatStep(seqs, f, i)
    <3>1. \A i \in 1..k - 1 : short[i] = FlatStep(seqs, short, i)
      BY <2>2 DEF Flattens
    <3>2. \A i \in 1..k - 1 : f[i] = short[i]
      BY <2>1
    <3>3. \A i \in 1..k : FlatStep(seqs, f, i) = FlatStep(seqs, short, i)
      BY <2>1, <3>2 DEF FlatStep
    <3> QED
      BY <2>1, <3>1, <3>3
  <2>4. Flattens(seqs, k, f)
    <3>1. f = [i \in 1..k |-> f[i]]
      OBVIOUS
    <3> HIDE DEF f
    <3> QED
      BY <2>3, <3>1 DEF Flattens
  <2> QED
    BY <2>4
<1> QED
  BY <1>2, <1>3

(* What an initial part flattens to depends on nothing else. *)
LEMMA FlattensAgree ==
  ASSUME NEW p, NEW n \in Nat, NEW f, Flattens(p, n, f),
         NEW q, NEW m \in Nat, NEW g, Flattens(q, m, g),
         NEW k \in 1..n, k <= m, \A i \in 1..k : p[i] = q[i]
  PROVE  f[k] = g[k]
<1> DEFINE Bad == {i \in 1..k : f[i] # g[i]}
<1> SUFFICES ASSUME Bad # {}
             PROVE  FALSE
  OBVIOUS
<1>1. PICK i \in Bad : \A j \in Bad : i <= j
  <2>1. Bad \in SUBSET Nat
    OBVIOUS
  <2> HIDE DEF Bad
  <2> QED
    BY <2>1, LeastNumber
<1>2. f[i] = FlatStep(p, f, i) /\ g[i] = FlatStep(q, g, i) /\ p[i] = q[i] /\ f[i] # g[i]
  <2>1. i \in 1..n /\ i \in 1..m /\ i \in 1..k
    OBVIOUS
  <2> QED
    BY <2>1 DEF Flattens
<1>3. CASE i = 1
  BY <1>2, <1>3 DEF FlatStep
<1>4. CASE i # 1
  <2>1. i - 1 \in 1..k /\ i - 1 \notin Bad
    BY <1>1, <1>4
  <2> QED
    BY <1>2, <1>4, <2>1 DEF FlatStep
<1> QED
  BY <1>3, <1>4

(* And it gives sequences of the elements. *)
LEMMA FlattensIn ==
  ASSUME NEW S, NEW seqs \in Seq(Seq(S)), NEW f, Flattens(seqs, Len(seqs), f), NEW k \in 1..Len(seqs)
  PROVE  f[k] \in Seq(S)
<1> DEFINE Bad == {i \in 1..Len(seqs) : f[i] \notin Seq(S)}
<1> SUFFICES ASSUME Bad # {}
             PROVE  FALSE
  OBVIOUS
<1>0. Len(seqs) \in Nat /\ \A i \in 1..Len(seqs) : seqs[i] \in Seq(S)
  BY LenProperties, ElementOfSeq
<1>1. PICK i \in Bad : \A j \in Bad : i <= j
  <2>1. Bad \in SUBSET Nat
    BY <1>0
  <2> HIDE DEF Bad
  <2> QED
    BY <2>1, LeastNumber
<1>2. f[i] = FlatStep(seqs, f, i)
  BY DEF Flattens
<1>3. CASE i = 1
  BY <1>0, <1>2, <1>3 DEF FlatStep
<1>4. CASE i # 1
  <2>1. i - 1 \in 1..Len(seqs) /\ i - 1 \notin Bad
    BY <1>0, <1>1, <1>4
  <2>2. f[i - 1] \in Seq(S) /\ seqs[i] \in Seq(S)
    BY <1>0, <2>1
  <2>3. f[i - 1] \o seqs[i] \in Seq(S)
    BY <2>2, ConcatProperties
  <2> QED
    BY <1>2, <1>4, <2>3 DEF FlatStep
<1> QED
  BY <1>3, <1>4

(* FlattenSeq, of nothing. *)
LEMMA FlatEmpty == FlattenSeq(<<>>) = <<>>
BY DEF FlattenSeq

(* What FlattenSeq chooses. *)
LEMMA FlatUnfolds ==
  ASSUME NEW seqs
  PROVE  FlattenSeq(seqs) = IF Len(seqs) = 0 THEN seqs ELSE (CHOOSE f : Flattens(seqs, Len(seqs), f))[Len(seqs)]
BY DEF FlattenSeq, Flattens, FlatStep

(* It is the last of the initial parts. *)
LEMMA FlatIs ==
  ASSUME NEW S, NEW seqs \in Seq(S), seqs # <<>>, NEW f, Flattens(seqs, Len(seqs), f)
  PROVE  FlattenSeq(seqs) = f[Len(seqs)]
<1> DEFINE n == Len(seqs)
           g == CHOOSE g : Flattens(seqs, n, g)
<1>1. n \in Nat /\ n # 0 /\ n \in 1..n
  BY EmptySeq, LenProperties
<1>2. FlattenSeq(seqs) = g[n]
  BY <1>1, FlatUnfolds
<1>3. Flattens(seqs, n, g)
  BY <1>1, FlattensExist
<1> HIDE DEF n, g
<1>4. f[n] = g[n]
  BY <1>1, <1>3, FlattensAgree DEF n
<1> QED
  BY <1>2, <1>4 DEF n

(* It is a sequence of the same elements. *)
LEMMA FlatIn ==
  ASSUME NEW S, NEW seqs \in Seq(Seq(S))
  PROVE  FlattenSeq(seqs) \in Seq(S)
<1>1. Len(seqs) \in Nat /\ (seqs # <<>> => Len(seqs) \in 1..Len(seqs))
  BY EmptySeq, LenProperties
<1>2. PICK f : Flattens(seqs, Len(seqs), f)
  BY <1>1, FlattensExist
<1>3. CASE seqs = <<>>
  BY <1>3, FlatEmpty, EmptySeq
<1>4. CASE seqs # <<>>
  BY <1>1, <1>2, <1>4, FlatIs, FlattensIn
<1> QED
  BY <1>3, <1>4

(* It grows by what is appended. *)
LEMMA FlatAppend ==
  ASSUME NEW S, NEW seqs \in Seq(Seq(S)), NEW e \in Seq(S)
  PROVE  FlattenSeq(Append(seqs, e)) = FlattenSeq(seqs) \o e
<1> DEFINE more == Append(seqs, e)
           n == Len(seqs)
<1>1. /\ n \in Nat /\ more \in Seq(Seq(S)) /\ more # <<>> /\ Len(more) = n + 1
      /\ more[n + 1] = e /\ \A i \in 1..n : more[i] = seqs[i]
  BY AppendProperties, LenProperties
<1>2. (n = 0 <=> seqs = <<>>) /\ n + 1 \in Nat
  BY <1>1, EmptySeq
<1>3. FlattenSeq(more) = FlattenSeq(seqs) \o e
  <2> HIDE DEF more, n
  <2>1. PICK g : Flattens(more, n + 1, g)
    BY <1>2, FlattensExist
  <2>2. FlattenSeq(more) = g[n + 1]
    BY <1>1, <2>1, FlatIs
  <2>3. g[n + 1] = FlatStep(more, g, n + 1)
    <3>1. n + 1 \in 1..n + 1
      BY <1>1
    <3> QED
      BY <2>1, <3>1 DEF Flattens
  <2>4. CASE seqs = <<>>
    <3>1. FlattenSeq(more) = e
      BY <1>1, <1>2, <2>2, <2>3, <2>4 DEF FlatStep
    <3> QED
      BY <2>4, <3>1, FlatEmpty, ConcatEmptySeq
  <2>5. CASE seqs # <<>>
    <3>1. n \in 1..n /\ n + 1 # 1 /\ (n + 1) - 1 = n /\ n <= n + 1
      BY <1>1, <1>2, <2>5
    <3>2. PICK f : Flattens(seqs, n, f)
      BY <1>1, FlattensExist
    <3>3. FlattenSeq(seqs) = f[n]
      BY <2>5, <3>2, FlatIs DEF n
    <3>4. f[n] = g[n]
      BY <1>1, <1>2, <2>1, <3>1, <3>2, FlattensAgree
    <3> QED
      BY <1>1, <2>2, <2>3, <3>1, <3>3, <3>4 DEF FlatStep
  <2> QED
    BY <2>4, <2>5
<1> QED
  BY <1>3

(* It begins with its first sequence. *)
LEMMA FlatTail ==
  ASSUME NEW S, NEW seqs \in Seq(Seq(S)), seqs # <<>>
  PROVE  FlattenSeq(seqs) = Head(seqs) \o FlattenSeq(Tail(seqs))
<1> DEFINE rest == Tail(seqs)
           n == Len(seqs)
           h == Head(seqs)
<1>0. ASSUME NEW a \in Seq(S), NEW b \in Seq(S), NEW c \in Seq(S)
      PROVE  (a \o b) \o c = a \o (b \o c)
  BY ONLY a \in Seq(S), b \in Seq(S), c \in Seq(S), ConcatAssociative
<1>1. /\ n \in Nat /\ n # 0 /\ rest \in Seq(Seq(S)) /\ Len(rest) = n - 1 /\ h = seqs[1] /\ h \in Seq(S)
      /\ \A i \in 1..n - 1 : rest[i] = seqs[i + 1]
      /\ \A i \in 1..n : seqs[i] \in Seq(S)
  BY HeadTailProperties, LenProperties, EmptySeq, ElementOfSeq
<1>2. FlattenSeq(seqs) = h \o FlattenSeq(rest)
  <2>1. PICK f : Flattens(seqs, n, f)
    BY <1>1, FlattensExist
  <2>2. FlattenSeq(seqs) = f[n]
    BY <2>1, FlatIs
  <2> HIDE DEF rest, h, n
  <2>3. \A i \in 1..n : f[i] = FlatStep(seqs, f, i)
    BY <2>1 DEF Flattens
  <2>4. rest = <<>> <=> n = 1
    BY <1>1, EmptySeq
  <2>5. CASE n = 1
    <3>1. FlattenSeq(seqs) = h
      BY <1>1, <2>2, <2>3, <2>5 DEF FlatStep
    <3> QED
      BY <1>1, <2>4, <2>5, <3>1, FlatEmpty, ConcatEmptySeq
  <2>6. CASE n # 1
    <3>1. n - 1 \in Nat /\ n - 1 \in 1..n - 1 /\ rest # <<>>
      BY <1>1, <2>4, <2>6
    <3>2. PICK g : Flattens(rest, n - 1, g)
      BY <3>1, FlattensExist
    <3>3. FlattenSeq(rest) = g[n - 1]
      BY <1>1, <3>1, <3>2, FlatIs
    <3>4. \A i \in 1..n - 1 : g[i] = FlatStep(rest, g, i)
      BY <3>2 DEF Flattens
    <3>5. \A i \in 1..n - 1 : g[i] \in Seq(S)
      BY <1>1, <3>2, FlattensIn
    <3> DEFINE Bad == {i \in 1..n - 1 : f[i + 1] # h \o g[i]}
    <3>6. Bad = {}
      <4> SUFFICES ASSUME Bad # {}
                   PROVE  FALSE
        OBVIOUS
      <4>1. PICK i \in Bad : \A j \in Bad : i <= j
        <5>1. Bad \in SUBSET Nat
          BY <3>1
        <5> HIDE DEF Bad
        <5> QED
          BY <5>1, LeastNumber
      <4>2. i \in 1..n - 1 /\ i \in Nat /\ f[i + 1] # h \o g[i]
        OBVIOUS
      <4>3. i + 1 \in 1..n /\ i + 1 # 1 /\ (i + 1) - 1 = i /\ rest[i] = seqs[i + 1]
        BY <1>1, <4>2
      <4>4. f[i + 1] = f[i] \o rest[i] /\ g[i] = FlatStep(rest, g, i)
        BY <2>3, <3>4, <4>2, <4>3 DEF FlatStep
      <4>5. CASE i = 1
        <5>1. f[1] = h /\ g[1] = rest[1]
          BY <1>1, <2>3, <4>4, <4>5 DEF FlatStep
        <5> QED
          BY <4>2, <4>4, <4>5, <5>1
      <4>6. CASE i # 1
        <5> DEFINE k == i - 1
        <5>1. k \in 1..n - 1 /\ k \in Nat /\ ~(i <= k) /\ k + 1 = i
          BY <4>2, <4>6, <1>1
        <5>2. f[k + 1] = h \o g[k]
          <6> HIDE DEF k
          <6> QED
            BY <4>1, <5>1
        <5>3. g[i] = g[k] \o rest[i] /\ rest[i] \in Seq(S)
          BY <1>1, <4>3, <4>4, <4>6 DEF FlatStep
        <5>4. g[k] \in Seq(S)
          BY <3>5, <5>1
        <5> HIDE DEF k
        <5>5. (h \o g[k]) \o rest[i] = h \o (g[k] \o rest[i])
          BY <1>1, <1>0, <5>3, <5>4
        <5> QED
          BY <4>2, <4>4, <5>1, <5>2, <5>3, <5>5
      <4> QED
        BY <4>5, <4>6
    <3>7. f[n] = h \o g[n - 1]
      <4>1. (n - 1) + 1 = n
        BY <1>1
      <4>2. \A i \in 1..n - 1 : f[i + 1] = h \o g[i]
        BY <3>6
      <4> QED
        BY <3>1, <4>1, <4>2
    <3> QED
      BY <2>2, <3>3, <3>7
  <2> QED
    BY <2>5, <2>6
<1> QED
  BY <1>2
=============================================================================

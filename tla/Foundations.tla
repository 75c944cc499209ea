---------------------------- MODULE Foundations -----------------------------
(***************************************************************************)
(* What the proofs of the project need of numbers, sequences and sums.     *)
(*                                                                         *)
(* The induction principle is that a nonempty set of naturals has a least  *)
(* element.  From it come the existence of functions defined by recursion, *)
(* and the facts on the sums of the community modules (SumFunctionOnSet    *)
(* and SumFunction): they are recursive over a set, the order in which it  *)
(* is walked is left to CHOOSE, and that a sum is well defined,            *)
(* independent of the order and monotonic has to be proved.                *)
(***************************************************************************)
EXTENDS Integers, FiniteSets, Functions, Sequences, WellFoundedInduction, FiniteSetTheorems,
        SequenceTheorems, TLAPS

(* Every nonempty set of naturals has a least element. *)
LEMMA LeastNat ==
  ASSUME NEW T, T \subseteq Nat, T # {}
  PROVE  \E n \in T : \A m \in T : n <= m
<1> DEFINE R == OpToRel(<, Nat)
<1>1. IsWellFoundedOn(R, Nat)
  BY NatLessThanWellFounded
<1>2. \A x, y \in Nat : <<x, y>> \in R <=> x < y
  BY DEF OpToRel
<1> HIDE DEF R
<1>3. PICK n \in T : \A y \in T : <<y, n>> \notin R
  BY <1>1, WFMin
<1>4. ASSUME NEW m \in T PROVE n <= m
  <2>1. n \in Nat /\ m \in Nat
    OBVIOUS
  <2>2. ~(m < n)
    BY <1>2, <1>3, <2>1
  <2> QED
    BY <2>1, <2>2
<1> QED
  BY <1>4

(* Induction, for a set instead of a predicate. *)
LEMMA StrongInduction ==
  ASSUME NEW G, \A n \in Nat : (\A m \in 0 .. n - 1 : m \in G) => n \in G
  PROVE  Nat \subseteq G
<1> DEFINE Bad == Nat \ G
<1> SUFFICES ASSUME Bad # {} PROVE FALSE
  OBVIOUS
<1>1. PICK n \in Bad : \A m \in Bad : n <= m
  BY LeastNat
<1>2. \A m \in 0 .. n - 1 : m \in G
  BY <1>1
<1> QED BY <1>2

(* The same from one number to the next. *)
LEMMA StepInduction ==
  ASSUME NEW G, 0 \in G, \A n \in Nat : n \in G => n + 1 \in G
  PROVE  Nat \subseteq G
<1>1. ASSUME NEW n \in Nat, \A m \in 0 .. n - 1 : m \in G PROVE n \in G
  <2>1. CASE n = 0
    BY <2>1
  <2>2. CASE n # 0
    <3>1. n - 1 \in 0 .. n - 1 /\ n - 1 \in Nat /\ (n - 1) + 1 = n
      BY <2>2
    <3> QED BY <1>1, <3>1
  <2> QED BY <2>1, <2>2
<1> QED BY <1>1, StrongInduction

-----------------------------------------------------------------------------
(* Recursion: on D, the value is computed from the one at a smaller        *)
(* number; elsewhere it is given.                                          *)

Recurs(f, N, D, p, b, st) ==
  \A n \in N : f[n] = IF n \in D THEN st[<<n, f[p[n]]>>] ELSE b[n]

IsRecursion(D, p, V, b, st) ==
  /\ D \subseteq Nat
  /\ p \in [D -> Nat] /\ \A n \in D : p[n] < n
  /\ b \in [Nat \ D -> V]
  /\ st \in [D \X V -> V]

(* Two such functions agree where both are defined. *)
LEMMA RecursionUnique ==
  ASSUME NEW D, NEW p, NEW V, NEW b, NEW st, IsRecursion(D, p, V, b, st),
         NEW m \in Nat, NEW n \in Nat,
         NEW f, Recurs(f, 0 .. m, D, p, b, st), NEW g, Recurs(g, 0 .. n, D, p, b, st)
  PROVE  \A k \in Nat : k <= m /\ k <= n => f[k] = g[k]
<1> DEFINE G == {k \in Nat : k <= m /\ k <= n => f[k] = g[k]}
<1>1. ASSUME NEW k \in Nat, \A j \in 0 .. k - 1 : j \in G PROVE k \in G
  <2> SUFFICES ASSUME k <= m, k <= n PROVE f[k] = g[k]
    OBVIOUS
  <2>1. k \in 0 .. m /\ k \in 0 .. n
    OBVIOUS
  <2>2. CASE k \in D
    <3>1. p[k] \in Nat /\ p[k] < k
      BY <2>2 DEF IsRecursion
    <3>2. p[k] \in 0 .. k - 1 /\ p[k] <= m /\ p[k] <= n
      BY <3>1
    <3>3. f[p[k]] = g[p[k]]
      BY <1>1, <3>2
    <3> QED BY <2>1, <2>2, <3>3 DEF Recurs
  <2>3. CASE k \notin D
    BY <2>1, <2>3 DEF Recurs
  <2> QED BY <2>2, <2>3
<1> HIDE DEF G
<1>2. Nat \subseteq G
  BY <1>1, StrongInduction
<1> QED BY <1>2 DEF G

(* It exists up to every bound ... *)
LEMMA RecursionUpTo ==
  ASSUME NEW D, NEW p, NEW V, NEW b, NEW st, IsRecursion(D, p, V, b, st)
  PROVE  \A n \in Nat : \E f \in [0 .. n -> V] : Recurs(f, 0 .. n, D, p, b, st)
<1> DEFINE R(f, n) == f \in [0 .. n -> V] /\ Recurs(f, 0 .. n, D, p, b, st)
           G == {n \in Nat : \E f : R(f, n)}
<1>1. 0 \in G
  <2>1. 0 \notin D
    BY DEF IsRecursion
  <2> DEFINE f == [k \in 0 .. 0 |-> b[0]]
  <2>2. f \in [0 .. 0 -> V] /\ f[0] = b[0]
    BY <2>1 DEF IsRecursion
  <2> HIDE DEF f
  <2>3. \A k \in 0 .. 0 : k = 0
    OBVIOUS
  <2>4. R(f, 0)
    BY <2>1, <2>2, <2>3 DEF Recurs
  <2> QED BY <2>4
<1>2. ASSUME NEW n \in Nat, n \in G PROVE n + 1 \in G
  <2>1. PICK f : R(f, n)
    BY <1>2
  <2> DEFINE x == IF n + 1 \in D THEN st[<<n + 1, f[p[n + 1]]>>] ELSE b[n + 1]
             g == [k \in 0 .. n + 1 |-> IF k = n + 1 THEN x ELSE f[k]]
  <2>2. \A k \in 0 .. n + 1 : k \in D => p[k] \in 0 .. n
    BY DEF IsRecursion
  <2>3. x \in V
    <3>1. CASE n + 1 \in D
      <4>1. f[p[n + 1]] \in V
        BY <2>1, <2>2, <3>1
      <4> QED BY <3>1, <4>1 DEF IsRecursion
    <3>2. CASE n + 1 \notin D
      BY <3>2 DEF IsRecursion
    <3> QED BY <3>1, <3>2
  <2>4. /\ g \in [0 .. n + 1 -> V] /\ g[n + 1] = x
        /\ \A k \in 0 .. n : g[k] = f[k]
    <3> HIDE DEF x
    <3> QED BY <2>1, <2>3
  <2> HIDE DEF g
  <2>5. ASSUME NEW k \in 0 .. n + 1 PROVE g[k] = IF k \in D THEN st[<<k, g[p[k]]>>] ELSE b[k]
    <3>1. k \in D => g[p[k]] = f[p[k]]
      BY <2>2, <2>4
    <3>2. CASE k = n + 1
      BY <2>4, <3>1, <3>2
    <3>3. CASE k # n + 1
      <4>1. k \in 0 .. n
        BY <3>3
      <4> QED BY <2>1, <2>4, <3>1, <4>1 DEF Recurs
    <3> QED BY <3>2, <3>3
  <2>6. R(g, n + 1)
    BY <2>4, <2>5 DEF Recurs
  <2> QED BY <2>6
<1> HIDE DEF G
<1>3. Nat \subseteq G
  BY <1>1, <1>2, StepInduction
<1> QED BY <1>3 DEF G

(* ... and on all naturals. *)
LEMMA RecursionExists ==
  ASSUME NEW D, NEW p, NEW V, NEW b, NEW st, IsRecursion(D, p, V, b, st)
  PROVE  \E f \in [Nat -> V] : Recurs(f, Nat, D, p, b, st)
<1> DEFINE R(f, n) == f \in [0 .. n -> V] /\ Recurs(f, 0 .. n, D, p, b, st)
           C(n) == CHOOSE f : R(f, n)
           F == [n \in Nat |-> C(n)[n]]
<1>1. ASSUME NEW n \in Nat PROVE R(C(n), n)
  <2>1. \E f : R(f, n)
    BY RecursionUpTo
  <2> QED BY <2>1
<1>2. F \in [Nat -> V]
  <2>1. \A n \in Nat : C(n)[n] \in V
    BY <1>1
  <2> HIDE DEF C
  <2> QED BY <2>1
<1>3. ASSUME NEW n \in Nat PROVE F[n] = IF n \in D THEN st[<<n, F[p[n]]>>] ELSE b[n]
  <2>1. F[n] = C(n)[n] /\ \A m \in Nat : F[m] = C(m)[m]
    OBVIOUS
  <2> HIDE DEF F, C
  <2>2. C(n)[n] = IF n \in D THEN st[<<n, C(n)[p[n]]>>] ELSE b[n]
    BY <1>1 DEF Recurs
  <2>3. CASE n \in D
    <3>1. p[n] \in Nat /\ p[n] < n
      BY <2>3 DEF IsRecursion
    <3>2. R(C(n), n) /\ R(C(p[n]), p[n])
      BY <1>1, <3>1
    <3> DEFINE m == p[n]
    <3>3. m <= m /\ m <= n /\ m \in Nat
      BY <3>1
    <3> HIDE DEF m
    <3>4. C(n)[m] = C(m)[m]
      BY <3>2, <3>3, RecursionUnique DEF m
    <3> QED BY <2>1, <2>2, <2>3, <3>1, <3>4 DEF m
  <2>4. CASE n \notin D
    BY <2>1, <2>2, <2>4
  <2> QED BY <2>3, <2>4
<1> HIDE DEF F
<1> QED BY <1>2, <1>3 DEF Recurs

(* n steps, each made with its number. *)
IsSteps(f, n, V, start, st) ==
  /\ f \in [0 .. n -> V]
  /\ f = [k \in 0 .. n |-> IF k = 0 THEN start ELSE st[<<k, f[k - 1]>>]]

(* Such a recursion exists. *)
LEMMA StepsExist ==
  ASSUME NEW n \in Nat, NEW V, NEW start \in V, NEW st, st \in [(1 .. n) \X V -> V]
  PROVE  \E f : IsSteps(f, n, V, start, st)
<1> DEFINE D == 1 .. n
           p == [k \in D |-> k - 1]
           b == [k \in Nat \ D |-> start]
<1>1. IsRecursion(D, p, V, b, st)
  <2>1. D \subseteq Nat /\ p \in [D -> Nat] /\ (\A k \in D : p[k] < k) /\ b \in [Nat \ D -> V]
    OBVIOUS
  <2> HIDE DEF p, b
  <2> QED BY <2>1 DEF IsRecursion
<1>2. PICK F \in [Nat -> V] : Recurs(F, Nat, D, p, b, st)
  <2> HIDE DEF D, p, b
  <2> QED BY <1>1, RecursionExists
<1>3. PICK f : f = [k \in 0 .. n |-> F[k]]
  OBVIOUS
<1>4. f \in [0 .. n -> V]
  BY <1>2, <1>3
<1>5. ASSUME NEW k \in 0 .. n PROVE f[k] = IF k = 0 THEN start ELSE st[<<k, f[k - 1]>>]
  <2>1. F[k] = IF k \in D THEN st[<<k, F[p[k]]>>] ELSE b[k]
    BY <1>2 DEF Recurs
  <2>2. CASE k = 0
    BY <1>3, <2>1, <2>2
  <2>3. CASE k # 0
    <3>1. k \in D /\ p[k] = k - 1 /\ k - 1 \in 0 .. n
      BY <2>3
    <3> QED BY <1>3, <2>1, <2>3, <3>1
  <2> QED BY <2>2, <2>3
<1>6. f = [k \in 0 .. n |-> f[k]]
  BY <1>3
<1>7. f = [k \in 0 .. n |-> IF k = 0 THEN start ELSE st[<<k, f[k - 1]>>]]
  BY <1>5, <1>6
<1> QED BY <1>4, <1>7 DEF IsSteps

-----------------------------------------------------------------------------
(* Powers of two, as the sizes of power sets *)

(* The power set of n things. *)
LEMMA PowerSet ==
  ASSUME NEW n \in Nat
  PROVE  IsFiniteSet(SUBSET (1 .. n)) /\ Cardinality(SUBSET (1 .. n)) = 2 ^ n
<1>1. IsFiniteSet(1 .. n) /\ Cardinality(1 .. n) = n
  <2>1. /\ IsFiniteSet(1 .. n)
        /\ Cardinality(1 .. n) = IF 1 > n THEN 0 ELSE n - 1 + 1
    BY FS_Interval
  <2> QED BY <2>1
<1>2. IsFiniteSet(SUBSET (1 .. n)) /\ Cardinality(SUBSET (1 .. n)) = 2 ^ Cardinality(1 .. n)
  BY <1>1, FS_SUBSET
<1> QED BY <1>1, <1>2

(* A word has at least one value. *)
LEMMA PowerType == ASSUME NEW n \in Nat PROVE 2 ^ n \in Nat \ {0}
<1> DEFINE P == SUBSET (1 .. n)
<1>1. IsFiniteSet(P) /\ Cardinality(P) = 2 ^ n /\ P # {}
  BY PowerSet
<1> HIDE DEF P
<1>2. Cardinality(P) \in Nat /\ Cardinality(P) # 0
  BY <1>1, FS_CardinalityType, FS_EmptySet
<1> QED BY <1>1, <1>2

(* One more bit doubles the values. *)
LEMMA PowerDouble == ASSUME NEW n \in Nat PROVE 2 ^ (n + 1) = 2 ^ n + 2 ^ n
<1> DEFINE A == SUBSET (1 .. n)
           B == {s \cup {n + 1} : s \in A}
           C == SUBSET (1 .. n + 1)
           f == [s \in A |-> s \cup {n + 1}]
<1>1. IsFiniteSet(A) /\ Cardinality(A) = 2 ^ n
  BY PowerSet
<1>2. Cardinality(C) = 2 ^ (n + 1)
  BY PowerSet
<1>3. A \cap B = {}
  BY n + 1 \notin 1 .. n
<1>4. A \cup B = C
  <2>1. 1 .. n + 1 = (1 .. n) \cup {n + 1}
    OBVIOUS
  <2>2. \A s \in C : n + 1 \notin s => s \in A
    BY <2>1
  <2>3. ASSUME NEW s \in C, n + 1 \in s PROVE s \in B
    <3>1. s \ {n + 1} \in A /\ s = (s \ {n + 1}) \cup {n + 1}
      BY <2>1, <2>3
    <3> QED BY <3>1
  <2>4. A \subseteq C /\ B \subseteq C
    BY <2>1
  <2> QED BY <2>2, <2>3, <2>4
<1>5. ExistsBijection(A, B)
  <2>1. f \in [A -> B]
    OBVIOUS
  <2>2. \A s, t \in A : f[s] = f[t] => s = t
    <3>1. \A s \in A : f[s] \ {n + 1} = s
      BY n + 1 \notin 1 .. n
    <3> HIDE DEF f, A
    <3> QED BY <3>1
  <2>3. \A t \in B : \E s \in A : f[s] = t
    OBVIOUS
  <2> HIDE DEF f, A, B
  <2> QED BY <2>1, <2>2, <2>3 DEF ExistsBijection, Bijection, Injection, Surjection, IsInjective
<1> HIDE DEF A, B, C
<1>6. IsFiniteSet(B) /\ Cardinality(B) = 2 ^ n
  BY <1>1, <1>5, FS_Bijection
<1>7. Cardinality(A \cup B) = Cardinality(A) + Cardinality(B) - Cardinality({})
  BY <1>1, <1>3, <1>6, FS_Union
<1>8. Cardinality({}) = 0 /\ 2 ^ n \in Nat
  BY FS_EmptySet, PowerType
<1> QED BY <1>1, <1>2, <1>4, <1>6, <1>7, <1>8

(* No bits, one value. *)
LEMMA PowerZero == 2 ^ 0 = 1
<1>1. Cardinality(SUBSET (1 .. 0)) = 2 ^ 0
  BY PowerSet
<1>2. 1 .. 0 = {}
  OBVIOUS
<1>3. SUBSET (1 .. 0) = {{}}
  BY <1>2
<1>4. Cardinality({{}}) = 1
  BY FS_Singleton
<1> QED BY <1>1, <1>3, <1>4

(* Seven bits more. *)
LEMMA PowerSeven == ASSUME NEW n \in Nat PROVE 2 ^ (n + 7) = 128 * 2 ^ n
<1>1. \A k \in Nat : 2 ^ k \in Nat /\ 2 ^ (k + 1) = 2 ^ k + 2 ^ k
  BY PowerType, PowerDouble
<1> DEFINE P(k) == 2 ^ (n + k)
<1>2. P(0) = 2 ^ n
  OBVIOUS
<1>3. \A k \in 0 .. 6 : P(k) \in Nat /\ P(k + 1) = P(k) + P(k)
  <2>1. \A k \in 0 .. 6 : n + k \in Nat /\ (n + k) + 1 = n + (k + 1)
    OBVIOUS
  <2> QED BY <1>1, <2>1
<1> HIDE DEF P
<1>4. P(1) = P(0) + P(0) /\ P(2) = P(1) + P(1) /\ P(3) = P(2) + P(2) /\ P(4) = P(3) + P(3)
      /\ P(5) = P(4) + P(4) /\ P(6) = P(5) + P(5) /\ P(7) = P(6) + P(6) /\ P(0) \in Nat
  <2>1. 0 \in 0 .. 6 /\ 1 \in 0 .. 6 /\ 2 \in 0 .. 6 /\ 3 \in 0 .. 6 /\ 4 \in 0 .. 6 /\ 5 \in 0 .. 6 /\ 6 \in 0 .. 6
    OBVIOUS
  <2>2. 0 + 1 = 1 /\ 1 + 1 = 2 /\ 2 + 1 = 3 /\ 3 + 1 = 4 /\ 4 + 1 = 5 /\ 5 + 1 = 6 /\ 6 + 1 = 7
    OBVIOUS
  <2> QED BY <1>3, <2>1, <2>2
<1>5. P(7) = 128 * P(0)
  BY <1>4
<1> QED BY <1>2, <1>5 DEF P

(* More bits, more values. *)
LEMMA PowerMonotonic == ASSUME NEW m \in Nat, NEW n \in Nat, m <= n PROVE 2 ^ m <= 2 ^ n
<1> DEFINE G == {k \in Nat : 2 ^ m <= 2 ^ (m + k)}
<1>1. 0 \in G
  BY PowerType
<1>2. ASSUME NEW k \in Nat, k \in G PROVE k + 1 \in G
  <2>1. m + k \in Nat /\ (m + k) + 1 = m + (k + 1)
    OBVIOUS
  <2> DEFINE a == 2 ^ m  b == 2 ^ (m + k)  c == 2 ^ (m + (k + 1))
  <2>2. a \in Nat /\ b \in Nat /\ c = b + b /\ a <= b
    BY <1>2, <2>1, PowerType, PowerDouble
  <2> HIDE DEF a, b, c
  <2>3. a <= c
    BY <2>2
  <2> QED BY <2>3 DEF a, c
<1> HIDE DEF G
<1>3. Nat \subseteq G
  BY <1>1, <1>2, StepInduction
<1>4. n - m \in Nat /\ m + (n - m) = n
  OBVIOUS
<1> QED BY <1>3, <1>4 DEF G

-----------------------------------------------------------------------------
(* Sequences *)

Starts(K, s) == Len(s) <= Len(K) /\ \A i \in 1 .. Len(s) : K[i] = s[i]

(* A sequence starts with its first part, *)
LEMMA StartsWithPart ==
  ASSUME NEW S, NEW s \in Seq(S), NEW t \in Seq(S)
  PROVE  Starts(s \o t, s)
<1>1. Len(s) \in Nat /\ Len(t) \in Nat
  BY LenProperties
<1> QED BY <1>1, ConcatProperties DEF Starts

(* and with the first part of that. *)
LEMMA StartsTransitive ==
  ASSUME NEW S, NEW s \in Seq(S), NEW t \in Seq(S), NEW u \in Seq(S), Starts(u, t), Starts(t, s)
  PROVE  Starts(u, s)
<1>1. Len(s) \in Nat /\ Len(t) \in Nat /\ Len(u) \in Nat
  BY LenProperties
<1> QED BY <1>1 DEF Starts

(* A part is what the slice between its ends holds. *)
LEMMA SliceOfPart ==
  ASSUME NEW S, NEW K \in Seq(S), NEW s \in Seq(S), NEW t \in Seq(S), Starts(K, s \o t)
  PROVE  SubSeq(K, Len(s) + 1, Len(s) + Len(t)) = t
<1>1. /\ Len(s) \in Nat /\ Len(t) \in Nat /\ Len(K) \in Nat
      /\ s \o t \in Seq(S) /\ Len(s \o t) = Len(s) + Len(t)
      /\ \A i \in 1 .. Len(t) : (s \o t)[Len(s) + i] = t[i]
  BY ConcatProperties, LenProperties
<1> DEFINE m == Len(s) + 1
           n == Len(s) + Len(t)
<1>2. n <= Len(K) /\ \A i \in 1 .. Len(t) : K[Len(s) + i] = t[i]
  BY <1>1 DEF Starts
<1>3. \A i \in m .. n : K[i] \in S
  BY <1>1, <1>2, ElementOfSeq
<1>4. /\ SubSeq(K, m, n) \in Seq(S) /\ Len(SubSeq(K, m, n)) = Len(t)
      /\ \A i \in 1 .. n - m + 1 : SubSeq(K, m, n)[i] = K[m + i - 1]
  BY <1>1, <1>3, SubSeqProperties
<1>5. \A i \in 1 .. Len(t) : SubSeq(K, m, n)[i] = t[i]
  BY <1>1, <1>2, <1>4
<1> QED BY <1>4, <1>5, SeqEqual

-----------------------------------------------------------------------------
(* Finite sets *)

(* Removing an element from a finite set. *)
LEMMA RemoveOne ==
  ASSUME NEW S, IsFiniteSet(S), NEW x \in S
  PROVE  /\ IsFiniteSet(S \ {x})
         /\ Cardinality(S) \in Nat /\ Cardinality(S \ {x}) \in Nat
         /\ Cardinality(S \ {x}) < Cardinality(S)
<1>1. IsFiniteSet(S \ {x}) /\ Cardinality(S \ {x}) = Cardinality(S) - 1
  BY FS_RemoveElement
<1>2. Cardinality(S) \in Nat /\ Cardinality(S \ {x}) \in Nat
  BY <1>1, FS_CardinalityType
<1> QED
  BY <1>1, <1>2

-----------------------------------------------------------------------------
(* The recursion behind a sum *)

Pick(s) == CHOOSE x \in s : TRUE

SumStep(f, it, s) == IF s = {} THEN 0 ELSE f[Pick(s)] + it[s \ {Pick(s)}]

IsIter(it, f, D) == it = [s \in D |-> SumStep(f, it, s)]

IsIterOn(it, f, S) == IsIter(it, f, SUBSET S)

(* The element that is picked. *)
LEMMA PickIn == ASSUME NEW S, S # {} PROVE Pick(S) \in S
BY DEF Pick

(* The sum is defined by an iteration over the subsets. *)
LEMMA SumIsIter ==
  ASSUME NEW f, NEW S
  PROVE  SumFunctionOnSet(f, S) = (CHOOSE it : IsIter(it, f, SUBSET S))[S]
BY DEF SumFunctionOnSet, FoldFunctionOnSet, MapThenFoldSet, IsIter, SumStep, Pick

(* The recursive function exists: it is built up by cardinality. *)
LEMMA IterExists ==
  ASSUME NEW f, NEW S, IsFiniteSet(S)
  PROVE  \E it : IsIter(it, f, SUBSET S)
<1> DEFINE D(n) == {s \in SUBSET S : Cardinality(s) <= n}
           Bad  == {n \in Nat : ~\E it : IsIter(it, f, D(n))}
<1>1. ASSUME NEW s \in SUBSET S
      PROVE  IsFiniteSet(s) /\ Cardinality(s) \in Nat
  BY FS_Subset, FS_CardinalityType
<1>2. Bad = {}
  <2> SUFFICES ASSUME Bad # {} PROVE FALSE
    OBVIOUS
  <2>1. PICK n \in Bad : \A m \in Bad : n <= m
    <3>1. Bad \subseteq Nat
      OBVIOUS
    <3> HIDE DEF Bad
    <3> QED
      BY <3>1, LeastNat
  <2>2. n \in Nat /\ ~\E it : IsIter(it, f, D(n))
    OBVIOUS
  <2>3. CASE n = 0
    <3>1. \A s \in D(n) : s = {}
      <4> SUFFICES ASSUME NEW s \in D(n), s # {} PROVE FALSE
        OBVIOUS
      <4>1. s \in SUBSET S /\ IsFiniteSet(s) /\ Cardinality(s) \in Nat /\ Cardinality(s) <= 0
        BY <1>1, <2>3
      <4>2. PICK x \in s : TRUE
        OBVIOUS
      <4>3. Cardinality(s \ {x}) \in Nat /\ Cardinality(s \ {x}) < Cardinality(s)
        BY <4>1, <4>2, RemoveOne
      <4> QED
        BY <4>1, <4>3
    <3>2. IsIter([s \in D(n) |-> 0], f, D(n))
      BY <3>1 DEF IsIter, SumStep
    <3> QED
      BY <2>2, <3>2
  <2>4. CASE n # 0
    <3>1. n - 1 \in Nat /\ n - 1 \notin Bad
      <4>1. n - 1 \in Nat /\ ~(n <= n - 1)
        BY <2>2, <2>4
      <4> HIDE DEF Bad
      <4> QED
        BY <2>1, <4>1
    <3>2. PICK g : IsIter(g, f, D(n - 1))
      BY <3>1
    <3> DEFINE it == [s \in D(n) |-> SumStep(f, g, s)]
    <3>3. ASSUME NEW s \in D(n), s # {}
          PROVE  s \ {Pick(s)} \in D(n - 1) /\ s \ {Pick(s)} \in D(n)
      <4>1. Pick(s) \in s
        BY <3>3, PickIn
      <4>2. s \in SUBSET S /\ IsFiniteSet(s) /\ Cardinality(s) \in Nat /\ Cardinality(s) <= n
        BY <1>1
      <4>3. Cardinality(s \ {Pick(s)}) \in Nat /\ Cardinality(s \ {Pick(s)}) < Cardinality(s)
        BY <4>1, <4>2, RemoveOne
      <4>4. Cardinality(s \ {Pick(s)}) <= n - 1 /\ Cardinality(s \ {Pick(s)}) <= n
        BY <2>2, <4>2, <4>3
      <4> QED
        BY <4>2, <4>4
    <3>4. ASSUME NEW s \in D(n - 1) PROVE s \in D(n) /\ g[s] = SumStep(f, g, s) /\ it[s] = g[s]
      <4>1. s \in D(n)
        BY <1>1, <2>2
      <4>2. g[s] = SumStep(f, g, s)
        BY <3>2 DEF IsIter
      <4> QED
        BY <4>1, <4>2
    <3>5. ASSUME NEW s \in D(n) PROVE SumStep(f, g, s) = SumStep(f, it, s)
      <4>1. CASE s = {}
        BY <4>1 DEF SumStep
      <4>2. CASE s # {}
        <5>1. it[s \ {Pick(s)}] = g[s \ {Pick(s)}]
          BY <3>3, <3>4, <4>2
        <5> HIDE DEF it
        <5> QED
          BY <4>2, <5>1 DEF SumStep
      <4> QED
        BY <4>1, <4>2
    <3>6. it = [s \in D(n) |-> SumStep(f, it, s)]
      <4> DEFINE jt == [s \in D(n) |-> SumStep(f, it, s)]
      <4>1. DOMAIN it = D(n) /\ DOMAIN jt = D(n) /\ \A s \in D(n) : it[s] = jt[s]
        BY <3>5
      <4> QED
        BY <4>1
    <3> QED
      BY <2>2, <3>6 DEF IsIter
  <2> QED
    BY <2>3, <2>4
<1>3. Cardinality(S) \in Nat /\ D(Cardinality(S)) = SUBSET S
  <2>1. \A s \in SUBSET S : Cardinality(s) <= Cardinality(S)
    BY FS_Subset
  <2> QED
    BY <2>1, FS_CardinalityType
<1>4. \E it : IsIter(it, f, D(Cardinality(S)))
  BY <1>2, <1>3
<1> QED
  BY <1>3, <1>4

(* The function for a larger set gives the sums of all its subsets. *)
LEMMA IterOfSubset ==
  ASSUME NEW f, NEW S, IsFiniteSet(S), NEW R, R \subseteq S,
         NEW it, IsIterOn(it, f, S), NEW jt, IsIterOn(jt, f, R)
  PROVE  it[R] = jt[R]
<1> DEFINE Bad  == {s \in SUBSET R : it[s] # jt[s]}
           Size == {Cardinality(s) : s \in Bad}
<1>1. ASSUME NEW s \in SUBSET R
      PROVE  IsFiniteSet(s) /\ Cardinality(s) \in Nat /\ s \in SUBSET S
  BY FS_Subset, FS_CardinalityType
<1>2. Bad = {}
  <2> SUFFICES ASSUME Bad # {} PROVE FALSE
    OBVIOUS
  <2>1. Size \subseteq Nat /\ Size # {}
    BY <1>1
  <2>2. PICK n \in Size : \A m \in Size : n <= m
    <3> HIDE DEF Size
    <3> QED
      BY <2>1, LeastNat
  <2>3. PICK s \in Bad : n = Cardinality(s)
    OBVIOUS
  <2>4. \A r \in Bad : Cardinality(s) <= Cardinality(r)
    BY <2>2, <2>3
  <2>5. s \in SUBSET R /\ s \in SUBSET S /\ it[s] # jt[s]
    BY <1>1
  <2>6. it[s] = SumStep(f, it, s) /\ jt[s] = SumStep(f, jt, s)
    BY <2>5 DEF IsIter, IsIterOn
  <2>7. s # {}
    BY <2>5, <2>6 DEF SumStep
  <2>8. Pick(s) \in s
    BY <2>7, PickIn
  <2>9. Cardinality(s \ {Pick(s)}) \in Nat /\ Cardinality(s \ {Pick(s)}) < Cardinality(s)
    BY <1>1, <2>5, <2>8, RemoveOne
  <2>10. s \ {Pick(s)} \notin Bad
    <3> HIDE DEF Bad
    <3> QED
      BY <1>1, <2>4, <2>5, <2>9
  <2>11. it[s \ {Pick(s)}] = jt[s \ {Pick(s)}]
    BY <2>5, <2>10
  <2> QED
    BY <2>5, <2>6, <2>7, <2>11 DEF SumStep
<1> QED
  BY <1>2

(* The recursion, for the sums themselves. *)
LEMMA SumUnfold ==
  ASSUME NEW f, NEW S, IsFiniteSet(S)
  PROVE  /\ S = {} => SumFunctionOnSet(f, S) = 0
         /\ S # {} => SumFunctionOnSet(f, S) = f[Pick(S)] + SumFunctionOnSet(f, S \ {Pick(S)})
<1> DEFINE R == S \ {Pick(S)}
<1>1. IsFiniteSet(R) /\ R \subseteq S
  BY FS_Subset
<1>2. S \ {Pick(S)} = R
  OBVIOUS
<1> HIDE DEF R
<1>3. PICK it : IsIterOn(it, f, S) /\ SumFunctionOnSet(f, S) = it[S]
  BY IterExists, SumIsIter DEF IsIterOn
<1>4. PICK jt : IsIterOn(jt, f, R) /\ SumFunctionOnSet(f, R) = jt[R]
  BY <1>1, IterExists, SumIsIter DEF IsIterOn
<1>5. it[R] = jt[R]
  BY <1>1, <1>3, <1>4, IterOfSubset
<1>6. it[S] = SumStep(f, it, S)
  BY <1>3 DEF IsIter, IsIterOn
<1> QED
  BY <1>2, <1>3, <1>4, <1>5, <1>6 DEF SumStep

-----------------------------------------------------------------------------
(* What the other proofs use *)

(* A sum of integers is an integer, and its terms can be taken out in any  *)
(* order.                                                                  *)
LEMMA SumFacts ==
  ASSUME NEW f, NEW S, IsFiniteSet(S), \A x \in S : f[x] \in Int
  PROVE  /\ SumFunctionOnSet(f, S) \in Int
         /\ \A x \in S : SumFunctionOnSet(f, S) = f[x] + SumFunctionOnSet(f, S \ {x})
<1> DEFINE Sum(s)  == SumFunctionOnSet(f, s)
           Good(s) == Sum(s) \in Int /\ \A x \in s : Sum(s) = f[x] + Sum(s \ {x})
           Bad  == {s \in SUBSET S : ~Good(s)}
           Size == {Cardinality(s) : s \in Bad}
<1>1. ASSUME NEW s \in SUBSET S
      PROVE  IsFiniteSet(s) /\ Cardinality(s) \in Nat
  BY FS_Subset, FS_CardinalityType
<1>2. Bad = {}
  <2> SUFFICES ASSUME Bad # {} PROVE FALSE
    OBVIOUS
  <2>1. Size \subseteq Nat /\ Size # {}
    BY <1>1
  <2>2. PICK n \in Size : \A m \in Size : n <= m
    <3> HIDE DEF Size
    <3> QED
      BY <2>1, LeastNat
  <2>3. PICK s \in Bad : n = Cardinality(s)
    OBVIOUS
  <2>4. \A r \in Bad : Cardinality(s) <= Cardinality(r)
    BY <2>2, <2>3
  <2>5. s \in SUBSET S /\ ~Good(s)
    OBVIOUS
  <2>6. ASSUME NEW r \in SUBSET s, Cardinality(r) < Cardinality(s) PROVE Good(r)
    <3>1. r \in SUBSET S /\ Cardinality(r) \in Nat /\ Cardinality(s) \in Nat
      BY <1>1, <2>5
    <3>2. ~(Cardinality(s) <= Cardinality(r))
      BY <2>6, <3>1
    <3>3. r \notin Bad
      <4> HIDE DEF Bad
      <4> QED
        BY <2>4, <3>2
    <3> HIDE DEF Good
    <3> QED
      BY <3>1, <3>3
  <2>7. ASSUME NEW x \in s PROVE Good(s \ {x}) /\ IsFiniteSet(s \ {x})
    <3>1. Cardinality(s \ {x}) < Cardinality(s) /\ IsFiniteSet(s \ {x})
      BY <1>1, <2>5, RemoveOne
    <3> HIDE DEF Good
    <3> QED
      BY <2>6, <3>1
  <2>8. s = {} => Sum(s) = 0
    BY <1>1, <2>5, SumUnfold
  <2>9. s # {}
    <3> HIDE DEF Sum
    <3> QED
      BY <2>5, <2>8
  <2> DEFINE p == Pick(s)
  <2>10. p \in s
    BY <2>9, PickIn
  <2>11. Sum(s) = f[p] + Sum(s \ {p})
    BY <1>1, <2>5, <2>9, SumUnfold
  <2> HIDE DEF Sum, p
  <2>12. f[p] \in Int /\ Sum(s \ {p}) \in Int
    BY <2>5, <2>7, <2>10
  <2>13. Sum(s) \in Int
    BY <2>11, <2>12
  <2>14. ASSUME NEW x \in s PROVE Sum(s) = f[x] + Sum(s \ {x})
    <3>1. CASE x = p
      BY <2>11, <3>1
    <3>2. CASE x # p
      <4>1. x \in s \ {p} /\ p \in s \ {x}
        BY <2>10, <3>2
      <4>2. Sum(s \ {p}) = f[x] + Sum((s \ {p}) \ {x})
        BY <2>7, <2>10, <4>1
      <4>3. Sum(s \ {x}) = f[p] + Sum((s \ {x}) \ {p})
        BY <2>7, <4>1
      <4>4. (s \ {p}) \ {x} = (s \ {x}) \ {p}
        OBVIOUS
      <4>5. (s \ {x}) \ {p} \in SUBSET s /\ f[x] \in Int
        BY <2>5
      <4>6. Sum((s \ {x}) \ {p}) \in Int
        <5>1. Cardinality((s \ {x}) \ {p}) < Cardinality(s \ {x})
              /\ Cardinality(s \ {x}) < Cardinality(s)
              /\ Cardinality((s \ {x}) \ {p}) \in Nat /\ Cardinality(s \ {x}) \in Nat
              /\ Cardinality(s) \in Nat
          BY <1>1, <2>5, <2>7, <4>1, RemoveOne
        <5>2. Cardinality((s \ {x}) \ {p}) < Cardinality(s)
          BY <5>1
        <5>3. Good((s \ {x}) \ {p})
          BY <2>6, <4>5, <5>2
        <5> QED
          BY <5>3
      <4>7. Sum(s \ {p}) = f[x] + Sum((s \ {x}) \ {p})
        BY <4>2, <4>4
      <4> HIDE DEF Good, Bad
      <4> QED
        BY <2>11, <2>12, <4>3, <4>5, <4>6, <4>7
    <3> QED
      BY <3>1, <3>2
  <2> QED
    BY <2>5, <2>13, <2>14
<1>3. Good(S)
  BY <1>2
<1> QED
  BY <1>3

(* An empty sum. *)
LEMMA SumEmpty == ASSUME NEW f PROVE SumFunctionOnSet(f, {}) = 0
BY SumUnfold, FS_EmptySet

(* Induction over a finite set, with the sets that have the property as a  *)
(* set G.                                                                  *)
LEMMA FiniteInduction ==
  ASSUME NEW S, IsFiniteSet(S), NEW G, {} \in G,
         \A s \in SUBSET S : (\E x \in s : s \ {x} \in G) => s \in G
  PROVE  S \in G
<1> DEFINE Bad  == {s \in SUBSET S : s \notin G}
           Size == {Cardinality(s) : s \in Bad}
<1>1. ASSUME NEW s \in SUBSET S
      PROVE  IsFiniteSet(s) /\ Cardinality(s) \in Nat
  BY FS_Subset, FS_CardinalityType
<1>2. Bad = {}
  <2> SUFFICES ASSUME Bad # {} PROVE FALSE
    OBVIOUS
  <2>1. Size \subseteq Nat /\ Size # {}
    BY <1>1
  <2>2. PICK n \in Size : \A m \in Size : n <= m
    <3> HIDE DEF Size
    <3> QED
      BY <2>1, LeastNat
  <2>3. PICK s \in Bad : n = Cardinality(s)
    OBVIOUS
  <2>4. \A r \in Bad : Cardinality(s) <= Cardinality(r)
    BY <2>2, <2>3
  <2>5. PICK x \in s : TRUE
    <3>1. s # {}
      OBVIOUS
    <3> QED
      BY <3>1
  <2>6. Cardinality(s \ {x}) \in Nat /\ Cardinality(s \ {x}) < Cardinality(s)
        /\ Cardinality(s) \in Nat /\ s \ {x} \in SUBSET S
    BY <1>1, RemoveOne
  <2>7. s \ {x} \notin Bad
    <3>1. ~(Cardinality(s) <= Cardinality(s \ {x}))
      BY <2>6
    <3> HIDE DEF Bad
    <3> QED
      BY <2>4, <3>1
  <2> QED
    BY <2>6, <2>7
<1> QED
  BY <1>2

(* Sums are monotonic; the sum over the same terms is the same.            *)
LEMMA SumMonotonic ==
  ASSUME NEW f, NEW g, NEW S, IsFiniteSet(S),
         \A x \in S : f[x] \in Int /\ g[x] \in Int /\ f[x] <= g[x]
  PROVE  SumFunctionOnSet(f, S) <= SumFunctionOnSet(g, S)
<1> DEFINE F(s) == SumFunctionOnSet(f, s)
           H(s) == SumFunctionOnSet(g, s)
           G    == {s \in SUBSET S : F(s) <= H(s)}
<1>1. F({}) = 0 /\ H({}) = 0
  BY SumEmpty
<1>2. ASSUME NEW s \in SUBSET S, NEW x \in s, s \ {x} \in G PROVE s \in G
  <2>1. IsFiniteSet(s) /\ IsFiniteSet(s \ {x})
    BY FS_Subset
  <2>2. F(s) = f[x] + F(s \ {x}) /\ F(s \ {x}) \in Int
    BY <2>1, SumFacts
  <2>3. H(s) = g[x] + H(s \ {x}) /\ H(s \ {x}) \in Int
    BY <2>1, SumFacts
  <2>4. F(s \ {x}) <= H(s \ {x}) /\ f[x] \in Int /\ g[x] \in Int /\ f[x] <= g[x]
    BY <1>2
  <2> HIDE DEF F, H
  <2>5. F(s) <= H(s)
    BY <2>2, <2>3, <2>4
  <2> QED
    BY <2>5
<1> HIDE DEF F, H
<1>3. {} \in G
  BY <1>1
<1> HIDE DEF G
<1>4. S \in G
  BY <1>2, <1>3, FiniteInduction
<1> QED
  BY <1>4 DEF G, F, H

(* Terms bounded by two others, the sum bounded by two other sums.         *)
LEMMA SumOfTwo ==
  ASSUME NEW f, NEW g, NEW h, NEW S, IsFiniteSet(S),
         \A x \in S : f[x] \in Int /\ g[x] \in Int /\ h[x] \in Int /\ h[x] <= f[x] + g[x]
  PROVE  SumFunctionOnSet(h, S) <= SumFunctionOnSet(f, S) + SumFunctionOnSet(g, S)
<1> DEFINE A(s) == SumFunctionOnSet(f, s)
           B(s) == SumFunctionOnSet(g, s)
           C(s) == SumFunctionOnSet(h, s)
           G    == {s \in SUBSET S : C(s) <= A(s) + B(s)}
<1>1. A({}) = 0 /\ B({}) = 0 /\ C({}) = 0
  BY SumEmpty
<1>2. ASSUME NEW s \in SUBSET S, NEW x \in s, s \ {x} \in G PROVE s \in G
  <2>1. IsFiniteSet(s) /\ IsFiniteSet(s \ {x})
    BY FS_Subset
  <2>2. A(s) = f[x] + A(s \ {x}) /\ A(s \ {x}) \in Int
    BY <2>1, SumFacts
  <2>3. B(s) = g[x] + B(s \ {x}) /\ B(s \ {x}) \in Int
    BY <2>1, SumFacts
  <2>4. C(s) = h[x] + C(s \ {x}) /\ C(s \ {x}) \in Int
    BY <2>1, SumFacts
  <2>5. /\ C(s \ {x}) <= A(s \ {x}) + B(s \ {x})
        /\ f[x] \in Int /\ g[x] \in Int /\ h[x] \in Int /\ h[x] <= f[x] + g[x]
    BY <1>2
  <2> HIDE DEF A, B, C
  <2>6. C(s) <= A(s) + B(s)
    BY <2>2, <2>3, <2>4, <2>5
  <2> QED
    BY <2>6
<1> HIDE DEF A, B, C
<1>3. {} \in G
  BY <1>1
<1> HIDE DEF G
<1>4. S \in G
  BY <1>2, <1>3, FiniteInduction
<1> QED
  BY <1>4 DEF G, A, B, C

(* Equal terms, equal sums. *)
LEMMA SumSame ==
  ASSUME NEW f, NEW g, NEW S, IsFiniteSet(S),
         \A x \in S : f[x] \in Int /\ f[x] = g[x]
  PROVE  SumFunctionOnSet(f, S) = SumFunctionOnSet(g, S)
<1>1. SumFunctionOnSet(f, S) \in Int /\ SumFunctionOnSet(g, S) \in Int
  BY SumFacts
<1>2. SumFunctionOnSet(f, S) <= SumFunctionOnSet(g, S)
  BY SumMonotonic
<1>3. SumFunctionOnSet(g, S) <= SumFunctionOnSet(f, S)
  BY SumMonotonic
<1> QED
  BY <1>1, <1>2, <1>3

(* The sum of naturals is a natural. *)
LEMMA SumNat ==
  ASSUME NEW f, NEW S, IsFiniteSet(S), \A x \in S : f[x] \in Nat
  PROVE  SumFunctionOnSet(f, S) \in Nat
<1> DEFINE G == {s \in SUBSET S : SumFunctionOnSet(f, s) \in Nat}
<1>1. {} \in G
  BY SumEmpty
<1>2. ASSUME NEW s \in SUBSET S, NEW x \in s, s \ {x} \in G PROVE s \in G
  <2>1. IsFiniteSet(s)
    BY FS_Subset
  <2>2. SumFunctionOnSet(f, s) = f[x] + SumFunctionOnSet(f, s \ {x})
    BY <2>1, SumFacts
  <2>3. SumFunctionOnSet(f, s \ {x}) \in Nat /\ f[x] \in Nat
    BY <1>2
  <2> QED
    BY <2>2, <2>3
<1> HIDE DEF G
<1>3. S \in G
  BY <1>1, <1>2, FiniteInduction
<1> QED
  BY <1>3 DEF G

(* A sum over one set where one term is changed and all others are kept.   *)
LEMMA SumChange ==
  ASSUME NEW f, NEW g, NEW S, IsFiniteSet(S), NEW c \in S,
         \A x \in S : f[x] \in Int /\ g[x] \in Int,
         \A x \in S \ {c} : f[x] = g[x]
  PROVE  SumFunctionOnSet(g, S) = SumFunctionOnSet(f, S) + (g[c] - f[c])
<1>1. IsFiniteSet(S \ {c})
  BY FS_Subset
<1>2. SumFunctionOnSet(f, S \ {c}) = SumFunctionOnSet(g, S \ {c})
  BY <1>1, SumSame
<1>3. SumFunctionOnSet(f, S \ {c}) \in Int
  BY <1>1, SumFacts
<1>4. /\ SumFunctionOnSet(f, S) = f[c] + SumFunctionOnSet(f, S \ {c})
      /\ SumFunctionOnSet(g, S) = g[c] + SumFunctionOnSet(g, S \ {c})
  BY SumFacts
<1> QED
  BY <1>2, <1>3, <1>4

(* Zeros do not count. *)
LEMMA SumOfNonzero ==
  ASSUME NEW f, NEW S, IsFiniteSet(S), NEW R, R \subseteq S,
         \A x \in S : f[x] \in Int, \A x \in S \ R : f[x] = 0
  PROVE  SumFunctionOnSet(f, S) = SumFunctionOnSet(f, R)
<1> DEFINE F(s) == SumFunctionOnSet(f, s)
           T    == S \ R
           G    == {t \in SUBSET T : F(R \cup t) = F(R)}
<1>1. {} \in G
  BY R \cup {} = R
<1>2. ASSUME NEW t \in SUBSET T, NEW x \in t, t \ {x} \in G PROVE t \in G
  <2>1. IsFiniteSet(R \cup t) /\ x \in R \cup t /\ f[x] = 0 /\ (R \cup t) \ {x} = R \cup (t \ {x})
    BY FS_Subset
  <2>2. F(R \cup t) = f[x] + F((R \cup t) \ {x})
    BY <2>1, SumFacts
  <2>3. F(R \cup (t \ {x})) \in Int
    <3>1. IsFiniteSet(R \cup (t \ {x}))
      BY FS_Subset
    <3> QED
      BY <3>1, SumFacts
  <2>4. F(R \cup (t \ {x})) = F(R)
    BY <1>2
  <2>a. F(R \cup t) = 0 + F(R \cup (t \ {x}))
    BY <2>1, <2>2
  <2> HIDE DEF F, G, T
  <2>5. F(R \cup t) = F(R)
    BY <2>3, <2>4, <2>a
  <2> QED
    BY <2>5 DEF G
<1>3. IsFiniteSet(T) /\ R \cup T = S
  BY FS_Subset
<1> HIDE DEF T, G
<1>4. T \in G
  BY <1>1, <1>2, <1>3, FiniteInduction
<1> QED
  BY <1>3, <1>4 DEF G

(* A sum of zeros. *)
LEMMA SumAllZero ==
  ASSUME NEW f, NEW S, IsFiniteSet(S), \A x \in S : f[x] \in Int /\ f[x] = 0
  PROVE  SumFunctionOnSet(f, S) = 0
<1>1. SumFunctionOnSet(f, S) = SumFunctionOnSet(f, {})
  BY SumOfNonzero
<1> QED BY <1>1, SumEmpty

(* A sum of equal terms. *)
LEMMA SumConstant ==
  ASSUME NEW f, NEW S, IsFiniteSet(S), NEW k \in Int, \A x \in S : f[x] = k
  PROVE  SumFunctionOnSet(f, S) = k * Cardinality(S)
<1> DEFINE F(s) == SumFunctionOnSet(f, s)
           C(s) == Cardinality(s)
           G    == {s \in SUBSET S : F(s) = k * C(s)}
<1>1. {} \in G
  BY SumEmpty, FS_EmptySet
<1>2. ASSUME NEW s \in SUBSET S, NEW x \in s, s \ {x} \in G PROVE s \in G
  <2>1. IsFiniteSet(s) /\ f[x] = k /\ \A y \in s : f[y] \in Int
    BY FS_Subset
  <2>2. F(s) = f[x] + F(s \ {x})
    BY <2>1, SumFacts
  <2>3. C(s) \in Nat /\ C(s \ {x}) = C(s) - 1
    BY <2>1, FS_RemoveElement, FS_CardinalityType
  <2>4. F(s \ {x}) = k * C(s \ {x})
    BY <1>2
  <2> HIDE DEF F, C, G
  <2>5. F(s) = k + k * (C(s) - 1)
    BY <2>1, <2>2, <2>3, <2>4
  <2>6. \A n \in Nat : k + k * (n - 1) = k * n
    OBVIOUS
  <2>7. F(s) = k * C(s)
    BY <2>3, <2>5, <2>6
  <2> QED BY <2>7 DEF G
<1> HIDE DEF G
<1>3. S \in G
  BY <1>1, <1>2, FiniteInduction
<1> QED BY <1>3 DEF G
=============================================================================

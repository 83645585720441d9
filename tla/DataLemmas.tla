----------------------------- MODULE DataLemmas -----------------------------
(***************************************************************************)
(* Facts that the proofs about the components share: finite sets of        *)
(* numbers in their order, subsequences, recursion along a sequence.       *)
(*                                                                         *)
(* The theorems of the library that take a predicate or a definition as a  *)
(* parameter cannot be instantiated, so induction is done here with sets   *)
(* and functions: a nonempty set of naturals has a least member.           *)
(***************************************************************************)
EXTENDS Ordering, SequencesExt, FiniteSetsExt, NaturalsInduction, FiniteSetTheorems, SequenceTheorems, TLAPS

----------------------------------------------------------------------------
\* Naturals

\* A nonempty set of naturals has a least member: no counterexample to a fact
\* about naturals is the smallest one.
LEMMA LeastMember ==
    ASSUME NEW T \in SUBSET Nat, T # {}
    PROVE  \E n \in T : \A m \in T : n <= m
<1>1. PICK n \in T : \A m \in T : ~(<<m, n>> \in OpToRel(<, Nat))
  BY WFMin, NatLessThanWellFounded
<1>2. \A m \in T : ~(m < n)
  BY <1>1 DEF OpToRel
<1>. QED BY <1>2

\* A set of naturals with zero and with the successor of each member up to a
\* bound has every natural up to the bound.
LEMMA Induction ==
    ASSUME NEW n \in Nat, NEW T \in SUBSET Nat, 0 \in T,
           \A i \in T : i < n => i + 1 \in T
    PROVE  \A i \in 0 .. n : i \in T
<1> DEFINE Bad == {i \in 0 .. n : i \notin T}
<1> SUFFICES ASSUME Bad # {} PROVE FALSE
  OBVIOUS
<1>0. Bad \in SUBSET Nat
  OBVIOUS
<1>1. PICK b \in Bad : \A m \in Bad : b <= m
  <2>. HIDE DEF Bad
  <2>. QED BY <1>0, LeastMember
<1>2. b \in 1 .. n
  OBVIOUS
<1>3. b - 1 \in T
  BY <1>1, <1>2
<1>4. b - 1 \in Nat /\ b - 1 < n /\ (b - 1) + 1 = b
  BY <1>2
<1>. QED BY <1>3, <1>4

\* A finite nonempty set of numbers has a largest member, and Largest is it.
LEMMA LargestMember ==
    ASSUME NEW S \in SUBSET Int, IsFiniteSet(S), S # {}
    PROVE  Largest(S) \in S /\ \A q \in S : q <= Largest(S)
<1> DEFINE HasMax(U) == \E p \in U : \A q \in U : q <= p
           Good == {n \in Nat : \A U \in SUBSET S : U # {} /\ Cardinality(U) = n => HasMax(U)}
<1>1. 0 \in Good
  BY FS_Subset, FS_EmptySet
<1>2. ASSUME NEW n \in Good PROVE n + 1 \in Good
  <2>1. SUFFICES ASSUME NEW U \in SUBSET S, U # {}, Cardinality(U) = n + 1 PROVE HasMax(U)
    OBVIOUS
  <2>2. PICK x \in U : TRUE
    BY <2>1
  <2>3. IsFiniteSet(U)
    BY FS_Subset
  <2>4. Cardinality(U \ {x}) = n
    <3>1. Cardinality(U \ {x}) = Cardinality(U) - 1
      BY <2>2, <2>3, FS_RemoveElement
    <3>2. n \in Nat
      OBVIOUS
    <3>. QED BY <2>1, <3>1, <3>2
  <2>5. CASE U \ {x} = {}
    <3>1. \A q \in U : q = x
      BY <2>5
    <3>. QED BY <3>1, <2>2
  <2>6. CASE U \ {x} # {}
    <3>1. PICK p \in U \ {x} : \A q \in U \ {x} : q <= p
      BY <2>4, <2>6, <1>2
    <3>2. CASE x <= p
      BY <3>1, <3>2
    <3>3. CASE p < x
      BY <3>1, <3>3
    <3>. QED BY <3>2, <3>3, <3>1
  <2>. QED BY <2>5, <2>6
<1> HIDE DEF HasMax
<1>3. Cardinality(S) \in Nat
  BY FS_CardinalityType
<1>4. \A i \in 0 .. Cardinality(S) : i \in Good
  BY <1>1, <1>2, <1>3, Induction
<1>5. HasMax(S)
  BY <1>3, <1>4
<1>. QED BY <1>5 DEF HasMax, Largest

----------------------------------------------------------------------------
\* Rank and order

\* A finite set of numbers is ranked from zero, without gaps, in its order.
LEMMA RankOrder ==
    ASSUME NEW S \in SUBSET Int, IsFiniteSet(S), NEW p \in S
    PROVE  /\ Rank(p, S) \in 0 .. (Cardinality(S) - 1)
           /\ \A q \in S : q < p => Rank(q, S) < Rank(p, S)
<1> DEFINE Before(x) == {q \in S : q < x}
<1>1. \A x \in S : IsFiniteSet(Before(x)) /\ Cardinality(Before(x)) \in Nat
  BY FS_Subset, FS_CardinalityType
<1>2. Cardinality(Before(p)) < Cardinality(S)
  <2>1. Before(p) \in SUBSET S /\ p \notin Before(p)
    OBVIOUS
  <2>. QED BY <2>1, <1>1, FS_Subset, FS_CardinalityType
<1>3. ASSUME NEW q \in S, q < p PROVE Cardinality(Before(q)) < Cardinality(Before(p))
  <2>1. Before(q) \in SUBSET Before(p)
    <3>1. ASSUME NEW x \in S, x < q PROVE x < p
      <4>1. x \in Int /\ q \in Int /\ p \in Int
        OBVIOUS
      <4>. QED BY <1>3, <3>1, <4>1
    <3>. QED BY <3>1
  <2>2. q \in Before(p) /\ q \notin Before(q)
    <3>1. q \in Int
      OBVIOUS
    <3>. QED BY <1>3, <3>1
  <2>. HIDE DEF Before
  <2>. QED BY <2>1, <2>2, <1>1, FS_Subset
<1>4. Cardinality(S) \in Nat
  BY FS_CardinalityType
<1>. QED BY <1>1, <1>2, <1>3, <1>4 DEF Rank

LEMMA RankInjective ==
    ASSUME NEW S \in SUBSET Int, IsFiniteSet(S), NEW p \in S, NEW q \in S,
           Rank(p, S) = Rank(q, S)
    PROVE  p = q
<1>1. Rank(p, S) \in Int /\ Rank(q, S) \in Int
  BY RankOrder
<1>2. q < p => Rank(q, S) < Rank(p, S)
  BY RankOrder
<1>3. p < q => Rank(p, S) < Rank(q, S)
  BY RankOrder
<1>. QED BY <1>1, <1>2, <1>3

LEMMA EveryRank ==
    ASSUME NEW S \in SUBSET Int, IsFiniteSet(S), NEW n \in 0 .. (Cardinality(S) - 1)
    PROVE  \E p \in S : Rank(p, S) = n
<1> DEFINE R == 0 .. (Cardinality(S) - 1)
           f == [p \in S |-> Rank(p, S)]
<1>1. Cardinality(S) \in Nat
  BY FS_CardinalityType
<1>2. IsFiniteSet(R) /\ Cardinality(R) = Cardinality(S)
  BY <1>1, FS_Interval
<1>3. f \in [S -> R]
  BY RankOrder
<1>4. \A p, q \in S : f[p] = f[q] => p = q
  BY RankInjective
<1>5. f \in Injection(S, R)
  BY <1>3, <1>4 DEF Injection, IsInjective
<1>6. f \in Surjection(S, R)
  BY <1>2, <1>5, FS_Injection
<1>7. \E p \in S : f[p] = n
  BY <1>6 DEF Surjection
<1>. QED BY <1>7

\* InOrder goes through the whole set, each member once, upwards.
LEMMA InOrderMembers ==
    ASSUME NEW S \in SUBSET Int, IsFiniteSet(S)
    PROVE  /\ Cardinality(S) \in Nat
           /\ InOrder(S) \in [1 .. Cardinality(S) -> S]
           /\ InOrder(S) \in Seq(S) /\ Len(InOrder(S)) = Cardinality(S)
           /\ \A i \in 1 .. Cardinality(S) : Rank(InOrder(S)[i], S) = i - 1
           /\ \A p \in S : \E i \in 1 .. Cardinality(S) : InOrder(S)[i] = p
<1>1. Cardinality(S) \in Nat
  BY FS_CardinalityType
<1>2. ASSUME NEW i \in 1 .. Cardinality(S)
      PROVE  InOrder(S)[i] \in S /\ Rank(InOrder(S)[i], S) = i - 1
  <2>1. i - 1 \in 0 .. (Cardinality(S) - 1)
    BY <1>1
  <2>2. \E p \in S : Rank(p, S) = i - 1
    BY <2>1, EveryRank
  <2>. QED BY <2>2 DEF InOrder
<1>3. InOrder(S) \in [1 .. Cardinality(S) -> S]
  BY <1>2 DEF InOrder
<1>4. InOrder(S) \in Seq(S) /\ Len(InOrder(S)) = Cardinality(S)
  BY <1>1, <1>3
<1>5. ASSUME NEW p \in S PROVE \E i \in 1 .. Cardinality(S) : InOrder(S)[i] = p
  <2>1. Rank(p, S) \in 0 .. (Cardinality(S) - 1)
    BY RankOrder
  <2>2. PICK i \in 1 .. Cardinality(S) : i - 1 = Rank(p, S)
    BY <1>1, <2>1
  <2>. QED BY <1>2, <2>2, RankInjective
<1>. QED BY <1>1, <1>2, <1>3, <1>4, <1>5

\* InOrder goes upwards.
LEMMA InOrderRises ==
    ASSUME NEW S \in SUBSET Int, IsFiniteSet(S),
           NEW i \in 1 .. Cardinality(S), NEW j \in 1 .. Cardinality(S), i < j
    PROVE  InOrder(S)[i] < InOrder(S)[j]
<1> DEFINE p == InOrder(S)[i]
           q == InOrder(S)[j]
<1>1. p \in S /\ q \in S /\ Rank(p, S) = i - 1 /\ Rank(q, S) = j - 1
  BY InOrderMembers
<1>2. i \in Int /\ j \in Int /\ p \in Int /\ q \in Int
  <2>. HIDE DEF p, q
  <2>1. Cardinality(S) \in Int
    BY InOrderMembers
  <2>. QED BY <1>1, <2>1
<1>3. ~(q < p)
  <2>1. q < p => Rank(q, S) < Rank(p, S)
    BY <1>1, RankOrder
  <2>. QED BY <1>1, <1>2, <2>1
<1>4. p # q
  BY <1>1, <1>2
<1>. QED BY <1>2, <1>3, <1>4

\* The first n members: all there are if there are no more, some if there are
\* any, and none of the others comes before one of them.
LEMMA SmallestMembers ==
    ASSUME NEW S \in SUBSET Int, IsFiniteSet(S), NEW n \in Nat \ {0}
    PROVE  /\ Smallest(n, S) \in SUBSET S
           /\ IsFiniteSet(Smallest(n, S))
           /\ Cardinality(S) <= n => Smallest(n, S) = S
           /\ S # {} => Smallest(n, S) # {}
           /\ \A p \in Smallest(n, S), q \in S \ Smallest(n, S) : p < q
<1>1. Smallest(n, S) \in SUBSET S
  BY DEF Smallest
<1>2. IsFiniteSet(Smallest(n, S))
  BY <1>1, FS_Subset
<1>3. Cardinality(S) \in Nat
  BY FS_CardinalityType
<1>4. ASSUME Cardinality(S) <= n, NEW p \in S PROVE p \in Smallest(n, S)
  <2>1. Rank(p, S) \in 0 .. (Cardinality(S) - 1)
    BY RankOrder
  <2>. QED BY <1>3, <1>4, <2>1 DEF Smallest
<1>5. ASSUME S # {} PROVE Smallest(n, S) # {}
  <2>1. Cardinality(S) # 0
    BY <1>5, FS_EmptySet
  <2>2. 0 \in 0 .. (Cardinality(S) - 1)
    BY <1>3, <2>1
  <2>3. PICK p \in S : Rank(p, S) = 0
    BY <2>2, EveryRank
  <2>4. p \in Smallest(n, S)
    BY <2>3 DEF Smallest
  <2>. QED BY <2>4
<1>6. ASSUME NEW p \in Smallest(n, S), NEW q \in S \ Smallest(n, S) PROVE p < q
  <2>1. p \in S /\ p \in Int /\ q \in Int /\ Rank(p, S) < n /\ ~(Rank(q, S) < n)
    BY DEF Smallest
  <2>2. Rank(p, S) \in Int /\ Rank(q, S) \in Int
    BY <2>1, RankOrder
  <2>3. q < p => Rank(q, S) < Rank(p, S)
    BY <2>1, RankOrder
  <2>4. ~(q < p) /\ p # q
    BY <2>1, <2>2, <2>3
  <2>. QED BY <2>1, <2>4
<1>. QED BY <1>1, <1>2, <1>4, <1>5, <1>6

\* Functions on 1 .. n are sequences, and concatenation puts one after another.
LEMMA FunctionIsSeq ==
    ASSUME NEW A, NEW n \in Nat, NEW f \in [1 .. n -> A]
    PROVE  f \in Seq(A) /\ Len(f) = n
OBVIOUS

LEMMA Concatenation ==
    ASSUME NEW A, NEW f \in Seq(A), NEW g \in Seq(A)
    PROVE  /\ f \o g \in Seq(A) /\ Len(f) \in Nat /\ Len(g) \in Nat
           /\ Len(f \o g) = Len(f) + Len(g)
           /\ \A i \in 1 .. Len(f) : (f \o g)[i] = f[i]
           /\ \A i \in 1 .. Len(g) : (f \o g)[Len(f) + i] = g[i]
OBVIOUS

\* A subsequence holds what its positions hold, and nothing else.
LEMMA SubsequenceMembers ==
    ASSUME NEW A, NEW s \in Seq(A), NEW I \in SUBSET (1 .. Len(s))
    PROVE  /\ IsFiniteSet(I)
           /\ Subsequence(s, I) \in Seq(A)
           /\ Len(Subsequence(s, I)) = Cardinality(I)
           /\ Subsequence(s, I) = <<>> <=> I = {}
           /\ \A j \in 1 .. Cardinality(I) :
                 InOrder(I)[j] \in I /\ Subsequence(s, I)[j] = s[InOrder(I)[j]]
           /\ \A i \in I : \E j \in 1 .. Cardinality(I) :
                 InOrder(I)[j] = i /\ Subsequence(s, I)[j] = s[i]
<1>1. Len(s) \in Nat /\ s \in [1 .. Len(s) -> A]
  BY LenProperties
<1>2. IsFiniteSet(I)
  <2>1. IsFiniteSet(1 .. Len(s))
    BY <1>1, FS_Interval
  <2>. QED BY <2>1, FS_Subset
<1>3. I \in SUBSET Int
  OBVIOUS
<1>4. /\ Cardinality(I) \in Nat
      /\ InOrder(I) \in [1 .. Cardinality(I) -> I]
      /\ \A i \in I : \E j \in 1 .. Cardinality(I) : InOrder(I)[j] = i
  BY <1>2, <1>3, InOrderMembers
<1>5. \A j \in 1 .. Cardinality(I) : InOrder(I)[j] \in I /\ s[InOrder(I)[j]] \in A
  <2>1. \A i \in I : s[i] \in A
    BY <1>1
  <2>. QED BY <1>4, <2>1
<1>6. Subsequence(s, I) \in [1 .. Cardinality(I) -> A]
  BY <1>5 DEF Subsequence
<1>7. Subsequence(s, I) \in Seq(A) /\ Len(Subsequence(s, I)) = Cardinality(I)
  BY <1>4, <1>6
<1>8. \A j \in 1 .. Cardinality(I) : Subsequence(s, I)[j] = s[InOrder(I)[j]]
  BY DEF Subsequence
<1>9. Subsequence(s, I) = <<>> <=> I = {}
  <2>1. Subsequence(s, I) = <<>> <=> Len(Subsequence(s, I)) = 0
    BY <1>7, EmptySeq
  <2>2. Cardinality(I) = 0 <=> I = {}
    BY <1>2, FS_EmptySet
  <2>. QED BY <1>7, <2>1, <2>2
<1>10. ASSUME NEW i \in I
       PROVE  \E j \in 1 .. Cardinality(I) :
                 InOrder(I)[j] = i /\ Subsequence(s, I)[j] = s[i]
  <2>1. PICK j \in 1 .. Cardinality(I) : InOrder(I)[j] = i
    BY <1>4
  <2>. QED BY <1>8, <2>1
<1>. QED BY <1>2, <1>5, <1>7, <1>8, <1>9, <1>10

----------------------------------------------------------------------------
\* Recursion along 1 .. n

\* F is the sequence of values that the step function g makes from x.
Iterates(F, n, x, g) == F[0] = x /\ \A i \in 1 .. n : F[i] = g[<<i, F[i - 1]>>]

\* A step function has its sequence of values.
LEMMA Recursion ==
    ASSUME NEW n \in Nat, NEW T, NEW x \in T, NEW g \in [(1 .. n) \X T -> T]
    PROVE  \E F \in [0 .. n -> T] : Iterates(F, n, x, g)
<1> DEFINE Upto(k, F) == F[0] = x /\ \A i \in 1 .. k : F[i] = g[<<i, F[i - 1]>>]
           Good == {k \in 0 .. n : \E F \in [0 .. n -> T] : Upto(k, F)}
<1>1. 0 \in Good
  <2>0. PICK F : F = [i \in 0 .. n |-> x]
    OBVIOUS
  <2>1. F \in [0 .. n -> T]
    BY <2>0
  <2>2. Upto(0, F)
    BY <2>0
  <2>3. 0 \in 0 .. n
    OBVIOUS
  <2>. HIDE DEF Upto
  <2>. QED BY <2>1, <2>2, <2>3
<1>2. ASSUME NEW k \in Good, k < n PROVE k + 1 \in Good
  <2>1. PICK F \in [0 .. n -> T] : Upto(k, F)
    OBVIOUS
  <2>2. k \in 0 .. n /\ k + 1 \in 1 .. n /\ (k + 1) - 1 = k
    BY <1>2
  <2>3. g[<<k + 1, F[k]>>] \in T
    BY <2>2
  <2>4. PICK G : G = [F EXCEPT ![k + 1] = g[<<k + 1, F[k]>>]]
    OBVIOUS
  <2>5. G \in [0 .. n -> T]
    BY <2>2, <2>3, <2>4
  <2>6. \A i \in 0 .. k : G[i] = F[i]
    BY <2>2, <2>4
  <2>7. G[k + 1] = g[<<k + 1, F[k]>>]
    BY <2>2, <2>4
  <2>8. ASSUME NEW i \in 1 .. k + 1 PROVE G[i] = g[<<i, G[i - 1]>>]
    <3>1. i - 1 \in 0 .. k /\ (i = k + 1 \/ i \in 1 .. k)
      BY <2>2
    <3>2. G[i - 1] = F[i - 1]
      BY <3>1, <2>6
    <3>3. CASE i = k + 1
      BY <3>2, <3>3, <2>2, <2>7
    <3>4. CASE i \in 1 .. k
      <4>1. G[i] = F[i]
        BY <3>4, <2>2, <2>6
      <4>. QED BY <3>2, <3>4, <4>1, <2>1
    <3>. QED BY <3>1, <3>3, <3>4
  <2>9. Upto(k + 1, G)
    BY <2>1, <2>2, <2>6, <2>8
  <2>. QED BY <2>2, <2>5, <2>9
<1>3. n \in Good
  <2>1. Good \in SUBSET Nat
    OBVIOUS
  <2>. HIDE DEF Good
  <2>2. \A i \in 0 .. n : i \in Good
    BY <1>1, <1>2, <2>1, Induction
  <2>. QED BY <2>2
<1>. QED BY <1>3 DEF Iterates

\* SumTo adds the members of a sequence up.
LEMMA Sums ==
    ASSUME NEW ws \in Seq(Nat)
    PROVE  /\ \A i \in 0..Len(ws) : SumTo(ws, i) \in Nat
           /\ SumTo(ws, 0) = 0
           /\ \A i \in 1..Len(ws) : SumTo(ws, i) = SumTo(ws, i - 1) + ws[i]
<1> DEFINE Adds(F) == F = [j \in 0..Len(ws) |-> IF j = 0 THEN 0 ELSE F[j - 1] + ws[j]]
           S == CHOOSE F : Adds(F)
           n == Len(ws)
<1>0. n \in Nat /\ ws \in [1..n -> Nat]
  BY LenProperties
<1>1. PICK g : g = [x \in (1..n) \X Nat |-> x[2] + ws[x[1]]]
  OBVIOUS
<1>2. g \in [(1..n) \X Nat -> Nat]
  <2>1. \A x \in (1..n) \X Nat : x[2] \in Nat /\ ws[x[1]] \in Nat
    BY <1>0
  <2>. HIDE DEF n
  <2>. QED BY <1>1, <2>1
<1>3. PICK F \in [0..n -> Nat] : Iterates(F, n, 0, g)
  <2>. HIDE DEF n
  <2>1. n \in Nat /\ 0 \in Nat
    BY <1>0
  <2>. QED BY <1>2, <2>1, Recursion
<1>4. \A i \in 1..n : F[i] = F[i - 1] + ws[i]
  <2>1. SUFFICES ASSUME NEW i \in 1..n PROVE F[i] = F[i - 1] + ws[i]
    OBVIOUS
  <2>2. i - 1 \in 0..n
    BY <1>0
  <2>3. F[i - 1] \in Nat
    BY <2>2
  <2>. QED BY <1>1, <1>3, <2>3 DEF Iterates
<1>5. \A j \in 0..n : j # 0 => j \in 1..n
  BY <1>0
<1>6. Adds(F)
  BY <1>3, <1>4, <1>5 DEF Iterates
<1>7. Adds(S)
  <2>. HIDE DEF Adds
  <2>. QED BY <1>6
<1>8. \A i : SumTo(ws, i) = S[i]
  BY DEF SumTo
<1> HIDE DEF S
<1>9. S[0] = 0 /\ \A i \in 1..n : S[i] = S[i - 1] + ws[i]
  <2>1. \A i \in 1..n : i \in 0..n /\ i # 0
    BY <1>0
  <2>. QED BY <1>0, <1>7, <2>1
<1>10. \A i \in 0..n : S[i] \in Nat
  <2> DEFINE T == {i \in 0..n : S[i] \in Nat}
  <2>1. 0 \in T
    BY <1>0, <1>9
  <2>2. ASSUME NEW i \in T, i < n PROVE i + 1 \in T
    <3>1. i + 1 \in 1..n /\ (i + 1) - 1 = i
      BY <1>0, <2>2
    <3>2. S[i + 1] = S[i] + ws[i + 1]
      BY <3>1, <1>9
    <3>3. ws[i + 1] \in Nat
      BY <1>0, <3>1
    <3>. QED BY <3>1, <3>2, <3>3
  <2>3. T \in SUBSET Nat
    OBVIOUS
  <2>. HIDE DEF T
  <2>4. \A i \in 0..n : i \in T
    BY <1>0, <2>1, <2>2, <2>3, Induction
  <2>. QED BY <2>4 DEF T
<1>. QED BY <1>8, <1>9, <1>10

\* The sum depends on the members that are added only.
LEMMA SumsAgree ==
    ASSUME NEW ws \in Seq(Nat), NEW vs \in Seq(Nat), NEW n \in Nat,
           n <= Len(ws), n <= Len(vs), \A i \in 1..n : ws[i] = vs[i]
    PROVE  SumTo(ws, n) = SumTo(vs, n)
<1> DEFINE T == {i \in 0..n : SumTo(ws, i) = SumTo(vs, i)}
<1>0. Len(ws) \in Nat /\ Len(vs) \in Nat
  OBVIOUS
<1>1. 0 \in T
  BY Sums
<1>2. ASSUME NEW i \in T, i < n PROVE i + 1 \in T
  <2>1. i + 1 \in 1..n /\ i + 1 \in 1..Len(ws) /\ i + 1 \in 1..Len(vs) /\ (i + 1) - 1 = i
        /\ i + 1 \in 0..n
    BY <1>0, <1>2
  <2>2. SumTo(ws, i + 1) = SumTo(ws, i) + ws[i + 1]
    BY <2>1, Sums
  <2>3. SumTo(vs, i + 1) = SumTo(vs, i) + vs[i + 1]
    BY <2>1, Sums
  <2>. QED BY <2>1, <2>2, <2>3
<1>3. T \in SUBSET Nat
  OBVIOUS
<1> HIDE DEF T
<1>4. \A i \in 0..n : i \in T
  BY <1>1, <1>2, <1>3, Induction
<1>. QED BY <1>4 DEF T

\* The same for a recursion that takes a finite set apart, one member at a time
\* in an order that c chooses: the folds of the community modules.
Unfolds(F, S, x, c, g) ==
    /\ F[{}] = x
    /\ \A s \in (SUBSET S) \ {{}} : F[s] = g[<<c[s], F[s \ {c[s]}]>>]

LEMMA SetRecursion ==
    ASSUME NEW S, IsFiniteSet(S), NEW T, NEW x \in T,
           NEW c \in [(SUBSET S) \ {{}} -> S], \A s \in (SUBSET S) \ {{}} : c[s] \in s,
           NEW g \in [S \X T -> T]
    PROVE  \E F \in [SUBSET S -> T] : Unfolds(F, S, x, c, g)
<1> DEFINE Step(F, s) == F[s] = g[<<c[s], F[s \ {c[s]}]>>]
           Upto(k, F) == /\ F[{}] = x
                         /\ \A s \in (SUBSET S) \ {{}} : Cardinality(s) <= k => Step(F, s)
           N == Cardinality(S)
           Good == {k \in 0 .. N : \E F \in [SUBSET S -> T] : Upto(k, F)}
<1>0. N \in Nat
  BY FS_CardinalityType
<1>c. \A s \in SUBSET S : /\ Cardinality(s) \in 0 .. N
                          /\ Cardinality(s) = 0 <=> s = {}
  BY FS_Subset, FS_CardinalityType, FS_EmptySet
<1>r. \A s \in (SUBSET S) \ {{}} : /\ s \ {c[s]} \in SUBSET S
                                   /\ c[s] \in S
                                   /\ Cardinality(s \ {c[s]}) = Cardinality(s) - 1
  <2>1. SUFFICES ASSUME NEW s \in (SUBSET S) \ {{}}
                 PROVE  Cardinality(s \ {c[s]}) = Cardinality(s) - 1
    OBVIOUS
  <2>2. IsFiniteSet(s)
    BY FS_Subset
  <2>3. PICK y : y = c[s]
    OBVIOUS
  <2>4. y \in s
    BY <2>3
  <2>5. Cardinality(s \ {y}) = Cardinality(s) - 1
    BY <2>2, <2>4, FS_RemoveElement
  <2>. QED BY <2>3, <2>5
<1>1. 0 \in Good
  <2>0. PICK F : F = [s \in SUBSET S |-> x]
    OBVIOUS
  <2>1. F \in [SUBSET S -> T] /\ F[{}] = x
    BY <2>0
  <2>2. \A s \in (SUBSET S) \ {{}} : ~(Cardinality(s) <= 0)
    BY <1>c
  <2>3. Upto(0, F)
    BY <2>1, <2>2
  <2>4. 0 \in 0 .. N
    BY <1>0
  <2>. HIDE DEF Upto
  <2>. QED BY <2>1, <2>3, <2>4
<1>2. ASSUME NEW k \in Good, k < N PROVE k + 1 \in Good
  <2>1. PICK F \in [SUBSET S -> T] : Upto(k, F)
    OBVIOUS
  <2>2. k \in Nat /\ k + 1 \in 0 .. N
    BY <1>0, <1>2
  <2>3. PICK G : G = [s \in SUBSET S |->
                        IF Cardinality(s) = k + 1 THEN g[<<c[s], F[s \ {c[s]}]>>] ELSE F[s]]
    OBVIOUS
  <2>4. \A s \in (SUBSET S) \ {{}} : g[<<c[s], F[s \ {c[s]}]>>] \in T
    BY <1>r
  <2>5. \A s \in SUBSET S : Cardinality(s) = k + 1 => s # {}
    BY <1>c, <2>2
  <2>6. \A s \in SUBSET S : G[s] \in T
    BY <2>3, <2>4, <2>5
  <2>7. G \in [SUBSET S -> T]
    BY <2>3, <2>6
  <2>8. G[{}] = x
    BY <2>1, <2>3, <2>5
  <2>9. ASSUME NEW s \in (SUBSET S) \ {{}}, Cardinality(s) <= k + 1 PROVE Step(G, s)
    <3>1. Cardinality(s) \in Nat /\ Cardinality(s \ {c[s]}) \in Nat
          /\ Cardinality(s \ {c[s]}) # k + 1
      BY <1>c, <1>r, <2>2, <2>9
    <3>2. G[s \ {c[s]}] = F[s \ {c[s]}]
      BY <1>r, <2>3, <3>1
    <3>3. CASE Cardinality(s) = k + 1
      BY <2>3, <3>2, <3>3
    <3>4. CASE Cardinality(s) <= k
      <4>1. G[s] = F[s]
        BY <2>2, <2>3, <3>1, <3>4
      <4>. QED BY <2>1, <3>2, <3>4, <4>1
    <3>. QED BY <2>2, <2>9, <3>1, <3>3, <3>4
  <2>10. Upto(k + 1, G)
    BY <2>8, <2>9
  <2>. HIDE DEF Upto
  <2>. QED BY <2>2, <2>7, <2>10
<1>3. N \in Good
  <2>1. Good \in SUBSET Nat
    BY <1>0
  <2>. HIDE DEF Good
  <2>2. \A i \in 0 .. N : i \in Good
    BY <1>0, <1>1, <1>2, <2>1, Induction
  <2>. QED BY <1>0, <2>2
<1>4. PICK F \in [SUBSET S -> T] : Upto(N, F)
  BY <1>3
<1>5. \A s \in SUBSET S : Cardinality(s) <= N
  BY <1>0, <1>c
<1>6. F[{}] = x /\ \A s \in (SUBSET S) \ {{}} : Step(F, s)
  BY <1>4, <1>5
<1>. QED BY <1>6 DEF Unfolds
----------------------------------------------------------------------------
\* Finite sets

LEMMA FiniteImage ==
    ASSUME NEW S, IsFiniteSet(S), NEW T, NEW f \in [S -> T],
           \A t \in T : \E s \in S : f[s] = t
    PROVE  IsFiniteSet(T)
<1>1. f \in Surjection(S, T)
  BY DEF Surjection
<1>. QED BY <1>1, FS_Surjection

\* SetToSeq lists a finite set.
LEMMA SetToSeqMembers ==
    ASSUME NEW S, IsFiniteSet(S)
    PROVE  /\ SetToSeq(S) \in Seq(S)
           /\ \A x \in S : \E i \in 1 .. Len(SetToSeq(S)) : SetToSeq(S)[i] = x
<1> DEFINE n == Cardinality(S)
<1>1. n \in Nat /\ \E f \in [1 .. n -> S] : IsInjective(f)
  BY FS_CardinalityType DEF ExistsBijection, Bijection, Injection
<1>2. SetToSeq(S) \in [1 .. n -> S] /\ IsInjective(SetToSeq(S))
  BY <1>1 DEF SetToSeq
<1>3. SetToSeq(S) \in Seq(S) /\ Len(SetToSeq(S)) = n
  BY <1>1, <1>2
<1>4. SetToSeq(S) \in Injection(1 .. n, S)
  BY <1>2 DEF Injection
<1>5. IsFiniteSet(1 .. n) /\ Cardinality(1 .. n) = n
  BY <1>1, FS_Interval
<1>6. SetToSeq(S) \in Surjection(1 .. n, S)
  <2>. PICK f \in Injection(1 .. n, S) : f = SetToSeq(S)
    BY <1>4
  <2>1. f \in Surjection(1 .. n, S)
    BY <1>5, FS_Injection
  <2>. QED BY <2>1
<1>. QED BY <1>3, <1>6 DEF Surjection

----------------------------------------------------------------------------
\* Sums over finite sets

\* v assigns a number to each member of S.
Weighs(v, S) == \A x \in S : v[x] \in Int

\* The member that the sum takes first.
Taken(s) == CHOOSE x \in s : TRUE

\* F adds v up over the subsets of S.
Adds(F, v, S) ==
    F = [s \in SUBSET S |-> IF s = {} THEN 0 ELSE v[Taken(s)] + F[s \ {Taken(s)}]]

LEMMA TakenMember == ASSUME NEW s, s # {} PROVE Taken(s) \in s
BY DEF Taken

LEMMA AddsSteps ==
    ASSUME NEW F, NEW v, NEW S, Adds(F, v, S)
    PROVE  F[{}] = 0 /\ \A s \in (SUBSET S) \ {{}} : F[s] = v[Taken(s)] + F[s \ {Taken(s)}]
BY DEF Adds

LEMMA AddsExists ==
    ASSUME NEW v, NEW S, IsFiniteSet(S), Weighs(v, S)
    PROVE  \E F \in [SUBSET S -> Int] : Adds(F, v, S)
<1>1. PICK c : c = [s \in (SUBSET S) \ {{}} |-> Taken(s)]
  OBVIOUS
<1>2. c \in [(SUBSET S) \ {{}} -> S] /\ \A s \in (SUBSET S) \ {{}} : c[s] \in s
  BY <1>1, TakenMember
<1>3. PICK g : g = [x \in S \X Int |-> v[x[1]] + x[2]]
  OBVIOUS
<1>4. g \in [S \X Int -> Int]
  <2>1. \A x \in S \X Int : v[x[1]] \in Int /\ x[2] \in Int
    BY DEF Weighs
  <2>. QED BY <1>3, <2>1
<1>5. PICK F \in [SUBSET S -> Int] : Unfolds(F, S, 0, c, g)
  <2>1. PICK T : T = Int
    OBVIOUS
  <2>2. 0 \in T /\ g \in [S \X T -> T]
    BY <1>4, <2>1
  <2>3. \E F \in [SUBSET S -> T] : Unfolds(F, S, 0, c, g)
    BY <1>2, <2>2, SetRecursion
  <2>. QED BY <2>1, <2>3
<1>6. ASSUME NEW s \in (SUBSET S) \ {{}} PROVE F[s] = v[Taken(s)] + F[s \ {Taken(s)}]
  <2>1. PICK y \in S : y = Taken(s) /\ y = c[s]
    BY <1>1, TakenMember
  <2>2. s \ {y} \in SUBSET S
    OBVIOUS
  <2>3. F[s \ {y}] \in Int
    BY <2>2
  <2>4. F[s] = g[<<y, F[s \ {y}]>>]
    BY <1>5, <2>1 DEF Unfolds
  <2>. QED BY <1>3, <2>1, <2>3, <2>4
<1>7. F[{}] = 0
  BY <1>5 DEF Unfolds
<1>. QED BY <1>6, <1>7 DEF Adds

PartOf(U, S) == U \subseteq S

\* There is one way to add v up, whatever set the subsets are taken from.
LEMMA AddsUnique ==
    ASSUME NEW v, NEW S, IsFiniteSet(S), NEW U, PartOf(U, S),
           NEW F, NEW G, Adds(F, v, S), Adds(G, v, U)
    PROVE  \A s \in SUBSET U : G[s] = F[s]
<1>a. G[{}] = 0 /\ \A r \in (SUBSET U) \ {{}} : G[r] = v[Taken(r)] + G[r \ {Taken(r)}]
  BY AddsSteps
<1>b. F[{}] = 0 /\ \A r \in (SUBSET S) \ {{}} : F[r] = v[Taken(r)] + F[r \ {Taken(r)}]
  BY AddsSteps
<1>. U \in SUBSET S
  BY DEF PartOf
<1> DEFINE T == {n \in Nat : \A s \in SUBSET U : Cardinality(s) = n => G[s] = F[s]}
<1>1. \A s \in SUBSET U : IsFiniteSet(s)
  BY FS_Subset
<1>2. 0 \in T
  <2>1. \A s \in SUBSET U : Cardinality(s) = 0 => s = {}
    BY <1>1, FS_EmptySet
  <2>. QED BY <1>a, <1>b, <2>1
<1>3. ASSUME NEW n \in T PROVE n + 1 \in T
  <2>1. SUFFICES ASSUME NEW s \in SUBSET U, Cardinality(s) = n + 1 PROVE G[s] = F[s]
    OBVIOUS
  <2>2. n \in Nat
    OBVIOUS
  <2>3. s # {}
    <3>1. Cardinality({}) = 0
      BY ONLY FS_EmptySet
    <3>2. Cardinality(s) # 0
      BY ONLY <2>1, <2>2
    <3>. QED BY ONLY <3>1, <3>2, Zenon
  <2>4. PICK y \in s : y = Taken(s)
    BY <2>3, TakenMember
  <2>5. Cardinality(s \ {y}) = Cardinality(s) - 1
    <3>1. IsFiniteSet(s)
      BY <1>1
    <3>. QED BY ONLY <3>1, <2>4, FS_RemoveElement
  <2>6. Cardinality(s \ {y}) = n
    BY <2>1, <2>2, <2>5
  <2>7. G[s \ {y}] = F[s \ {y}]
    BY <2>6
  <2>8. G[s] = v[y] + G[s \ {y}]
    <3>1. G[s] = v[Taken(s)] + G[s \ {Taken(s)}]
      BY <1>a, <2>3
    <3>. QED BY ONLY <2>4, <3>1
  <2>9. F[s] = v[y] + F[s \ {y}]
    <3>1. F[s] = v[Taken(s)] + F[s \ {Taken(s)}]
      BY <1>b, <2>3
    <3>. QED BY ONLY <2>4, <3>1
  <2>. QED BY <2>7, <2>8, <2>9
<1>4. ASSUME NEW s \in SUBSET U PROVE G[s] = F[s]
  <2>1. Cardinality(s) \in Nat
    BY <1>1, FS_CardinalityType
  <2>2. T \in SUBSET Nat
    OBVIOUS
  <2>3. \A i \in 0 .. Cardinality(s) : i \in T
    <3>. HIDE DEF T
    <3>. QED BY <1>2, <1>3, <2>1, <2>2, Induction
  <2>4. Cardinality(s) \in T
    BY <2>1, <2>3
  <2>. QED BY <2>4
<1>. QED BY <1>4

\* All sums over subsets of S are read off one function.
LEMMA SumsTogether ==
    ASSUME NEW v, NEW S, IsFiniteSet(S), Weighs(v, S)
    PROVE  \E F \in [SUBSET S -> Int] : Adds(F, v, S) /\ \A U \in SUBSET S : SumOver(v, U) = F[U]
<1>1. PICK F \in [SUBSET S -> Int] : Adds(F, v, S)
  BY AddsExists
<1>2. ASSUME NEW U \in SUBSET S PROVE SumOver(v, U) = F[U]
  <2> DEFINE G == CHOOSE H : Adds(H, v, U)
  <2>1. IsFiniteSet(U) /\ Weighs(v, U)
    BY FS_Subset DEF Weighs
  <2>2. \E H : Adds(H, v, U)
    BY <2>1, AddsExists
  <2>3. Adds(G, v, U)
    BY <2>2
  <2>4. SumOver(v, U) = G[U]
    BY DEF SumOver, MapThenSumSet, MapThenFoldSet, Adds, Taken
  <2>. HIDE DEF G
  <2>5. \A s \in SUBSET U : G[s] = F[s]
    <3>1. PICK H : H = G
      OBVIOUS
    <3>2. IsFiniteSet(S) /\ PartOf(U, S) /\ Adds(F, v, S) /\ Adds(H, v, U)
      BY <1>1, <2>3, <3>1 DEF PartOf
    <3>3. \A s \in SUBSET U : H[s] = F[s]
      BY ONLY <3>2, AddsUnique
    <3>. QED BY ONLY <3>1, <3>3
  <2>. QED BY <2>4, <2>5
<1>. QED BY <1>1, <1>2

\* A sum is a number, zero over the empty set, and any member may be taken out.
LEMMA SumRemove ==
    ASSUME NEW v, NEW S, IsFiniteSet(S), Weighs(v, S)
    PROVE  /\ SumOver(v, S) \in Int
           /\ SumOver(v, {}) = 0
           /\ \A x \in S : SumOver(v, S) = v[x] + SumOver(v, S \ {x})
<1>1. PICK F \in [SUBSET S -> Int] :
        Adds(F, v, S) /\ \A U \in SUBSET S : SumOver(v, U) = F[U]
  BY SumsTogether
<1>2. \A s \in SUBSET S : IsFiniteSet(s)
  BY FS_Subset
<1> DEFINE T == {n \in Nat : \A s \in SUBSET S : Cardinality(s) = n =>
                               \A x \in s : F[s] = v[x] + F[s \ {x}]}
<1>3. 0 \in T
  BY <1>2, FS_EmptySet
<1>4. ASSUME NEW n \in T PROVE n + 1 \in T
  <2>1. SUFFICES ASSUME NEW s \in SUBSET S, Cardinality(s) = n + 1, NEW x \in s
                 PROVE  F[s] = v[x] + F[s \ {x}]
    OBVIOUS
  <2>2. n \in Nat /\ IsFiniteSet(s)
    BY <1>2
  <2>3. PICK y \in s : y = Taken(s)
    BY TakenMember
  <2>4. F[s] = v[y] + F[s \ {y}]
    BY <1>1, <2>3, AddsSteps
  <2>5. CASE x = y
    BY <2>4, <2>5
  <2>6. CASE x # y
    <3>1. Cardinality(s \ {y}) = Cardinality(s) - 1 /\ Cardinality(s \ {x}) = Cardinality(s) - 1
      BY <2>2, FS_RemoveElement
    <3>2. Cardinality(s \ {y}) = n /\ Cardinality(s \ {x}) = n
      BY <2>1, <2>2, <3>1
    <3>3. x \in s \ {y} /\ y \in s \ {x} /\ (s \ {y}) \ {x} = (s \ {x}) \ {y}
      BY <2>6
    <3>4. F[s \ {y}] = v[x] + F[(s \ {y}) \ {x}]
      BY <3>2, <3>3
    <3>5. F[s \ {x}] = v[y] + F[(s \ {x}) \ {y}]
      BY <3>2, <3>3
    <3>6. v[x] \in Int /\ v[y] \in Int /\ F[(s \ {x}) \ {y}] \in Int
      BY DEF Weighs
    <3>7. PICK a \in Int, b \in Int, z \in Int : a = v[x] /\ b = v[y] /\ z = F[(s \ {x}) \ {y}]
      BY <3>6
    <3>8. F[s \ {y}] = a + z
      BY ONLY <3>3, <3>4, <3>7
    <3>9. F[s \ {x}] = b + z
      BY ONLY <3>5, <3>7
    <3>. QED BY ONLY <2>4, <3>7, <3>8, <3>9
  <2>. QED BY <2>5, <2>6
<1>5. Cardinality(S) \in T
  <2>1. Cardinality(S) \in Nat
    BY FS_CardinalityType
  <2>2. T \in SUBSET Nat
    OBVIOUS
  <2>3. \A i \in 0 .. Cardinality(S) : i \in T
    <3>. HIDE DEF T
    <3>. QED BY <1>3, <1>4, <2>1, <2>2, Induction
  <2>. QED BY <2>1, <2>3
<1>6. \A x \in S : F[S] = v[x] + F[S \ {x}]
  BY <1>5
<1>7. F[S] \in Int /\ F[{}] = 0
  BY <1>1, AddsSteps
<1>8. SumOver(v, S) = F[S] /\ SumOver(v, {}) = F[{}] /\ \A x \in S : SumOver(v, S \ {x}) = F[S \ {x}]
  BY <1>1
<1>. QED BY <1>6, <1>7, <1>8

LEMMA SumAdd ==
    ASSUME NEW v, NEW S, IsFiniteSet(S), NEW x, x \notin S, Weighs(v, S), v[x] \in Int
    PROVE  /\ IsFiniteSet(S \cup {x}) /\ Weighs(v, S \cup {x})
           /\ SumOver(v, S) \in Int
           /\ SumOver(v, S \cup {x}) = SumOver(v, S) + v[x]
<1>1. IsFiniteSet(S \cup {x}) /\ Weighs(v, S \cup {x})
  BY FS_AddElement DEF Weighs
<1>2. (S \cup {x}) \ {x} = S /\ x \in S \cup {x}
  OBVIOUS
<1>3. PICK U : U = S \cup {x}
  OBVIOUS
<1>4. SumOver(v, U) = v[x] + SumOver(v, U \ {x})
  BY <1>1, <1>2, <1>3, SumRemove
<1>5. SumOver(v, S) \in Int
  BY SumRemove
<1>6. SumOver(v, U) = v[x] + SumOver(v, S)
  BY ONLY <1>2, <1>3, <1>4
<1>7. SumOver(v, S \cup {x}) = v[x] + SumOver(v, S)
  BY ONLY <1>3, <1>6
<1>. QED BY <1>1, <1>5, <1>7

\* A family of subsets of S that has the empty set, and each of its members
\* with one member of S more, has S.
LEMMA SetInduction ==
    ASSUME NEW S, IsFiniteSet(S), NEW T, {} \in T,
           \A s \in SUBSET S : s \in T => \A x \in S \ s : s \cup {x} \in T
    PROVE  S \in T
<1> DEFINE N == {n \in Nat : \A s \in SUBSET S : Cardinality(s) = n => s \in T}
<1>1. \A s \in SUBSET S : IsFiniteSet(s)
  BY FS_Subset
<1>2. 0 \in N
  BY <1>1, FS_EmptySet
<1>3. ASSUME NEW n \in N PROVE n + 1 \in N
  <2>1. SUFFICES ASSUME NEW s \in SUBSET S, Cardinality(s) = n + 1 PROVE s \in T
    OBVIOUS
  <2>2. n \in Nat
    OBVIOUS
  <2>3. s # {}
    BY <2>1, <2>2, FS_EmptySet
  <2>4. PICK y : y \in s
    BY <2>3
  <2>5. Cardinality(s \ {y}) = Cardinality(s) - 1
    BY <1>1, <2>4, FS_RemoveElement
  <2>6. Cardinality(s \ {y}) = n
    BY <2>1, <2>2, <2>5
  <2>7. s \ {y} \in T
    BY <2>6
  <2>8. (s \ {y}) \cup {y} = s /\ y \in S \ (s \ {y}) /\ s \ {y} \in SUBSET S
    BY <2>4
  <2>. QED BY <2>7, <2>8
<1>4. Cardinality(S) \in Nat /\ N \in SUBSET Nat
  BY FS_CardinalityType
<1>5. \A i \in 0 .. Cardinality(S) : i \in N
  <2>. HIDE DEF N
  <2>. QED BY <1>2, <1>3, <1>4, Induction
<1>6. Cardinality(S) \in N
  BY <1>4, <1>5
<1>. QED BY <1>6

\* A sum looks only at what its members weigh.
LEMMA SumSame ==
    ASSUME NEW v, NEW w, NEW S, IsFiniteSet(S), Weighs(v, S), \A x \in S : w[x] = v[x]
    PROVE  SumOver(w, S) = SumOver(v, S)
<1> DEFINE T == {s \in SUBSET S : SumOver(w, s) = SumOver(v, s)}
<1>1. \A s \in SUBSET S : IsFiniteSet(s) /\ Weighs(v, s) /\ Weighs(w, s)
  BY FS_Subset DEF Weighs
<1>2. {} \in T
  BY <1>1, SumRemove
<1>3. ASSUME NEW s \in SUBSET S, s \in T, NEW x \in S \ s PROVE s \cup {x} \in T
  <2>1. v[x] \in Int /\ w[x] = v[x]
    BY DEF Weighs
  <2>2. SumOver(v, s \cup {x}) = SumOver(v, s) + v[x]
    BY <1>1, <2>1, SumAdd
  <2>3. SumOver(w, s \cup {x}) = SumOver(w, s) + w[x]
    BY <1>1, <2>1, SumAdd
  <2>4. SumOver(w, s) = SumOver(v, s)
    BY <1>3
  <2>5. SumOver(w, s \cup {x}) = SumOver(v, s \cup {x})
    BY ONLY <2>1, <2>2, <2>3, <2>4
  <2>. QED BY <2>5
<1>4. S \in T
  <2>. HIDE DEF T
  <2>. QED BY <1>2, <1>3, SetInduction
<1>. QED BY <1>4

\* The sums over a part and over the rest make up the whole.
LEMMA SumSplit ==
    ASSUME NEW v, NEW S, IsFiniteSet(S), Weighs(v, S), NEW U \in SUBSET S
    PROVE  /\ SumOver(v, U) \in Int /\ SumOver(v, S \ U) \in Int
           /\ SumOver(v, S) = SumOver(v, U) + SumOver(v, S \ U)
<1> DEFINE T == {s \in SUBSET S : SumOver(v, s) = SumOver(v, s \cap U) + SumOver(v, s \ U)}
<1>1. \A s \in SUBSET S : IsFiniteSet(s) /\ Weighs(v, s)
  BY FS_Subset DEF Weighs
<1>2. \A s \in SUBSET S : SumOver(v, s) \in Int
  BY <1>1, SumRemove
<1>3. {} \in T
  <2>1. SumOver(v, {}) = 0
    BY <1>1, SumRemove
  <2>2. {} \cap U = {} /\ {} \ U = {}
    OBVIOUS
  <2>3. SumOver(v, {}) = SumOver(v, {} \cap U) + SumOver(v, {} \ U)
    BY ONLY <2>1, <2>2
  <2>. QED BY <2>3
<1>4. ASSUME NEW s \in SUBSET S, s \in T, NEW x \in S \ s PROVE s \cup {x} \in T
  <2>1. PICK a : a = v[x]
    OBVIOUS
  <2>2. a \in Int
    BY <2>1 DEF Weighs
  <2>3. SumOver(v, s \cup {x}) = SumOver(v, s) + a
    BY <1>1, <2>1, <2>2, SumAdd
  <2>4. SumOver(v, s) = SumOver(v, s \cap U) + SumOver(v, s \ U)
    BY <1>4
  <2>5. SumOver(v, s \cap U) \in Int /\ SumOver(v, s \ U) \in Int
    BY <1>2
  <2>6. CASE x \in U
    <3>1. (s \cup {x}) \cap U = (s \cap U) \cup {x} /\ (s \cup {x}) \ U = s \ U
      BY <2>6
    <3>2. SumOver(v, (s \cap U) \cup {x}) = SumOver(v, s \cap U) + a
      BY <1>1, <2>1, <2>2, SumAdd
    <3>3. SumOver(v, (s \cup {x}) \cap U) = SumOver(v, s \cap U) + a
      BY ONLY <3>1, <3>2
    <3>4. SumOver(v, (s \cup {x}) \ U) = SumOver(v, s \ U)
      BY ONLY <3>1
    <3>5. SumOver(v, s \cup {x}) = SumOver(v, (s \cup {x}) \cap U) + SumOver(v, (s \cup {x}) \ U)
      BY ONLY <2>2, <2>3, <2>4, <2>5, <3>3, <3>4
    <3>. QED BY <3>5
  <2>7. CASE x \notin U
    <3>1. (s \cup {x}) \ U = (s \ U) \cup {x} /\ (s \cup {x}) \cap U = s \cap U
      BY <2>7
    <3>2. SumOver(v, (s \ U) \cup {x}) = SumOver(v, s \ U) + a
      BY <1>1, <2>1, <2>2, SumAdd
    <3>3. SumOver(v, (s \cup {x}) \ U) = SumOver(v, s \ U) + a
      BY ONLY <3>1, <3>2
    <3>4. SumOver(v, (s \cup {x}) \cap U) = SumOver(v, s \cap U)
      BY ONLY <3>1
    <3>5. SumOver(v, s \cup {x}) = SumOver(v, (s \cup {x}) \cap U) + SumOver(v, (s \cup {x}) \ U)
      BY ONLY <2>2, <2>3, <2>4, <2>5, <3>3, <3>4
    <3>. QED BY <3>5
  <2>. QED BY <2>6, <2>7
<1>5. S \in T
  <2>. HIDE DEF T
  <2>. QED BY <1>3, <1>4, SetInduction
<1>6. S \cap U = U
  OBVIOUS
<1>7. SumOver(v, S) = SumOver(v, S \cap U) + SumOver(v, S \ U)
  BY <1>5
<1>8. SumOver(v, S) = SumOver(v, U) + SumOver(v, S \ U)
  BY ONLY <1>6, <1>7
<1>9. SumOver(v, U) \in Int /\ SumOver(v, S \ U) \in Int
  BY <1>2
<1>. QED BY <1>8, <1>9

\* Nothing negative adds up to nothing negative.
LEMMA SumNonnegative ==
    ASSUME NEW v, NEW S, IsFiniteSet(S), \A x \in S : v[x] \in Nat
    PROVE  SumOver(v, S) \in Nat
<1> DEFINE T == {s \in SUBSET S : SumOver(v, s) \in Nat}
<1>1. \A s \in SUBSET S : IsFiniteSet(s) /\ Weighs(v, s)
  BY FS_Subset DEF Weighs
<1>2. {} \in T
  BY <1>1, SumRemove
<1>3. ASSUME NEW s \in SUBSET S, s \in T, NEW x \in S \ s PROVE s \cup {x} \in T
  <2>1. v[x] \in Nat /\ SumOver(v, s) \in Nat
    BY <1>3
  <2>2. SumOver(v, s \cup {x}) = SumOver(v, s) + v[x]
    BY <1>1, <2>1, SumAdd
  <2>3. SumOver(v, s \cup {x}) \in Nat
    BY ONLY <2>1, <2>2
  <2>. QED BY <2>3
<1>4. S \in T
  <2>. HIDE DEF T
  <2>. QED BY <1>2, <1>3, SetInduction
<1>. QED BY <1>4
=============================================================================

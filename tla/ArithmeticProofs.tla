-------------------------- MODULE ArithmeticProofs --------------------------
(***************************************************************************)
(* The arithmetic behind the proofs: sums over finite sets, which Total    *)
(* takes; what the computations of Voucher come to for every amount, for   *)
(* every offer and for any number of lines; and lists in ascending order.  *)
(*                                                                         *)
(* Total is a recursion of the library, and the provers have no induction  *)
(* with a formula for a parameter. The induction is therefore over sets    *)
(* that are given: the numbers, or the subsets, for which a fact holds.    *)
(***************************************************************************)
EXTENDS Voucher, Sorting, FiniteSetTheorems, WellFoundedInduction, TLAPS

-----------------------------------------------------------------------------
(* Induction *)

\* Induction over the natural numbers, for a set.
LEMMA AllNumbers ==
  ASSUME NEW S, 0 \in S, \A n \in Nat : n \in S => n + 1 \in S
  PROVE  Nat \subseteq S
<1> DEFINE T == Nat \ S
<1> SUFFICES ASSUME T # {} PROVE FALSE
  OBVIOUS
<1>1. IsWellFoundedOn(OpToRel(<, Nat), Nat)
  BY NatLessThanWellFounded
<1>2. PICK x \in T : \A y \in T : ~ (<<y, x>> \in OpToRel(<, Nat))
  <2> HIDE DEF T
  <2>1. T \subseteq Nat
    BY DEF T
  <2> QED
    BY <1>1, <2>1, WFMin
<1>3. x \in Nat /\ x \notin S
  BY <1>2
<1>4. x - 1 \in Nat /\ x = (x - 1) + 1
  <2>1. x # 0
    BY <1>3
  <2> HIDE DEF T
  <2> QED
    BY <1>3, <2>1
<1>5. x - 1 \in T
  <2>1. x - 1 \notin S
    BY <1>3, <1>4
  <2> QED
    BY <1>4, <2>1
<1>6. <<x - 1, x>> \in OpToRel(<, Nat)
  BY <1>2, <1>4 DEF OpToRel
<1> QED
  BY <1>2, <1>5, <1>6

\* A set of numbers that is not empty has a least one.
LEMMA LeastNumber ==
  ASSUME NEW numbers, numbers \subseteq Nat, numbers # {}
  PROVE  \E x \in numbers : \A y \in numbers : x <= y
<1> DEFINE S == {n \in Nat : \A y \in numbers : n <= y}
<1>1. PICK v \in numbers : TRUE
  OBVIOUS
<1>2. 0 \in S
  OBVIOUS
<1> SUFFICES ASSUME \A x \in numbers : x \notin S PROVE FALSE
  OBVIOUS
<1>3. ASSUME NEW n \in Nat, n \in S PROVE n + 1 \in S
  <2>1. \A y \in numbers : n <= y /\ n # y /\ y \in Nat
    BY <1>3
  <2> QED
    BY <2>1
<1>4. v + 1 \in S
  <2>1. Nat \subseteq S
    <3> HIDE DEF S
    <3> QED
      BY <1>2, <1>3, AllNumbers
  <2> QED
    BY <1>1, <2>1
<1> QED
  BY <1>1, <1>4

\* Induction over the subsets of a finite set, likewise.
LEMMA AllSubsets ==
  ASSUME NEW S, IsFiniteSet(S), NEW F, {} \in F,
         \A s \in SUBSET S : \A x \in S \ s : s \in F => s \cup {x} \in F
  PROVE  SUBSET S \subseteq F
<1> DEFINE Sizes == {n \in Nat : \A s \in SUBSET S : Cardinality(s) = n => s \in F}
<1>0. \A s \in SUBSET S : IsFiniteSet(s) /\ Cardinality(s) \in Nat
  BY FS_Subset, FS_CardinalityType
<1>1. 0 \in Sizes
  <2>1. \A s : IsFiniteSet(s) => (Cardinality(s) = 0 <=> s = {})
    BY FS_EmptySet
  <2>2. \A s \in SUBSET S : Cardinality(s) = 0 => s = {}
    BY <1>0, <2>1
  <2> QED
    BY <2>2
<1>2. ASSUME NEW n \in Nat, n \in Sizes PROVE n + 1 \in Sizes
  <2> SUFFICES ASSUME NEW s \in SUBSET S, Cardinality(s) = n + 1 PROVE s \in F
    OBVIOUS
  <2>1. s # {}
    <3>1. Cardinality({}) = 0
      BY FS_EmptySet
    <3> QED
      BY <3>1
  <2>2. PICK x \in s : TRUE
    BY <2>1
  <2>3. s \ {x} \in SUBSET S /\ IsFiniteSet(s)
    BY <1>0
  <2>4. Cardinality(s \ {x}) = Cardinality(s) - 1
    BY <2>2, <2>3, FS_RemoveElement
  <2>5. s \ {x} \in F
    <3>1. Cardinality(s \ {x}) = n
      BY <2>4
    <3> QED
      BY <1>2, <2>3, <3>1
  <2>6. x \in S \ (s \ {x}) /\ (s \ {x}) \cup {x} = s
    BY <2>2
  <2> QED
    BY <2>3, <2>5, <2>6
<1>3. Nat \subseteq Sizes
  <2> HIDE DEF Sizes
  <2> QED
    BY <1>1, <1>2, AllNumbers
<1>4. ASSUME NEW s \in SUBSET S PROVE s \in F
  <2>1. Cardinality(s) \in Sizes
    BY <1>0, <1>3
  <2> QED
    BY <2>1
<1> QED
  BY <1>4

-----------------------------------------------------------------------------
(* Sums *)

\* I sums f over every subset of S, c choosing which element is added last.
SumsBy(I, f, S, c) ==
    I = [s \in SUBSET S |-> IF s = {} THEN 0 ELSE f[c[s]] + I[s \ {c[s]}]]

\* The recursion behind Total has a solution: f summed over every subset, where
\* c says which element of a subset is added last.
LEMMA SumExists ==
  ASSUME NEW S, IsFiniteSet(S), NEW f \in [S -> Int], NEW c,
         \A s \in SUBSET S : s # {} => c[s] \in s
  PROVE  \E I : SumsBy(I, f, S, c)
<1> DEFINE Small(n) == {s \in SUBSET S : Cardinality(s) <= n}
           Step(I, s) == IF s = {} THEN 0 ELSE f[c[s]] + I[s \ {c[s]}]
           Is(I, n) == /\ I \in [Small(n) -> Int]
                       /\ \A s \in Small(n) : I[s] = Step(I, s)
           Sizes == {n \in Nat : \E I : Is(I, n)}
<1>0. \A s \in SUBSET S : IsFiniteSet(s) /\ Cardinality(s) \in Nat
  BY FS_Subset, FS_CardinalityType
<1>e. Cardinality({}) = 0 /\ \A s : IsFiniteSet(s) => (Cardinality(s) = 0 <=> s = {})
  BY FS_EmptySet
<1>c. ASSUME NEW s \in SUBSET S, s # {}
      PROVE  s \ {c[s]} \in SUBSET S /\ Cardinality(s \ {c[s]}) = Cardinality(s) - 1
  <2>1. IsFiniteSet(s) /\ c[s] \in s
    BY <1>0, <1>c
  <2>2. Cardinality(s \ {c[s]}) = IF c[s] \in s THEN Cardinality(s) - 1 ELSE Cardinality(s)
    BY <2>1, FS_RemoveElement
  <2> QED
    BY <2>1, <2>2
<1>1. 0 \in Sizes
  <2> DEFINE I == [s \in Small(0) |-> 0]
  <2>1. \A s \in Small(0) : s = {}
    BY <1>0, <1>e
  <2>2. Is(I, 0)
    BY <2>1
  <2> QED
    BY <2>2
<1>2. ASSUME NEW n \in Nat, n \in Sizes PROVE n + 1 \in Sizes
  <2>1. PICK I : Is(I, n)
    BY <1>2
  <2> DEFINE J == [s \in Small(n + 1) |-> Step(I, s)]
  <2>2. ASSUME NEW s \in Small(n + 1), s # {}
        PROVE  /\ c[s] \in S
               /\ s \ {c[s]} \in Small(n) /\ s \ {c[s]} \in Small(n + 1)
    <3>1. Cardinality(s) \in Nat /\ Cardinality(s) <= n + 1
      BY <1>0
    <3>2. s \ {c[s]} \in SUBSET S /\ Cardinality(s \ {c[s]}) = Cardinality(s) - 1
      BY <1>c, <2>2
    <3> QED
      BY <2>2, <3>1, <3>2
  <2>3. \A s \in Small(n) : s \in Small(n + 1) /\ J[s] = I[s]
    BY <1>0, <2>1
  <2>4. ASSUME NEW s \in Small(n + 1) PROVE J[s] \in Int /\ J[s] = Step(J, s)
    <3> HIDE DEF Small
    <3>1. CASE s = {}
      BY <3>1
    <3>2. CASE s # {}
      <4>1. J[s \ {c[s]}] = I[s \ {c[s]}] /\ I[s \ {c[s]}] \in Int
        BY <2>1, <2>2, <2>3, <3>2
      <4>2. J[s] = f[c[s]] + I[s \ {c[s]}]
        BY <3>2
      <4>3. f[c[s]] \in Int
        BY <2>2, <3>2
      <4> HIDE DEF J
      <4> QED
        BY <3>2, <4>1, <4>2, <4>3
    <3> QED
      BY <3>1, <3>2
  <2>5. Is(J, n + 1)
    <3> HIDE DEF Small
    <3>1. J = [s \in Small(n + 1) |-> J[s]]
      OBVIOUS
    <3> HIDE DEF J
    <3>2. J \in [Small(n + 1) -> Int]
      BY <2>4, <3>1
    <3> QED
      BY <2>4, <3>2
  <2>6. n + 1 \in Nat
    OBVIOUS
  <2> HIDE DEF J, Small, Is
  <2> QED
    BY <2>5, <2>6
<1>3. Nat \subseteq Sizes
  <2> HIDE DEF Sizes
  <2> QED
    BY <1>1, <1>2, AllNumbers
<1>4. PICK I : Is(I, Cardinality(S))
  BY <1>0, <1>3
<1>5. Small(Cardinality(S)) = SUBSET S
  BY FS_Subset
<1>6. I \in [SUBSET S -> Int] /\ \A s \in SUBSET S : I[s] = Step(I, s)
  BY <1>4, <1>5
<1>7. SumsBy(I, f, S, c)
  BY <1>6 DEF SumsBy
<1> QED
  BY <1>7

\* I sums f over every subset of S.
Sums(I, f, S) ==
    /\ I \in [SUBSET S -> Int] /\ I[{}] = 0
    /\ \A s \in SUBSET S : \A x \in s : I[s] = f[x] + I[s \ {x}]

\* The order in which the elements are added does not matter.
LEMMA AnyOrder ==
  ASSUME NEW S, IsFiniteSet(S), NEW f \in [S -> Int], NEW c,
         \A s \in SUBSET S : s # {} => c[s] \in s,
         NEW I, SumsBy(I, f, S, c)
  PROVE  Sums(I, f, S)
<1> DEFINE Good(s) == I[s] \in Int /\ \A x \in s : I[s] = f[x] + I[s \ {x}]
           Sizes == {n \in Nat : \A s \in SUBSET S : Cardinality(s) <= n => Good(s)}
<1>0. \A s \in SUBSET S : IsFiniteSet(s) /\ Cardinality(s) \in Nat
  BY FS_Subset, FS_CardinalityType
<1>e. Cardinality({}) = 0 /\ \A s : IsFiniteSet(s) => (Cardinality(s) = 0 <=> s = {})
  BY FS_EmptySet
<1>d. I = [s \in SUBSET S |-> IF s = {} THEN 0 ELSE f[c[s]] + I[s \ {c[s]}]]
  BY DEF SumsBy
<1>i. I[{}] = 0
  BY <1>d
<1>s. ASSUME NEW s \in SUBSET S, s # {} PROVE I[s] = f[c[s]] + I[s \ {c[s]}]
  BY <1>d, <1>s
<1>r. ASSUME NEW s \in SUBSET S, NEW x \in s
      PROVE  s \ {x} \in SUBSET S /\ Cardinality(s \ {x}) = Cardinality(s) - 1
  <2>1. IsFiniteSet(s)
    BY <1>0
  <2>2. Cardinality(s \ {x}) = IF x \in s THEN Cardinality(s) - 1 ELSE Cardinality(s)
    BY <2>1, FS_RemoveElement
  <2> QED
    BY <2>2
<1>1. 0 \in Sizes
  <2> SUFFICES ASSUME NEW s \in SUBSET S, Cardinality(s) <= 0 PROVE Good(s)
    OBVIOUS
  <2>1. s = {}
    BY <1>0, <1>e
  <2> QED
    BY <1>i, <2>1
<1>2. ASSUME NEW n \in Nat, n \in Sizes PROVE n + 1 \in Sizes
  <2>a. ASSUME NEW s \in SUBSET S, Cardinality(s) <= n PROVE Good(s)
    BY <1>2, <2>a
  <2>b. Good({})
    BY <1>i
  <2>c. ASSUME NEW s \in SUBSET S, Cardinality(s) = n + 1, s # {} PROVE Good(s)
    <3> DEFINE y == c[s]
    <3>1. y \in s /\ I[s] = f[y] + I[s \ {y}]
      BY <1>s, <2>c
    <3> HIDE DEF y
    <3>2. ASSUME NEW x \in s
          PROVE  s \ {x} \in SUBSET S /\ Good(s \ {x}) /\ f[x] \in Int
      <4>1. s \ {x} \in SUBSET S /\ Cardinality(s \ {x}) = n
        BY <1>r, <2>c
      <4>2. Cardinality(s \ {x}) <= n
        BY <4>1
      <4>3. Good(s \ {x})
        <5> HIDE DEF Good
        <5> QED
          BY <2>a, <4>1, <4>2
      <4>4. x \in S
        OBVIOUS
      <4> QED
        BY <4>1, <4>3, <4>4
    <3>3. I[s] \in Int
      <4>1. f[y] \in Int /\ I[s \ {y}] \in Int
        BY <3>1, <3>2
      <4> QED
        BY <3>1, <4>1
    <3>4. ASSUME NEW x \in s PROVE I[s] = f[x] + I[s \ {x}]
      <4>1. CASE x = y
        BY <3>1, <4>1
      <4>2. CASE x # y
        <5> DEFINE u == (s \ {x}) \ {y}
        <5>1. x \in s \ {y} /\ y \in s \ {x} /\ (s \ {y}) \ {x} = u
          BY <3>1, <4>2
        <5>2. I[s \ {y}] = f[x] + I[u]
          <6>1. Good(s \ {y})
            BY <3>1, <3>2
          <6>2. I[s \ {y}] = f[x] + I[(s \ {y}) \ {x}]
            BY <5>1, <6>1
          <6> HIDE DEF u
          <6> QED
            BY <5>1, <6>2
        <5>3. I[s \ {x}] = f[y] + I[u]
          BY <3>2, <5>1
        <5>4. I[u] \in Int
          <6>1. s \ {x} \in SUBSET S /\ Cardinality(s \ {x}) = n
            BY <1>r, <2>c
          <6>2. u \in SUBSET S /\ Cardinality(u) = n - 1
            BY <1>r, <5>1, <6>1
          <6>3. Cardinality(u) <= n
            BY <6>2
          <6> HIDE DEF u
          <6> QED
            BY <2>a, <6>2, <6>3
        <5>5. f[x] \in Int /\ f[y] \in Int
          BY <3>1, <3>2
        <5>6. I[s] = f[y] + I[s \ {y}]
          BY <3>1
        <5> DEFINE Iu == I[u]
                   Is == I[s]
                   Ix == I[s \ {x}]
                   Iy == I[s \ {y}]
                   fx == f[x]
                   fy == f[y]
        <5>7. Is = fx + Ix
          <6>1. /\ Iu \in Int /\ fx \in Int /\ fy \in Int
                /\ Is = fy + Iy /\ Iy = fx + Iu /\ Ix = fy + Iu
            BY <5>2, <5>3, <5>4, <5>5, <5>6
          <6> HIDE DEF Iu, Is, Ix, Iy, fx, fy
          <6> QED
            BY <6>1
        <5> QED
          BY <5>7
      <4> QED
        BY <4>1, <4>2
    <3> QED
      BY <3>3, <3>4
  <2>d. ASSUME NEW s \in SUBSET S, Cardinality(s) <= n + 1 PROVE Good(s)
    <3> HIDE DEF Good
    <3>1. Cardinality(s) \in Nat
      BY <1>0
    <3>2. Cardinality(s) <= n \/ Cardinality(s) = n + 1
      BY <2>d, <3>1
    <3> QED
      BY <2>a, <2>b, <2>c, <3>2
  <2> HIDE DEF Good
  <2> QED
    BY <2>d
<1>3. Nat \subseteq Sizes
  <2> HIDE DEF Sizes
  <2> QED
    BY <1>1, <1>2, AllNumbers
<1>4. ASSUME NEW s \in SUBSET S PROVE Good(s)
  <2>1. Cardinality(s) \in Nat
    BY <1>0
  <2>2. Cardinality(s) \in Sizes /\ Cardinality(s) <= Cardinality(s)
    <3> HIDE DEF Sizes
    <3> QED
      BY <1>3, <2>1
  <2> HIDE DEF Good
  <2> QED
    BY <2>2
<1>5. I \in [SUBSET S -> Int]
  <2>1. I = [s \in SUBSET S |-> I[s]]
    BY <1>d
  <2>2. \A s \in SUBSET S : I[s] \in Int
    BY <1>4
  <2> QED
    BY <2>1, <2>2
<1> QED
  BY <1>i, <1>4, <1>5 DEF Sums

\* Total is such a sum.
LEMMA TotalSums ==
  ASSUME NEW S, IsFiniteSet(S), NEW f \in [S -> Int]
  PROVE  \E I : Sums(I, f, S) /\ Total(f) = I[S]
<1> DEFINE c == [s \in SUBSET S |-> CHOOSE x \in s : TRUE]
           Is(I) == SumsBy(I, f, S, c)
           Sum == CHOOSE I : Is(I)
           Means(I) == I = [s \in SUBSET S |->
                              IF s = {} THEN 0
                              ELSE f[CHOOSE x \in s : TRUE] + I[s \ {CHOOSE x \in s : TRUE}]]
<1>1. \A s \in SUBSET S : s # {} => c[s] \in s
  OBVIOUS
<1>2. \E I : Is(I)
  <2> HIDE DEF c
  <2> QED
    BY <1>1, SumExists
<1>3. Is(Sum)
  <2> HIDE DEF Is
  <2> QED
    BY <1>2
<1>4. Sums(Sum, f, S)
  <2> HIDE DEF c, Sum
  <2> QED
    BY <1>1, <1>3, AnyOrder
<1>5. Total(f) = Sum[S]
  <2>1. Total(f) = (CHOOSE I : Means(I))[S]
    BY DEF Total, MapThenSumSet, MapThenFoldSet
  <2>2. \A I : Is(I) <=> Means(I)
    BY DEF SumsBy
  <2>3. (CHOOSE I : Means(I)) = CHOOSE I : Is(I)
    <3> HIDE DEF Is, Means
    <3> QED
      BY <2>2
  <2> QED
    BY <2>1, <2>3
<1> QED
  <2> HIDE DEF Sum
  <2> QED
    BY <1>4, <1>5

\* A function summed over the parts of its domain: one sum for all of them.
LEMMA TotalsOfParts ==
  ASSUME NEW S, IsFiniteSet(S), NEW f \in [S -> Int]
  PROVE  \E I : /\ Sums(I, f, S)
                /\ \A T \in SUBSET S : Total([x \in T |-> f[x]]) = I[T]
<1>1. PICK I : Sums(I, f, S)
  BY TotalSums
<1>2. ASSUME NEW T \in SUBSET S PROVE Total([x \in T |-> f[x]]) = I[T]
  <2> DEFINE g == [x \in T |-> f[x]]
  <2>1. IsFiniteSet(T) /\ g \in [T -> Int]
    BY FS_Subset
  <2> HIDE DEF g
  <2>2. PICK J : Sums(J, g, T) /\ Total(g) = J[T]
    BY <2>1, TotalSums
  <2> DEFINE Same == {t \in SUBSET T : J[t] = I[t]}
  <2>3. {} \in Same
    BY <1>1, <2>2 DEF Sums
  <2>4. ASSUME NEW t \in SUBSET T, NEW x \in T \ t, t \in Same PROVE t \cup {x} \in Same
    <3> DEFINE u == t \cup {x}
    <3>1. u \in SUBSET T /\ u \in SUBSET S /\ x \in u /\ u \ {x} = t
      OBVIOUS
    <3> HIDE DEF u
    <3>2. J[u] = g[x] + J[t] /\ I[u] = f[x] + I[t]
      BY <1>1, <2>2, <3>1 DEF Sums
    <3>3. g[x] = f[x]
      BY DEF g
    <3>4. u \in Same
      BY <2>4, <3>1, <3>2, <3>3
    <3> QED
      BY <3>4 DEF u
  <2>5. SUBSET T \subseteq Same
    <3> HIDE DEF Same
    <3> QED
      BY <2>1, <2>3, <2>4, AllSubsets
  <2>6. Total(g) = I[T]
    BY <2>2, <2>5
  <2> QED
    BY <2>6 DEF g
<1> QED
  BY <1>1, <1>2

\* A sum is an integer, one of natural numbers a natural number.
LEMMA TotalType ==
  ASSUME NEW S, IsFiniteSet(S), NEW f \in [S -> Int]
  PROVE  Total(f) \in Int /\ (f \in [S -> Nat] => Total(f) \in Nat)
<1>1. PICK I : Sums(I, f, S) /\ Total(f) = I[S]
  BY TotalSums
<1>2. Total(f) \in Int
  BY <1>1 DEF Sums
<1>3. ASSUME f \in [S -> Nat] PROVE Total(f) \in Nat
  <2> DEFINE Natural == {s \in SUBSET S : I[s] \in Nat}
  <2>1. {} \in Natural
    BY <1>1 DEF Sums
  <2>2. ASSUME NEW s \in SUBSET S, NEW x \in S \ s, s \in Natural PROVE s \cup {x} \in Natural
    <3> DEFINE u == s \cup {x}
    <3>1. u \in SUBSET S /\ x \in u /\ u \ {x} = s
      OBVIOUS
    <3> HIDE DEF u
    <3>2. I[u] = f[x] + I[s]
      BY <1>1, <3>1 DEF Sums
    <3>3. f[x] \in Nat
      BY <1>3
    <3>4. u \in Natural
      BY <2>2, <3>1, <3>2, <3>3
    <3> QED
      BY <3>4 DEF u
  <2>3. SUBSET S \subseteq Natural
    <3> HIDE DEF Natural
    <3> QED
      BY <2>1, <2>2, AllSubsets
  <2> QED
    BY <1>1, <2>3
<1> QED
  BY <1>2, <1>3

\* Nothing adds up to nothing.
LEMMA TotalOfNothing ==
  ASSUME NEW f, DOMAIN f = {}, f = [x \in {} |-> f[x]]
  PROVE  Total(f) = 0
<1>1. f \in [{} -> Int] /\ IsFiniteSet({})
  BY FS_EmptySet
<1>2. PICK I : Sums(I, f, {}) /\ Total(f) = I[{}]
  BY <1>1, TotalSums
<1> QED
  BY <1>2 DEF Sums

\* Any value may be added last.
LEMMA TotalLast ==
  ASSUME NEW S, IsFiniteSet(S), NEW f \in [S -> Int], NEW x \in S
  PROVE  Total(f) = f[x] + Total([y \in S \ {x} |-> f[y]])
<1>1. PICK I : /\ Sums(I, f, S)
               /\ \A T \in SUBSET S : Total([y \in T |-> f[y]]) = I[T]
  BY TotalsOfParts
<1>2. f = [y \in S |-> f[y]]
  OBVIOUS
<1>3. Total(f) = I[S]
  BY <1>1, <1>2
<1>4. I[S] = f[x] + I[S \ {x}]
  BY <1>1 DEF Sums
<1>5. Total([y \in S \ {x} |-> f[y]]) = I[S \ {x}]
  BY <1>1
<1> QED
  BY <1>3, <1>4, <1>5

\* Two functions summed together.
LEMMA TotalPlus ==
  ASSUME NEW S, IsFiniteSet(S), NEW f \in [S -> Int], NEW g \in [S -> Int]
  PROVE  Total([x \in S |-> f[x] + g[x]]) = Total(f) + Total(g)
<1> DEFINE h == [x \in S |-> f[x] + g[x]]
<1>1. h \in [S -> Int] /\ \A x \in S : h[x] = f[x] + g[x]
  OBVIOUS
<1> HIDE DEF h
<1>2. PICK F : Sums(F, f, S) /\ Total(f) = F[S]
  BY TotalSums
<1>3. PICK G : Sums(G, g, S) /\ Total(g) = G[S]
  BY TotalSums
<1>4. PICK H : Sums(H, h, S) /\ Total(h) = H[S]
  BY <1>1, TotalSums
<1> DEFINE Adds == {s \in SUBSET S : H[s] = F[s] + G[s]}
<1>5. {} \in Adds
  BY <1>2, <1>3, <1>4 DEF Sums
<1>6. ASSUME NEW s \in SUBSET S, NEW x \in S \ s, s \in Adds PROVE s \cup {x} \in Adds
  <2> DEFINE u == s \cup {x}
  <2>1. u \in SUBSET S /\ x \in u /\ u \ {x} = s
    OBVIOUS
  <2> HIDE DEF u
  <2>2. H[u] = h[x] + H[s] /\ F[u] = f[x] + F[s] /\ G[u] = g[x] + G[s]
    BY <1>2, <1>3, <1>4, <2>1 DEF Sums
  <2>3. f[x] \in Int /\ g[x] \in Int /\ F[s] \in Int /\ G[s] \in Int
    BY <1>2, <1>3 DEF Sums
  <2>4. H[s] = F[s] + G[s] /\ h[x] = f[x] + g[x]
    BY <1>1, <1>6
  <2>5. H[u] = F[u] + G[u]
    BY <2>2, <2>3, <2>4
  <2>6. u \in Adds
    BY <2>1, <2>5
  <2> QED
    BY <2>6 DEF u
<1>7. SUBSET S \subseteq Adds
  <2> HIDE DEF Adds
  <2> QED
    BY <1>5, <1>6, AllSubsets
<1>8. Total(h) = Total(f) + Total(g)
  BY <1>2, <1>3, <1>4, <1>7
<1> QED
  BY <1>8 DEF h

\* Where a function is zero, it may be left out of the sum.
LEMMA TotalOutside ==
  ASSUME NEW S, IsFiniteSet(S), NEW f \in [S -> Int], NEW T \in SUBSET S,
         \A x \in S \ T : f[x] = 0
  PROVE  Total(f) = Total([x \in T |-> f[x]])
<1>1. PICK I : /\ Sums(I, f, S)
               /\ \A U \in SUBSET S : Total([y \in U |-> f[y]]) = I[U]
  BY TotalsOfParts
<1> DEFINE R    == S \ T
           Kept == {s \in SUBSET R : I[T \cup s] = I[T]}
<1>2. {} \in Kept
  <2>1. T \cup {} = T
    OBVIOUS
  <2> QED
    BY <2>1
<1>3. ASSUME NEW s \in SUBSET R, NEW x \in R \ s, s \in Kept PROVE s \cup {x} \in Kept
  <2> DEFINE u == T \cup (s \cup {x})
  <2>1. u \in SUBSET S /\ x \in u /\ u \ {x} = T \cup s /\ f[x] = 0
    OBVIOUS
  <2> HIDE DEF u
  <2>2. I[u] = f[x] + I[T \cup s] /\ I[T \cup s] \in Int
    BY <1>1, <2>1 DEF Sums
  <2>3. I[u] = I[T]
    BY <1>3, <2>1, <2>2
  <2> QED
    BY <2>3 DEF u
<1>4. SUBSET R \subseteq Kept
  <2>1. IsFiniteSet(R)
    BY FS_Subset
  <2> HIDE DEF Kept, R
  <2> QED
    BY <1>2, <1>3, <2>1, AllSubsets
<1>5. I[S] = I[T]
  <2>1. R \in Kept /\ T \cup R = S
    BY <1>4
  <2> QED
    BY <2>1
<1>6. f = [y \in S |-> f[y]]
  OBVIOUS
<1> QED
  BY <1>1, <1>5, <1>6

\* One value changed.
LEMMA TotalUpdate ==
  ASSUME NEW S, IsFiniteSet(S), NEW f \in [S -> Int], NEW g \in [S -> Int], NEW x \in S,
         \A y \in S \ {x} : g[y] = f[y]
  PROVE  Total(g) = Total(f) + (g[x] - f[x])
<1> DEFINE rest == Total([y \in S \ {x} |-> f[y]])
<1>1. Total(f) = f[x] + rest
  BY TotalLast
<1>2. Total(g) = g[x] + Total([y \in S \ {x} |-> g[y]])
  BY TotalLast
<1>3. [y \in S \ {x} |-> g[y]] = [y \in S \ {x} |-> f[y]]
  OBVIOUS
<1>4. rest \in Int
  <2>1. IsFiniteSet(S \ {x}) /\ [y \in S \ {x} |-> f[y]] \in [S \ {x} -> Int]
    BY FS_Subset
  <2> QED
    BY <2>1, TotalType
<1>5. Total(g) = g[x] + rest
  BY <1>2, <1>3
<1> HIDE DEF rest
<1> QED
  BY <1>1, <1>4, <1>5

\* The sum of the sums over the groups that h makes is the whole sum.
LEMMA TotalGrouped ==
  ASSUME NEW S, IsFiniteSet(S), NEW f \in [S -> Int],
         NEW K, IsFiniteSet(K), NEW h \in [S -> K]
  PROVE  Total([k \in K |-> Total([x \in {y \in S : h[y] = k} |-> f[x]])]) = Total(f)
<1>1. PICK I : /\ Sums(I, f, S)
               /\ \A T \in SUBSET S : Total([y \in T |-> f[y]]) = I[T]
  BY TotalsOfParts
<1> DEFINE Group(s, k) == {y \in s : h[y] = k}
           Groups(s) == [k \in K |-> I[Group(s, k)]]
           Right == {s \in SUBSET S : Total(Groups(s)) = I[s]}
<1>2. \A s \in SUBSET S : Groups(s) \in [K -> Int]
  <2>1. \A s \in SUBSET S, k \in K : Group(s, k) \in SUBSET S
    OBVIOUS
  <2> HIDE DEF Group
  <2> QED
    BY <1>1, <2>1 DEF Sums
<1>3. {} \in Right
  <2> DEFINE zero == Groups({})
  <2>1. zero = [k \in K |-> 0]
    <3>1. \A k \in K : Group({}, k) = {}
      OBVIOUS
    <3> HIDE DEF Group
    <3> QED
      BY <1>1, <3>1 DEF Sums
  <2>2. zero \in [K -> Int] /\ \A k \in K \ {} : zero[k] = 0
    BY <2>1
  <2> HIDE DEF zero
  <2>3. Total(zero) = Total([k \in {} |-> zero[k]])
    BY <2>2, TotalOutside
  <2>4. Total([k \in {} |-> zero[k]]) = 0
    <3> DEFINE e == [k \in {} |-> zero[k]]
    <3>1. DOMAIN e = {} /\ e = [k \in {} |-> e[k]]
      OBVIOUS
    <3> HIDE DEF e
    <3>2. Total(e) = 0
      BY <3>1, TotalOfNothing
    <3> QED
      BY <3>2 DEF e
  <2>5. I[{}] = 0
    BY <1>1 DEF Sums
  <2> QED
    BY <2>3, <2>4, <2>5 DEF zero
<1>4. ASSUME NEW s \in SUBSET S, NEW x \in S \ s, s \in Right PROVE s \cup {x} \in Right
  <2> DEFINE u == s \cup {x}
             kx == h[x]
  <2>1. u \in SUBSET S /\ x \in u /\ u \ {x} = s /\ kx \in K
    OBVIOUS
  <2>2. \A k \in K \ {kx} : Group(u, k) = Group(s, k)
    OBVIOUS
  <2>3. Group(u, kx) \in SUBSET S /\ x \in Group(u, kx) /\ Group(u, kx) \ {x} = Group(s, kx)
    OBVIOUS
  <2>4. I[u] = f[x] + I[s] /\ I[Group(u, kx)] = f[x] + I[Group(s, kx)]
    <3> HIDE DEF u, kx, Group
    <3> QED
      BY <1>1, <2>1, <2>3 DEF Sums
  <2>5. /\ Groups(u) \in [K -> Int] /\ Groups(s) \in [K -> Int]
        /\ \A k \in K \ {kx} : Groups(u)[k] = Groups(s)[k]
        /\ Groups(u)[kx] = I[Group(u, kx)] /\ Groups(s)[kx] = I[Group(s, kx)]
    <3>1. Groups(u) \in [K -> Int] /\ Groups(s) \in [K -> Int]
      <4> HIDE DEF Groups, u
      <4> QED
        BY <1>2, <2>1
    <3> HIDE DEF Group, u, kx
    <3> QED
      BY <2>1, <2>2, <3>1
  <2> HIDE DEF u, kx, Groups, Group
  <2>6. Total(Groups(u)) = Total(Groups(s)) + (Groups(u)[kx] - Groups(s)[kx])
    BY <2>1, <2>5, TotalUpdate
  <2>7. f[x] \in Int /\ I[s] \in Int /\ I[Group(s, kx)] \in Int
    <3>1. Groups(s)[kx] \in Int
      BY <2>1, <2>5
    <3> QED
      BY <1>1, <2>5, <3>1 DEF Sums
  <2>8. Total(Groups(u)) = I[u]
    BY <1>4, <2>4, <2>5, <2>6, <2>7
  <2>9. u \in Right
    BY <2>1, <2>8
  <2> HIDE DEF Right
  <2> QED
    BY <2>9 DEF u
<1>5. SUBSET S \subseteq Right
  <2> HIDE DEF Right
  <2> QED
    BY <1>3, <1>4, AllSubsets
<1>6. \A k \in K : Total([x \in Group(S, k) |-> f[x]]) = I[Group(S, k)]
  <2>1. \A k \in K : Group(S, k) \in SUBSET S
    OBVIOUS
  <2> HIDE DEF Group
  <2> QED
    BY <1>1, <2>1
<1>7. [k \in K |-> Total([x \in Group(S, k) |-> f[x]])] = Groups(S)
  <2> HIDE DEF Group
  <2> QED
    BY <1>6
<1>8. Total(f) = I[S]
  <2>1. f = [y \in S |-> f[y]]
    OBVIOUS
  <2> QED
    BY <1>1, <2>1
<1>9. Total(Groups(S)) = I[S]
  <2>1. S \in Right
    <3> HIDE DEF Right
    <3> QED
      BY <1>5
  <2> QED
    BY <2>1
<1> QED
  <2> HIDE DEF Groups
  <2> QED
    BY <1>7, <1>8, <1>9

-----------------------------------------------------------------------------
(***************************************************************************)
(* The arithmetic of Voucher: what the roundabout computations, which      *)
(* avoid products beyond 64 bits, come to, and why a turn of the           *)
(* allocation loop cannot overdraw a line.                                 *)
(***************************************************************************)

\* A multiple of the divisor comes out of a quotient, for hundredths ...
LEMMA SplitHundreds ==
    ASSUME NEW x \in Nat, NEW y \in Nat
    PROVE  (100 * x + y) \div 100 = x + y \div 100
OBVIOUS

\* ... and for hundredths of a percent.
LEMMA SplitTenThousands ==
    ASSUME NEW x \in Nat, NEW y \in Nat
    PROVE  (10000 * x + y) \div 10000 = x + y \div 10000
OBVIOUS

\* The platform's commission is the exact share of the seller's total, rounded
\* down, and never more than the total.
THEOREM CommissionIsExact ==
    ASSUME NEW total \in Nat, NEW rate \in Nat, rate <= 10000
    PROVE  /\ Commission(total, rate) = (total * rate) \div 10000
           /\ Commission(total, rate) \in 0..total
<1> DEFINE whole == total \div 10000
           rest  == total % 10000
<1>1. whole \in Nat /\ rest \in 0..9999 /\ total = 10000 * whole + rest
  OBVIOUS
<1> HIDE DEF whole, rest
<1>2. /\ whole * rate \in Nat /\ rest * rate \in Nat
      /\ total * rate = 10000 * (whole * rate) + rest * rate
  <2>1. total * rate = (10000 * whole + rest) * rate
    BY <1>1
  <2>2. (10000 * whole + rest) * rate = 10000 * (whole * rate) + rest * rate
    BY <1>1
  <2> QED
    BY <1>1, <2>1, <2>2
<1>3. (total * rate) \div 10000 = whole * rate + (rest * rate) \div 10000
  BY <1>2, SplitTenThousands
<1>4. Commission(total, rate) = whole * rate + (rest * rate) \div 10000
  BY DEF Commission, whole, rest
<1>5. whole * rate <= 10000 * whole /\ rest * rate <= 10000 * rest
  BY <1>1
<1>6. (rest * rate) \div 10000 \in 0..rest
  <2> DEFINE product == rest * rate
  <2>1. product \in Nat /\ product <= 10000 * rest
    BY <1>2, <1>5
  <2> HIDE DEF product
  <2>2. product \div 10000 \in 0..rest
    BY <1>1, <2>1
  <2> QED
    BY <2>2 DEF product
<1> DEFINE product == whole * rate
           extra   == (rest * rate) \div 10000
<1>7. product + extra \in 0..total
  <2>1. product \in Nat /\ product <= 10000 * whole /\ extra \in 0..rest
    BY <1>2, <1>5, <1>6
  <2> HIDE DEF product, extra
  <2> QED
    BY <1>1, <2>1
<1>8. Commission(total, rate) = product + extra /\ (total * rate) \div 10000 = product + extra
  BY <1>3, <1>4
<1> HIDE DEF product, extra
<1> QED
  BY <1>7, <1>8

\* A percentage discount is the exact percentage of the eligible amount, rounded
\* down, under the offer's cap and the amount itself.
THEOREM PercentIsExact ==
    ASSUME NEW offer, NEW lines, offer.type = "percent", offer.value \in 0..100,
           Eligible(offer, lines) \in Nat
    PROVE  Discount(offer, lines) =
              LET exact == (Eligible(offer, lines) * offer.value) \div 100
              IN  Min({Min({exact, offer.maxDiscount}), Eligible(offer, lines)})
<1> DEFINE eligible == Eligible(offer, lines)
           value    == offer.value
           hundreds == eligible \div 100
           rest     == eligible % 100
<1>1. /\ eligible \in Nat /\ value \in Nat
      /\ hundreds \in Nat /\ rest \in Nat /\ eligible = 100 * hundreds + rest
  OBVIOUS
<1>2. Discount(offer, lines) =
         Min({Min({hundreds * value + (rest * value) \div 100, offer.maxDiscount}), eligible})
  BY DEF Discount
<1> HIDE DEF eligible, value, hundreds, rest
<1>3. /\ hundreds * value \in Nat /\ rest * value \in Nat
      /\ eligible * value = 100 * (hundreds * value) + rest * value
  <2>1. eligible * value = (100 * hundreds + rest) * value
    BY <1>1
  <2>2. (100 * hundreds + rest) * value = 100 * (hundreds * value) + rest * value
    BY <1>1
  <2> QED
    BY <1>1, <2>1, <2>2
<1>4. (eligible * value) \div 100 = hundreds * value + (rest * value) \div 100
  <2> DEFINE x == hundreds * value
             y == rest * value
             z == eligible * value
  <2>1. x \in Nat /\ y \in Nat /\ z = 100 * x + y
    BY <1>3
  <2> HIDE DEF x, y, z
  <2>2. z \div 100 = x + y \div 100
    BY <2>1, SplitHundreds
  <2> QED
    BY <2>2 DEF x, y, z
<1> QED
  BY <1>2, <1>4 DEF eligible, value

\* One turn of the allocation loop: given that what remains fits into what is
\* unallocated, the line's share fits the line and what then remains fits into
\* the rest. So the last line, which is all that is left, takes all that remains.
THEOREM AllocateLineSound ==
    ASSUME NEW offer, NEW acc, NEW line, Covers(offer, line),
           acc.base \in Nat, acc.remaining \in 0..acc.base,
           line.amount \in 1..acc.base
    PROVE  LET share == (acc.remaining * line.amount) \div acc.base
               next  == AllocateLine(offer, acc, line)
           IN  /\ next.shares = Append(acc.shares, share)
               /\ share \in 0..line.amount
               /\ next.remaining = acc.remaining - share
               /\ next.base = acc.base - line.amount
               /\ next.remaining \in 0..next.base
               /\ line.amount = acc.base => share = acc.remaining
<1> DEFINE b     == acc.base
           m     == acc.remaining
           a     == line.amount
           share == (m * a) \div b
<1>1. b \in Nat \ {0} /\ m \in 0..b /\ a \in 1..b
  OBVIOUS
<1>2. AllocateLine(offer, acc, line) =
         [remaining |-> m - share, base |-> b - a, shares |-> Append(acc.shares, share)]
  BY DEF AllocateLine
<1> HIDE DEF b, m, a
<1>3. m * a \in Nat /\ m * a <= b * a /\ m * a <= b * m
  BY <1>1
<1>4. share \in Nat /\ b * share <= m * a /\ m * a < b * share + b
  <2> DEFINE product == m * a
  <2>1. product \in Nat
    BY <1>3
  <2> HIDE DEF product
  <2>2. product \div b \in Nat /\ b * (product \div b) <= product
        /\ product < b * (product \div b) + b
    BY <1>1, <2>1
  <2> QED
    BY <2>2 DEF product
<1> HIDE DEF share
<1>5. share <= a
  <2> SUFFICES ASSUME share > a PROVE FALSE
    BY <1>1, <1>4
  <2>1. b * share >= b * (a + 1) /\ b * (a + 1) = b * a + b
    BY <1>1, <1>4
  <2> QED
    BY <1>1, <1>3, <1>4, <2>1
<1>6. share <= m
  <2> SUFFICES ASSUME share > m PROVE FALSE
    BY <1>1, <1>4
  <2>1. b * share >= b * (m + 1) /\ b * (m + 1) = b * m + b
    BY <1>1, <1>4
  <2> QED
    BY <1>1, <1>3, <1>4, <2>1
<1>7. m - share <= b - a
  <2> SUFFICES ASSUME share + b + 1 <= m + a PROVE FALSE
    BY <1>1, <1>4
  <2>1. b * (share + b + 1) <= b * (m + a)
    BY <1>1, <1>4
  <2>2. b * (share + b + 1) = b * share + b * b + b /\ b * (m + a) = b * m + b * a
    BY <1>1, <1>4
  <2>3. (b - m) * (b - a) >= 0
    BY <1>1
  <2>4. (b - m) * (b - a) = b * b - b * a - b * m + m * a
    BY <1>1
  <2> QED
    BY <1>1, <1>3, <1>4, <2>1, <2>2, <2>3, <2>4
<1>8. a = b => share = m
  BY <1>1, <1>4, <1>6, <1>7
<1> DEFINE next == AllocateLine(offer, acc, line)
<1>9. /\ next.shares = Append(acc.shares, share) /\ next.remaining = m - share
      /\ next.base = b - a
  BY <1>2
<1> HIDE DEF next
<1>10. /\ share \in 0..a /\ next.remaining \in 0..next.base
       /\ a = b => share = m
  BY <1>1, <1>4, <1>5, <1>6, <1>7, <1>8, <1>9
<1> QED
  BY <1>9, <1>10 DEF b, m, a, share, next

\* A quotient is the last multiple below.
LEMMA QuotientIs ==
  ASSUME NEW x \in Nat, NEW b \in Nat \ {0}
  PROVE  x \div b \in Nat /\ b * (x \div b) <= x /\ x < b * (x \div b) + b
OBVIOUS

\* The share of m that falls to a of b.
IsShare(share, m, a, b) == share \in Nat /\ b * share <= m * a /\ m * a < b * share + b

\* By how much m, allocated over b, exceeds the proportion.
IsLate(late, m, b, granted, eligible) == late \in Nat /\ m * eligible = granted * b + late

\* The share is near its exact proportion, and how far what is left then is from its own.
IsNear(share, late, m, a, b, granted, eligible) ==
    /\ granted * a - eligible < share * eligible
    /\ share * eligible <= granted * a + late
    /\ (m - share) * eligible = granted * (b - a) + (late + granted * a - share * eligible)

\* How far a share is from its exact proportion: what is left to allocate is in
\* excess of its proportion by what the roundings before took off, at most one
\* unit each, and each share can be out by no more than that.
LEMMA ShareIsNear ==
  ASSUME NEW b \in Nat \ {0}, NEW m \in Nat, NEW a \in 1..b,
         NEW eligible \in Nat \ {0}, NEW granted \in Nat,
         NEW share, IsShare(share, m, a, b), NEW late, IsLate(late, m, b, granted, eligible)
  PROVE  IsNear(share, late, m, a, b, granted, eligible)
<1>a. share \in Nat /\ b * share <= m * a /\ m * a < b * share + b
  BY DEF IsShare
<1>b. late \in Nat /\ m * eligible = granted * b + late
  BY DEF IsLate
<1> USE <1>a, <1>b
<1> DEFINE E == eligible
           D == granted
           d == late
           given == share * E
           exact == D * a
<1>1. given \in Nat /\ exact \in Nat
  OBVIOUS
<1>2. (m * a) * E = exact * b + d * a
  <2>1. (m * a) * E = (m * E) * a
    OBVIOUS
  <2>2. (D * b + d) * a = (D * a) * b + d * a
    OBVIOUS
  <2> QED
    BY <2>1, <2>2
<1>3. given * b <= exact * b + d * a
  <2>1. (b * share) * E <= (m * a) * E
    BY <1>1
  <2>2. (b * share) * E = given * b
    OBVIOUS
  <2> QED
    BY <1>2, <2>1, <2>2
<1>4. exact * b + d * a < given * b + E * b
  <2>1. (m * a) * E < (b * share + b) * E
    <3>1. m * a + 1 <= b * share + b
      OBVIOUS
    <3> DEFINE x == m * a
               y == b * share + b
    <3>2. x \in Nat /\ y \in Nat /\ x + 1 <= y
      BY <3>1
    <3> HIDE DEF x, y
    <3>3. x * E + E <= y * E
      <4>1. (y - x - 1) * E >= 0
        BY <3>2
      <4>2. (y - x - 1) * E = y * E - x * E - E
        BY <3>2
      <4>3. x * E \in Nat /\ y * E \in Nat
        BY <3>2
      <4> QED
        BY <3>2, <4>1, <4>2, <4>3
    <3>4. x * E \in Nat /\ y * E \in Nat
      BY <3>2
    <3>5. x * E < y * E
      BY <3>3, <3>4
    <3> QED
      BY <3>5 DEF x, y
  <2>2. (b * share + b) * E = given * b + E * b
    OBVIOUS
  <2> QED
    BY <1>2, <2>1, <2>2
<1>5. d * a \in Nat /\ d * a <= d * b
  OBVIOUS
<1>6. given <= exact + d
  <2> SUFFICES ASSUME given >= exact + d + 1 PROVE FALSE
    BY <1>1
  <2>1. given * b >= (exact + d + 1) * b
    BY <1>1
  <2>2. (exact + d + 1) * b = exact * b + d * b + b
    BY <1>1
  <2>3. exact * b \in Nat /\ d * b \in Nat /\ given * b \in Nat
    BY <1>1
  <2> HIDE DEF given, exact
  <2> QED
    BY <1>3, <1>5, <2>1, <2>2, <2>3
<1>7. exact < given + E
  <2> SUFFICES ASSUME exact >= given + E PROVE FALSE
    BY <1>1
  <2>1. exact * b >= (given + E) * b
    BY <1>1
  <2>2. (given + E) * b = given * b + E * b
    BY <1>1
  <2>3. exact * b \in Nat /\ E * b \in Nat /\ given * b \in Nat
    BY <1>1
  <2> HIDE DEF given, exact
  <2> QED
    BY <1>4, <1>5, <2>1, <2>2, <2>3
<1>8. (m - share) * E = D * (b - a) + (d + exact - given)
  <2>1. (m - share) * E = m * E - given
    OBVIOUS
  <2>2. D * (b - a) = D * b - exact
    OBVIOUS
  <2>3. D * b \in Nat
    OBVIOUS
  <2> HIDE DEF given, exact
  <2> QED
    BY <1>1, <2>1, <2>2, <2>3
<1> QED
  BY <1>1, <1>6, <1>7, <1>8 DEF IsNear

\* Whatever the coupon, the discount is between nothing and what it is granted on.
LEMMA DiscountBounded ==
  ASSUME NEW offer, IsOffer(offer), NEW lines, Eligible(offer, lines) \in Nat
  PROVE  Discount(offer, lines) \in 0..Eligible(offer, lines)
<1> DEFINE eligible == Eligible(offer, lines)
           percent  == (eligible \div 100) * offer.value
                         + ((eligible % 100) * offer.value) \div 100
           offered  == IF offer.type = "percent"
                       THEN Min({percent, offer.maxDiscount})
                       ELSE offer.value
<1>1. offer.value \in Nat /\ offer.maxDiscount \in Nat
  BY DEF IsOffer
<1>2. eligible \div 100 \in Nat /\ eligible % 100 \in Nat
  OBVIOUS
<1>3. percent \in Nat
  <2> DEFINE x == eligible \div 100
             y == eligible % 100
             v == offer.value
             z == y * v
  <2>1. x \in Nat /\ v \in Nat /\ z \in Nat
    BY <1>1, <1>2
  <2> HIDE DEF x, v, z
  <2>2. x * v \in Nat /\ z \div 100 \in Nat
    BY <2>1
  <2>3. x * v + z \div 100 \in Nat
    BY <2>2
  <2> QED
    BY <2>3 DEF x, y, v, z
<1>4. Discount(offer, lines) = Min({offered, eligible})
  BY DEF Discount
<1> HIDE DEF percent, eligible
<1>5. offered \in Nat
  BY <1>1, <1>3 DEF Min
<1> HIDE DEF offered
<1>6. eligible \in Nat
  BY DEF eligible
<1>7. Min({offered, eligible}) \in 0..eligible
  BY <1>5, <1>6 DEF Min
<1> QED
  BY <1>4, <1>7 DEF eligible

-----------------------------------------------------------------------------
(* The loop over the lines *)

\* Where the loop of LineDiscounts is after each line.
Allocation(A, offer, lines) ==
    A = [i \in 0..Len(lines) |->
            IF i = 0 THEN [remaining |-> Discount(offer, lines),
                           base      |-> Eligible(offer, lines),
                           shares    |-> <<>>]
                     ELSE AllocateLine(offer, A[i - 1], lines[i])]

\* The recursion of LineDiscounts has a solution, and its shares are the last ones.
LEMMA AllocationExists ==
  ASSUME NEW offer, NEW lines, Len(lines) \in Nat
  PROVE  \E A : Allocation(A, offer, lines) /\ LineDiscounts(offer, lines) = A[Len(lines)].shares
<1> DEFINE start == [remaining |-> Discount(offer, lines), base |-> Eligible(offer, lines),
                     shares |-> <<>>]
           n == Len(lines)
           Upto(A, k) == A = [i \in 0..k |-> IF i = 0 THEN start
                                             ELSE AllocateLine(offer, A[i - 1], lines[i])]
           Lengths == {k \in Nat : \E A : Upto(A, k)}
<1>1. 0 \in Lengths
  <2> HIDE DEF start
  <2>1. Upto([i \in 0..0 |-> start], 0)
    OBVIOUS
  <2> QED
    BY <2>1
<1>2. ASSUME NEW k \in Nat, k \in Lengths PROVE k + 1 \in Lengths
  <2> HIDE DEF start
  <2>1. PICK A : Upto(A, k)
    BY <1>2
  <2> DEFINE B == [i \in 0..k + 1 |-> IF i = 0 THEN start ELSE AllocateLine(offer, A[i - 1], lines[i])]
  <2>2. \A i \in 0..k : B[i] = A[i]
    BY <2>1
  <2>3. \A i \in 0..k + 1 : i # 0 => i - 1 \in 0..k
    OBVIOUS
  <2>4. Upto(B, k + 1)
    BY <2>2, <2>3
  <2>5. k + 1 \in Nat
    OBVIOUS
  <2> HIDE DEF B, Upto
  <2> QED
    BY <2>4, <2>5
<1>3. Nat \subseteq Lengths
  <2> HIDE DEF Lengths
  <2> QED
    BY <1>1, <1>2, AllNumbers
<1>4. \E A : Allocation(A, offer, lines)
  BY <1>3 DEF Allocation
<1> DEFINE after == CHOOSE A : Allocation(A, offer, lines)
<1>5. Allocation(after, offer, lines)
  BY <1>4
<1>6. LineDiscounts(offer, lines) = after[Len(lines)].shares
  BY DEF LineDiscounts, Allocation
<1> HIDE DEF after
<1> QED
  BY <1>5, <1>6

\* Of natural numbers, a part adds up to no more than all.
LEMMA PartsAreLess ==
  ASSUME NEW S, IsFiniteSet(S), NEW f \in [S -> Nat], NEW I, Sums(I, f, S),
         NEW T \in SUBSET S
  PROVE  I[T] \in Nat /\ I[S] \in Nat /\ I[T] <= I[S]
<1> DEFINE More == {s \in SUBSET S : I[s] \in Nat}
           R    == S \ T
           Rest == {s \in SUBSET R : I[T] <= I[T \cup s]}
<1>1. {} \in More
  BY DEF Sums
<1>2. ASSUME NEW s \in SUBSET S, NEW x \in S \ s, s \in More PROVE s \cup {x} \in More
  <2> DEFINE u == s \cup {x}
  <2>1. u \in SUBSET S /\ x \in u /\ u \ {x} = s
    OBVIOUS
  <2> HIDE DEF u
  <2>2. I[u] = f[x] + I[s] /\ f[x] \in Nat
    BY <2>1 DEF Sums
  <2>3. u \in More
    BY <1>2, <2>1, <2>2
  <2> QED
    BY <2>3 DEF u
<1>3. SUBSET S \subseteq More
  <2> HIDE DEF More
  <2> QED
    BY <1>1, <1>2, AllSubsets
<1>4. {} \in Rest
  <2>1. T \cup {} = T /\ I[T] \in Nat
    BY <1>3
  <2> QED
    BY <2>1
<1>5. ASSUME NEW s \in SUBSET R, NEW x \in R \ s, s \in Rest PROVE s \cup {x} \in Rest
  <2> DEFINE u == T \cup (s \cup {x})
             v == T \cup s
  <2>1. u \in SUBSET S /\ v \in SUBSET S /\ x \in u /\ u \ {x} = v
    OBVIOUS
  <2> HIDE DEF u
  <2>2. I[u] = f[x] + I[v] /\ f[x] \in Nat /\ I[v] \in Nat /\ I[T] \in Nat
    <3> HIDE DEF v
    <3> QED
      BY <1>3, <2>1 DEF Sums
  <2>3. I[T] <= I[v]
    BY <1>5
  <2> HIDE DEF v
  <2>4. I[T] <= I[u]
    BY <2>2, <2>3
  <2> QED
    BY <2>4 DEF u
<1>6. SUBSET R \subseteq Rest
  <2>1. IsFiniteSet(R)
    BY FS_Subset
  <2> HIDE DEF Rest, R
  <2> QED
    BY <1>4, <1>5, <2>1, AllSubsets
<1>7. R \in Rest /\ T \cup R = S
  BY <1>6
<1> QED
  BY <1>3, <1>7

\* The values of an interval may be added in order.
LEMMA TotalOfInterval ==
  ASSUME NEW n \in Nat, n # 0, NEW u \in [1..n -> Int]
  PROVE  Total(u) = u[n] + Total([y \in 1..(n - 1) |-> u[y]])
<1> DEFINE S == 1..n
<1>1. IsFiniteSet(S) /\ n \in S
  BY FS_Interval
<1>2. S \ {n} = 1..(n - 1)
  OBVIOUS
<1>3. u \in [S -> Int]
  OBVIOUS
<1> HIDE DEF S
<1>4. Total(u) = u[n] + Total([y \in S \ {n} |-> u[y]])
  BY <1>1, <1>3, TotalLast
<1> QED
  BY <1>2, <1>4

\* One more value at the end of a sequence.
LEMMA TotalAppend ==
  ASSUME NEW s \in Seq(Nat), NEW x \in Nat
  PROVE  Total(Append(s, x)) = Total(s) + x /\ Total(s) \in Nat
<1> DEFINE k == Len(s)
           n == k + 1
           u == Append(s, x)
<1>1. k \in Nat /\ s \in [1..k -> Nat]
  OBVIOUS
<1>2. u \in Seq(Nat) /\ Len(u) = n /\ n \in Nat /\ n # 0
  OBVIOUS
<1>3. u \in [1..n -> Nat]
  <2> HIDE DEF u, n
  <2> QED
    BY <1>2
<1>4. u[n] = x /\ \A i \in 1..k : u[i] = s[i]
  OBVIOUS
<1>5. IsFiniteSet(1..n) /\ IsFiniteSet(1..k)
  BY <1>1, <1>2, FS_Interval
<1>6. (1..n) \ {n} = 1..k /\ n \in 1..n
  BY <1>1
<1>7. s \in [1..k -> Int] /\ u \in [1..n -> Int]
  BY <1>1, <1>3
<1> HIDE DEF k, u, n
<1>8. Total(u) = u[n] + Total([y \in 1..(n - 1) |-> u[y]])
  BY <1>2, <1>6, <1>7, TotalOfInterval
<1>9. [y \in 1..(n - 1) |-> u[y]] = s
  <2>1. [y \in 1..k |-> u[y]] = s
    BY <1>1, <1>4
  <2>2. n - 1 = k
    BY <1>1 DEF n
  <2> QED
    BY <2>1, <2>2
<1>10. Total(s) \in Nat
  BY <1>1, <1>5, <1>7, TotalType
<1>11. Total(u) = x + Total(s)
  BY <1>4, <1>8, <1>9
<1> QED
  BY <1>10, <1>11 DEF u

\* What of each line the rule applies to.
Parts(offer, lines) == [i \in DOMAIN lines |-> Part(offer, lines[i])]

\* A share is less than a unit below its exact proportion, and above it by no
\* more than the units that the lines before it were short of.
FairShare(share, part, granted, eligible, i) ==
    /\ share \in 0..part
    /\ granted * part - eligible < share * eligible
    /\ share * eligible <= granted * part + (i - 1) * eligible

\* The shares of the first k lines are fair.
FairShares(s, k, parts, granted, eligible) ==
    /\ s \in Seq(Nat) /\ Len(s) = k
    /\ \A i \in 1..k : FairShare(s[i], parts[i], granted, eligible, i)

\* After k lines, I being the sums of the parts.
AllocationInv(acc, k, I, parts, granted, eligible) ==
    /\ acc \in [remaining : Nat, base : Nat, shares : Seq(Nat)]
    /\ FairShares(acc.shares, k, parts, granted, eligible)
    /\ acc.base = eligible - I[1..k]
    /\ acc.remaining = granted - Total(acc.shares)
    /\ acc.remaining <= acc.base
    /\ acc.remaining * eligible - granted * acc.base \in 0..(k * eligible)

\* What a turn adds to the shares.
LEMMA SharesGrow ==
  ASSUME NEW k \in Nat, NEW s, NEW x \in Nat, NEW parts, NEW granted, NEW eligible,
         FairShares(s, k, parts, granted, eligible),
         FairShare(x, parts[k + 1], granted, eligible, k + 1)
  PROVE  FairShares(Append(s, x), k + 1, parts, granted, eligible)
<1> DEFINE u == Append(s, x)
<1>1. s \in Seq(Nat) /\ Len(s) = k
  BY DEF FairShares
<1>2. u \in Seq(Nat) /\ Len(u) = k + 1 /\ u[k + 1] = x /\ \A i \in 1..k : u[i] = s[i]
  BY <1>1
<1> HIDE DEF u
<1>3. ASSUME NEW i \in 1..(k + 1) PROVE FairShare(u[i], parts[i], granted, eligible, i)
  <2>1. i \in 1..k \/ i = k + 1
    OBVIOUS
  <2> QED
    BY <1>2, <2>1 DEF FairShares
<1> QED
  BY <1>2, <1>3 DEF FairShares, u

\* I sums the parts one line further.
IsNext(k, parts, I) ==
    /\ parts[k + 1] \in Nat /\ I[1..k] \in Int
    /\ I[1..(k + 1)] = parts[k + 1] + I[1..k]

\* The part of the next line is added to the sum of those before.
LEMMA NextPart ==
  ASSUME NEW k \in Nat, NEW n \in Nat, k < n, NEW parts \in [1..n -> Nat], NEW I,
         Sums(I, parts, 1..n)
  PROVE  IsNext(k, parts, I)
<1> DEFINE u == 1..(k + 1)
           v == 1..k
           S == 1..n
<1>1. u \in SUBSET S /\ v \in SUBSET S /\ k + 1 \in u /\ u \ {k + 1} = v
  OBVIOUS
<1>2. parts[k + 1] \in Nat
  OBVIOUS
<1>3. Sums(I, parts, S)
  OBVIOUS
<1> HIDE DEF u, v, S
<1>4. I[u] = parts[k + 1] + I[v] /\ I[v] \in Int
  BY <1>1, <1>3 DEF Sums
<1> QED
  BY <1>2, <1>4 DEF u, v, IsNext

\* The next multiple of a number.
LEMMA NextMultiple ==
  ASSUME NEW k \in Nat, NEW e \in Nat
  PROVE  k * e \in Nat /\ (k + 1) * e = k * e + e
OBVIOUS

\* A turn on a line that the coupon does not cover, or that is free.
LEMMA AllocateNothing ==
  ASSUME NEW k \in Nat, NEW n \in Nat, k < n, NEW parts \in [1..n -> Nat], NEW I, Sums(I, parts, 1..n),
         NEW eligible \in Nat \ {0}, NEW granted \in Nat, NEW acc,
         AllocationInv(acc, k, I, parts, granted, eligible), parts[k + 1] = 0
  PROVE  AllocationInv([acc EXCEPT !.shares = Append(@, 0)], k + 1, I, parts, granted, eligible)
<1> DEFINE next == [acc EXCEPT !.shares = Append(@, 0)]
<1>1. /\ acc \in [remaining : Nat, base : Nat, shares : Seq(Nat)]
      /\ FairShares(acc.shares, k, parts, granted, eligible)
  BY DEF AllocationInv
<1>2. /\ next \in [remaining : Nat, base : Nat, shares : Seq(Nat)]
      /\ next.remaining = acc.remaining /\ next.base = acc.base
      /\ next.shares = Append(acc.shares, 0)
  <2> DEFINE more == Append(acc.shares, 0)
  <2>1. more \in Seq(Nat)
    BY <1>1
  <2>2. next = [acc EXCEPT !.shares = more]
    OBVIOUS
  <2> HIDE DEF more, next
  <2>3. /\ next \in [remaining : Nat, base : Nat, shares : Seq(Nat)]
        /\ next.remaining = acc.remaining /\ next.base = acc.base
        /\ next.shares = more
    BY <1>1, <2>1, <2>2
  <2> QED
    BY <2>3 DEF more
<1> HIDE DEF next
<1>3. FairShare(0, parts[k + 1], granted, eligible, k + 1)
  <2>1. granted * 0 = 0 /\ 0 * eligible = 0 /\ k * eligible \in Nat /\ (k + 1) - 1 = k
    OBVIOUS
  <2> QED
    BY <2>1 DEF FairShare
<1>4. FairShares(next.shares, k + 1, parts, granted, eligible)
  <2>1. FairShare(0, parts[k + 1], granted, eligible, k + 1) /\ 0 \in Nat
    BY <1>3
  <2>2. FairShares(Append(acc.shares, 0), k + 1, parts, granted, eligible)
    BY <1>1, <2>1, SharesGrow
  <2> QED
    BY <1>2, <2>2
<1>5. Total(next.shares) = Total(acc.shares) /\ Total(acc.shares) \in Nat
  <2>1. Total(Append(acc.shares, 0)) = Total(acc.shares) + 0 /\ Total(acc.shares) \in Nat
    BY <1>1, TotalAppend
  <2> QED
    BY <1>2, <2>1
<1>6. I[1..(k + 1)] = I[1..k] /\ I[1..k] \in Int
  <2>1. IsNext(k, parts, I)
    BY NextPart
  <2> QED
    BY <2>1 DEF IsNext
<1>7. acc.remaining * eligible - granted * acc.base \in 0..((k + 1) * eligible)
  <2> DEFINE late == acc.remaining * eligible - granted * acc.base
  <2>1. late \in 0..(k * eligible)
    BY DEF AllocationInv
  <2>2. k * eligible \in Nat /\ (k + 1) * eligible = k * eligible + eligible
    BY NextMultiple
  <2> DEFINE ke == k * eligible
             kf == (k + 1) * eligible
  <2>3. late \in 0..ke /\ ke \in Nat /\ kf = ke + eligible
    BY <2>1, <2>2
  <2> HIDE DEF late, ke, kf
  <2>4. late \in 0..kf
    BY <2>3
  <2> QED
    BY <2>4 DEF late, kf
<1>8. acc.base = eligible - I[1..k] /\ acc.remaining = granted - Total(acc.shares) /\ acc.remaining <= acc.base
  BY DEF AllocationInv
<1>9. AllocationInv(next, k + 1, I, parts, granted, eligible)
  <2>1. next.base = eligible - I[1..(k + 1)]
    BY <1>2, <1>6, <1>8
  <2>2. next.remaining = granted - Total(next.shares) /\ next.remaining <= next.base
    BY <1>2, <1>5, <1>8
  <2>3. next.remaining * eligible - granted * next.base \in 0..((k + 1) * eligible)
    BY <1>2, <1>7
  <2> QED
    BY <1>2, <1>4, <2>1, <2>2, <2>3 DEF AllocationInv
<1> QED
  BY <1>9 DEF next

\* A turn on a line that takes a share.
LEMMA AllocateShare ==
  ASSUME NEW k \in Nat, NEW n \in Nat, k < n, NEW parts \in [1..n -> Nat], NEW I, Sums(I, parts, 1..n),
         NEW eligible \in Nat \ {0}, eligible = I[1..n], NEW granted \in Nat,
         NEW offer, NEW line, Covers(offer, line), line.amount = parts[k + 1], parts[k + 1] > 0,
         NEW acc, AllocationInv(acc, k, I, parts, granted, eligible)
  PROVE  AllocationInv(AllocateLine(offer, acc, line), k + 1, I, parts, granted, eligible)
<1> DEFINE a    == parts[k + 1]
           b    == acc.base
           m    == acc.remaining
           next == AllocateLine(offer, acc, line)
           share == (m * a) \div b
           late == m * eligible - granted * b
<1>1. /\ acc \in [remaining : Nat, base : Nat, shares : Seq(Nat)]
      /\ FairShares(acc.shares, k, parts, granted, eligible)
      /\ b = eligible - I[1..k] /\ m = granted - Total(acc.shares) /\ m <= b
      /\ late \in 0..(k * eligible)
  BY DEF AllocationInv
<1>2. a \in Nat /\ a > 0 /\ I[1..(k + 1)] = a + I[1..k] /\ I[1..k] \in Int
  <2>1. IsNext(k, parts, I)
    BY NextPart
  <2> QED
    BY <2>1 DEF IsNext
<1>3. a \in 1..b /\ b \in Nat \ {0} /\ m \in 0..b
  <2>1. IsFiniteSet(1..n)
    BY FS_Interval
  <2>2. I[1..(k + 1)] <= I[1..n] /\ I[1..(k + 1)] \in Nat
    <3>1. 1..(k + 1) \in SUBSET (1..n)
      OBVIOUS
    <3> QED
      BY <2>1, <3>1, PartsAreLess
  <2>3. b \in Nat /\ m \in Nat
    BY <1>1
  <2>4. eligible = I[1..n] /\ I[1..n] \in Nat
    OBVIOUS
  <2> DEFINE before == I[1..k]
             upto   == I[1..(k + 1)]
  <2>5. /\ b = eligible - before /\ m <= b
        /\ a \in Nat /\ a > 0 /\ upto = a + before /\ before \in Int /\ upto <= eligible
    BY <1>1, <1>2, <2>2, <2>4
  <2> HIDE DEF a, b, m, before, upto
  <2> QED
    BY <2>3, <2>5
<1>4. /\ next.shares = Append(acc.shares, share) /\ share \in 0..a
      /\ next.remaining = m - share /\ next.base = b - a /\ next.remaining \in 0..next.base
  <2>1. /\ acc.base \in Nat /\ acc.remaining \in 0..acc.base
        /\ line.amount \in 1..acc.base
    BY <1>3
  <2> DEFINE part == (acc.remaining * line.amount) \div acc.base
  <2>2. /\ next.shares = Append(acc.shares, part) /\ part \in 0..line.amount
        /\ next.remaining = acc.remaining - part /\ next.base = acc.base - line.amount
        /\ next.remaining \in 0..next.base
    <3> HIDE DEF a, b, m
    <3> QED
      BY <2>1, AllocateLineSound
  <2>3. part = share
    OBVIOUS
  <2> HIDE DEF part, share, next
  <2> QED
    BY <2>2, <2>3
<1>5. next = [remaining |-> m - share, base |-> b - a, shares |-> Append(acc.shares, share)]
  BY <1>2 DEF AllocateLine
<1>6. b * share <= m * a /\ m * a < b * share + b
  <2> DEFINE x == m * a
  <2>1. x \in Nat
    BY <1>3
  <2> HIDE DEF x, b
  <2>2. x \div b \in Nat /\ b * (x \div b) <= x /\ x < b * (x \div b) + b
    BY <1>3, <2>1, QuotientIs
  <2> QED
    BY <2>2 DEF x
<1>7. late \in Nat /\ m * eligible = granted * b + late
  <2>1. k * eligible \in Nat
    OBVIOUS
  <2>2. m * eligible \in Nat /\ granted * b \in Nat
    BY <1>3
  <2> DEFINE x == m * eligible
             y == granted * b
             z == k * eligible
  <2>3. x - y \in 0..z /\ z \in Nat /\ x \in Nat /\ y \in Nat
    BY <1>1, <2>1, <2>2
  <2> HIDE DEF x, y, z
  <2>4. x - y \in Nat /\ x = y + (x - y)
    BY <2>3
  <2> QED
    BY <2>4 DEF x, y
<1> HIDE DEF a, b, m, share, late
<1>8. share \in Nat
  BY <1>2, <1>4
<1>9. /\ granted * a - eligible < share * eligible
      /\ share * eligible <= granted * a + late
      /\ (m - share) * eligible = granted * (b - a) + (late + granted * a - share * eligible)
  <2>1. m \in Nat /\ b \in Nat \ {0} /\ a \in 1..b
    BY <1>3
  <2>2. IsShare(share, m, a, b)
    BY <1>6, <1>8 DEF IsShare
  <2>3. IsLate(late, m, b, granted, eligible)
    BY <1>7 DEF IsLate
  <2>4. IsNear(share, late, m, a, b, granted, eligible)
    BY <2>1, <2>2, <2>3, ShareIsNear
  <2> QED
    BY <2>4 DEF IsNear
<1>10. late <= k * eligible /\ k * eligible \in Nat /\ (k + 1) * eligible = k * eligible + eligible
  <2>1. k * eligible \in Nat /\ (k + 1) * eligible = k * eligible + eligible
    BY NextMultiple
  <2> DEFINE z == k * eligible
  <2>2. late \in 0..z /\ z \in Nat
    BY <1>1, <2>1
  <2> HIDE DEF z
  <2>3. late <= z
    BY <2>2
  <2> QED
    BY <2>1, <2>3 DEF z
<1> DEFINE exact == granted * a
           given == share * eligible
           ke    == k * eligible
           kf    == (k + 1) * eligible
<1>11. /\ exact \in Nat /\ given \in Nat /\ ke \in Nat /\ kf = ke + eligible
       /\ late \in Nat /\ late <= ke
       /\ exact - eligible < given /\ given <= exact + late
  <2>1. exact \in Nat
    BY <1>2
  <2>2. given \in Nat
    BY <1>8
  <2>3. ke \in Nat /\ kf = ke + eligible /\ late <= ke
    BY <1>10
  <2> QED
    BY <1>7, <1>9, <2>1, <2>2, <2>3
<1>12. FairShare(share, a, granted, eligible, k + 1)
  <2>1. (k + 1) - 1 = k
    OBVIOUS
  <2>2. given <= exact + ke
    <3> HIDE DEF exact, given, ke, kf
    <3> QED
      BY <1>11
  <2> QED
    BY <1>4, <1>11, <2>1, <2>2 DEF FairShare
<1>13. late + exact - given \in 0..kf
  <2> HIDE DEF exact, given, ke, kf
  <2> QED
    BY <1>11
<1>14. (m - share) * eligible - granted * (b - a) \in 0..((k + 1) * eligible)
  <2> DEFINE x == (m - share) * eligible
             y == granted * (b - a)
             z == late + exact - given
  <2>1. x = y + z /\ z \in 0..kf
    BY <1>9, <1>13
  <2>2. y \in Int /\ z \in Int /\ x \in Int
    <3>1. b - a \in Int /\ m - share \in Int
      BY <1>2, <1>3, <1>8
    <3>2. x \in Int /\ y \in Int
      BY <3>1
    <3>3. z \in Int
      <4> HIDE DEF exact, given
      <4> QED
        BY <1>7, <1>11
    <3> QED
      BY <3>2, <3>3
  <2> HIDE DEF x, y, z, kf
  <2>3. x - y \in 0..kf
    BY <2>1, <2>2
  <2> QED
    BY <2>3 DEF x, y, kf
<1> HIDE DEF next
<1>15. Total(next.shares) = Total(acc.shares) + share /\ Total(acc.shares) \in Nat
  <2>1. Total(Append(acc.shares, share)) = Total(acc.shares) + share /\ Total(acc.shares) \in Nat
    BY <1>1, <1>8, TotalAppend
  <2> QED
    BY <1>4, <2>1
<1>16. FairShares(next.shares, k + 1, parts, granted, eligible)
  <2>1. FairShare(share, parts[k + 1], granted, eligible, k + 1)
    BY <1>12 DEF a
  <2>2. FairShares(Append(acc.shares, share), k + 1, parts, granted, eligible)
    BY <1>1, <1>8, <2>1, SharesGrow
  <2> QED
    BY <1>4, <2>2
<1>17. next \in [remaining : Nat, base : Nat, shares : Seq(Nat)]
  <2>1. m - share \in Nat /\ b - a \in Nat
    BY <1>3, <1>4
  <2>2. Append(acc.shares, share) \in Seq(Nat)
    BY <1>4, <1>16 DEF FairShares
  <2> QED
    BY <1>5, <2>1, <2>2
<1>18. next.base = eligible - I[1..(k + 1)] /\ next.remaining = granted - Total(next.shares)
  <2> DEFINE before == I[1..k]
             upto   == I[1..(k + 1)]
             old    == Total(acc.shares)
  <2>1. /\ upto = a + before /\ before \in Int /\ a \in Nat /\ b = eligible - before
        /\ old \in Nat /\ Total(next.shares) = old + share /\ m = granted - old
        /\ next.base = b - a /\ next.remaining = m - share
    BY <1>1, <1>2, <1>4, <1>15
  <2> HIDE DEF before, upto, old
  <2>2. next.base = eligible - upto /\ next.remaining = granted - Total(next.shares)
    BY <1>8, <2>1
  <2> QED
    BY <2>2 DEF upto
<1>19. next.remaining <= next.base
  BY <1>3, <1>4, <1>8
<1>20. next.remaining * eligible - granted * next.base \in 0..((k + 1) * eligible)
  BY <1>4, <1>14
<1>21. AllocationInv(next, k + 1, I, parts, granted, eligible)
  BY <1>4, <1>16, <1>17, <1>18, <1>19, <1>20 DEF AllocationInv
<1> QED
  BY <1>21 DEF next

\* Any lists of lines of the shops with these names.
Lines(names) == Seq([seller : names, amount : Nat])

\* What a line is.
LEMMA LineOf ==
  ASSUME NEW names, NEW lines \in Lines(names), NEW i \in 1..Len(lines), NEW offer
  PROVE  /\ lines[i].seller \in names /\ lines[i].amount \in Nat
         /\ Part(offer, lines[i]) \in 0..lines[i].amount
<1> DEFINE line == lines[i]
<1>1. line \in [seller : names, amount : Nat]
  <2> DEFINE R == [seller : names, amount : Nat]
  <2>1. lines \in Seq(R)
    BY DEF Lines
  <2> HIDE DEF R
  <2>2. lines[i] \in R
    BY <2>1
  <2> QED
    BY <2>2 DEF R
<1>2. line.seller \in names /\ line.amount \in Nat
  <2> HIDE DEF line
  <2> QED
    BY <1>1
<1> HIDE DEF line
<1>3. Part(offer, line) \in 0..line.amount
  BY <1>2 DEF Part
<1> QED
  BY <1>2, <1>3 DEF line

\* The parts of the lines, and what they add up to.
LEMMA EligibleIs ==
  ASSUME NEW offer, NEW names, NEW lines \in Lines(names)
  PROVE  /\ Len(lines) \in Nat /\ DOMAIN lines = 1..Len(lines)
         /\ Parts(offer, lines) \in [1..Len(lines) -> Nat]
         /\ \A i \in 1..Len(lines) : Parts(offer, lines)[i] = Part(offer, lines[i])
         /\ Eligible(offer, lines) = Total(Parts(offer, lines))
         /\ Eligible(offer, lines) \in Nat
<1>1. Len(lines) \in Nat /\ DOMAIN lines = 1..Len(lines)
  BY DEF Lines
<1>2. \A i \in 1..Len(lines) : Part(offer, lines[i]) \in Nat
  <2> TAKE i \in 1..Len(lines)
  <2>1. lines[i].amount \in Nat /\ Part(offer, lines[i]) \in 0..lines[i].amount
    BY LineOf
  <2> QED
    BY <2>1
<1> DEFINE parts == Parts(offer, lines)
           S == 1..Len(lines)
<1>3. parts \in [S -> Nat] /\ \A i \in S : parts[i] = Part(offer, lines[i])
  <2> HIDE DEF S
  <2>1. parts = [i \in S |-> Part(offer, lines[i])]
    BY <1>1 DEF Parts, S
  <2> QED
    BY <1>2, <2>1 DEF S
<1>4. Eligible(offer, lines) = Total(parts)
  BY DEF Eligible, Parts
<1>5. IsFiniteSet(S)
  BY <1>1, FS_Interval
<1> HIDE DEF parts, S
<1>6. Total(parts) \in Nat
  <2>1. parts \in [S -> Int]
    BY <1>3
  <2> QED
    BY <1>3, <1>5, <2>1, TotalType
<1> QED
  BY <1>1, <1>3, <1>4, <1>6 DEF parts, S

\* The whole loop: the lines' shares add up to the discount, each within its line
\* and next to its exact proportion.
THEOREM SharesAreFair ==
  ASSUME NEW offer, IsOffer(offer), NEW names, NEW lines \in Lines(names),
         Eligible(offer, lines) > 0
  PROVE  /\ FairShares(LineDiscounts(offer, lines), Len(lines), Parts(offer, lines),
                       Discount(offer, lines), Eligible(offer, lines))
         /\ Total(LineDiscounts(offer, lines)) = Discount(offer, lines)
<1> DEFINE n == Len(lines)
           S == 1..n
           parts == Parts(offer, lines)
           eligible == Eligible(offer, lines)
           granted == Discount(offer, lines)
           start == [remaining |-> granted, base |-> eligible, shares |-> <<>>]
<1>1. /\ n \in Nat /\ parts \in [S -> Nat] /\ parts \in [S -> Int] /\ IsFiniteSet(S)
      /\ \A i \in S : parts[i] = Part(offer, lines[i])
      /\ eligible = Total(parts) /\ eligible \in Nat \ {0}
  <2>1. n \in Nat /\ parts \in [S -> Nat]
      /\ (\A i \in S : parts[i] = Part(offer, lines[i]))
      /\ eligible = Total(parts) /\ eligible \in Nat
    BY EligibleIs
  <2> HIDE DEF parts, eligible, n
  <2>2. IsFiniteSet(S)
    BY <2>1, FS_Interval
  <2>3. parts \in [S -> Int]
    BY <2>1
  <2>4. eligible > 0
    BY DEF eligible
  <2> QED
    BY <2>1, <2>2, <2>3, <2>4
<1>2. granted \in 0..eligible
  BY <1>1, DiscountBounded
<1>3. PICK I : Sums(I, parts, S) /\ Total(parts) = I[S]
  <2> HIDE DEF parts, S
  <2> QED
    BY <1>1, TotalSums
<1>4. PICK A : Allocation(A, offer, lines) /\ LineDiscounts(offer, lines) = A[n].shares
  <2>1. Len(lines) \in Nat
    BY <1>1
  <2> QED
    BY <2>1, AllocationExists
<1>5. A[0] = start /\ \A i \in 1..n : A[i] = AllocateLine(offer, A[i - 1], lines[i])
  <2> HIDE DEF granted, eligible
  <2>1. A = [i \in 0..n |-> IF i = 0 THEN start ELSE AllocateLine(offer, A[i - 1], lines[i])]
    BY <1>4 DEF Allocation, granted, eligible
  <2> HIDE DEF start, n
  <2> QED
    BY <1>1, <2>1
<1> DEFINE Good == {k \in Nat : k <= n => AllocationInv(A[k], k, I, parts, granted, eligible)}
<1>6. 0 \in Good
  <2> HIDE DEF granted, eligible, parts, n
  <2>1. granted \in Nat /\ eligible \in Nat /\ granted <= eligible
    BY <1>1, <1>2
  <2>2. Total(<<>>) = 0
    <3> DEFINE e == <<>>
    <3>1. DOMAIN e = {} /\ e = [x \in {} |-> e[x]]
      OBVIOUS
    <3> HIDE DEF e
    <3>2. Total(e) = 0
      BY <3>1, TotalOfNothing
    <3> QED
      BY <3>2 DEF e
  <2>3. I[1..0] = 0
    <3>1. 1..0 = {}
      OBVIOUS
    <3> QED
      BY <1>3, <3>1 DEF Sums
  <2>4. start \in [remaining : Nat, base : Nat, shares : Seq(Nat)]
    BY <2>1
  <2>5. FairShares(start.shares, 0, parts, granted, eligible)
    BY DEF FairShares
  <2>6. start.remaining = granted /\ start.base = eligible /\ Total(start.shares) = 0
    BY <2>2
  <2>7. granted * eligible - granted * eligible = 0 /\ 0 * eligible = 0
    BY <2>1
  <2>8. start.remaining * eligible - granted * start.base \in 0..(0 * eligible)
    BY <2>6, <2>7
  <2> HIDE DEF start
  <2>9. AllocationInv(start, 0, I, parts, granted, eligible)
    BY <2>1, <2>3, <2>4, <2>5, <2>6, <2>8 DEF AllocationInv
  <2> QED
    BY <1>5, <2>9
<1>7. ASSUME NEW k \in Nat, k \in Good PROVE k + 1 \in Good
  <2> SUFFICES ASSUME k + 1 <= n
               PROVE  AllocationInv(A[k + 1], k + 1, I, parts, granted, eligible)
    OBVIOUS
  <2> DEFINE acc == A[k]
             line == lines[k + 1]
  <2>1. AllocationInv(acc, k, I, parts, granted, eligible) /\ k < n /\ k + 1 \in S
    BY <1>1, <1>7
  <2>2. A[k + 1] = AllocateLine(offer, acc, line)
    <3>1. (k + 1) - 1 = k
      OBVIOUS
    <3> HIDE DEF n
    <3> QED
      BY <1>5, <2>1, <3>1
  <2>3. parts[k + 1] = Part(offer, line) /\ parts[k + 1] \in Nat /\ line.amount \in Nat
    <3>1. line.amount \in Nat
      BY <2>1, LineOf
    <3> HIDE DEF parts, S
    <3> QED
      BY <1>1, <2>1, <3>1
  <2>4. granted \in Nat /\ eligible = I[1..n] /\ Sums(I, parts, 1..n) /\ parts \in [1..n -> Nat]
    BY <1>1, <1>2, <1>3
  <2> HIDE DEF acc, line, n, S, parts, eligible, granted
  <2>5. CASE line.amount = 0 \/ ~Covers(offer, line)
    <3>1. A[k + 1] = [acc EXCEPT !.shares = Append(@, 0)]
      BY <2>2, <2>5 DEF AllocateLine
    <3>2. parts[k + 1] = 0
      BY <2>3, <2>5 DEF Part
    <3>3. AllocationInv([acc EXCEPT !.shares = Append(@, 0)], k + 1, I, parts, granted, eligible)
      BY <1>1, <2>1, <2>4, <3>2, AllocateNothing
    <3> QED
      BY <3>1, <3>3
  <2>6. CASE ~(line.amount = 0 \/ ~Covers(offer, line))
    <3>1. Covers(offer, line) /\ line.amount = parts[k + 1] /\ parts[k + 1] > 0
      BY <2>3, <2>6 DEF Part
    <3>2. AllocationInv(AllocateLine(offer, acc, line), k + 1, I, parts, granted, eligible)
      BY <1>1, <2>1, <2>4, <3>1, AllocateShare
    <3> QED
      BY <2>2, <3>2
  <2> QED
    BY <2>5, <2>6
<1>8. AllocationInv(A[n], n, I, parts, granted, eligible)
  <2> HIDE DEF Good, n
  <2>1. n \in Good
    BY <1>1, <1>6, <1>7, AllNumbers
  <2> QED
    BY <1>1, <2>1 DEF Good
<1> DEFINE shares == LineDiscounts(offer, lines)
<1>9. FairShares(shares, n, parts, granted, eligible)
  BY <1>4, <1>8 DEF AllocationInv
<1>10. Total(shares) = granted
  <2> DEFINE acc == A[n]
  <2>1. /\ acc.base = eligible - I[1..n] /\ acc.remaining = granted - Total(acc.shares)
        /\ acc.remaining <= acc.base /\ acc.remaining \in Nat
        /\ acc.shares = shares /\ shares \in Seq(Nat) /\ I[1..n] = eligible
    BY <1>1, <1>3, <1>4, <1>8, <1>9 DEF AllocationInv, FairShares
  <2> HIDE DEF acc, shares, granted, eligible, n
  <2>2. Total(shares) \in Nat
    BY <2>1, TotalAppend
  <2>3. acc.base = 0
    BY <1>1, <2>1
  <2> QED
    BY <1>1, <1>2, <2>1, <2>2, <2>3
<1> QED
  BY <1>9, <1>10

---------------------------------------------------------------------------
(* Sorting *)

\* A strict order of the items, in which any two are comparable.
IsOrder(order, items) ==
    /\ \A v \in items : <<v, v>> \notin order
    /\ \A u, v, w \in items : <<u, v>> \in order /\ <<v, w>> \in order => <<u, w>> \in order
    /\ \A v, w \in items : v = w \/ <<v, w>> \in order \/ <<w, v>> \in order

\* The ranks of n items are among the first n numbers, in their order.
LEMMA OrderInto ==
  ASSUME NEW items, IsFiniteSet(items), NEW order, IsOrder(order, items), NEW v \in items
  PROVE  /\ NumberBefore(items, order, v) \in 0..(Cardinality(items) - 1)
         /\ \A w \in items : <<w, v>> \in order =>
               NumberBefore(items, order, w) < NumberBefore(items, order, v)
<1> DEFINE Below(x) == {w \in items : <<w, x>> \in order}
<1>1. \A x \in items : IsFiniteSet(Below(x)) /\ Cardinality(Below(x)) \in Nat
  BY FS_Subset, FS_CardinalityType
<1>2. Cardinality(items) \in Nat
  BY FS_CardinalityType
<1>3. Cardinality(Below(v)) < Cardinality(items)
  <2>1. Below(v) \subseteq items /\ Below(v) # items
    BY DEF Below, IsOrder
  <2> HIDE DEF Below
  <2> QED
    BY <2>1, <1>1, <1>2, FS_Subset
<1>4. ASSUME NEW w \in items, <<w, v>> \in order
      PROVE  Cardinality(Below(w)) < Cardinality(Below(v))
  <2>1. Below(w) \subseteq Below(v)
    BY <1>4 DEF IsOrder
  <2>2. w \in Below(v) /\ w \notin Below(w)
    BY <1>4 DEF IsOrder
  <2>3. Below(w) # Below(v)
    BY <2>2
  <2> HIDE DEF Below
  <2> QED
    BY <2>1, <2>3, <1>1, FS_Subset
<1> HIDE DEF Below
<1>5. Cardinality(Below(v)) \in 0..(Cardinality(items) - 1)
  BY <1>1, <1>2, <1>3
<1> QED
  BY <1>4, <1>5 DEF NumberBefore, Below

\* No two items have the same rank.
LEMMA RanksDiffer ==
  ASSUME NEW items, IsFiniteSet(items), NEW order, IsOrder(order, items),
         NEW v \in items, NEW w \in items,
         NumberBefore(items, order, v) = NumberBefore(items, order, w)
  PROVE  v = w
<1> DEFINE Rank(x) == NumberBefore(items, order, x)
<1>1. Cardinality(items) \in Nat
  BY FS_CardinalityType
<1>2. Rank(v) \in Nat /\ Rank(w) \in Nat
  BY <1>1, OrderInto
<1>3. <<v, w>> \in order => Rank(v) < Rank(w)
  BY OrderInto
<1>4. <<w, v>> \in order => Rank(w) < Rank(v)
  BY OrderInto
<1>5. Rank(v) = Rank(w)
  OBVIOUS
<1> HIDE DEF Rank
<1> QED
  BY <1>2, <1>3, <1>4, <1>5 DEF IsOrder

\* Every one of the first n numbers is a rank.
LEMMA OrderOnto ==
  ASSUME NEW items, IsFiniteSet(items), NEW order, IsOrder(order, items),
         NEW i \in 1..Cardinality(items)
  PROVE  \E v \in items : NumberBefore(items, order, v) = i - 1
<1> DEFINE n == Cardinality(items)
           f == [v \in items |-> NumberBefore(items, order, v)]
<1>1. n \in Nat
  BY FS_CardinalityType
<1> HIDE DEF n
<1>2. f \in [items -> 0..(n - 1)]
  BY OrderInto DEF n
<1>3. \A v, w \in items : f[v] = f[w] => v = w
  BY RanksDiffer
<1> HIDE DEF f
<1>4. f \in Injection(items, 0..(n - 1))
  BY <1>2, <1>3 DEF Injection, IsInjective
<1>5. IsFiniteSet(0..(n - 1)) /\ Cardinality(0..(n - 1)) = n
  BY <1>1, FS_Interval
<1>6. f \in Surjection(items, 0..(n - 1))
  BY <1>4, <1>5, FS_Injection DEF n
<1>7. i - 1 \in 0..(n - 1)
  BY <1>1 DEF n
<1>8. \E v \in items : f[v] = i - 1
  BY <1>6, <1>7 DEF Surjection
<1> QED
  BY <1>8 DEF f

\* A sequence that has each of the items once, in their order.
IsInOrder(s, items, order) ==
    /\ s \in Seq(items) /\ Len(s) \in Nat
    /\ \A i, j \in 1..Len(s) : i < j => <<s[i], s[j]>> \in order
    /\ \A v \in items : \E i \in 1..Len(s) : s[i] = v

\* InOrder is such a sequence, and has each item at its rank.
LEMMA InOrderIsSorted ==
  ASSUME NEW items, IsFiniteSet(items), NEW order, IsOrder(order, items)
  PROVE  /\ IsInOrder(InOrder(items, order), items, order)
         /\ Len(InOrder(items, order)) = Cardinality(items)
         /\ \A v \in items : InOrder(items, order)[NumberBefore(items, order, v) + 1] = v
<1> DEFINE n == Cardinality(items)
           Rank(x) == NumberBefore(items, order, x)
           At(i) == CHOOSE v \in items : Rank(v) = i - 1
           s == InOrder(items, order)
<1>1. n \in Nat
  BY FS_CardinalityType
<1>2. ASSUME NEW i \in 1..n
      PROVE  At(i) \in items /\ Rank(At(i)) = i - 1
  BY OrderOnto
<1>3. s = [i \in 1..n |-> At(i)]
  BY DEF InOrder
<1>4. \A v \in items : Rank(v) \in 0..(n - 1)
  BY OrderInto
<1>5. \A v, w \in items : Rank(v) = Rank(w) => v = w
  BY RanksDiffer
<1>6. \A v, w \in items : <<w, v>> \in order => Rank(w) < Rank(v)
  BY OrderInto
<1> HIDE DEF Rank, n, At, s
<1>7. s \in Seq(items) /\ Len(s) = n /\ \A i \in 1..n : s[i] \in items /\ Rank(s[i]) = i - 1
  BY <1>1, <1>2, <1>3
<1>8. ASSUME NEW i \in 1..n, NEW j \in 1..n, i < j
      PROVE  <<s[i], s[j]>> \in order
  <2>1. s[i] \in items /\ s[j] \in items /\ Rank(s[i]) = i - 1 /\ Rank(s[j]) = j - 1
    BY <1>7
  <2>2. <<s[j], s[i]>> \in order => Rank(s[j]) < Rank(s[i])
    BY <1>6, <2>1
  <2>3. ~(j - 1 < i - 1) /\ i - 1 # j - 1
    BY <1>1, <1>8
  <2> QED
    BY <2>1, <2>2, <2>3 DEF IsOrder
<1>9. \A v \in items : Rank(v) + 1 \in 1..n /\ s[Rank(v) + 1] = v
  <2> TAKE v \in items
  <2>1. Rank(v) + 1 \in 1..n /\ (Rank(v) + 1) - 1 = Rank(v)
    BY <1>1, <1>4
  <2> QED
    BY <1>5, <1>7, <2>1
<1>10. IsInOrder(s, items, order)
  BY <1>1, <1>7, <1>8, <1>9 DEF IsInOrder
<1> QED
  BY <1>7, <1>9, <1>10 DEF s, n, Rank

\* The items before one of a sorted sequence.
LEMMA BeforeOf ==
  ASSUME NEW items, NEW order, IsOrder(order, items), NEW s, IsInOrder(s, items, order),
         NEW i \in 1..Len(s)
  PROVE  NumberBefore(items, order, s[i]) = i - 1
<1> DEFINE below == {w \in items : <<w, s[i]>> \in order}
           g == [k \in 1..(i - 1) |-> s[k]]
<1>0. i \in Nat /\ i - 1 \in Nat /\ s[i] \in items /\ Len(s) \in Nat /\ \A k \in 1..Len(s) : s[k] \in items
  <2>1. s \in Seq(items) /\ Len(s) \in Nat
    BY DEF IsInOrder
  <2>2. i \in Nat /\ i >= 1
    BY <2>1
  <2>3. \A k \in 1..Len(s) : s[k] \in items
    BY <2>1
  <2> QED
    BY <2>1, <2>2, <2>3
<1>1. \A k \in 1..(i - 1) : k \in 1..Len(s) /\ k < i
  BY <1>0
<1>2. \A k \in 1..(i - 1) : g[k] \in below
  BY <1>0, <1>1 DEF IsInOrder
<1>3. ASSUME NEW k \in 1..(i - 1), NEW l \in 1..(i - 1), g[k] = g[l]
      PROVE  k = l
  <2>1. k < l => <<s[k], s[l]>> \in order
    BY <1>1 DEF IsInOrder
  <2>2. l < k => <<s[l], s[k]>> \in order
    BY <1>1 DEF IsInOrder
  <2>3. s[k] = s[l] /\ s[k] \in items
    BY <1>0, <1>1, <1>3
  <2>4. ~(k < l) /\ ~(l < k)
    BY <2>1, <2>2, <2>3 DEF IsOrder
  <2> QED
    BY <1>0, <2>4
<1>4. ASSUME NEW w \in below PROVE \E k \in 1..(i - 1) : g[k] = w
  <2>1. PICK k \in 1..Len(s) : s[k] = w
    BY <1>4 DEF IsInOrder
  <2>2. k # i
    BY <1>0, <1>4, <2>1 DEF IsOrder
  <2>3. ~(i < k)
    <3> SUFFICES ASSUME i < k PROVE FALSE
      OBVIOUS
    <3>1. <<s[i], w>> \in order /\ <<w, s[i]>> \in order /\ w \in items
      BY <1>4, <2>1 DEF IsInOrder
    <3>2. <<w, w>> \in order
      BY <1>0, <3>1 DEF IsOrder
    <3> QED
      BY <3>1, <3>2 DEF IsOrder
  <2>4. k \in 1..(i - 1)
    BY <1>0, <2>2, <2>3
  <2> QED
    BY <2>1, <2>4
<1> HIDE DEF below
<1>5. g \in [1..(i - 1) -> below]
  BY <1>2
<1> HIDE DEF g
<1>6. g \in Bijection(1..(i - 1), below)
  BY <1>3, <1>4, <1>5 DEF Bijection, Injection, Surjection, IsInjective
<1>7. IsFiniteSet(1..(i - 1)) /\ Cardinality(1..(i - 1)) = i - 1
  <2> DEFINE one == 1
             last == i - 1
  <2>0. one \in Int /\ last \in Int
    BY <1>0
  <2> HIDE DEF one, last
  <2>4. IsFiniteSet(one..last) /\ Cardinality(one..last) = IF one > last THEN 0 ELSE last - one + 1
    BY <2>0, FS_Interval
  <2>1. IsFiniteSet(1..(i - 1)) /\ Cardinality(1..(i - 1)) = IF 1 > i - 1 THEN 0 ELSE (i - 1) - 1 + 1
    BY <2>4 DEF one, last
  <2>2. ~(1 > i - 1) => (i - 1) - 1 + 1 = i - 1
    BY <1>0
  <2>3. 1 > i - 1 => i - 1 = 0
    BY <1>0
  <2> QED
    BY <2>1, <2>2, <2>3
<1>8. ExistsBijection(1..(i - 1), below)
  BY <1>6 DEF ExistsBijection
<1>9. Cardinality(below) = Cardinality(1..(i - 1))
  BY <1>7, <1>8, FS_Bijection
<1> QED
  BY <1>7, <1>9 DEF NumberBefore, below

\* There is one such sequence only.
LEMMA SortedIsInOrder ==
  ASSUME NEW items, IsFiniteSet(items), NEW order, IsOrder(order, items),
         NEW s, IsInOrder(s, items, order)
  PROVE  s = InOrder(items, order)
<1> DEFINE t == InOrder(items, order)
<1>1. /\ IsInOrder(t, items, order) /\ Len(t) = Cardinality(items)
      /\ \A v \in items : t[NumberBefore(items, order, v) + 1] = v
  BY InOrderIsSorted
<1>a. ASSUME NEW u, IsInOrder(u, items, order), NEW i \in 1..Len(u)
      PROVE  u[i] \in items /\ NumberBefore(items, order, u[i]) = i - 1
  <2>1. u \in Seq(items)
    BY <1>a DEF IsInOrder
  <2>2. u[i] \in items
    BY <2>1
  <2>3. NumberBefore(items, order, u[i]) = i - 1
    BY <1>a, BeforeOf
  <2> QED
    BY <2>2, <2>3
<1>2. \A i \in 1..Len(s) : s[i] \in items /\ NumberBefore(items, order, s[i]) = i - 1
  BY <1>a
<1>3. \A i \in 1..Len(t) : t[i] \in items /\ NumberBefore(items, order, t[i]) = i - 1
  BY <1>1, <1>a
<1> HIDE DEF t
<1>4. Len(s) \in Nat /\ Len(t) \in Nat /\ s \in Seq(items) /\ t \in Seq(items)
  BY <1>1 DEF IsInOrder
<1>5. \A i \in 1..Len(s) : t[i] = s[i]
  <2> TAKE i \in 1..Len(s)
  <2>1. (i - 1) + 1 = i
    BY <1>4
  <2> QED
    BY <1>1, <1>2, <2>1
<1>6. Len(s) <= Len(t)
  <2> SUFFICES ASSUME Len(t) < Len(s) PROVE FALSE
    BY <1>4
  <2>1. Len(s) \in 1..Len(s)
    BY <1>4
  <2>2. NumberBefore(items, order, s[Len(s)]) = Len(s) - 1 /\ s[Len(s)] \in items
    BY <1>2, <2>1
  <2>3. NumberBefore(items, order, s[Len(s)]) \in 0..(Len(t) - 1)
    BY <1>1, <2>2, OrderInto
  <2> QED
    BY <1>4, <2>2, <2>3
<1>7. Len(t) <= Len(s)
  <2> SUFFICES ASSUME Len(s) < Len(t) PROVE FALSE
    BY <1>4
  <2>1. Len(t) \in 1..Len(t)
    BY <1>4
  <2>2. NumberBefore(items, order, t[Len(t)]) = Len(t) - 1 /\ t[Len(t)] \in items
    BY <1>3, <2>1
  <2>3. PICK i \in 1..Len(s) : s[i] = t[Len(t)]
    BY <2>2 DEF IsInOrder
  <2>4. NumberBefore(items, order, t[Len(t)]) = i - 1
    BY <1>2, <2>3
  <2> QED
    BY <1>4, <2>2, <2>4
<1>8. Len(s) = Len(t)
  BY <1>4, <1>6, <1>7
<1>9. s = t
  BY <1>4, <1>5, <1>8
<1> QED
  BY <1>9 DEF t

\* The order of other items does not matter.
LEMMA SameOrder ==
  ASSUME NEW items, NEW one, NEW other,
         \A v, w \in items : <<v, w>> \in one <=> <<v, w>> \in other
  PROVE  InOrder(items, one) = InOrder(items, other)
<1>1. ASSUME NEW v \in items
      PROVE  NumberBefore(items, one, v) = NumberBefore(items, other, v)
  <2>1. {w \in items : <<w, v>> \in one} = {w \in items : <<w, v>> \in other}
    OBVIOUS
  <2> QED
    BY <2>1 DEF NumberBefore
<1>2. ASSUME NEW i \in 1..Cardinality(items)
      PROVE  (CHOOSE v \in items : NumberBefore(items, one, v) = i - 1)
             = (CHOOSE v \in items : NumberBefore(items, other, v) = i - 1)
  BY <1>1
<1> QED
  BY <1>2 DEF InOrder

\* Numbers are ordered.
LEMMA NumbersAreOrdered ==
  ASSUME NEW items, items \subseteq Nat
  PROVE  /\ IsOrder(LessThan(items), items)
         /\ \A v, w \in items : <<v, w>> \in LessThan(items) <=> v < w
<1>1. \A v, w \in items : <<v, w>> \in LessThan(items) <=> v < w
  BY DEF LessThan
<1>2. \A v \in items : v \in Nat
  OBVIOUS
<1> QED
  BY <1>1, <1>2 DEF IsOrder

\* How many of the items are less than v.
NumberBelow(items, v) == Cardinality({w \in items : w < v})

\* The ranks of n numbers are among the first n, in their order.
LEMMA RankInto ==
  ASSUME NEW items, IsFiniteSet(items), items \subseteq Nat, NEW v \in items
  PROVE  /\ NumberBelow(items, v) \in 0..(Cardinality(items) - 1)
         /\ \A w \in items : w < v => NumberBelow(items, w) < NumberBelow(items, v)
<1>1. ASSUME NEW w \in items
      PROVE  NumberBelow(items, w) = NumberBefore(items, LessThan(items), w)
  <2>1. {u \in items : u < w} = {u \in items : <<u, w>> \in LessThan(items)}
    BY NumbersAreOrdered
  <2> QED
    BY <2>1 DEF NumberBelow, NumberBefore
<1> DEFINE order == LessThan(items)
<1>2. IsOrder(order, items) /\ \A w \in items : <<w, v>> \in order <=> w < v
  BY NumbersAreOrdered
<1> HIDE DEF order
<1>3. /\ NumberBefore(items, order, v) \in 0..(Cardinality(items) - 1)
      /\ \A w \in items : <<w, v>> \in order =>
            NumberBefore(items, order, w) < NumberBefore(items, order, v)
  BY <1>2, OrderInto
<1>4. \A w \in items : NumberBelow(items, w) = NumberBefore(items, order, w)
  BY <1>1 DEF order
<1> QED
  BY <1>2, <1>3, <1>4

\* Ascending lists items in ascending order, each once.
LEMMA AscendingIsRight ==
  ASSUME NEW items, IsFiniteSet(items), items \subseteq Nat
  PROVE  /\ Ascending(items) \in Seq(items)
         /\ Len(Ascending(items)) = Cardinality(items)
         /\ \A i, j \in 1..Cardinality(items) : i < j => Ascending(items)[i] < Ascending(items)[j]
<1> DEFINE s == InOrder(items, LessThan(items))
<1>1. IsInOrder(s, items, LessThan(items)) /\ Len(s) = Cardinality(items)
  BY NumbersAreOrdered, InOrderIsSorted
<1>2. Ascending(items) = s
  BY DEF Ascending
<1> HIDE DEF s
<1>3. \A i \in 1..Cardinality(items) : s[i] \in items
  BY <1>1 DEF IsInOrder
<1> QED
  BY <1>1, <1>2, <1>3, NumbersAreOrdered DEF IsInOrder

\* Where a sequence has something of the set.
PlacesOf(s, set) == {k \in DOMAIN s : s[k] \in set}

\* One sequence has what is at the given places of another, in ascending order.
IsPart(only, some, s, places, kept) ==
    /\ IsFiniteSet(places) /\ places \subseteq 1..Len(s)
    /\ IsInOrder(kept, places, LessThan(places)) /\ Len(kept) = Cardinality(places)
    /\ only \in Seq(some) /\ Len(only) = Len(kept)
    /\ \A i \in 1..Len(only) : only[i] = s[kept[i]]

\* Only has what is at these places, in ascending order.
LEMMA OnlyIsRight ==
  ASSUME NEW S, NEW s \in Seq(S), NEW set
  PROVE  IsPart(Only(s, set), S \cap set, s, PlacesOf(s, set), Ascending(PlacesOf(s, set)))
<1> DEFINE places == PlacesOf(s, set)
           kept == Ascending(places)
           only == Only(s, set)
<1>1. Len(s) \in Nat /\ DOMAIN s = 1..Len(s) /\ \A k \in 1..Len(s) : s[k] \in S
  OBVIOUS
<1>2. places \subseteq 1..Len(s) /\ places \subseteq Nat /\ \A k \in places : s[k] \in S \cap set
  BY <1>1 DEF PlacesOf
<1> HIDE DEF places
<1>3. IsFiniteSet(places)
  <2>1. IsFiniteSet(1..Len(s))
    BY <1>1, FS_Interval
  <2> QED
    BY <1>2, <2>1, FS_Subset
<1>4. IsInOrder(kept, places, LessThan(places)) /\ Len(kept) = Cardinality(places)
  BY <1>2, <1>3, NumbersAreOrdered, InOrderIsSorted DEF Ascending
<1>5. only = [i \in DOMAIN kept |-> s[kept[i]]]
  BY DEF Only, places, PlacesOf
<1> HIDE DEF kept, only
<1>6. kept \in Seq(places) /\ Len(kept) \in Nat /\ DOMAIN kept = 1..Len(kept)
  BY <1>4 DEF IsInOrder
<1>7. \A i \in 1..Len(kept) : s[kept[i]] \in S \cap set
  <2> TAKE i \in 1..Len(kept)
  <2>1. kept[i] \in places
    BY <1>6
  <2> QED
    BY <1>2, <2>1
<1>8. only \in Seq(S \cap set) /\ Len(only) = Len(kept) /\ \A i \in 1..Len(only) : only[i] = s[kept[i]]
  <2>1. only = [i \in 1..Len(kept) |-> s[kept[i]]]
    BY <1>5, <1>6
  <2>2. only \in Seq(S \cap set) /\ Len(only) = Len(kept)
    BY <1>6, <1>7, <2>1
  <2> QED
    BY <2>1, <2>2
<1> QED
  BY <1>2, <1>3, <1>4, <1>8 DEF only, kept, places, IsPart

\* Of sorted items, those of a set are sorted.
LEMMA OnlyOfSorted ==
  ASSUME NEW items, IsFiniteSet(items), NEW order, IsOrder(order, items), NEW set
  PROVE  Only(InOrder(items, order), set) = InOrder(items \cap set, order)
<1> DEFINE s == InOrder(items, order)
           places == PlacesOf(s, set)
           kept == Ascending(places)
           only == Only(s, set)
           some == items \cap set
<1>1. IsInOrder(s, items, order)
  BY InOrderIsSorted
<1> HIDE DEF s
<1>2. s \in Seq(items) /\ Len(s) \in Nat /\ DOMAIN s = 1..Len(s)
  BY <1>1 DEF IsInOrder
<1>3. /\ places \subseteq 1..Len(s) /\ IsInOrder(kept, places, LessThan(places))
      /\ only \in Seq(some) /\ Len(only) = Len(kept) /\ Len(kept) = Cardinality(places)
      /\ \A i \in 1..Len(only) : only[i] = s[kept[i]]
  <2>1. IsPart(only, some, s, places, kept)
    BY <1>2, OnlyIsRight
  <2> HIDE DEF only, some, places, kept
  <2> QED
    BY <2>1 DEF IsPart
<1>4. \A k \in 1..Len(s) : s[k] \in set => k \in places
  BY <1>2 DEF PlacesOf
<1> HIDE DEF places, kept, only
<1>5. kept \in Seq(places) /\ Len(kept) \in Nat /\ places \subseteq Nat
  BY <1>2, <1>3 DEF IsInOrder
<1>6. \A i, j \in 1..Len(kept) : i < j => kept[i] < kept[j]
  <2> TAKE i \in 1..Len(kept), j \in 1..Len(kept)
  <2>1. kept[i] \in places /\ kept[j] \in places
    BY <1>5
  <2>2. i < j => <<kept[i], kept[j]>> \in LessThan(places)
    BY <1>3 DEF IsInOrder
  <2> QED
    BY <1>5, <2>1, <2>2, NumbersAreOrdered
<1>7. \A i, j \in 1..Len(only) : i < j => <<only[i], only[j]>> \in order
  <2> TAKE i \in 1..Len(only), j \in 1..Len(only)
  <2>1. kept[i] \in places /\ kept[j] \in places /\ places \subseteq 1..Len(s)
    BY <1>3, <1>5
  <2>2. i < j => kept[i] < kept[j]
    BY <1>3, <1>6
  <2>3. i < j => <<s[kept[i]], s[kept[j]]>> \in order
    BY <1>1, <2>1, <2>2 DEF IsInOrder
  <2> QED
    BY <1>3, <2>3
<1>8. ASSUME NEW v \in some PROVE \E i \in 1..Len(only) : only[i] = v
  <2>1. PICK k \in 1..Len(s) : s[k] = v
    BY <1>1 DEF IsInOrder
  <2>2. k \in places
    BY <1>4, <2>1
  <2>3. PICK i \in 1..Len(kept) : kept[i] = k
    BY <1>3, <2>2 DEF IsInOrder
  <2> QED
    BY <1>3, <2>1, <2>3
<1>9. IsInOrder(only, some, order)
  BY <1>3, <1>5, <1>7, <1>8 DEF IsInOrder
<1>10. IsFiniteSet(some) /\ IsOrder(order, some)
  <2>1. some \subseteq items
    OBVIOUS
  <2>2. IsFiniteSet(some)
    BY <2>1, FS_Subset
  <2>3. IsOrder(order, some)
    BY <2>1 DEF IsOrder
  <2> QED
    BY <2>2, <2>3
<1>11. only = InOrder(some, order)
  BY <1>9, <1>10, SortedIsInOrder
<1> QED
  BY <1>11 DEF only, s

\* A sequence all of which is in the set stays as it is.
LEMMA OnlyOfAll ==
  ASSUME NEW S, NEW s \in Seq(S), NEW set, \A i \in 1..Len(s) : s[i] \in set
  PROVE  Only(s, set) = s
<1> DEFINE n == Len(s)
           upTo == [i \in 1..n |-> i]
           kept == Ascending(1..n)
<1>1. n \in Nat /\ s = [i \in 1..n |-> s[i]] /\ DOMAIN s = 1..n
  OBVIOUS
<1>2. IsFiniteSet(1..n) /\ 1..n \subseteq Nat
  <2> HIDE DEF n
  <2> QED
    BY <1>1, FS_Interval
<1>3. PlacesOf(s, set) = 1..n
  BY <1>1 DEF PlacesOf
<1> HIDE DEF n
<1>4. IsInOrder(upTo, 1..n, LessThan(1..n))
  <2>1. upTo \in Seq(1..n) /\ Len(upTo) = n /\ \A i \in 1..n : upTo[i] = i
    BY <1>1
  <2>2. \A i, j \in 1..n : i < j => <<i, j>> \in LessThan(1..n)
    BY <1>2, NumbersAreOrdered
  <2> HIDE DEF upTo
  <2> QED
    BY <1>1, <2>1, <2>2 DEF IsInOrder
<1>5. upTo = kept
  BY <1>2, <1>4, NumbersAreOrdered, SortedIsInOrder DEF Ascending
<1>6. Only(s, set) = [i \in DOMAIN kept |-> s[kept[i]]]
  BY <1>3 DEF Only, PlacesOf
<1> HIDE DEF kept
<1>7. kept = [i \in 1..n |-> i]
  BY <1>5
<1>8. Only(s, set) = [i \in 1..n |-> s[i]]
  BY <1>6, <1>7
<1> QED
  BY <1>1, <1>8

\* Nothing is left of a sequence none of which is in the set.
LEMMA OnlyOfNone ==
  ASSUME NEW S, NEW s \in Seq(S), NEW set, \A i \in 1..Len(s) : s[i] \notin set
  PROVE  Only(s, set) = <<>>
<1> DEFINE only == Only(s, set)
<1>1. PlacesOf(s, set) = {}
  BY DEF PlacesOf
<1>2. only \in Seq(S \cap set) /\ Len(only) = Cardinality({})
  BY <1>1, OnlyIsRight DEF IsPart
<1>3. Cardinality({}) = 0
  BY FS_EmptySet
<1> HIDE DEF only
<1>4. only = <<>>
  BY <1>2, <1>3
<1> QED
  BY <1>4 DEF only

=============================================================================

---------------------------- MODULE Finite_proofs ----------------------------
(***************************************************************************)
(* Facts about finite sets that the proofs about the components share: the *)
(* least of some numbers, the best of finitely many things, what a sum     *)
(* over a set is.  Each is induction over a finite set or a number, done   *)
(* by looking at the smallest counterexample.                              *)
(***************************************************************************)
EXTENDS Integers, Sequences, FiniteSets, Functions, Sorting, FiniteSetTheorems,
        WellFoundedInduction, NaturalsInduction, TLAPS

\* A non-empty set of numbers has a least one: what stands in for induction.
LEMMA LeastOf ==
  ASSUME NEW S \in SUBSET Nat, S # {}
  PROVE  \E x \in S : \A y \in S : x <= y
<1>. DEFINE R == OpToRel(<, Nat)
<1>1. PICK x \in S : \A y \in S : ~ (<<y, x>> \in R)
  <2>1. IsWellFoundedOn(R, Nat)
    BY NatLessThanWellFounded
  <2>. HIDE DEF R
  <2>. QED
    BY <2>1, WFMin
<1>2. ASSUME NEW y \in S PROVE x <= y
  <2>1. x \in Nat /\ y \in Nat
    OBVIOUS
  <2>2. y < x => <<y, x>> \in R
    BY <2>1 DEF OpToRel
  <2>. HIDE DEF R
  <2>. QED
    BY <1>1, <2>1, <2>2
<1>. QED
  BY <1>2

\* Of some finite sets one has the fewest members.
LEMMA SmallestOf ==
  ASSUME NEW C, C # {}, \A s \in C : IsFiniteSet(s)
  PROVE  \E s \in C : \A t \in C : Cardinality(s) <= Cardinality(t)
<1>. DEFINE N == {Cardinality(s) : s \in C}
<1>1. N \in SUBSET Nat /\ N # {}
  BY FS_CardinalityType
<1>2. PICK n \in N : \A m \in N : n <= m
  <2>. HIDE DEF N
  <2>. QED  BY <1>1, LeastOf
<1>3. PICK s \in C : n = Cardinality(s)
  OBVIOUS
<1>4. \A t \in C : Cardinality(t) \in N
  OBVIOUS
<1>. HIDE DEF N
<1>. QED  BY <1>2, <1>3, <1>4

\* What all subsets of a finite set have if a set has it whenever its subsets
\* of one member less have it; Bad are those that do not.
LEMMA NoSmallestBad ==
  ASSUME NEW S, IsFiniteSet(S), NEW Bad \in SUBSET (SUBSET S),
         \A T \in Bad : \E x \in T : T \ {x} \in Bad
  PROVE  Bad = {}
<1>. SUFFICES ASSUME Bad # {} PROVE FALSE
  OBVIOUS
<1>1. \A T \in Bad : IsFiniteSet(T)
  BY FS_Subset
<1>2. PICK T \in Bad : \A U \in Bad : Cardinality(T) <= Cardinality(U)
  BY <1>1, SmallestOf
<1>3. PICK x \in T : T \ {x} \in Bad
  OBVIOUS
<1>4. Cardinality(T \ {x}) = Cardinality(T) - 1
  BY <1>1, <1>3, FS_RemoveElement
<1>5. Cardinality(T) \in Nat
  BY <1>1, FS_CardinalityType
<1>. QED  BY <1>2, <1>3, <1>4, <1>5

LEMMA UpTo ==
  ASSUME NEW n \in Nat
  PROVE  IsFiniteSet(1..n) /\ Cardinality(1..n) = n
BY FS_Interval

\* What a function does to the members of a finite set is finite.
LEMMA ImageIsFinite ==
  ASSUME NEW S, IsFiniteSet(S), NEW f
  PROVE  IsFiniteSet({f[x] : x \in S})
<1>. DEFINE T == {f[x] : x \in S}
            g == [x \in S |-> f[x]]
<1>1. g \in [S -> T] /\ \A t \in T : \E x \in S : g[x] = t
  OBVIOUS
<1>2. g \in Surjection(S, T)
  BY <1>1 DEF Surjection
<1>. QED  BY <1>2, FS_Surjection

\* A function of a number that is computed from its value for the number before.
Recursion(g, N, V, b, op) ==
  /\ g \in [0..N -> V] /\ g[0] = b
  /\ \A n \in 1..N : g[n] = op[<<n, g[n - 1]>>]

LEMMA RecursionExists ==
  ASSUME NEW V, NEW b \in V, NEW N \in Nat, NEW op \in [(1..N) \X V -> V]
  PROVE  \E g : Recursion(g, N, V, b, op)
<1>. DEFINE Is(g, n) == /\ g \in [0..n -> V] /\ g[0] = b
                        /\ \A m \in 1..n : g[m] = op[<<m, g[m - 1]>>]
            Bad == {n \in 0..N : ~ \E g : Is(g, n)}
<1>1. SUFFICES ASSUME Bad # {} PROVE FALSE
  <2>1. ASSUME Bad = {} PROVE \E g : Is(g, N)
    <3>1. N \in 0..N
      OBVIOUS
    <3>. HIDE DEF Is
    <3>. QED  BY <2>1, <3>1
  <2>2. \A g : Is(g, N) => Recursion(g, N, V, b, op)
    BY DEF Recursion
  <2>. HIDE DEF Is
  <2>. QED  BY <2>1, <2>2
<1>2. PICK n \in Bad : \A m \in Bad : n <= m
  <2>1. Bad \in SUBSET Nat
    OBVIOUS
  <2>. HIDE DEF Bad
  <2>. QED  BY <1>1, <2>1, LeastOf
<1>3. n \in Nat /\ n <= N /\ ~ \E g : Is(g, n)
  OBVIOUS
<1>4. n # 0
  <2>. DEFINE g == [m \in 0..0 |-> b]
  <2>1. Is(g, 0)
    OBVIOUS
  <2>. HIDE DEF Is, g
  <2>. QED  BY <1>3, <2>1
<1>5. PICK g : Is(g, n - 1)
  <2>1. n - 1 \in 0..N /\ ~ (n <= n - 1)
    BY <1>3, <1>4
  <2>2. n - 1 \notin Bad
    <3>. HIDE DEF Bad
    <3>. QED  BY <1>2, <2>1
  <2>. HIDE DEF Is
  <2>. QED  BY <2>1, <2>2
<1>. DEFINE h == [m \in 0..n |-> IF m = n THEN op[<<n, g[n - 1]>>] ELSE g[m]]
<1>6. g[n - 1] \in V /\ n \in 1..N /\ op[<<n, g[n - 1]>>] \in V
  BY <1>3, <1>4, <1>5
<1>7. Is(h, n)
  <2>1. h \in [0..n -> V]
    BY <1>3, <1>5, <1>6
  <2>2. h[0] = b
    BY <1>3, <1>4, <1>5
  <2>3. ASSUME NEW m \in 1..n PROVE h[m] = op[<<m, h[m - 1]>>]
    <3>1. h[m - 1] = g[m - 1]
      BY <1>3
    <3>2. CASE m = n
      <4>1. h[n] = op[<<n, g[n - 1]>>]
        BY <1>3
      <4>. HIDE DEF h
      <4>. QED  BY <3>1, <3>2, <4>1
    <3>3. CASE m # n
      <4>1. m \in 1..(n - 1) /\ m \in 0..n
        BY <1>3, <3>3
      <4>2. g[m] = op[<<m, g[m - 1]>>]
        BY <1>5, <4>1
      <4>. QED  BY <3>1, <3>3, <4>1, <4>2
    <3>. QED  BY <3>2, <3>3
  <2>. QED  BY <2>1, <2>2, <2>3
<1>. HIDE DEF Is, h
<1>. QED  BY <1>3, <1>7

-----------------------------------------------------------------------------
(* Best elements *)

\* R prefers the first of a pair: any two can be compared, and it is transitive.
Ranks(R, S) ==
  /\ \A x, y \in S : <<x, y>> \in R \/ <<y, x>> \in R
  /\ \A x, y, z \in S : <<x, y>> \in R /\ <<y, z>> \in R => <<x, z>> \in R

\* One of finitely many is as good as any.
LEMMA BestOf ==
  ASSUME NEW S, IsFiniteSet(S), S # {}, NEW R, Ranks(R, S)
  PROVE  \E x \in S : \A y \in S : <<x, y>> \in R
<1>. DEFINE Best(T) == \E x \in T : \A y \in T : <<x, y>> \in R
            Bad == {T \in SUBSET S : T # {} /\ ~ Best(T)}
<1>1. ASSUME NEW T \in Bad
      PROVE  \E x \in T : T \ {x} \in Bad
  <2>0. T \subseteq S /\ T # {} /\ ~ Best(T)
    OBVIOUS
  <2>1. PICK x \in T : TRUE
    OBVIOUS
  <2>. SUFFICES ASSUME T \ {x} \notin Bad PROVE FALSE
    OBVIOUS
  <2>2. <<x, x>> \in R
    BY DEF Ranks
  <2>3. CASE T \ {x} = {}
    <3>1. \A y \in T : y = x
      BY <2>3
    <3>. QED  BY <2>0, <2>2, <3>1
  <2>4. CASE T \ {x} # {}
    <3>1. PICK b \in T \ {x} : \A y \in T \ {x} : <<b, y>> \in R
      BY <2>4
    <3>2. CASE <<b, x>> \in R
      BY <2>0, <3>1, <3>2
    <3>3. CASE <<x, b>> \in R
      <4>1. \A y \in T : <<x, y>> \in R
        BY <2>0, <2>2, <3>1, <3>3 DEF Ranks
      <4>. QED  BY <2>0, <4>1
    <3>. QED  BY <3>2, <3>3 DEF Ranks
  <2>. QED  BY <2>3, <2>4
<1>2. Bad = {}
  <2>1. Bad \in SUBSET (SUBSET S)
    OBVIOUS
  <2>. HIDE DEF Bad
  <2>. QED  BY <1>1, <2>1, NoSmallestBad
<1>3. S \notin Bad
  BY <1>2
<1>. QED  BY <1>3

-----------------------------------------------------------------------------
(* Arrangements *)

\* R puts any two members of S in an order.
Orders(R, S) ==
  /\ \A x, y \in S : x # y => <<x, y>> \in R \/ <<y, x>> \in R
  /\ \A x, y, z \in S : <<x, y>> \in R /\ <<y, z>> \in R => <<x, z>> \in R
  /\ \A x \in S : <<x, x>> \notin R

Arranges(f, S, R) ==
  /\ f \in [1..Cardinality(S) -> S]
  /\ \A i, j \in 1..Cardinality(S) : i < j => <<f[i], f[j]>> \in R

\* A finite set can be put in order.
LEMMA ArrangementExists ==
  ASSUME NEW S, IsFiniteSet(S), NEW R, Orders(R, S)
  PROVE  \E f : Arranges(f, S, R)
<1>. DEFINE Bad == {T \in SUBSET S : ~ \E f : Arranges(f, T, R)}
<1>1. ASSUME NEW T \in Bad
      PROVE  \E x \in T : T \ {x} \in Bad
  <2>0. T \subseteq S /\ ~ \E f : Arranges(f, T, R)
    OBVIOUS
  <2>1. IsFiniteSet(T)
    BY <2>0, FS_Subset
  <2>2. CASE T = {}
    <3>1. Cardinality(T) = 0 /\ T = {}
      BY <2>2, FS_EmptySet
    <3>2. Arranges([i \in 1..0 |-> i], T, R)
      BY <3>1 DEF Arranges
    <3>. QED  BY <2>0, <3>2
  <2>3. CASE T # {}
    <3>. DEFINE W == {p \in T \X T : p \in R \/ p[1] = p[2]}
    <3>1. Ranks(W, T)
      <4>1. \A x, y \in T : <<x, y>> \in W <=> <<x, y>> \in R \/ x = y
        OBVIOUS
      <4>. HIDE DEF W
      <4>2. \A x, y \in T : <<x, y>> \in W \/ <<y, x>> \in W
        BY <2>0, <4>1 DEF Orders
      <4>3. \A x, y, z \in T : <<x, y>> \in W /\ <<y, z>> \in W => <<x, z>> \in W
        BY <2>0, <4>1 DEF Orders
      <4>. QED  BY <4>2, <4>3 DEF Ranks
    <3>2. PICK x \in T : \A y \in T : <<x, y>> \in W
      <4>. HIDE DEF W
      <4>. QED  BY <2>1, <2>3, <3>1, BestOf
    <3>3. \A y \in T \ {x} : <<x, y>> \in R
      BY <3>2
    <3>. SUFFICES ASSUME T \ {x} \notin Bad PROVE FALSE
      OBVIOUS
    <3>4. PICK g : Arranges(g, T \ {x}, R)
      BY <2>0
    <3>. DEFINE n == Cardinality(T \ {x})
                f == [i \in 1..(n + 1) |-> IF i = 1 THEN x ELSE g[i - 1]]
    <3>5. Cardinality(T) = n + 1 /\ n \in Nat
      BY <2>1, FS_RemoveElement, FS_CardinalityType, FS_Subset
    <3>6. g \in [1..n -> T \ {x}] /\ \A i, j \in 1..n : i < j => <<g[i], g[j]>> \in R
      BY <3>4 DEF Arranges
    <3>. HIDE DEF n
    <3>7. \A i \in 1..(n + 1) : i # 1 => i - 1 \in 1..n
      BY <3>5
    <3>8. f \in [1..(n + 1) -> T]
      BY <3>6, <3>7
    <3>9. ASSUME NEW i \in 1..(n + 1), NEW j \in 1..(n + 1), i < j
          PROVE  <<f[i], f[j]>> \in R
      <4>1. j # 1 /\ j - 1 \in 1..n /\ f[j] = g[j - 1]
        BY <3>5, <3>7, <3>9
      <4>2. CASE i = 1
        <5>1. f[i] = x /\ f[j] \in T \ {x}
          BY <3>6, <4>1, <4>2
        <5>. QED  BY <3>3, <5>1
      <4>3. CASE i # 1
        <5>1. i - 1 \in 1..n /\ f[i] = g[i - 1] /\ i - 1 < j - 1
          BY <3>5, <3>7, <3>9, <4>3
        <5>. QED  BY <3>6, <4>1, <5>1
      <4>. QED  BY <4>2, <4>3
    <3>10. Arranges(f, T, R)
      <4>. HIDE DEF f
      <4>. QED  BY <3>5, <3>8, <3>9 DEF Arranges
    <3>. QED  BY <2>0, <3>10
  <2>. QED  BY <2>2, <2>3
<1>2. Bad = {}
  <2>1. Bad \in SUBSET (SUBSET S)
    OBVIOUS
  <2>. HIDE DEF Bad
  <2>. QED  BY <1>1, <2>1, NoSmallestBad
<1>3. S \notin Bad
  BY <1>2
<1>. QED  BY <1>3

\* And then each member has one place.
LEMMA ArrangementIsBijection ==
  ASSUME NEW S, IsFiniteSet(S), NEW R, Orders(R, S), NEW f, Arranges(f, S, R)
  PROVE  /\ Cardinality(S) \in Nat
         /\ f \in [1..Cardinality(S) -> S]
         /\ \A i, j \in 1..Cardinality(S) : f[i] = f[j] => i = j
         /\ \A x \in S : \E i \in 1..Cardinality(S) : f[i] = x
         /\ \A i, j \in 1..Cardinality(S) : <<f[i], f[j]>> \in R => i < j
<1>. DEFINE n == Cardinality(S)
<1>1. n \in Nat
  BY FS_CardinalityType
<1>2. f \in [1..n -> S] /\ \A i, j \in 1..n : i < j => <<f[i], f[j]>> \in R
  BY DEF Arranges
<1>3. IsFiniteSet(1..n) /\ Cardinality(1..n) = Cardinality(S)
  BY <1>1, FS_Interval
<1>. HIDE DEF n
<1>4. \A i, j \in 1..n : f[i] = f[j] => i = j
  <2>. SUFFICES ASSUME NEW i \in 1..n, NEW j \in 1..n, f[i] = f[j], i # j PROVE FALSE
    OBVIOUS
  <2>1. i < j \/ j < i
    BY <1>1
  <2>. QED  BY <1>2, <2>1 DEF Orders
<1>5. f \in Injection(1..n, S)
  BY <1>2, <1>4 DEF Injection, IsInjective
<1>6. f \in Surjection(1..n, S)
  BY <1>3, <1>5, FS_Injection
<1>7. \A i, j \in 1..n : <<f[i], f[j]>> \in R => i < j
  <2>. SUFFICES ASSUME NEW i \in 1..n, NEW j \in 1..n, <<f[i], f[j]>> \in R, ~ (i < j) PROVE FALSE
    OBVIOUS
  <2>1. i = j \/ j < i
    BY <1>1
  <2>2. f[i] \in S /\ f[j] \in S
    BY <1>2
  <2>3. CASE i = j
    BY <2>2, <2>3 DEF Orders
  <2>4. CASE j < i
    <3>1. <<f[j], f[i]>> \in R
      BY <1>2, <2>4
    <3>. QED  BY <2>2, <3>1 DEF Orders
  <2>. QED  BY <2>1, <2>3, <2>4
<1>. QED  BY <1>1, <1>2, <1>4, <1>6, <1>7 DEF Surjection, n

\* Both, of the arrangement that sorting is.
LEMMA ArrangedIs ==
  ASSUME NEW S, IsFiniteSet(S), NEW R, Orders(R, S), NEW f, f = Arranged(S, R)
  PROVE  /\ Cardinality(S) \in Nat
         /\ f \in [1..Cardinality(S) -> S]
         /\ \A i, j \in 1..Cardinality(S) : f[i] = f[j] => i = j
         /\ \A x \in S : \E i \in 1..Cardinality(S) : f[i] = x
         /\ \A i, j \in 1..Cardinality(S) : i < j <=> <<f[i], f[j]>> \in R
<1>. DEFINE N == Cardinality(S)
            before(x) == {y \in S : <<y, x>> \in R}
<1>1. PICK g : Arranges(g, S, R)
  BY ArrangementExists
<1>2. /\ N \in Nat /\ g \in [1..N -> S]
      /\ \A i, j \in 1..N : g[i] = g[j] => i = j
      /\ \A x \in S : \E i \in 1..N : g[i] = x
      /\ \A i, j \in 1..N : i < j <=> <<g[i], g[j]>> \in R
  BY <1>1, ArrangementIsBijection DEF Arranges
<1>. HIDE DEF N
<1>3. ASSUME NEW n \in 1..N PROVE Cardinality(before(g[n])) = n - 1
  <2>. DEFINE h == [i \in 1..(n - 1) |-> g[i]]
  <2>1. n - 1 \in Nat /\ \A i \in 1..(n - 1) : i \in 1..N /\ i < n
    BY <1>2
  <2>2. \A i \in 1..(n - 1) : g[i] \in before(g[n])
    BY <1>2, <2>1
  <2>3. \A y \in before(g[n]) : \E i \in 1..(n - 1) : g[i] = y
    <3>1. ASSUME NEW y \in before(g[n]) PROVE \E i \in 1..(n - 1) : g[i] = y
      <4>1. PICK i \in 1..N : g[i] = y
        BY <1>2
      <4>2. i < n
        BY <1>2, <4>1
      <4>. QED  BY <1>2, <4>1, <4>2
    <3>. QED  BY <3>1
  <2>4. h \in Surjection(1..(n - 1), before(g[n]))
    <3>. HIDE DEF before
    <3>1. h \in [1..(n - 1) -> before(g[n])]
      BY <2>2
    <3>. QED  BY <2>3, <3>1 DEF Surjection
  <2>5. h \in Injection(1..(n - 1), before(g[n]))
    <3>. HIDE DEF before
    <3>1. h \in [1..(n - 1) -> before(g[n])]
      BY <2>2
    <3>2. \A i, j \in 1..(n - 1) : h[i] = h[j] => i = j
      BY <1>2, <2>1
    <3>. QED  BY <3>1, <3>2 DEF Injection, IsInjective
  <2>. HIDE DEF h, before
  <2>. QED  BY <2>1, <2>4, <2>5, UpTo, FS_Surjection
<1>. DEFINE nth(n) == CHOOSE x \in S : Cardinality(before(x)) = n - 1
<1>4. ASSUME NEW n \in 1..N PROVE nth(n) = g[n]
  <2>. HIDE DEF before
  <2>1. g[n] \in S /\ Cardinality(before(g[n])) = n - 1
    BY <1>2, <1>3
  <2>2. ASSUME NEW x \in S, Cardinality(before(x)) = n - 1 PROVE x = g[n]
    <3>1. PICK m \in 1..N : g[m] = x
      BY <1>2
    <3>2. m - 1 = n - 1
      BY <1>3, <2>2, <3>1
    <3>3. m = n
      BY <1>2, <3>2
    <3>. QED  BY <3>1, <3>3
  <2>. QED  BY <2>1, <2>2
<1>5. f = [n \in 1..N |-> nth(n)]
  BY DEF Arranged, N
<1>6. f = g
  <2>. HIDE DEF nth
  <2>. QED  BY <1>2, <1>4, <1>5
<1>. QED  BY <1>2, <1>6 DEF N

-----------------------------------------------------------------------------
(* Folds and sums *)

\* Taking the members of S one by one, c[s] first of all in s: what a fold over
\* S computes, with op the step it makes, from the value b of the empty set.
Folds(g, S, c, op, b) ==
  /\ DOMAIN g = SUBSET S
  /\ \A s \in SUBSET S : g[s] = IF s = {} THEN b ELSE op[<<c[s], g[s \ {c[s]}]>>]

\* There is such a function.
LEMMA FoldExists ==
  ASSUME NEW S, IsFiniteSet(S), NEW V, NEW b \in V, NEW op \in [S \X V -> V],
         NEW c, \A s \in SUBSET S : s # {} => c[s] \in s
  PROVE  \E g : Folds(g, S, c, op, b) /\ g \in [SUBSET S -> V]
<1>. DEFINE Up(n) == {s \in SUBSET S : Cardinality(s) <= n}
            F(g, n) == /\ g \in [Up(n) -> V]
                       /\ \A s \in Up(n) : g[s] = IF s = {} THEN b ELSE op[<<c[s], g[s \ {c[s]}]>>]
            Bad == {n \in Nat : ~ \E g : F(g, n)}
<1>0. \A s \in SUBSET S : /\ IsFiniteSet(s) /\ Cardinality(s) \in Nat
                          /\ s # {} => /\ c[s] \in s /\ s \ {c[s]} \in SUBSET S
                                       /\ Cardinality(s \ {c[s]}) = Cardinality(s) - 1
                          /\ Cardinality(s) = 0 <=> s = {}
  BY FS_Subset, FS_CardinalityType, FS_RemoveElement, FS_EmptySet
<1>1. Bad = {}
  <2>. SUFFICES ASSUME Bad # {} PROVE FALSE
    OBVIOUS
  <2>1. PICK n \in Bad : \A m \in Bad : n <= m
    <3>1. Bad \in SUBSET Nat
      OBVIOUS
    <3>. HIDE DEF Bad
    <3>. QED  BY <3>1, LeastOf
  <2>2. n \in Nat /\ ~ \E g : F(g, n)
    OBVIOUS
  <2>3. CASE n = 0
    <3>1. ASSUME NEW s \in Up(0) PROVE s = {}
      <4>1. s \in SUBSET S /\ Cardinality(s) <= 0
        OBVIOUS
      <4>2. Cardinality(s) = 0
        <5>1. Cardinality(s) \in Nat
          BY <1>0, <4>1
        <5>. QED  BY <4>1, <5>1
      <4>. QED  BY <1>0, <4>1, <4>2
    <3>2. F([s \in Up(0) |-> b], 0)
      <4>. HIDE DEF Up
      <4>. QED  BY <3>1
    <3>. QED  BY <2>2, <2>3, <3>2
  <2>4. CASE n # 0
    <3>1. n - 1 \in Nat /\ n - 1 \notin Bad
      <4>1. n - 1 \in Nat /\ ~ (n <= n - 1)
        BY <2>2, <2>4
      <4>. HIDE DEF Bad
      <4>. QED  BY <2>1, <4>1
    <3>2. PICK h : F(h, n - 1)
      BY <3>1
    <3>3. \A s \in Up(n) : s # {} => c[s] \in S /\ s \ {c[s]} \in Up(n - 1)
      BY <1>0, <2>2
    <3>. DEFINE g == [s \in Up(n) |-> IF s = {} THEN b ELSE op[<<c[s], h[s \ {c[s]}]>>]]
    <3>4. \A s \in Up(n - 1) : s \in Up(n) /\ h[s] = g[s]
      <4>1. \A s \in Up(n - 1) : s \in Up(n)
        <5>. SUFFICES ASSUME NEW s \in Up(n - 1) PROVE s \in Up(n)
          OBVIOUS
        <5>1. s \in SUBSET S /\ Cardinality(s) <= n - 1
          OBVIOUS
        <5>2. Cardinality(s) <= n
          <6>1. Cardinality(s) \in Nat
            BY <1>0, <5>1
          <6>. QED  BY <2>2, <5>1, <6>1
        <5>. QED  BY <5>1, <5>2
      <4>. HIDE DEF Up
      <4>. QED  BY <3>2, <4>1
    <3>. HIDE DEF Up
    <3>5. \A s \in Up(n) : s # {} => op[<<c[s], h[s \ {c[s]}]>>] \in V
      BY <3>2, <3>3
    <3>6. g \in [Up(n) -> V]
      BY <3>5
    <3>7. \A s \in Up(n) : g[s] = IF s = {} THEN b ELSE op[<<c[s], g[s \ {c[s]}]>>]
      BY <3>3, <3>4
    <3>8. F(g, n)
      <4>. HIDE DEF g
      <4>. QED  BY <3>6, <3>7
    <3>. QED  BY <2>2, <3>8
  <2>. QED  BY <2>3, <2>4
<1>2. Cardinality(S) \in Nat
  BY <1>0
<1>3. PICK g : F(g, Cardinality(S))
  <2>1. Cardinality(S) \notin Bad
    <3>. HIDE DEF Bad
    <3>. QED  BY <1>1
  <2>. QED  BY <1>2, <2>1
<1>4. Up(Cardinality(S)) = SUBSET S
  BY FS_Subset
<1>. QED  BY <1>3, <1>4 DEF Folds

\* What it says of a set does not depend on the larger set it was made for.
LEMMA FoldIsUnique ==
  ASSUME NEW S, IsFiniteSet(S), NEW U \in SUBSET S, NEW c, NEW op, NEW b,
         \A s \in SUBSET S : s # {} => c[s] \in s,
         NEW g, Folds(g, S, c, op, b), NEW h, Folds(h, U, c, op, b)
  PROVE  g[U] = h[U]
<1>. DEFINE Bad == {s \in SUBSET U : g[s] # h[s]}
<1>1. ASSUME NEW T \in Bad
      PROVE  \E x \in T : T \ {x} \in Bad
  <2>1. T \in SUBSET U /\ T \in SUBSET S /\ g[T] # h[T]
    OBVIOUS
  <2>2. T # {} /\ c[T] \in T
    BY <2>1 DEF Folds
  <2>3. g[T \ {c[T]}] # h[T \ {c[T]}] /\ T \ {c[T]} \in SUBSET U
    BY <2>1, <2>2 DEF Folds
  <2>. QED  BY <2>2, <2>3
<1>2. IsFiniteSet(U)
  BY FS_Subset
<1>3. Bad = {}
  <2>1. Bad \in SUBSET (SUBSET U)
    OBVIOUS
  <2>. HIDE DEF Bad
  <2>. QED  BY <1>1, <1>2, <2>1, NoSmallestBad
<1>4. U \notin Bad
  BY <1>3
<1>. QED  BY <1>4

-----------------------------------------------------------------------------

\* The function that the sum of f over S is a value of.
SumFold(f, S) ==
  CHOOSE g : g = [s \in SUBSET S |->
                    IF s = {} THEN 0 ELSE f[CHOOSE x \in s : TRUE] + g[s \ {CHOOSE x \in s : TRUE}]]

SomeOf(S) == [s \in SUBSET S |-> CHOOSE x \in s : TRUE]

AddTo(f, S) == [p \in S \X Int |-> f[p[1]] + p[2]]

LEMMA SumFoldIs ==
  ASSUME NEW S, IsFiniteSet(S), NEW f, \A x \in S : f[x] \in Int
  PROVE  /\ SumFunctionOnSet(f, S) = SumFold(f, S)[S]
         /\ Folds(SumFold(f, S), S, SomeOf(S), AddTo(f, S), 0)
         /\ SumFold(f, S) \in [SUBSET S -> Int]
<1>. DEFINE Eq(g) == g = [s \in SUBSET S |->
                       IF s = {} THEN 0 ELSE f[CHOOSE x \in s : TRUE] + g[s \ {CHOOSE x \in s : TRUE}]]
<1>1. SumFunctionOnSet(f, S) = SumFold(f, S)[S]
  BY DEF SumFunctionOnSet, FoldFunctionOnSet, MapThenFoldSet, SumFold
<1>2. AddTo(f, S) \in [S \X Int -> Int]
  BY DEF AddTo
<1>3. \A s \in SUBSET S : s # {} => SomeOf(S)[s] \in s /\ SomeOf(S)[s] = CHOOSE x \in s : TRUE
  BY DEF SomeOf
<1>4. PICK g : Folds(g, S, SomeOf(S), AddTo(f, S), 0) /\ g \in [SUBSET S -> Int]
  <2>1. 0 \in Int
    OBVIOUS
  <2>. QED  BY <1>2, <1>3, <2>1, FoldExists
<1>5. Eq(g)
  <2>1. ASSUME NEW s \in SUBSET S
        PROVE  g[s] = IF s = {} THEN 0 ELSE f[CHOOSE x \in s : TRUE] + g[s \ {CHOOSE x \in s : TRUE}]
    <3>1. CASE s = {}
      BY <1>4, <3>1 DEF Folds
    <3>2. CASE s # {}
      <4>. DEFINE x == SomeOf(S)[s]
      <4>1. x \in S /\ g[s \ {x}] \in Int /\ x = CHOOSE y \in s : TRUE
        BY <1>3, <1>4, <3>2
      <4>2. g[s] = AddTo(f, S)[<<x, g[s \ {x}]>>]
        BY <1>4, <3>2 DEF Folds
      <4>. QED  BY <3>2, <4>1, <4>2 DEF AddTo
    <3>. QED  BY <3>1, <3>2
  <2>. QED  BY <1>4, <2>1
<1>6. Eq(SumFold(f, S))
  <2>1. SumFold(f, S) = CHOOSE h : Eq(h)
    BY DEF SumFold
  <2>. HIDE DEF Eq
  <2>. QED  BY <1>5, <2>1
<1>. DEFINE h == SumFold(f, S)
<1>7. h \in [SUBSET S -> Int]
  <2>. DEFINE Bad == {s \in SUBSET S : h[s] # g[s]}
  <2>1. ASSUME NEW T \in Bad
        PROVE  \E x \in T : T \ {x} \in Bad
    <3>1. T \in SUBSET S /\ h[T] # g[T]
      OBVIOUS
    <3>. HIDE DEF h
    <3>2. h[T] = IF T = {} THEN 0 ELSE f[CHOOSE x \in T : TRUE] + h[T \ {CHOOSE x \in T : TRUE}]
      BY <1>6, <3>1 DEF h
    <3>3. g[T] = IF T = {} THEN 0 ELSE f[CHOOSE x \in T : TRUE] + g[T \ {CHOOSE x \in T : TRUE}]
      BY <1>5, <3>1
    <3>4. T # {}
      BY <3>1, <3>2, <3>3
    <3>5. (CHOOSE x \in T : TRUE) \in T
      BY <3>4
    <3>. QED  BY <3>1, <3>2, <3>3, <3>5
  <2>2. Bad = {}
    <3>1. Bad \in SUBSET (SUBSET S)
      OBVIOUS
    <3>. HIDE DEF Bad
    <3>. QED  BY <2>1, <3>1, NoSmallestBad
  <2>3. \A s \in SUBSET S : h[s] = g[s]
    BY <2>2
  <2>4. DOMAIN h = SUBSET S /\ h = [s \in SUBSET S |-> h[s]]
    BY <1>6
  <2>. HIDE DEF h
  <2>. QED  BY <1>4, <2>3, <2>4
<1>8. Folds(h, S, SomeOf(S), AddTo(f, S), 0)
  <2>. HIDE DEF h
  <2>0. DOMAIN h = SUBSET S
    BY <1>7
  <2>1. ASSUME NEW s \in SUBSET S
        PROVE  h[s] = IF s = {} THEN 0 ELSE AddTo(f, S)[<<SomeOf(S)[s], h[s \ {SomeOf(S)[s]}]>>]
    <3>0. h[s] = IF s = {} THEN 0 ELSE f[CHOOSE x \in s : TRUE] + h[s \ {CHOOSE x \in s : TRUE}]
      BY <1>6 DEF h
    <3>1. CASE s = {}
      BY <3>0, <3>1
    <3>2. CASE s # {}
      <4>. DEFINE x == SomeOf(S)[s]
      <4>1. x \in S /\ h[s \ {x}] \in Int /\ x = CHOOSE y \in s : TRUE
        BY <1>3, <1>7, <3>2
      <4>. QED  BY <3>0, <3>2, <4>1 DEF AddTo
    <3>. QED  BY <3>1, <3>2
  <2>. QED  BY <2>0, <2>1 DEF Folds
<1>. QED  BY <1>1, <1>7, <1>8

\* A sum over integers is one, and any member can be counted first.
LEMMA SumType ==
  ASSUME NEW S, IsFiniteSet(S), NEW f, \A x \in S : f[x] \in Int
  PROVE  SumFunctionOnSet(f, S) \in Int
<1>1. SumFold(f, S) \in [SUBSET S -> Int] /\ SumFunctionOnSet(f, S) = SumFold(f, S)[S]
  BY SumFoldIs
<1>2. S \in SUBSET S
  OBVIOUS
<1>. QED  BY <1>1, <1>2

LEMMA SumOfNone ==
  ASSUME NEW f
  PROVE  SumFunctionOnSet(f, {}) = 0
<1>1. IsFiniteSet({}) /\ \A x \in {} : f[x] \in Int
  BY FS_EmptySet
<1>. QED  BY <1>1, SumFoldIs DEF Folds

LEMMA SumStep ==
  ASSUME NEW S, IsFiniteSet(S), NEW f, \A x \in S : f[x] \in Int, S # {}
  PROVE  /\ (CHOOSE x \in S : TRUE) \in S
         /\ SumFunctionOnSet(f, S) = f[CHOOSE x \in S : TRUE]
                                       + SumFunctionOnSet(f, S \ {CHOOSE x \in S : TRUE})
<1>. DEFINE x == CHOOSE y \in S : TRUE
            U == S \ {x}
            g == SumFold(f, S)
            h == SumFold(f, U)
<1>1. x \in S /\ IsFiniteSet(U) /\ U \in SUBSET S /\ S \in SUBSET S
  BY FS_Subset
<1>2. SumFunctionOnSet(f, S) = g[S] /\ Folds(g, S, SomeOf(S), AddTo(f, S), 0) /\ g \in [SUBSET S -> Int]
  BY SumFoldIs
<1>3. SumFunctionOnSet(f, U) = h[U] /\ Folds(h, U, SomeOf(U), AddTo(f, U), 0) /\ h \in [SUBSET U -> Int]
  BY <1>1, SumFoldIs
<1>. HIDE DEF g, h, x
<1>4. \A s \in SUBSET S : s # {} => SomeOf(S)[s] \in s
  BY DEF SomeOf
<1>5. Folds(h, U, SomeOf(S), AddTo(f, S), 0)
  <2>. SUFFICES ASSUME NEW s \in SUBSET U, s # {}
                PROVE  h[s] = AddTo(f, S)[<<SomeOf(S)[s], h[s \ {SomeOf(S)[s]}]>>]
    BY <1>3 DEF Folds
  <2>1. SomeOf(S)[s] = SomeOf(U)[s] /\ SomeOf(S)[s] \in U /\ SomeOf(S)[s] \in S
    BY <1>1 DEF SomeOf
  <2>. DEFINE y == SomeOf(U)[s]
  <2>2. h[s] = AddTo(f, U)[<<y, h[s \ {y}]>>] /\ h[s \ {y}] \in Int
    BY <1>3, <2>1 DEF Folds
  <2>. HIDE DEF y
  <2>3. AddTo(f, U)[<<y, h[s \ {y}]>>] = f[y] + h[s \ {y}] /\ AddTo(f, S)[<<y, h[s \ {y}]>>] = f[y] + h[s \ {y}]
    BY <2>1, <2>2 DEF AddTo, y
  <2>. QED  BY <2>1, <2>2, <2>3 DEF y
<1>6. g[U] = h[U]
  BY <1>1, <1>2, <1>4, <1>5, FoldIsUnique
<1>7. g[S] = AddTo(f, S)[<<x, g[U]>>]
  BY <1>1, <1>2 DEF Folds, SomeOf, x, U
<1>8. g[S] = f[x] + g[U]
  BY <1>1, <1>2, <1>7 DEF AddTo
<1>. QED  BY <1>1, <1>2, <1>3, <1>6, <1>8 DEF x, U

LEMMA SumAdd ==
  ASSUME NEW S, IsFiniteSet(S), NEW f, \A x \in S : f[x] \in Int, NEW e \in S
  PROVE  SumFunctionOnSet(f, S) = f[e] + SumFunctionOnSet(f, S \ {e})
<1>. DEFINE Sum(T) == SumFunctionOnSet(f, T)
            Bad == {T \in SUBSET S : \E x \in T : Sum(T) # f[x] + Sum(T \ {x})}
<1>0. \A T \in SUBSET S : IsFiniteSet(T) /\ Sum(T) \in Int
  BY FS_Subset, SumType
<1>1. ASSUME NEW T \in Bad
      PROVE  \E x \in T : T \ {x} \in Bad
  <2>1. PICK x \in T : Sum(T) # f[x] + Sum(T \ {x})
    OBVIOUS
  <2>. DEFINE c == CHOOSE y \in T : TRUE
  <2>2. c \in T /\ Sum(T) = f[c] + Sum(T \ {c})
    BY <1>0, SumStep
  <2>3. x # c
    BY <2>1, <2>2
  <2>. HIDE DEF c
  <2>. SUFFICES ASSUME T \ {c} \notin Bad, T \ {x} \notin Bad PROVE FALSE
    BY <2>2
  <2>4. Sum(T \ {c}) = f[x] + Sum((T \ {c}) \ {x})
    BY <2>3
  <2>5. Sum(T \ {x}) = f[c] + Sum((T \ {x}) \ {c})
    BY <2>2, <2>3
  <2>6. Sum((T \ {c}) \ {x}) = Sum((T \ {x}) \ {c})
    <3>1. (T \ {c}) \ {x} = (T \ {x}) \ {c}
      OBVIOUS
    <3>. QED  BY <3>1
  <2>7. f[c] \in Int /\ f[x] \in Int /\ Sum((T \ {x}) \ {c}) \in Int
    BY <1>0, <2>2
  <2>. HIDE DEF Bad, Sum
  <2>. QED  BY <2>1, <2>2, <2>4, <2>5, <2>6, <2>7
<1>2. Bad = {}
  <2>1. Bad \in SUBSET (SUBSET S)
    OBVIOUS
  <2>. HIDE DEF Bad
  <2>. QED  BY <1>1, <2>1, NoSmallestBad
<1>3. S \notin Bad
  BY <1>2
<1>. QED  BY <1>3

\* A sum of larger numbers is at least as large; equal numbers have equal sums.
LEMMA SumMonotonic ==
  ASSUME NEW S, IsFiniteSet(S), NEW f, NEW g,
         \A x \in S : f[x] \in Int /\ g[x] \in Int /\ f[x] <= g[x]
  PROVE  SumFunctionOnSet(f, S) <= SumFunctionOnSet(g, S)
<1>. DEFINE Sum(h, T) == SumFunctionOnSet(h, T)
            Bad == {T \in SUBSET S : ~ (Sum(f, T) <= Sum(g, T))}
<1>0. ASSUME NEW T \in SUBSET S
      PROVE  IsFiniteSet(T) /\ Sum(f, T) \in Int /\ Sum(g, T) \in Int
  <2>1. IsFiniteSet(T) /\ \A x \in T : f[x] \in Int /\ g[x] \in Int
    BY FS_Subset
  <2>. QED  BY <2>1, SumType
<1>1. ASSUME NEW T \in Bad
      PROVE  \E x \in T : T \ {x} \in Bad
  <2>1. T # {}
    BY SumOfNone
  <2>2. PICK x \in T : TRUE
    BY <2>1
  <2>3. Sum(f, T) = f[x] + Sum(f, T \ {x}) /\ Sum(g, T) = g[x] + Sum(g, T \ {x})
    BY <1>0, <2>2, SumAdd
  <2>4. ~ (Sum(f, T) <= Sum(g, T)) /\ T \ {x} \in SUBSET S
    OBVIOUS
  <2>5. f[x] \in Int /\ g[x] \in Int /\ f[x] <= g[x]
    BY <2>2
  <2>6. Sum(f, T \ {x}) \in Int /\ Sum(g, T \ {x}) \in Int
    BY <1>0, <2>4
  <2>7. ~ (Sum(f, T \ {x}) <= Sum(g, T \ {x}))
    <3>. HIDE DEF Sum, Bad
    <3>. QED  BY <2>3, <2>4, <2>5, <2>6
  <2>. QED  BY <2>2, <2>4, <2>7
<1>2. Bad = {}
  <2>1. Bad \in SUBSET (SUBSET S)
    OBVIOUS
  <2>. HIDE DEF Bad
  <2>. QED  BY <1>1, <2>1, NoSmallestBad
<1>3. S \notin Bad
  BY <1>2
<1>. QED  BY <1>3

LEMMA SumSame ==
  ASSUME NEW S, IsFiniteSet(S), NEW f, NEW g, \A x \in S : f[x] \in Int /\ f[x] = g[x]
  PROVE  SumFunctionOnSet(f, S) = SumFunctionOnSet(g, S)
<1>1. SumFunctionOnSet(f, S) <= SumFunctionOnSet(g, S) /\ SumFunctionOnSet(g, S) <= SumFunctionOnSet(f, S)
  BY SumMonotonic
<1>2. SumFunctionOnSet(f, S) \in Int /\ SumFunctionOnSet(g, S) \in Int
  BY SumType
<1>. QED  BY <1>1, <1>2

\* A common factor can be taken out.
LEMMA SumTimes ==
  ASSUME NEW S, IsFiniteSet(S), NEW f, \A x \in S : f[x] \in Int, NEW k \in Int,
         NEW g, \A x \in S : g[x] = k * f[x]
  PROVE  SumFunctionOnSet(g, S) = k * SumFunctionOnSet(f, S)
<1>. DEFINE Sum(h, T) == SumFunctionOnSet(h, T)
            Bad == {T \in SUBSET S : Sum(g, T) # k * Sum(f, T)}
<1>0. ASSUME NEW T \in SUBSET S
      PROVE  IsFiniteSet(T) /\ Sum(f, T) \in Int /\ Sum(g, T) \in Int
  <2>1. IsFiniteSet(T) /\ \A x \in T : f[x] \in Int /\ g[x] \in Int
    BY FS_Subset
  <2>. QED  BY <2>1, SumType
<1>1. ASSUME NEW T \in Bad
      PROVE  \E x \in T : T \ {x} \in Bad
  <2>1. T # {}
    BY SumOfNone
  <2>2. PICK x \in T : TRUE
    BY <2>1
  <2>3. Sum(f, T) = f[x] + Sum(f, T \ {x}) /\ Sum(g, T) = g[x] + Sum(g, T \ {x})
    BY <1>0, <2>2, SumAdd
  <2>4. Sum(g, T) # k * Sum(f, T) /\ T \ {x} \in SUBSET S
    OBVIOUS
  <2>5. f[x] \in Int /\ g[x] = k * f[x]
    BY <2>2
  <2>6. Sum(f, T \ {x}) \in Int /\ Sum(g, T \ {x}) \in Int
    BY <1>0, <2>4
  <2>7. Sum(g, T \ {x}) # k * Sum(f, T \ {x})
    <3>. HIDE DEF Sum, Bad
    <3>1. k * (f[x] + Sum(f, T \ {x})) = k * f[x] + k * Sum(f, T \ {x})
      BY <2>5, <2>6
    <3>. QED  BY <2>3, <2>4, <2>5, <3>1
  <2>. QED  BY <2>2, <2>4, <2>7
<1>2. Bad = {}
  <2>1. Bad \in SUBSET (SUBSET S)
    OBVIOUS
  <2>. HIDE DEF Bad
  <2>. QED  BY <1>1, <2>1, NoSmallestBad
<1>3. S \notin Bad
  BY <1>2
<1>. QED  BY <1>3

\* The sum over two sets that have nothing in common.
LEMMA SumUnion ==
  ASSUME NEW S, IsFiniteSet(S), NEW A, IsFiniteSet(A), A \cap S = {},
         NEW f, \A x \in S \cup A : f[x] \in Int
  PROVE  SumFunctionOnSet(f, A \cup S) = SumFunctionOnSet(f, A) + SumFunctionOnSet(f, S)
<1>. DEFINE Sum(T) == SumFunctionOnSet(f, T)
            Bad == {T \in SUBSET S : Sum(A \cup T) # Sum(A) + Sum(T)}
<1>0. \A T \in SUBSET S : IsFiniteSet(T) /\ IsFiniteSet(A \cup T) /\ Sum(T) \in Int /\ Sum(A \cup T) \in Int
  BY FS_Subset, FS_Union, SumType
<1>00. Sum(A) \in Int
  BY SumType
<1>1. ASSUME NEW T \in Bad
      PROVE  \E x \in T : T \ {x} \in Bad
  <2>1. T # {}
    <3>1. A \cup {} = A /\ Sum({}) = 0
      BY SumOfNone
    <3>2. Sum(A \cup {}) = Sum(A) + Sum({})
      <4>. HIDE DEF Sum
      <4>. QED  BY <1>00, <3>1
    <3>. QED  BY <3>2
  <2>2. PICK x \in T : TRUE
    BY <2>1
  <2>3. Sum(T) = f[x] + Sum(T \ {x})
    BY <1>0, <2>2, SumAdd
  <2>4. Sum(A \cup T) # Sum(A) + Sum(T) /\ T \ {x} \in SUBSET S
    OBVIOUS
  <2>5. Sum(A \cup T) = f[x] + Sum((A \cup T) \ {x})
    BY <1>0, <2>2, SumAdd
  <2>6. Sum((A \cup T) \ {x}) = Sum(A \cup (T \ {x}))
    <3>1. (A \cup T) \ {x} = A \cup (T \ {x})
      BY <2>2
    <3>. QED  BY <3>1
  <2>7. f[x] \in Int /\ Sum(T \ {x}) \in Int /\ Sum(A \cup (T \ {x})) \in Int
    BY <1>0, <2>2, <2>4
  <2>8. Sum(A \cup (T \ {x})) # Sum(A) + Sum(T \ {x})
    <3>. HIDE DEF Sum, Bad
    <3>. QED  BY <1>00, <2>3, <2>4, <2>5, <2>6, <2>7
  <2>. QED  BY <2>2, <2>4, <2>8
<1>2. Bad = {}
  <2>1. Bad \in SUBSET (SUBSET S)
    OBVIOUS
  <2>. HIDE DEF Bad
  <2>. QED  BY <1>1, <2>1, NoSmallestBad
<1>3. S \notin Bad
  BY <1>2
<1>. QED  BY <1>3

=============================================================================

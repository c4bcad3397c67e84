--------------------------- MODULE Planner_proofs ---------------------------
(***************************************************************************)
(* The bounded search is right for every problem: a plan it returns can be *)
(* carried out and is a shortest one, and "not found" is a proof, unless   *)
(* two states near the initial one have the same key.                      *)
(***************************************************************************)
EXTENDS Planner, WellFoundedInduction, NaturalsInduction, FiniteSetTheorems, TLAPS

-----------------------------------------------------------------------------
(* Numbers and orders *)

\* A non-empty set of numbers has a least one: what stands in for induction.
LEMMA LeastOf ==
  ASSUME NEW S \in SUBSET Nat, S # {}
  PROVE  \E x \in S : \A y \in S : x <= y
<1>. DEFINE R == OpToRel(<, Nat)
<1>1. PICK x \in S : \A y \in S : ~ (<<y, x>> \in R)
  <2>1. IsWellFoundedOn(R, Nat)
    BY NatLessThanWellFounded
  <2>. HIDE DEF R
  <2>. QED
    BY <2>1, WFMin
<1>2. ASSUME NEW y \in S PROVE x <= y
  <2>1. x \in Nat /\ y \in Nat
    OBVIOUS
  <2>2. y < x => <<y, x>> \in R
    BY <2>1 DEF OpToRel
  <2>. HIDE DEF R
  <2>. QED
    BY <1>1, <2>1, <2>2
<1>. QED
  BY <1>2

\* One sequence after another.
LEMMA ConcatIs ==
  ASSUME NEW S, NEW a \in Seq(S), NEW b \in Seq(S)
  PROVE  /\ a \o b \in Seq(S) /\ DOMAIN (a \o b) = 1..Len(a) + Len(b)
         /\ Len(b) \in Nat /\ DOMAIN b = 1..Len(b)
         /\ \A i \in 1..Len(a) : (a \o b)[i] = a[i]
         /\ \A i \in 1..Len(b) : (a \o b)[Len(a) + i] = b[i]
OBVIOUS

\* Numbers up to n can be put in order.
Orders(S) ==
  {f \in [1..Cardinality(S) -> S] :
     /\ \A i, j \in DOMAIN f : i < j => f[i] < f[j]
     /\ \A k \in S : \E i \in DOMAIN f : f[i] = k}

LEMMA OrdersExist ==
  ASSUME NEW n \in Nat, NEW S \in SUBSET (1..n)
  PROVE  Orders(S) # {}
<1>. DEFINE Bad == {m \in Nat : \E T \in SUBSET (1..m) : Orders(T) = {}}
<1>1. SUFFICES ASSUME Bad # {} PROVE FALSE
  OBVIOUS
<1>2. PICK m \in Bad : \A k \in Bad : m <= k
  <2>1. Bad \in SUBSET Nat
    OBVIOUS
  <2>. HIDE DEF Bad
  <2>. QED  BY <1>1, <2>1, LeastOf
<1>3. m \in Nat /\ \E T \in SUBSET (1..m) : Orders(T) = {}
  OBVIOUS
<1>4. PICK T \in SUBSET (1..m) : Orders(T) = {}
  BY <1>3
<1>5. \A k \in Nat : k < m => \A U \in SUBSET (1..k) : Orders(U) # {}
  <2>1. \A k \in Nat : k < m => k \notin Bad
    <3>. HIDE DEF Bad
    <3>. QED  BY <1>2, <1>3
  <2>. QED  BY <2>1
<1>. HIDE DEF Bad
<1>6. CASE m = 0
  <2>0. T = {}
    BY <1>6
  <2>1. T = {} /\ Cardinality(T) = 0
    BY <2>0, FS_EmptySet
  <2>2. [i \in 1..0 |-> i] \in Orders(T)
    BY <2>1 DEF Orders
  <2>. QED  BY <1>4, <2>2
<1>7. CASE m > 0
  <2>. DEFINE U == T \ {m}
              c == Cardinality(U)
  <2>1. U \in SUBSET (1..(m - 1)) /\ m - 1 \in Nat /\ m - 1 < m
    BY <1>3, <1>7
  <2>2. IsFiniteSet(U) /\ c \in Nat
    <3>1. IsFiniteSet(1..m)
      BY <1>3, FS_Interval
    <3>. QED  BY <3>1, FS_Subset, FS_CardinalityType
  <2>3. PICK f \in Orders(U) : TRUE
    BY <1>5, <2>1
  <2>4. f \in [1..c -> U] /\ (\A i, j \in 1..c : i < j => f[i] < f[j]) /\ \A k \in U : \E i \in 1..c : f[i] = k
    BY <2>3 DEF Orders
  <2>5. CASE m \notin T
    BY <1>4, <2>3, <2>5, U = T
  <2>6. CASE m \in T
    <3>1. T = U \cup {m} /\ m \notin U
      BY <2>6
    <3>2. Cardinality(T) = c + 1
      BY <2>2, <3>1, FS_AddElement
    <3>. DEFINE g == [i \in 1..(c + 1) |-> IF i = c + 1 THEN m ELSE f[i]]
    <3>3. \A i \in 1..c : f[i] \in T /\ f[i] \in Nat /\ f[i] < m
      <4>1. \A k \in U : k \in T /\ k \in Nat /\ k < m
        BY <2>1, <1>3
      <4>. HIDE DEF U, c
      <4>. QED  BY <2>4, <4>1
    <3>4. g \in [1..(c + 1) -> T]
      <4>. HIDE DEF c
      <4>1. \A i \in 1..(c + 1) : i # c + 1 => i \in 1..c
        BY <2>2
      <4>. QED  BY <2>6, <3>3, <4>1
    <3>5. \A i, j \in 1..(c + 1) : i < j => g[i] < g[j]
      <4>. SUFFICES ASSUME NEW i \in 1..(c + 1), NEW j \in 1..(c + 1), i < j
                    PROVE  g[i] < g[j]
        OBVIOUS
      <4>1. i \in 1..c /\ g[i] = f[i]
        BY <2>2
      <4>2. CASE j = c + 1
        BY <3>3, <4>1, <4>2
      <4>3. CASE j # c + 1
        <5>1. j \in 1..c /\ g[j] = f[j]
          BY <2>2, <4>3
        <5>2. f[i] < f[j]
          BY <2>4, <4>1, <5>1
        <5>. HIDE DEF g, c
        <5>. QED  BY <4>1, <5>1, <5>2
      <4>. QED  BY <4>2, <4>3
    <3>6. \A k \in T : \E i \in 1..(c + 1) : g[i] = k
      <4>. SUFFICES ASSUME NEW k \in T PROVE \E i \in 1..(c + 1) : g[i] = k
        OBVIOUS
      <4>1. CASE k = m
        BY <2>2, <4>1
      <4>2. CASE k # m
        <5>1. PICK i \in 1..c : f[i] = k
          BY <2>4, <4>2
        <5>2. i \in 1..(c + 1) /\ g[i] = k
          BY <2>2, <5>1
        <5>. QED  BY <5>2
      <4>. QED  BY <4>1, <4>2
    <3>7. g \in Orders(T)
      <4>. HIDE DEF g, c
      <4>1. DOMAIN g = 1..(c + 1)
        BY <3>4
      <4>. QED  BY <3>2, <3>4, <3>5, <3>6, <4>1 DEF Orders
    <3>. QED  BY <1>4, <3>7
  <2>. QED  BY <2>5, <2>6
<1>. QED  BY <1>3, <1>6, <1>7

\* InOrder gives each of the numbers once, in order.
LEMMA InOrderIs ==
  ASSUME NEW n \in Nat, NEW S \in SUBSET (1..n)
  PROVE  /\ InOrder(S) \in [1..Cardinality(S) -> S] /\ Cardinality(S) \in Nat
         /\ \A i, j \in DOMAIN InOrder(S) : InOrder(S)[i] = InOrder(S)[j] => i = j
         /\ \A k \in S : \E i \in DOMAIN InOrder(S) : InOrder(S)[i] = k
<1>. DEFINE f == InOrder(S)
            c == Cardinality(S)
<1>1. IsFiniteSet(S) /\ c \in Nat
  <2>1. IsFiniteSet(1..n)
    BY FS_Interval
  <2>2. IsFiniteSet(S)
    BY <2>1, FS_Subset
  <2>. QED  BY <2>2, FS_CardinalityType
<1>2. f \in [1..c -> S] /\ \A i, j \in DOMAIN f : i < j => f[i] < f[j]
  <2>1. \E g \in [1..c -> S] : \A i, j \in DOMAIN g : i < j => g[i] < g[j]
    BY OrdersExist DEF Orders
  <2>. QED  BY <2>1 DEF InOrder
<1>. HIDE DEF f, c
<1>3. \A i, j \in DOMAIN f : f[i] = f[j] => i = j
  <2>. SUFFICES ASSUME NEW i \in DOMAIN f, NEW j \in DOMAIN f, f[i] = f[j], i # j
                PROVE  FALSE
    OBVIOUS
  <2>1. i \in 1..c /\ j \in 1..c /\ f[i] \in Nat /\ f[j] \in Nat
    <3>1. \A k \in S : k \in Nat
      OBVIOUS
    <3>. QED  BY <1>2, <3>1
  <2>2. i < j \/ j < i
    BY <1>1, <2>1
  <2>. QED  BY <1>2, <2>1, <2>2
<1>4. \A k \in S : \E i \in DOMAIN f : f[i] = k
  <2>1. IsFiniteSet(1..c) /\ Cardinality(1..c) = c
    BY <1>1, FS_Interval
  <2>2. f \in Injection(1..c, S)
    BY <1>2, <1>3 DEF Injection, IsInjective
  <2>3. Cardinality(1..c) = Cardinality(S)
    BY <2>1 DEF c
  <2>4. f \in Surjection(1..c, S)
    BY <1>1, <2>2, <2>3, FS_Injection
  <2>. QED  BY <1>2, <2>4 DEF Surjection
<1>. QED  BY <1>1, <1>2, <1>3, <1>4 DEF f, c

-----------------------------------------------------------------------------
(* Planning without a search *)

\* The equation a recursive function on 0..d is defined by has a solution, for
\* the states at a depth and for the states on a trail.
LEMMA AtDepthIs ==
  ASSUME problem.max_depth \in Nat
  PROVE  /\ AtDepth[0] = {problem.initial}
         /\ \A n \in 1..problem.max_depth : AtDepth[n] = UNION {Successors(s) : s \in AtDepth[n-1]}
<1>. DEFINE D == problem.max_depth
            Eq(f, m) == f = [n \in 0..m |-> IF n = 0 THEN {problem.initial}
                                            ELSE UNION {Successors(s) : s \in f[n-1]}]
            Bad == {m \in Nat : ~ \E f : Eq(f, m)}
<1>1. Bad = {}
  <2>1. SUFFICES ASSUME Bad # {} PROVE FALSE
    OBVIOUS
  <2>2. PICK m \in Bad : \A k \in Bad : m <= k
    <3>1. Bad \in SUBSET Nat
      OBVIOUS
    <3>. HIDE DEF Bad
    <3>. QED  BY <2>1, <3>1, LeastOf
  <2>3. m \in Nat /\ ~ \E f : Eq(f, m)
    OBVIOUS
  <2>4. CASE m = 0
    <3>1. Eq([n \in 0..0 |-> {problem.initial}], 0)
      OBVIOUS
    <3>. HIDE DEF Eq
    <3>. QED  BY <2>3, <2>4, <3>1
  <2>5. CASE m # 0
    <3>1. m - 1 \in Nat /\ m - 1 \notin Bad
      <4>1. m - 1 \in Nat /\ ~ (m <= m - 1)
        BY <2>3, <2>5
      <4>. HIDE DEF Bad
      <4>. QED  BY <2>2, <4>1
    <3>2. PICK g : Eq(g, m - 1)
      BY <3>1
    <3>. DEFINE f == [n \in 0..m |-> IF n = m THEN UNION {Successors(s) : s \in g[m-1]} ELSE g[n]]
    <3>3. \A n \in 0..m : n # 0 => n - 1 \in 0..(m - 1) /\ f[n-1] = g[n-1]
      BY <2>3
    <3>4. \A n \in 0..m : f[n] = IF n = 0 THEN {problem.initial}
                                 ELSE UNION {Successors(s) : s \in f[n-1]}
      <4>. SUFFICES ASSUME NEW n \in 0..m
                    PROVE  f[n] = IF n = 0 THEN {problem.initial}
                                  ELSE UNION {Successors(s) : s \in f[n-1]}
        OBVIOUS
      <4>1. CASE n = m
        <5>1. f[n] = UNION {Successors(s) : s \in g[n-1]}
          BY <4>1
        <5>. QED  BY <2>5, <3>3, <4>1, <5>1
      <4>2. CASE n # m
        <5>1. n \in 0..(m - 1) /\ f[n] = g[n]
          BY <2>3, <4>2
        <5>2. g[n] = IF n = 0 THEN {problem.initial} ELSE UNION {Successors(s) : s \in g[n-1]}
          BY <3>2, <5>1
        <5>. QED  BY <3>3, <5>1, <5>2
      <4>. QED  BY <4>1, <4>2
    <3>5. Eq(f, m)
      <4>1. f = [n \in 0..m |-> f[n]]
        OBVIOUS
      <4>. HIDE DEF f
      <4>. QED  BY <3>4, <4>1
    <3>. HIDE DEF Eq, f
    <3>. QED  BY <2>3, <3>5
  <2>. QED  BY <2>4, <2>5
<1>2. \E f : Eq(f, D)
  BY <1>1
<1>3. Eq(AtDepth, D)
  <2>1. AtDepth = CHOOSE f : Eq(f, D)
    BY DEF AtDepth
  <2>. HIDE DEF Eq
  <2>. QED  BY <1>2, <2>1
<1>4. AtDepth[0] = {problem.initial}
  <2>1. 0 \in 0..D
    OBVIOUS
  <2>. QED  BY <1>3, <2>1
<1>5. \A n \in 1..D : AtDepth[n] = UNION {Successors(s) : s \in AtDepth[n-1]}
  <2>1. \A n \in 1..D : n \in 0..D /\ n # 0
    OBVIOUS
  <2>. QED  BY <1>3, <2>1
<1>. QED  BY <1>4, <1>5

LEMMA TrailIs ==
  ASSUME NEW p \in Path
  PROVE  /\ Trail(p)[0] = problem.initial
         /\ \A n \in 1..Len(p) : Trail(p)[n] = Apply(Trail(p)[n-1], p[n])
<1>. DEFINE Eq(f, m) == f = [n \in 0..m |-> IF n = 0 THEN problem.initial ELSE Apply(f[n-1], p[n])]
            Bad == {m \in Nat : ~ \E f : Eq(f, m)}
<1>1. Bad = {}
  <2>1. SUFFICES ASSUME Bad # {} PROVE FALSE
    OBVIOUS
  <2>2. PICK m \in Bad : \A k \in Bad : m <= k
    <3>1. Bad \in SUBSET Nat
      OBVIOUS
    <3>. HIDE DEF Bad
    <3>. QED  BY <2>1, <3>1, LeastOf
  <2>3. m \in Nat /\ ~ \E f : Eq(f, m)
    OBVIOUS
  <2>4. CASE m = 0
    <3>1. Eq([n \in 0..0 |-> problem.initial], 0)
      OBVIOUS
    <3>. HIDE DEF Eq
    <3>. QED  BY <2>3, <2>4, <3>1
  <2>5. CASE m # 0
    <3>1. m - 1 \in Nat /\ m - 1 \notin Bad
      <4>1. m - 1 \in Nat /\ ~ (m <= m - 1)
        BY <2>3, <2>5
      <4>. HIDE DEF Bad
      <4>. QED  BY <2>2, <4>1
    <3>2. PICK g : Eq(g, m - 1)
      BY <3>1
    <3>. DEFINE f == [n \in 0..m |-> IF n = m THEN Apply(g[m-1], p[m]) ELSE g[n]]
    <3>3. \A n \in 0..m : n # 0 => n - 1 \in 0..(m - 1) /\ f[n-1] = g[n-1]
      BY <2>3
    <3>4. \A n \in 0..m : f[n] = IF n = 0 THEN problem.initial ELSE Apply(f[n-1], p[n])
      <4>. SUFFICES ASSUME NEW n \in 0..m
                    PROVE  f[n] = IF n = 0 THEN problem.initial ELSE Apply(f[n-1], p[n])
        OBVIOUS
      <4>1. CASE n = m
        <5>1. f[n] = Apply(g[n-1], p[n])
          BY <4>1
        <5>. QED  BY <2>5, <3>3, <4>1, <5>1
      <4>2. CASE n # m
        <5>1. n \in 0..(m - 1) /\ f[n] = g[n]
          BY <2>3, <4>2
        <5>2. g[n] = IF n = 0 THEN problem.initial ELSE Apply(g[n-1], p[n])
          BY <3>2, <5>1
        <5>. QED  BY <3>3, <5>1, <5>2
      <4>. QED  BY <4>1, <4>2
    <3>5. Eq(f, m)
      <4>1. f = [n \in 0..m |-> f[n]]
        OBVIOUS
      <4>. HIDE DEF f
      <4>. QED  BY <3>4, <4>1
    <3>. HIDE DEF Eq, f
    <3>. QED  BY <2>3, <3>5
  <2>. QED  BY <2>4, <2>5
<1>0. Len(p) \in Nat
  BY DEF Path
<1>2. \E f : Eq(f, Len(p))
  BY <1>0, <1>1
<1>3. Eq(Trail(p), Len(p))
  <2>1. Trail(p) = CHOOSE f : Eq(f, Len(p))
    BY DEF Trail
  <2>. HIDE DEF Eq
  <2>. QED  BY <1>2, <2>1
<1>4. Trail(p)[0] = problem.initial
  <2>1. 0 \in 0..Len(p)
    BY <1>0
  <2>. QED  BY <1>3, <2>1
<1>5. \A n \in 1..Len(p) : Trail(p)[n] = Apply(Trail(p)[n-1], p[n])
  <2>1. \A n \in 1..Len(p) : n \in 0..Len(p) /\ n # 0
    BY <1>0
  <2>. QED  BY <1>3, <2>1
<1>. QED  BY <1>4, <1>5

\* A longer path leads through the same states first.
LEMMA TrailGoesOn ==
  ASSUME NEW p \in Path, NEW k \in Nat
  PROVE  /\ \A n \in 0..Len(p) : Trail(Append(p, k))[n] = Trail(p)[n]
         /\ Trail(Append(p, k))[Len(p) + 1] = Apply(Trail(p)[Len(p)], k)
<1>. DEFINE q == Append(p, k)
<1>1. /\ q \in Path /\ Len(p) \in Nat /\ Len(q) = Len(p) + 1 /\ q[Len(p) + 1] = k
      /\ \A n \in 1..Len(p) : q[n] = p[n]
  BY DEF Path
<1>. DEFINE Bad == {n \in 0..Len(p) : Trail(q)[n] # Trail(p)[n]}
<1>. HIDE DEF q
<1>2. Bad = {}
  <2>1. SUFFICES ASSUME Bad # {} PROVE FALSE
    OBVIOUS
  <2>2. PICK m \in Bad : \A j \in Bad : m <= j
    <3>1. Bad \in SUBSET Nat
      BY <1>1
    <3>. HIDE DEF Bad
    <3>. QED  BY <2>1, <3>1, LeastOf
  <2>3. m \in 0..Len(p) /\ Trail(q)[m] # Trail(p)[m]
    OBVIOUS
  <2>4. m # 0
    BY <1>1, <2>3, TrailIs
  <2>5. m \in 1..Len(p) /\ m \in 1..Len(q) /\ m - 1 \in 0..Len(p) /\ ~ (m <= m - 1)
    BY <1>1, <2>3, <2>4
  <2>6. Trail(q)[m-1] = Trail(p)[m-1]
    <3>1. m - 1 \notin Bad
      <4>. HIDE DEF Bad
      <4>. QED  BY <2>2, <2>5
    <3>. QED  BY <2>5, <3>1
  <2>7. Trail(q)[m] = Apply(Trail(q)[m-1], q[m]) /\ Trail(p)[m] = Apply(Trail(p)[m-1], p[m])
    BY <1>1, <2>5, TrailIs
  <2>. QED  BY <1>1, <2>3, <2>5, <2>6, <2>7
<1>3. Trail(q)[Len(p) + 1] = Apply(Trail(q)[Len(p)], k)
  <2>1. Len(p) + 1 \in 1..Len(q) /\ (Len(p) + 1) - 1 = Len(p)
    BY <1>1
  <2>. QED  BY <1>1, <2>1, TrailIs
<1>4. Len(p) \in 0..Len(p)
  BY <1>1
<1>. QED  BY <1>2, <1>3, <1>4 DEF q

\* Every action of p applies where it comes.
Carries(p) ==
  \A i \in DOMAIN p : p[i] \in DOMAIN problem.actions /\ Applicable(Trail(p)[i-1], p[i])

LEMMA CarriesOn ==
  ASSUME NEW p \in Path, Carries(p), NEW k \in DOMAIN problem.actions, k \in Nat,
         Applicable(Trail(p)[Len(p)], k)
  PROVE  Append(p, k) \in Path /\ Carries(Append(p, k))
<1>. DEFINE q == Append(p, k)
<1>1. /\ q \in Path /\ Len(p) \in Nat /\ DOMAIN q = 1..(Len(p) + 1) /\ q[Len(p) + 1] = k
      /\ \A n \in 1..Len(p) : q[n] = p[n]
      /\ DOMAIN p = 1..Len(p)
  BY DEF Path
<1>2. \A n \in 0..Len(p) : Trail(q)[n] = Trail(p)[n]
  BY TrailGoesOn
<1>. HIDE DEF q
<1>3. ASSUME NEW i \in DOMAIN q
      PROVE  q[i] \in DOMAIN problem.actions /\ Applicable(Trail(q)[i-1], q[i])
  <2>1. i - 1 \in 0..Len(p) /\ Trail(q)[i-1] = Trail(p)[i-1]
    BY <1>1, <1>2
  <2>2. CASE i = Len(p) + 1
    BY <1>1, <2>1, <2>2
  <2>3. CASE i # Len(p) + 1
    <3>1. i \in DOMAIN p /\ q[i] = p[i]
      BY <1>1, <2>3
    <3>. QED  BY <2>1, <3>1 DEF Carries
  <2>. QED  BY <2>2, <2>3
<1>. QED  BY <1>1, <1>3 DEF Carries, q

-----------------------------------------------------------------------------
(* The invariant of the search *)

Near == UNION {AtDepth[n] : n \in 0..problem.max_depth}

Depth(i) == Len(queue[i].path)

\* A node: a path that can be carried out, to its state, within the depth.
Sound(x) ==
  /\ x.path \in Path /\ Len(x.path) <= problem.max_depth
  /\ Carries(x.path)
  /\ x.state = Trail(x.path)[Len(x.path)]
  /\ x.state \in AtDepth[Len(x.path)]

\* The queue is in the order of its paths, no two of which differ by more than
\* one action; no state is in it twice, or farther than it is.
QueueInv ==
  /\ problem \in Problem
  /\ queue \in Seq(Node)
  /\ \A i \in DOMAIN queue : Sound(queue[i]) /\ Key(queue[i].state) \in seen
  /\ \A i, j \in DOMAIN queue : Key(queue[i].state) = Key(queue[j].state) => i = j
  /\ \A i, j \in DOMAIN queue : i <= j => Depth(i) <= Depth(j) /\ Depth(j) <= Depth(1) + 1
  /\ KeysDiffer => \A i \in DOMAIN queue : \A d \in 0..Depth(i) - 1 : queue[i].state \notin AtDepth[d]

\* No goal was seen; and what a state that left the queue leads to was seen.
SearchInv ==
  /\ Key(problem.initial) \in seen
  /\ \A i \in DOMAIN queue : ~Reached(queue[i].state)
  /\ KeysDiffer =>
       /\ \A s \in Near : Key(s) \in seen => ~Reached(s)
       /\ \A m \in 0..problem.max_depth - 1 : \A t \in AtDepth[m] :
            Key(t) \in seen /\ (\A i \in DOMAIN queue : queue[i].state # t)
              => \A s \in Successors(t) : Key(s) \in seen

PlanInv ==
  /\ QueueInv
  /\ Busy => SearchInv
  /\ FoundIsShortest
  /\ NoPlanIsProof

\* Everything no farther than the whole queue was seen.
LEMMA NearerIsSeen ==
  ASSUME QueueInv, SearchInv, KeysDiffer,
         NEW b \in 0..problem.max_depth, \A i \in DOMAIN queue : Depth(i) >= b
  PROVE  \A m \in 0..b : \A s \in AtDepth[m] : Key(s) \in seen
<1>. DEFINE D == problem.max_depth
            Bad == {m \in 0..b : \E s \in AtDepth[m] : Key(s) \notin seen}
<1>0. D \in Nat /\ \A i \in DOMAIN queue : Depth(i) \in Nat
  BY DEF QueueInv, Problem, Sound, Path, Depth
<1>1. SUFFICES ASSUME Bad # {} PROVE FALSE
  OBVIOUS
<1>2. PICK m \in Bad : \A j \in Bad : m <= j
  <2>1. Bad \in SUBSET Nat
    OBVIOUS
  <2>. HIDE DEF Bad
  <2>. QED  BY <1>1, <2>1, LeastOf
<1>3. m \in 0..b /\ \E s \in AtDepth[m] : Key(s) \notin seen
  OBVIOUS
<1>4. PICK s \in AtDepth[m] : Key(s) \notin seen
  BY <1>3
<1>5. m # 0
  BY <1>0, <1>4, AtDepthIs DEF SearchInv
<1>6. m \in 1..D /\ m - 1 \in 0..D - 1 /\ m - 1 \in 0..b /\ ~ (m <= m - 1) /\ b \in Nat
  BY <1>0, <1>3, <1>5
<1>7. PICK t \in AtDepth[m-1] : s \in Successors(t)
  BY <1>0, <1>4, <1>6, AtDepthIs
<1>8. Key(t) \in seen
  <2>1. m - 1 \notin Bad
    <3>. HIDE DEF Bad
    <3>. QED  BY <1>2, <1>6
  <2>. QED  BY <1>6, <1>7, <2>1
<1>9. \A i \in DOMAIN queue : queue[i].state # t
  <2>. SUFFICES ASSUME NEW i \in DOMAIN queue, queue[i].state = t PROVE FALSE
    OBVIOUS
  <2>1. m - 1 \in 0..Depth(i) - 1
    BY <1>0, <1>3, <1>6
  <2>. QED  BY <1>7, <2>1 DEF QueueInv
<1>. QED  BY <1>4, <1>6, <1>7, <1>8, <1>9 DEF SearchInv

\* So no plan ends there.
LEMMA NoneNearer ==
  ASSUME QueueInv, SearchInv, KeysDiffer,
         NEW b \in 0..problem.max_depth, \A i \in DOMAIN queue : Depth(i) >= b
  PROVE  \A m \in 0..b : ~PlanExists(m)
<1>1. \A m \in 0..b : m \in 0..problem.max_depth
  BY DEF QueueInv, Problem
<1>2. \A m \in 0..b : \A s \in AtDepth[m] : Key(s) \in seen /\ s \in Near
  BY <1>1, NearerIsSeen DEF Near
<1>. QED  BY <1>2 DEF SearchInv, PlanExists

\* The problem stays, and all that is said of it.
LEMMA SameProblem ==
  ASSUME problem' = problem
  PROVE  /\ AtDepth' = AtDepth /\ Near' = Near /\ (KeysDiffer' <=> KeysDiffer)
         /\ \A p : Trail(p)' = Trail(p) /\ (Carries(p)' <=> Carries(p))
         /\ \A s : Successors(s)' = Successors(s) /\ (Reached(s)' <=> Reached(s))
         /\ \A x : Sound(x)' <=> Sound(x)
         /\ \A n : PlanExists(n)' <=> PlanExists(n)
         /\ \A p : IsPlan(p)' <=> IsPlan(p)
<1>1. \A s : Successors(s)' = Successors(s) /\ (Reached(s)' <=> Reached(s))
  BY DEF Successors, Applicable, Apply, Act, Reached
<1>2. AtDepth' = AtDepth
  BY DEF AtDepth, Successors, Applicable, Apply, Act
<1>3. \A p : Trail(p)' = Trail(p)
  BY DEF Trail, Apply, Act
<1>4. Near' = Near /\ (KeysDiffer' <=> KeysDiffer)
  BY <1>2 DEF Near, KeysDiffer
<1>5. \A p : Carries(p)' <=> Carries(p)
  BY <1>3 DEF Carries, Applicable, Act
<1>6. \A x : Sound(x)' <=> Sound(x)
  BY <1>2, <1>3, <1>5 DEF Sound
<1>7. \A n : PlanExists(n)' <=> PlanExists(n)
  BY <1>1, <1>2 DEF PlanExists
<1>8. \A p : IsPlan(p)' <=> IsPlan(p)
  BY <1>1, <1>3 DEF IsPlan, Applicable, Act
<1>. QED  BY <1>1, <1>2, <1>3, <1>4, <1>5, <1>6, <1>7, <1>8

\* What is put in the queue: one action further, to states with new keys, each
\* once; and every way on leads to a key that was or is put there.
LEMMA NewNodesAre ==
  ASSUME QueueInv, NEW x \in Node, Sound(x), Len(x.path) < problem.max_depth
  PROVE  /\ NewNodes(x) \in Seq(Node)
         /\ \A i \in DOMAIN NewNodes(x) :
              /\ Sound(NewNodes(x)[i])
              /\ Len(NewNodes(x)[i].path) = Len(x.path) + 1
              /\ Key(NewNodes(x)[i].state) \notin seen
              /\ Wins(x.state) = {} => ~Reached(NewNodes(x)[i].state)
         /\ \A i, j \in DOMAIN NewNodes(x) :
              Key(NewNodes(x)[i].state) = Key(NewNodes(x)[j].state) => i = j
         /\ \A s \in Successors(x.state) :
              Key(s) \in seen \/ \E i \in DOMAIN NewNodes(x) : Key(NewNodes(x)[i].state) = Key(s)
<1>. DEFINE acts == problem.actions
            fresh == {k \in DOMAIN acts : IsNew(x.state, k)}
            new == InOrder(fresh)
            nodes == NewNodes(x)
<1>0. /\ problem.max_depth \in Nat /\ acts \in Seq(Action) /\ DOMAIN acts = 1..Len(acts)
      /\ Len(acts) \in Nat
      /\ x.path \in Path /\ x.state \in State /\ Len(x.path) \in Nat
  BY DEF QueueInv, Problem, Node, Path
<1>1. fresh \in SUBSET (1..Len(acts))
  BY <1>0
<1>2. /\ new \in [1..Cardinality(fresh) -> fresh] /\ Cardinality(fresh) \in Nat
      /\ \A i, j \in DOMAIN new : new[i] = new[j] => i = j
      /\ \A k \in fresh : \E i \in DOMAIN new : new[i] = k
  <2>. HIDE DEF fresh
  <2>. QED  BY <1>0, <1>1, InOrderIs
<1>3. nodes = [i \in DOMAIN new |-> [state |-> Apply(x.state, new[i]), path |-> Append(x.path, new[i])]]
  BY DEF NewNodes
<1>4. \A k \in DOMAIN acts : Apply(x.state, k) \in State
  <2>. SUFFICES ASSUME NEW k \in DOMAIN acts PROVE Apply(x.state, k) \in State
    OBVIOUS
  <2>1. acts[k] \in Action
    BY <1>0
  <2>2. acts[k].adds \subseteq Fact
    BY <2>1 DEF Action, State
  <2>. QED  BY <1>0, <2>2 DEF Apply, Act, State
<1>. HIDE DEF new, nodes
<1>5. ASSUME NEW k \in DOMAIN acts, Applicable(x.state, k)
      PROVE  LET y == [state |-> Apply(x.state, k), path |-> Append(x.path, k)]
             IN Sound(y) /\ y \in Node /\ Len(y.path) = Len(x.path) + 1
  <2>. DEFINE q == Append(x.path, k)
              s == Apply(x.state, k)
  <2>1. k \in Nat
    BY <1>0
  <2>2. q \in Path /\ Carries(q)
    BY <1>0, <1>5, <2>1, CarriesOn DEF Sound
  <2>3. Len(q) = Len(x.path) + 1
    BY <1>0, <2>1 DEF Path
  <2>4. s = Trail(q)[Len(q)]
    BY <1>0, <2>1, <2>3, TrailGoesOn DEF Sound
  <2>5. s \in Successors(x.state)
    BY <1>5 DEF Successors
  <2>6. Len(q) \in 1..problem.max_depth /\ Len(q) - 1 = Len(x.path)
    BY <1>0, <2>3
  <2>7. s \in AtDepth[Len(q)]
    BY <1>0, <2>5, <2>6, AtDepthIs DEF Sound
  <2>8. Len(q) <= problem.max_depth
    BY <1>0, <2>6
  <2>. HIDE DEF q, s
  <2>9. [state |-> s, path |-> q] \in Node
    BY <1>4, <2>2 DEF s, Node
  <2>10. Sound([state |-> s, path |-> q])
    BY <2>2, <2>4, <2>7, <2>8 DEF Sound
  <2>. QED  BY <2>3, <2>9, <2>10 DEF q, s
<1>6. \A i \in DOMAIN new :
        /\ new[i] \in DOMAIN acts /\ IsNew(x.state, new[i]) /\ Applicable(x.state, new[i])
        /\ new[i] \in Nat
  <2>1. \A k \in fresh : k \in DOMAIN acts /\ IsNew(x.state, k) /\ Applicable(x.state, k) /\ k \in Nat
    BY <1>0 DEF IsNew
  <2>. HIDE DEF fresh
  <2>. QED  BY <1>2, <2>1
<1>7. nodes \in Seq(Node) /\ DOMAIN nodes = DOMAIN new /\ DOMAIN new = 1..Cardinality(fresh)
  <2>. HIDE DEF fresh
  <2>1. \A i \in DOMAIN new : nodes[i] \in Node
    BY <1>3, <1>5, <1>6
  <2>. QED  BY <1>2, <1>3, <2>1
<1>. HIDE DEF fresh
<1>8. ASSUME NEW i \in DOMAIN nodes
      PROVE  /\ Sound(nodes[i])
             /\ Len(nodes[i].path) = Len(x.path) + 1
             /\ Key(nodes[i].state) \notin seen
             /\ Wins(x.state) = {} => ~Reached(nodes[i].state)
  <2>1. nodes[i] = [state |-> Apply(x.state, new[i]), path |-> Append(x.path, new[i])]
    BY <1>3, <1>7
  <2>2. new[i] \in DOMAIN acts /\ IsNew(x.state, new[i]) /\ Applicable(x.state, new[i])
    BY <1>6, <1>7
  <2>3. Sound(nodes[i]) /\ Len(nodes[i].path) = Len(x.path) + 1
    BY <1>5, <2>1, <2>2
  <2>4. Key(nodes[i].state) \notin seen
    BY <2>1, <2>2 DEF IsNew
  <2>5. Wins(x.state) = {} => ~Reached(nodes[i].state)
    BY <2>1, <2>2 DEF Wins
  <2>. QED  BY <2>3, <2>4, <2>5
<1>9. ASSUME NEW i \in DOMAIN nodes, NEW j \in DOMAIN nodes,
             Key(nodes[i].state) = Key(nodes[j].state)
      PROVE  i = j
  <2>1. /\ new[i] \in Nat /\ new[j] \in Nat /\ IsNew(x.state, new[i]) /\ IsNew(x.state, new[j])
        /\ Key(Apply(x.state, new[i])) = Key(Apply(x.state, new[j]))
        /\ new[i] >= 1 /\ new[j] >= 1
    BY <1>0, <1>3, <1>6, <1>7, <1>9
  <2>2. ASSUME NEW a \in Nat, NEW b \in Nat, a >= 1, a < b, IsNew(x.state, a), IsNew(x.state, b)
        PROVE  Key(Apply(x.state, a)) # Key(Apply(x.state, b))
    <3>1. a \in 1..b-1
      BY <2>2
    <3>. QED  BY <2>2, <3>1 DEF IsNew
  <2>3. new[i] = new[j]
    <3>1. new[i] < new[j] \/ new[j] < new[i] \/ new[i] = new[j]
      BY <2>1
    <3>. QED  BY <2>1, <2>2, <3>1
  <2>. QED  BY <1>2, <1>7, <2>3
<1>10. ASSUME NEW s \in Successors(x.state), Key(s) \notin seen
       PROVE  \E i \in DOMAIN nodes : Key(nodes[i].state) = Key(s)
  <2>. DEFINE same == {k \in DOMAIN acts : Applicable(x.state, k) /\ Key(Apply(x.state, k)) = Key(s)}
  <2>1. same # {}
    BY DEF Successors
  <2>2. PICK k \in same : \A j \in same : k <= j
    <3>1. same \in SUBSET Nat
      BY <1>0
    <3>. HIDE DEF same
    <3>. QED  BY <2>1, <3>1, LeastOf
  <2>3. k \in DOMAIN acts /\ Applicable(x.state, k) /\ Key(Apply(x.state, k)) = Key(s)
    OBVIOUS
  <2>4. ASSUME NEW j \in 1..k-1, Applicable(x.state, j)
        PROVE  Key(Apply(x.state, j)) # Key(Apply(x.state, k))
    <3>1. j \in DOMAIN acts /\ ~ (k <= j)
      BY <1>0, <2>3
    <3>2. j \notin same
      <4>. HIDE DEF same
      <4>. QED  BY <2>2, <3>1
    <3>. QED  BY <2>3, <2>4, <3>1, <3>2
  <2>5. k \in fresh
    BY <1>10, <2>3, <2>4 DEF fresh, IsNew
  <2>6. PICK i \in DOMAIN new : new[i] = k
    BY <1>2, <2>5
  <2>7. Key(nodes[i].state) = Key(s)
    BY <1>3, <2>3, <2>6
  <2>. QED  BY <1>7, <2>7
<1>. QED  BY <1>7, <1>8, <1>9, <1>10 DEF nodes

\* The queue and its head.
LEMMA HeadOf ==
  ASSUME QueueInv, queue # <<>>
  PROVE  /\ Head(queue) = queue[1] /\ 1 \in DOMAIN queue /\ DOMAIN queue = 1..Len(queue)
         /\ Len(queue) \in Nat \ {0}
         /\ Head(queue) \in Node /\ Sound(Head(queue)) /\ Len(Head(queue).path) \in Nat
         /\ problem.max_depth \in Nat
         /\ Tail(queue) \in Seq(Node) /\ Len(Tail(queue)) = Len(queue) - 1
         /\ \A i \in 1..Len(queue) - 1 : i + 1 \in DOMAIN queue /\ Tail(queue)[i] = queue[i + 1]
         /\ \A i \in DOMAIN queue : Depth(i) \in Nat /\ Depth(i) >= Depth(1) /\ Depth(i) <= Depth(1) + 1
<1>1. queue \in Seq(Node) /\ problem.max_depth \in Nat
  BY DEF QueueInv, Problem
<1>2. /\ Head(queue) = queue[1] /\ 1 \in DOMAIN queue /\ DOMAIN queue = 1..Len(queue)
      /\ Len(queue) \in Nat \ {0} /\ queue[1] \in Node
  BY <1>1
<1>3. \A i \in DOMAIN queue : Depth(i) \in Nat
  BY DEF QueueInv, Sound, Path, Depth
<1>4. Sound(queue[1])
  BY <1>2 DEF QueueInv
<1>5. \A i \in DOMAIN queue : Depth(i) >= Depth(1) /\ Depth(i) <= Depth(1) + 1
  <2>. SUFFICES ASSUME NEW i \in DOMAIN queue
                PROVE  Depth(i) >= Depth(1) /\ Depth(i) <= Depth(1) + 1
    OBVIOUS
  <2>1. 1 <= i
    BY <1>2
  <2>. QED  BY <1>2, <1>3, <2>1 DEF QueueInv
<1>. QED  BY <1>1, <1>2, <1>3, <1>4, <1>5 DEF Depth

\* Taking states from the queue keeps its invariant.
LEMMA QueueShrinks ==
  ASSUME QueueInv, queue # <<>>, problem' = problem, seen' = seen, queue' \in {<<>>, Tail(queue)}
  PROVE  QueueInv'
<1>1. /\ queue' \in Seq(Node)
      /\ \A i \in DOMAIN queue' : i \in Nat /\ i + 1 \in DOMAIN queue /\ queue'[i] = queue[i + 1]
      /\ \A i \in DOMAIN queue' : 1 \in DOMAIN queue' /\ i >= 1
  <2>1. CASE queue' = <<>>
    BY <2>1
  <2>2. CASE queue' = Tail(queue)
    <3>1. queue' \in Seq(Node) /\ DOMAIN queue' = 1..Len(queue) - 1 /\ Len(queue) - 1 \in Nat
      BY <2>2, HeadOf
    <3>2. \A i \in 1..Len(queue) - 1 : i + 1 \in DOMAIN queue /\ queue'[i] = queue[i + 1]
      BY <2>2, HeadOf
    <3>. QED  BY <3>1, <3>2
  <2>. QED  BY <2>1, <2>2
<1>2. \A i \in DOMAIN queue' : Depth(i)' = Depth(i + 1) /\ Depth(i + 1) \in Nat
  BY <1>1, HeadOf DEF Depth
<1>3. \A i \in DOMAIN queue' : Sound(queue'[i]) /\ Key(queue'[i].state) \in seen
  BY <1>1 DEF QueueInv
<1>4. \A i \in DOMAIN queue' : Sound(queue[i])' /\ Key(queue'[i].state) \in seen'
  BY <1>3, SameProblem
<1>5. ASSUME NEW i \in DOMAIN queue', NEW j \in DOMAIN queue', Key(queue'[i].state) = Key(queue'[j].state)
      PROVE  i = j
  <2>1. i + 1 = j + 1
    BY <1>1, <1>5 DEF QueueInv
  <2>2. i \in Nat /\ j \in Nat
    BY <1>1
  <2>. QED  BY <2>1, <2>2
<1>6. ASSUME NEW i \in DOMAIN queue', NEW j \in DOMAIN queue', i <= j
      PROVE  Depth(i)' <= Depth(j)' /\ Depth(j)' <= Depth(1)' + 1
  <2>1. i + 1 <= j + 1
    BY <1>1, <1>6
  <2>2. Depth(i + 1) <= Depth(j + 1)
    BY <1>1, <2>1 DEF QueueInv
  <2>3. Depth(j + 1) <= Depth(1) + 1 /\ Depth(1) <= Depth(1 + 1) /\ Depth(1) \in Nat
    BY <1>1, HeadOf
  <2>4. /\ Depth(i)' = Depth(i + 1) /\ Depth(j)' = Depth(j + 1) /\ Depth(1)' = Depth(1 + 1)
        /\ Depth(j + 1) \in Nat /\ Depth(1 + 1) \in Nat
    BY <1>1, <1>2
  <2>. QED  BY <2>2, <2>3, <2>4
<1>7. ASSUME KeysDiffer, NEW i \in DOMAIN queue', NEW d \in 0..Depth(i)' - 1
      PROVE  queue'[i].state \notin AtDepth[d]
  <2>1. d \in 0..Depth(i + 1) - 1
    BY <1>2, <1>7
  <2>. QED  BY <1>1, <1>7, <2>1 DEF QueueInv
<1>8. problem \in Problem
  BY DEF QueueInv
<1>. QED  BY <1>1, <1>4, <1>5, <1>6, <1>7, <1>8, SameProblem DEF QueueInv

\* A state at the depth limit leaves the queue.
LEMMA TooDeepKeeps ==
  ASSUME QueueInv, SearchInv, TooDeep
  PROVE  QueueInv' /\ SearchInv'
<1>0. queue # <<>> /\ queue' = Tail(queue) /\ UNCHANGED <<problem, seen>>
  BY DEF TooDeep, Explore
<1>1. QueueInv'
  BY <1>0, QueueShrinks
<1>2. \A i \in DOMAIN queue' : i \in Nat /\ i + 1 \in DOMAIN queue /\ queue'[i] = queue[i + 1]
  BY <1>0, HeadOf
<1>3. \A i \in DOMAIN queue : i = 1 \/ (i - 1 \in DOMAIN queue' /\ queue'[i - 1] = queue[i])
  BY <1>0, HeadOf
<1>4. Depth(1) >= problem.max_depth
  BY <1>0, HeadOf DEF TooDeep, Depth
<1>5. ASSUME KeysDiffer, NEW m \in 0..problem.max_depth - 1, NEW t \in AtDepth[m],
             Key(t) \in seen, \A i \in DOMAIN queue' : queue'[i].state # t
      PROVE  \A s \in Successors(t) : Key(s) \in seen
  <2>1. m \in 0..Depth(1) - 1
    BY <1>0, <1>4, HeadOf
  <2>2. queue[1].state # t
    BY <1>0, <1>5, <2>1, HeadOf DEF QueueInv
  <2>3. \A i \in DOMAIN queue : queue[i].state # t
    BY <1>3, <1>5, <2>2
  <2>. QED  BY <1>5, <2>3 DEF SearchInv
<1>6. \A i \in DOMAIN queue' : ~Reached(queue'[i].state)
  BY <1>2 DEF SearchInv
<1>7. KeysDiffer => \A s \in Near : Key(s) \in seen => ~Reached(s)
  BY DEF SearchInv
<1>8. Key(problem.initial) \in seen
  BY DEF SearchInv
<1>. QED  BY <1>0, <1>1, <1>5, <1>6, <1>7, <1>8, SameProblem DEF SearchInv

\* The successors of a state join the queue.
LEMMA ExpandKeeps ==
  ASSUME QueueInv, SearchInv, Expand
  PROVE  QueueInv' /\ SearchInv'
<1>. DEFINE x == Head(queue)
            nodes == NewNodes(x)
            h == Len(x.path)
            L == Len(queue) - 1
<1>0. /\ queue # <<>> /\ problem' = problem /\ h < problem.max_depth /\ Wins(x.state) = {}
      /\ queue' = Tail(queue) \o nodes
      /\ seen' = seen \cup {Key(y.state) : y \in ToSet(nodes)}
  BY DEF Expand, Explore
<1>1. /\ x = queue[1] /\ 1 \in DOMAIN queue /\ DOMAIN queue = 1..L + 1 /\ L \in Nat
      /\ x \in Node /\ Sound(x) /\ h \in Nat /\ problem.max_depth \in Nat /\ Depth(1) = h
      /\ Tail(queue) \in Seq(Node) /\ Len(Tail(queue)) = L
      /\ \A i \in 1..L : i + 1 \in DOMAIN queue /\ Tail(queue)[i] = queue[i + 1]
      /\ \A i \in DOMAIN queue : Depth(i) \in Nat /\ Depth(i) >= h /\ Depth(i) <= h + 1
  BY <1>0, HeadOf DEF Depth
<1>2. /\ nodes \in Seq(Node)
      /\ \A i \in DOMAIN nodes : /\ Sound(nodes[i]) /\ Len(nodes[i].path) = h + 1
                                 /\ Key(nodes[i].state) \notin seen /\ ~Reached(nodes[i].state)
      /\ \A i, j \in DOMAIN nodes : Key(nodes[i].state) = Key(nodes[j].state) => i = j
      /\ \A s \in Successors(x.state) :
           Key(s) \in seen \/ \E i \in DOMAIN nodes : Key(nodes[i].state) = Key(s)
  BY <1>0, <1>1, NewNodesAre
<1>. HIDE DEF nodes, x, L, h
<1>3. /\ queue' \in Seq(Node) /\ DOMAIN queue' = 1..L + Len(nodes) /\ Len(nodes) \in Nat
      /\ DOMAIN nodes = 1..Len(nodes)
      /\ \A i \in 1..L : queue'[i] = queue[i + 1]
      /\ \A i \in 1..Len(nodes) : queue'[L + i] = nodes[i]
  <2>. DEFINE T == Tail(queue)
  <2>1. T \in Seq(Node) /\ nodes \in Seq(Node) /\ Len(T) = L /\ L \in Nat
        /\ \A i \in 1..L : T[i] = queue[i + 1]
    BY <1>1, <1>2
  <2>2. queue' = T \o nodes
    BY <1>0
  <2>. HIDE DEF T
  <2>3. T \o nodes \in Seq(Node) /\ DOMAIN (T \o nodes) = 1..Len(T) + Len(nodes)
    BY <2>1, ConcatIs
  <2>4. Len(nodes) \in Nat /\ DOMAIN nodes = 1..Len(nodes)
    BY <2>1, ConcatIs
  <2>5. \A i \in 1..Len(T) : (T \o nodes)[i] = T[i]
    BY <2>1, ConcatIs
  <2>6. \A i \in 1..Len(nodes) : (T \o nodes)[Len(T) + i] = nodes[i]
    BY <2>1, ConcatIs
  <2>. QED  BY <2>1, <2>2, <2>3, <2>4, <2>5, <2>6
<1>4. \A i \in DOMAIN queue' :
        \/ i \in 1..L /\ i + 1 \in DOMAIN queue /\ queue'[i] = queue[i + 1]
        \/ i > L /\ i - L \in DOMAIN nodes /\ queue'[i] = nodes[i - L]
  <2>. SUFFICES ASSUME NEW i \in DOMAIN queue'
                PROVE  \/ i \in 1..L /\ i + 1 \in DOMAIN queue /\ queue'[i] = queue[i + 1]
                       \/ i > L /\ i - L \in DOMAIN nodes /\ queue'[i] = nodes[i - L]
    OBVIOUS
  <2>1. CASE i <= L
    BY <1>1, <1>3, <2>1
  <2>2. CASE i > L
    <3>1. i - L \in 1..Len(nodes) /\ L + (i - L) = i
      BY <1>1, <1>3, <2>2
    <3>. QED  BY <1>3, <2>2, <3>1
  <2>. QED  BY <1>1, <1>3, <2>1, <2>2
<1>5. /\ seen \subseteq seen'
      /\ \A i \in DOMAIN nodes : Key(nodes[i].state) \in seen'
      /\ \A c \in seen' : c \in seen \/ \E i \in DOMAIN nodes : c = Key(nodes[i].state)
  BY <1>0 DEF ToSet
<1>6. \A i \in DOMAIN queue' : /\ Sound(queue'[i]) /\ Key(queue'[i].state) \in seen'
                               /\ ~Reached(queue'[i].state)
                               /\ Len(queue'[i].path) \in h..h + 1
  <2>. SUFFICES ASSUME NEW i \in DOMAIN queue'
                PROVE  /\ Sound(queue'[i]) /\ Key(queue'[i].state) \in seen'
                       /\ ~Reached(queue'[i].state)
                       /\ Len(queue'[i].path) \in h..h + 1
    OBVIOUS
  <2>1. CASE i \in 1..L /\ i + 1 \in DOMAIN queue /\ queue'[i] = queue[i + 1]
    <3>1. Sound(queue[i + 1]) /\ Key(queue[i + 1].state) \in seen /\ ~Reached(queue[i + 1].state)
      BY <2>1 DEF QueueInv, SearchInv
    <3>2. Len(queue[i + 1].path) \in h..h + 1
      BY <1>1, <2>1 DEF Depth
    <3>. QED  BY <1>5, <2>1, <3>1, <3>2
  <2>2. CASE i > L /\ i - L \in DOMAIN nodes /\ queue'[i] = nodes[i - L]
    BY <1>1, <1>2, <1>5, <2>2
  <2>. QED  BY <1>4, <2>1, <2>2
<1>7. ASSUME NEW i \in DOMAIN queue', NEW j \in DOMAIN queue', Key(queue'[i].state) = Key(queue'[j].state)
      PROVE  i = j
  <2>. DEFINE Old(n) == n \in 1..L /\ n + 1 \in DOMAIN queue /\ queue'[n] = queue[n + 1]
              New(n) == n > L /\ n - L \in DOMAIN nodes /\ queue'[n] = nodes[n - L]
  <2>0. i \in Nat /\ j \in Nat /\ (Old(i) \/ New(i)) /\ (Old(j) \/ New(j))
    BY <1>1, <1>3, <1>4
  <2>1. CASE Old(i) /\ Old(j)
    <3>1. i + 1 = j + 1
      BY <1>7, <2>1 DEF QueueInv
    <3>. QED  BY <2>0, <3>1
  <2>2. CASE New(i) /\ New(j)
    <3>1. i - L = j - L
      BY <1>2, <1>7, <2>2
    <3>. QED  BY <1>1, <2>0, <3>1
  <2>3. ASSUME NEW a, NEW b, Old(a), New(b) PROVE Key(queue'[a].state) # Key(queue'[b].state)
    BY <1>2, <2>3 DEF QueueInv
  <2>. QED
    <3>. HIDE DEF Old, New
    <3>. QED  BY <1>7, <2>0, <2>1, <2>2, <2>3
<1>8. ASSUME NEW i \in DOMAIN queue', NEW j \in DOMAIN queue', i <= j
      PROVE  Depth(i)' <= Depth(j)' /\ Depth(j)' <= Depth(1)' + 1
  <2>0. /\ Depth(i)' \in h..h + 1 /\ Depth(j)' \in h..h + 1 /\ Depth(1)' \in h..h + 1
        /\ i \in Nat /\ j \in Nat
    <3>1. i \in Nat /\ j \in Nat /\ i >= 1 /\ 1 \in DOMAIN queue'
      BY <1>1, <1>3
    <3>. QED  BY <1>6, <3>1 DEF Depth
  <2>1. CASE j > L /\ j - L \in DOMAIN nodes /\ queue'[j] = nodes[j - L]
    <3>1. Depth(j)' = h + 1
      BY <1>2, <2>1 DEF Depth
    <3>. QED  BY <1>1, <2>0, <3>1
  <2>2. CASE j \in 1..L /\ j + 1 \in DOMAIN queue /\ queue'[j] = queue[j + 1]
    <3>0. i \in 1..L /\ i + 1 <= j + 1
      <4>1. i >= 1
        BY <1>3
      <4>. QED  BY <1>1, <1>8, <2>0, <2>2, <4>1
    <3>1. i \in 1..L /\ i + 1 \in DOMAIN queue /\ queue'[i] = queue[i + 1] /\ i + 1 <= j + 1
      BY <1>1, <1>3, <3>0
    <3>2. Depth(i + 1) <= Depth(j + 1)
      BY <2>2, <3>1 DEF QueueInv
    <3>3. Depth(i)' = Depth(i + 1) /\ Depth(j)' = Depth(j + 1)
      BY <2>2, <3>1 DEF Depth
    <3>. QED  BY <1>1, <2>0, <3>2, <3>3
  <2>. QED  BY <1>4, <2>1, <2>2
<1>9. ASSUME KeysDiffer, NEW i \in DOMAIN queue', NEW d \in 0..Depth(i)' - 1
      PROVE  queue'[i].state \notin AtDepth[d]
  <2>1. CASE i \in 1..L /\ i + 1 \in DOMAIN queue /\ queue'[i] = queue[i + 1]
    <3>1. d \in 0..Depth(i + 1) - 1
      BY <1>9, <2>1 DEF Depth
    <3>. QED  BY <1>9, <2>1, <3>1 DEF QueueInv
  <2>2. CASE i > L /\ i - L \in DOMAIN nodes /\ queue'[i] = nodes[i - L]
    <3>1. d \in 0..h
      <4>1. Depth(i)' = h + 1
        BY <1>2, <2>2 DEF Depth
      <4>. QED  BY <1>1, <4>1
    <3>2. h \in 0..problem.max_depth /\ \A n \in DOMAIN queue : Depth(n) >= h
      BY <1>0, <1>1
    <3>3. \A s \in AtDepth[d] : Key(s) \in seen
      BY <1>9, <3>1, <3>2, NearerIsSeen
    <3>. QED  BY <1>2, <2>2, <3>3
  <2>. QED  BY <1>4, <2>1, <2>2
<1>10. QueueInv'
  <2>1. \A i \in DOMAIN queue' : Sound(queue[i])' /\ Key(queue'[i].state) \in seen'
    BY <1>0, <1>6, SameProblem
  <2>2. problem' \in Problem
    BY <1>0 DEF QueueInv
  <2>. QED  BY <1>0, <1>3, <1>7, <1>8, <1>9, <2>1, <2>2, SameProblem DEF QueueInv
<1>11. ASSUME NEW y, Sound(y)
       PROVE  y.state \in Near
  <2>1. Len(y.path) \in 0..problem.max_depth
    BY <1>1, <1>11 DEF Sound, Path
  <2>. QED  BY <1>11, <2>1 DEF Sound, Near
<1>12. ASSUME KeysDiffer, NEW s \in Near, Key(s) \in seen'
       PROVE  ~Reached(s)
  <2>1. CASE Key(s) \in seen
    BY <1>12, <2>1 DEF SearchInv
  <2>2. CASE Key(s) \notin seen
    <3>1. PICK i \in DOMAIN nodes : Key(s) = Key(nodes[i].state)
      BY <1>5, <1>12, <2>2
    <3>2. s = nodes[i].state
      BY <1>2, <1>11, <1>12, <3>1 DEF KeysDiffer, Near
    <3>. QED  BY <1>2, <3>2
  <2>. QED  BY <2>1, <2>2
<1>13. ASSUME KeysDiffer, NEW m \in 0..problem.max_depth - 1, NEW t \in AtDepth[m],
              Key(t) \in seen', \A i \in DOMAIN queue' : queue'[i].state # t
       PROVE  \A s \in Successors(t) : Key(s) \in seen'
  <2>0. t \in Near
    <3>1. m \in 0..problem.max_depth
      BY <1>1
    <3>. QED  BY <3>1 DEF Near
  <2>1. \A i \in DOMAIN nodes : nodes[i].state # t
    <3>1. \A i \in DOMAIN nodes : L + i \in DOMAIN queue' /\ queue'[L + i] = nodes[i]
      BY <1>1, <1>3
    <3>. QED  BY <1>13, <3>1
  <2>2. Key(t) \in seen
    <3>1. \A i \in DOMAIN nodes : Key(t) # Key(nodes[i].state)
      BY <1>2, <1>11, <1>13, <2>0, <2>1 DEF KeysDiffer, Near
    <3>. QED  BY <1>5, <1>13, <3>1
  <2>3. CASE t = x.state
    BY <1>2, <1>5, <2>3
  <2>4. CASE t # x.state
    <3>1. \A i \in DOMAIN queue : queue[i].state # t
      <4>. SUFFICES ASSUME NEW i \in DOMAIN queue, queue[i].state = t PROVE FALSE
        OBVIOUS
      <4>1. i # 1
        BY <1>1, <2>4
      <4>2. i - 1 \in 1..L /\ i - 1 \in DOMAIN queue' /\ (i - 1) + 1 = i
        BY <1>1, <1>3, <4>1
      <4>. QED  BY <1>3, <1>13, <4>2
    <3>. QED  BY <1>5, <1>13, <2>2, <3>1 DEF SearchInv
  <2>. QED  BY <2>3, <2>4
<1>14. SearchInv'
  <2>1. Key(problem'.initial) \in seen'
    BY <1>0, <1>5 DEF SearchInv
  <2>2. \A i \in DOMAIN queue' : ~Reached(queue[i].state)'
    BY <1>0, <1>6, SameProblem
  <2>3. KeysDiffer' => \A s \in Near' : Key(s) \in seen' => ~Reached(s)'
    BY <1>0, <1>12, SameProblem
  <2>4. KeysDiffer' => \A m \in 0..problem'.max_depth - 1 : \A t \in AtDepth'[m] :
          Key(t) \in seen' /\ (\A i \in DOMAIN queue' : queue'[i].state # t)
            => \A s \in Successors(t)' : Key(s) \in seen'
    BY <1>0, <1>13, SameProblem
  <2>. QED  BY <2>1, <2>2, <2>3, <2>4 DEF SearchInv
<1>. QED  BY <1>10, <1>14

-----------------------------------------------------------------------------
(* The answers *)

\* An empty queue: everything within the depth was seen, and no goal was in it.
LEMMA ExhaustedIsProof ==
  ASSUME PlanInv, Exhausted
  PROVE  PlanInv'
<1>0. /\ queue = <<>> /\ UNCHANGED <<problem, queue, seen>> /\ answer' = NoPlan
      /\ QueueInv /\ SearchInv
  BY DEF Exhausted, PlanInv
<1>1. problem.max_depth \in Nat
  BY <1>0 DEF QueueInv, Problem
<1>2. KeysDiffer => \A n \in 0..problem.max_depth : ~PlanExists(n)
  BY <1>0, <1>1, NoneNearer
<1>3. NoPlanIsProof'
  BY <1>0, <1>2, SameProblem DEF NoPlanIsProof
<1>4. QueueInv'
  BY <1>0, SameProblem DEF QueueInv, Depth
<1>. QED  BY <1>0, <1>3, <1>4 DEF PlanInv, Busy, FoundIsShortest, NoPlan, Searching

\* A goal is one action from the head: the plan can be carried out, and nothing
\* nearer was one.
LEMMA WinIsShortest ==
  ASSUME PlanInv, Win
  PROVE  PlanInv'
<1>. DEFINE x == Head(queue)
            h == Len(x.path)
            k == FirstWin(x.state)
            p == Append(x.path, k)
<1>0. /\ queue # <<>> /\ problem' = problem /\ seen' = seen /\ queue' = <<>>
      /\ h < problem.max_depth /\ Wins(x.state) # {} /\ answer' = Found(p)
      /\ QueueInv /\ SearchInv
  BY DEF Win, Explore, PlanInv
<1>1. /\ x \in Node /\ Sound(x) /\ h \in Nat /\ problem.max_depth \in Nat /\ Depth(1) = h
      /\ \A i \in DOMAIN queue : Depth(i) >= h
  BY <1>0, HeadOf DEF Depth
<1>2. k \in Wins(x.state) /\ k \in Nat
  <2>1. Wins(x.state) \in SUBSET Nat
    BY <1>0 DEF Wins, QueueInv, Problem
  <2>2. \E j \in Wins(x.state) : \A i \in Wins(x.state) : j <= i
    BY <1>0, <2>1, LeastOf
  <2>. QED  BY <2>1, <2>2 DEF FirstWin
<1>3. k \in DOMAIN problem.actions /\ Applicable(x.state, k) /\ Reached(Apply(x.state, k))
  BY <1>2 DEF Wins
<1>. HIDE DEF k
<1>4. x.path \in Path /\ Carries(x.path) /\ x.state = Trail(x.path)[h]
  BY <1>1 DEF Sound
<1>5. p \in Path /\ Carries(p)
  BY <1>2, <1>3, <1>4, CarriesOn
<1>6. Len(p) = h + 1 /\ Trail(p)[Len(p)] = Apply(x.state, k)
  <2>1. Len(p) = h + 1
    BY <1>2, <1>4 DEF Path
  <2>. QED  BY <1>2, <1>4, <2>1, TrailGoesOn
<1>7. IsPlan(p)
  BY <1>3, <1>5, <1>6 DEF IsPlan, Carries
<1>8. Len(p) <= problem.max_depth
  BY <1>0, <1>1, <1>6
<1>9. KeysDiffer => \A n \in 0..Len(p) - 1 : ~PlanExists(n)
  <2>1. h \in 0..problem.max_depth /\ Len(p) - 1 = h
    BY <1>0, <1>1, <1>6
  <2>. QED  BY <1>0, <1>1, <2>1, NoneNearer
<1>. HIDE DEF p
<1>10. FoundIsShortest'
  <2>1. answer'.path = p
    BY <1>0 DEF Found
  <2>. QED  BY <1>0, <1>7, <1>8, <1>9, <2>1, SameProblem DEF FoundIsShortest
<1>11. QueueInv'
  BY <1>0, QueueShrinks
<1>. QED  BY <1>0, <1>10, <1>11 DEF PlanInv, Busy, NoPlanIsProof, Found, Searching

LEMMA PlanInvNext == PlanInv /\ [PlanNext]_planVars => PlanInv'
<1>. SUFFICES ASSUME PlanInv, [PlanNext]_planVars
              PROVE  PlanInv'
  OBVIOUS
<1>1. CASE Exhausted
  BY <1>1, ExhaustedIsProof
<1>2. CASE BudgetStops
  <2>1. /\ queue # <<>> /\ queue' = Tail(queue) /\ UNCHANGED <<problem, seen>>
        /\ answer' = OutOfStates
    BY <1>2 DEF BudgetStops
  <2>2. QueueInv'
    BY <2>1, QueueShrinks DEF PlanInv
  <2>. QED
    BY <2>1, <2>2 DEF PlanInv, Busy, FoundIsShortest, NoPlanIsProof, OutOfStates, Searching
<1>3. CASE TooDeep
  <2>1. QueueInv' /\ SearchInv' /\ answer' = Searching
    BY <1>3, TooDeepKeeps DEF PlanInv, TooDeep, Explore, Busy
  <2>. QED  BY <2>1 DEF PlanInv, FoundIsShortest, NoPlanIsProof, Searching
<1>4. CASE Win
  BY <1>4, WinIsShortest
<1>5. CASE Expand
  <2>1. QueueInv' /\ SearchInv' /\ answer' = Searching
    BY <1>5, ExpandKeeps DEF PlanInv, Expand, Explore, Busy
  <2>. QED  BY <2>1 DEF PlanInv, FoundIsShortest, NoPlanIsProof, Searching
<1>6. CASE UNCHANGED planVars
  <2>1. UNCHANGED <<problem, queue, seen, answer>>
    BY <1>6 DEF planVars
  <2>2. QueueInv'
    BY <2>1, SameProblem DEF PlanInv, QueueInv, Depth
  <2>3. Busy' => SearchInv'
    BY <2>1, SameProblem DEF PlanInv, Busy, SearchInv
  <2>4. FoundIsShortest' /\ NoPlanIsProof'
    BY <2>1, SameProblem DEF PlanInv, FoundIsShortest, NoPlanIsProof
  <2>. QED  BY <2>2, <2>3, <2>4 DEF PlanInv
<1>. QED  BY <1>1, <1>2, <1>3, <1>4, <1>5, <1>6 DEF PlanNext

\* The search begins with the initial state, and is over if that is a goal.
LEMMA PlanInvInit == PlanInit => PlanInv
<1>. SUFFICES ASSUME PlanInit PROVE PlanInv
  OBVIOUS
<1>. DEFINE x == [state |-> problem.initial, path |-> <<>>]
<1>1. problem \in Problem /\ problem.max_depth \in Nat /\ problem.initial \in State
  BY PlannerAssumption DEF PlanInit, Problem
<1>2. queue = <<x>> /\ seen = {Key(problem.initial)}
  BY DEF PlanInit
<1>3. <<>> \in Path /\ Len(<<>>) = 0 /\ DOMAIN <<>> = {}
  BY DEF Path
<1>4. Trail(<<>>)[0] = problem.initial /\ AtDepth[0] = {problem.initial}
  BY <1>1, <1>3, TrailIs, AtDepthIs
<1>5. x \in Node /\ Sound(x)
  <2>1. Carries(<<>>)
    BY <1>3 DEF Carries
  <2>. QED  BY <1>1, <1>3, <1>4, <2>1 DEF Sound, Node
<1>6. DOMAIN queue = {1} /\ queue[1] = x /\ queue \in Seq(Node) /\ Depth(1) = 0
  BY <1>2, <1>3, <1>5 DEF Depth
<1>7. QueueInv
  <2>1. 0..Depth(1) - 1 = {}
    BY <1>6
  <2>. QED  BY <1>1, <1>2, <1>5, <1>6, <2>1 DEF QueueInv
<1>8. ASSUME Busy PROVE SearchInv
  <2>1. ~Reached(problem.initial)
    BY <1>8 DEF PlanInit, Busy, Searching, Refused, Found
  <2>2. ASSUME KeysDiffer
        PROVE  \A s \in Near : Key(s) \in seen => ~Reached(s)
    <3>1. problem.initial \in Near
      <4>1. 0 \in 0..problem.max_depth
        BY <1>1
      <4>. QED  BY <1>4, <4>1 DEF Near
    <3>. QED  BY <1>2, <2>1, <2>2, <3>1 DEF KeysDiffer, Near
  <2>3. ASSUME KeysDiffer, NEW m \in 0..problem.max_depth - 1, NEW t \in AtDepth[m],
               Key(t) \in seen, \A i \in DOMAIN queue : queue[i].state # t
        PROVE  FALSE
    <3>1. t \in Near /\ problem.initial \in Near
      <4>1. 0 \in 0..problem.max_depth /\ m \in 0..problem.max_depth
        BY <1>1
      <4>. QED  BY <1>4, <4>1 DEF Near
    <3>. QED  BY <1>2, <1>6, <2>3, <3>1 DEF KeysDiffer, Near
  <2>. QED  BY <1>2, <1>6, <2>1, <2>2, <2>3 DEF SearchInv
<1>9. FoundIsShortest
  <2>1. SUFFICES ASSUME answer.kind = "found" PROVE FoundIsShortest
    BY DEF FoundIsShortest
  <2>2. answer = Found(<<>>) /\ Reached(problem.initial)
    BY <2>1 DEF PlanInit, Refused, Searching
  <2>3. answer.path = <<>> /\ Reached(Trail(<<>>)[Len(<<>>)])
    BY <1>3, <1>4, <2>2 DEF Found
  <2>4. IsPlan(<<>>)
    BY <1>3, <2>3 DEF IsPlan
  <2>. QED  BY <1>1, <1>3, <2>3, <2>4 DEF FoundIsShortest
<1>10. NoPlanIsProof
  BY DEF PlanInit, NoPlanIsProof, Refused, Searching, Found
<1>. QED  BY <1>7, <1>8, <1>9, <1>10 DEF PlanInv

\* The search is right at every step and in its answer, for every problem and
\* every budget: what is queued is queued by a shortest way, a plan it returns is
\* a shortest one, and "not found" is a proof (planner.rs, plan).
THEOREM PlansAreShortest == PlanSpec => []SearchIsRight
<1>1. PlanInv => SearchIsRight
  <2>. SUFFICES ASSUME PlanInv PROVE QueueIsNearest
    BY DEF SearchIsRight, PlanInv
  <2>1. \A i \in DOMAIN queue : queue[i].state = Trail(queue[i].path)[Len(queue[i].path)]
    BY DEF PlanInv, QueueInv, Sound
  <2>2. KeysDiffer => \A i \in DOMAIN queue : \A d \in 0..Len(queue[i].path) - 1 : queue[i].state \notin AtDepth[d]
    BY DEF PlanInv, QueueInv, Depth
  <2>3. \A i, j \in DOMAIN queue : queue[i].state = queue[j].state => i = j
    BY DEF PlanInv, QueueInv
  <2>4. \A n \in ToSet(queue) : \E i \in DOMAIN queue : n = queue[i]
    BY DEF ToSet
  <2>. QED  BY <2>1, <2>2, <2>3, <2>4 DEF QueueIsNearest
<1>. QED  BY <1>1, PlanInvInit, PlanInvNext, PTL DEF PlanSpec

=============================================================================

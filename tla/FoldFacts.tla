------------------------------ MODULE FoldFacts ------------------------------
(***************************************************************************)
(* What the folds and sums of the community modules are, for every finite  *)
(* set they run over: the recursion they are defined by has a solution,    *)
(* and taking one element out takes its step back.                         *)
(*                                                                         *)
(* The argument: a set of numbers that is not empty has a least one        *)
(* (WFMin), so a set that holds zero and the successors of its members     *)
(* holds all numbers (NaturalsFrom); by the cardinality, the same goes for *)
(* finite sets (SubsetsFrom).  Sets stand here for the predicates an       *)
(* induction is about, which the provers could not instantiate.            *)
(* The places of a sort are counted, not folded: each is taken             *)
(* (PlacesTaken).                                                          *)
(***************************************************************************)
EXTENDS Integers, FiniteSetsExt, FiniteSetTheorems, WellFoundedInduction, TLAPS

\* Induction over the natural numbers.
LEMMA NaturalsFrom ==
    ASSUME NEW S, 0 \in S, \A n \in Nat : n \in S => n + 1 \in S
    PROVE  \A n \in Nat : n \in S
  <1> DEFINE T == Nat \ S
  <1>1. SUFFICES ASSUME T # {} PROVE FALSE
    OBVIOUS
  <1>2. PICK x \in T : \A y \in T : ~ (<<y, x>> \in OpToRel(<, Nat))
    <2> HIDE DEF T
    <2>1. T \subseteq Nat
      BY DEF T
    <2> QED BY <1>1, <2>1, WFMin, NatLessThanWellFounded
  <1>3. \A y \in T : ~(y < x)
    BY <1>2 DEF OpToRel
  <1>4. x \in Nat /\ x # 0 /\ x - 1 \in Nat /\ x - 1 < x
    OBVIOUS
  <1> QED BY <1>3, <1>4

\* What holds of the first place and goes from each to the next holds of all.
LEMMA UpToLast ==
    ASSUME NEW n \in Nat, NEW T, 0 \in T, \A k \in 1..n : k - 1 \in T => k \in T
    PROVE  \A k \in 0..n : k \in T
  <1> DEFINE S == {k \in Nat : k \in 0..n => k \in T}
  <1>1. 0 \in S
    OBVIOUS
  <1>2. ASSUME NEW k \in Nat, k \in S PROVE k + 1 \in S
    <2>1. k + 1 \in 0..n => k + 1 \in 1..n /\ k \in 0..n /\ (k + 1) - 1 = k
      OBVIOUS
    <2> QED BY <1>2, <2>1
  <1> HIDE DEF S
  <1>3. \A k \in Nat : k \in S
    BY <1>1, <1>2, NaturalsFrom
  <1> QED BY <1>3 DEF S

\* Induction over the subsets of a finite set.
LEMMA SubsetsFrom ==
    ASSUME NEW D, IsFiniteSet(D), NEW T,
           \A s \in SUBSET D : (\A x \in s : s \ {x} \in T) => s \in T
    PROVE  \A s \in SUBSET D : s \in T
  <1> DEFINE S == {k \in Nat : \A s \in SUBSET D : Cardinality(s) = k => s \in T}
  <1>1. \A s \in SUBSET D : IsFiniteSet(s) /\ Cardinality(s) \in Nat
    BY FS_Subset, FS_CardinalityType
  <1>2. 0 \in S
    <2>1. ASSUME NEW s \in SUBSET D, Cardinality(s) = 0
          PROVE  s \in T
      BY <1>1, <2>1, FS_EmptySet
    <2> QED BY <2>1
  <1>3. ASSUME NEW k \in Nat, k \in S, NEW s \in SUBSET D, Cardinality(s) = k + 1
        PROVE  s \in T
    <2>1. ASSUME NEW x \in s
          PROVE  s \ {x} \in T
      <3>1. Cardinality(s \ {x}) = k
        BY <1>1, <1>3, FS_RemoveElement
      <3>2. s \ {x} \in SUBSET D
        OBVIOUS
      <3> QED BY <1>3, <3>1, <3>2
    <2> QED BY <2>1
  <1>4. \A k \in Nat : k \in S => k + 1 \in S
    <2>1. ASSUME NEW k \in Nat, k \in S
          PROVE  k + 1 \in S
      BY <1>3, <2>1
    <2> HIDE DEF S
    <2> QED BY <2>1
  <1>5. \A k \in Nat : k \in S
    <2> HIDE DEF S
    <2> QED BY <1>2, <1>4, NaturalsFrom
  <1> QED BY <1>1, <1>5

\* A fold that takes the elements of D in the order c chooses them, with the step F.
Chooses(c, D) == \A s \in SUBSET D : s # {} => c[s] \in s
IsFold(g, D, c, base, F) ==
    g = [s \in SUBSET D |-> IF s = {} THEN base ELSE F[<<g[s \ {c[s]}], c[s]>>]]

\* There is one.
LEMMA FoldExists ==
    ASSUME NEW D, IsFiniteSet(D), NEW c, Chooses(c, D), NEW V, NEW base \in V, NEW F \in [V \X D -> V]
    PROVE  \E g : IsFold(g, D, c, base, F) /\ g \in [SUBSET D -> V]
  <1> DEFINE Small(k) == {s \in SUBSET D : Cardinality(s) <= k}
             Value(g, s) == IF s = {} THEN base ELSE F[<<g[s \ {c[s]}], c[s]>>]
             Good(k) == \E g \in [Small(k) -> V] : \A s \in Small(k) : g[s] = Value(g, s)
             S == {k \in Nat : Good(k)}
  <1>1. \A s \in SUBSET D : IsFiniteSet(s) /\ Cardinality(s) \in Nat /\ Cardinality(s) <= Cardinality(D)
    BY FS_Subset, FS_CardinalityType
  <1>2. 0 \in S
    <2>1. Small(0) = {{}}
      <3>1. {} \in Small(0)
        BY <1>1, FS_EmptySet
      <3>2. \A s \in Small(0) : s = {}
        BY <1>1, FS_EmptySet
      <3> QED BY <3>1, <3>2
    <2>2. [s \in Small(0) |-> base] \in [Small(0) -> V] /\ [s \in Small(0) |-> base][{}] = base
      BY <2>1
    <2>3. \A s \in Small(0) : s = {}
      BY <2>1
    <2> QED BY <2>2, <2>3
  <1>3. ASSUME NEW k \in Nat, NEW g \in [Small(k) -> V], \A s \in Small(k) : g[s] = Value(g, s)
        PROVE  Good(k + 1)
    <2> DEFINE h == [s \in Small(k + 1) |-> IF Cardinality(s) = k + 1 THEN F[<<g[s \ {c[s]}], c[s]>>] ELSE g[s]]
    <2>1. ASSUME NEW s \in Small(k + 1)
          PROVE  h[s] = Value(h, s) /\ h[s] \in V
      <3>1. CASE Cardinality(s) = k + 1
        <4>1. s # {} /\ c[s] \in s /\ c[s] \in D
          <5>1. s \in SUBSET D
            OBVIOUS
          <5>2. s # {}
            <6>1. IsFiniteSet(s)
              BY <5>1, FS_Subset
            <6>2. Cardinality(s) = 0 <=> s = {}
              BY <6>1, FS_EmptySet
            <6>3. Cardinality(s) # 0
              BY <3>1
            <6> QED BY <6>2, <6>3
          <5> QED BY <5>1, <5>2 DEF Chooses
        <4>2. Cardinality(s \ {c[s]}) = k
          <5>1. IsFiniteSet(s)
            <6>1. s \in SUBSET D
              OBVIOUS
            <6> QED BY <6>1, FS_Subset
          <5>2. PICK x \in s : x = c[s]
            BY <4>1
          <5>3. Cardinality(s \ {x}) = Cardinality(s) - 1
            BY <5>1, FS_RemoveElement
          <5> QED BY <3>1, <5>2, <5>3
        <4>3. s \ {c[s]} \in Small(k) /\ s \ {c[s]} \in Small(k + 1)
          BY <4>2
        <4>4. h[s] = F[<<g[s \ {c[s]}], c[s]>>] /\ h[s \ {c[s]}] = g[s \ {c[s]}]
          BY <3>1, <4>2, <4>3
        <4>5. g[s \ {c[s]}] \in V
          BY <1>3, <4>3
        <4>6. F[<<g[s \ {c[s]}], c[s]>>] \in V
          BY <4>1, <4>5
        <4> HIDE DEF h
        <4> QED BY <4>1, <4>4, <4>6
      <3>2. CASE Cardinality(s) # k + 1
        <4>1. s \in Small(k)
          BY <1>1, <3>2
        <4>2. h[s] = g[s] /\ g[s] \in V /\ g[s] = Value(g, s)
          BY <1>3, <3>2, <4>1
        <4>3. CASE s = {}
          BY <4>2, <4>3
        <4>4. CASE s # {}
          <5>1. c[s] \in s
            BY <4>4 DEF Chooses
          <5>2. Cardinality(s \ {c[s]}) = Cardinality(s) - 1
            BY <1>1, <5>1, FS_RemoveElement
          <5>3. s \ {c[s]} \in Small(k + 1) /\ Cardinality(s \ {c[s]}) # k + 1
            BY <1>1, <4>1, <5>2
          <5>4. h[s \ {c[s]}] = g[s \ {c[s]}]
            BY <5>3
          <5> HIDE DEF h
          <5> QED BY <4>2, <4>4, <5>4
        <4> QED BY <4>3, <4>4
      <3> QED BY <3>1, <3>2
    <2>2. h \in [Small(k + 1) -> V]
      <3>1. h = [s \in Small(k + 1) |-> h[s]]
        OBVIOUS
      <3> HIDE DEF h
      <3> QED BY <2>1, <3>1
    <2> HIDE DEF h
    <2> QED BY <2>1, <2>2
  <1>4. \A k \in Nat : k \in S => k + 1 \in S
    <2>1. ASSUME NEW k \in Nat, Good(k)
          PROVE  Good(k + 1)
      BY <1>3, <2>1
    <2> HIDE DEF Good
    <2> QED BY <2>1
  <1>5. Good(Cardinality(D))
    <2> HIDE DEF Good
    <2>1. Cardinality(D) \in Nat
      BY FS_CardinalityType
    <2>2. \A k \in Nat : k \in S
      <3> HIDE DEF S
      <3> QED BY <1>2, <1>4, NaturalsFrom
    <2> QED BY <2>1, <2>2
  <1>6. PICK g \in [Small(Cardinality(D)) -> V] : \A s \in Small(Cardinality(D)) : g[s] = Value(g, s)
    BY <1>5
  <1>7. Small(Cardinality(D)) = SUBSET D
    BY <1>1
  <1>8. g \in [SUBSET D -> V] /\ \A s \in SUBSET D : g[s] = Value(g, s)
    BY <1>6, <1>7
  <1>9. IsFold(g, D, c, base, F)
    BY <1>8 DEF IsFold
  <1> QED BY <1>8, <1>9

\* The largest element of a finite set of numbers is one of them, and k is that of 1..k.
LEMMA MaxIn ==
    ASSUME NEW D, IsFiniteSet(D), D \subseteq Int
    PROVE  \A s \in SUBSET D : s # {} => Max(s) \in s /\ \A x \in s : Max(s) >= x
  <1> DEFINE T == {s \in SUBSET D : s # {} => \E x \in s : \A y \in s : x >= y}
  <1>1. ASSUME NEW s \in SUBSET D, \A x \in s : s \ {x} \in T, s # {}
        PROVE  \E x \in s : \A y \in s : x >= y
    <2>1. PICK x \in s : TRUE
      BY <1>1
    <2>2. CASE s \ {x} = {}
      BY <2>1, <2>2
    <2>3. CASE s \ {x} # {}
      <3>1. PICK z \in s \ {x} : \A y \in s \ {x} : z >= y
        BY <1>1, <2>1, <2>3
      <3>2. CASE x >= z
        BY <3>1, <3>2
      <3>3. CASE ~(x >= z)
        BY <3>1, <3>3
      <3> QED BY <3>2, <3>3
    <2> QED BY <2>2, <2>3
  <1>2. \A s \in SUBSET D : s \in T
    <2>1. \A s \in SUBSET D : (\A x \in s : s \ {x} \in T) => s \in T
      BY <1>1
    <2> HIDE DEF T
    <2> QED BY <2>1, SubsetsFrom
  <1> QED BY <1>2 DEF Max

LEMMA MaxIsTop ==
    ASSUME NEW k \in Nat, NEW s \in SUBSET (1..k), k \in s
    PROVE  Max(s) = k
  <1>1. \A x \in s : x >= k => x = k
    OBVIOUS
  <1>2. \A y \in s : k >= y
    OBVIOUS
  <1> QED BY <1>1, <1>2 DEF Max

\* A fold over the numbers from 1 to n that takes the largest last, as folds over sequences do.
LEMMA LastOfPrefix ==
    ASSUME NEW n \in Nat, NEW k \in 1..n
    PROVE  /\ Max(1..k) = k /\ (1..k) \ {k} = 1..(k - 1) /\ 1..k # {}
           /\ 1..k \in SUBSET (1..n) /\ 1..(k - 1) \in SUBSET (1..n)
  <1>1. k \in Nat /\ k \in 1..k /\ 1..k \in SUBSET (1..k)
    OBVIOUS
  <1>2. Max(1..k) = k
    BY <1>1, MaxIsTop
  <1> QED BY <1>1, <1>2

GoesUpwards(g, n, base, F) ==
    \A s \in SUBSET (1..n) : g[s] = IF s = {} THEN base ELSE F[<<g[s \ {Max(s)}], Max(s)>>]

LEMMA FoldUpwards ==
    ASSUME NEW n \in Nat, NEW V, NEW base \in V, NEW F \in [V \X (1..n) -> V]
    PROVE  \E g : g \in [SUBSET (1..n) -> V] /\ GoesUpwards(g, n, base, F)
  <1> DEFINE c == [s \in SUBSET (1..n) |-> Max(s)]
  <1>1. IsFiniteSet(1..n) /\ 1..n \subseteq Int
    BY FS_Interval
  <1>2. Chooses(c, 1..n)
    BY <1>1, MaxIn DEF Chooses
  <1>3. \A s \in SUBSET (1..n) : c[s] = Max(s)
    OBVIOUS
  <1> HIDE DEF c
  <1>4. PICK g : IsFold(g, 1..n, c, base, F) /\ g \in [SUBSET (1..n) -> V]
    BY <1>1, <1>2, FoldExists
  <1>5. \A s \in SUBSET (1..n) : g[s] = IF s = {} THEN base ELSE F[<<g[s \ {c[s]}], c[s]>>]
    BY <1>4 DEF IsFold
  <1> QED BY <1>3, <1>4, <1>5 DEF GoesUpwards

\* The sum of f over D, in the order of CHOOSE.
IsSum(g, D, f) ==
    g = [s \in SUBSET D |-> IF s = {} THEN 0
                            ELSE f[CHOOSE x \in s : TRUE] + g[s \ {CHOOSE x \in s : TRUE}]]

LEMMA SumExists ==
    ASSUME NEW D, IsFiniteSet(D), NEW f \in [D -> Nat]
    PROVE  \E g : IsSum(g, D, f) /\ g \in [SUBSET D -> Nat]
  <1> DEFINE c == [s \in SUBSET D |-> CHOOSE x \in s : TRUE]
             F == [v \in Nat \X D |-> f[v[2]] + v[1]]
  <1>1. Chooses(c, D)
    BY DEF Chooses
  <1>2. F \in [Nat \X D -> Nat]
    OBVIOUS
  <1>3. PICK g : IsFold(g, D, c, 0, F) /\ g \in [SUBSET D -> Nat]
    <2>1. 0 \in Nat
      OBVIOUS
    <2> HIDE DEF c, F
    <2> QED BY <1>1, <1>2, <2>1, FoldExists
  <1>4. ASSUME NEW s \in SUBSET D, s # {}
        PROVE  F[<<g[s \ {c[s]}], c[s]>>] = f[CHOOSE x \in s : TRUE] + g[s \ {CHOOSE x \in s : TRUE}]
    <2>1. c[s] = (CHOOSE x \in s : TRUE) /\ c[s] \in D /\ g[s \ {c[s]}] \in Nat
      BY <1>3, <1>4
    <2> HIDE DEF c
    <2> QED BY <2>1
  <1>5. IsSum(g, D, f)
    <2> HIDE DEF F, c
    <2> QED BY <1>3, <1>4 DEF IsFold, IsSum
  <1> QED BY <1>3, <1>5

\* A sum is of numbers, whatever order it is taken in.
LEMMA SumTyped ==
    ASSUME NEW D, IsFiniteSet(D), NEW f \in [D -> Nat], NEW g, IsSum(g, D, f)
    PROVE  \A s \in SUBSET D : g[s] \in Nat
  <1> DEFINE T == {s \in SUBSET D : g[s] \in Nat}
  <1>1. ASSUME NEW s \in SUBSET D, \A x \in s : s \ {x} \in T
        PROVE  s \in T
    <2>1. CASE s = {}
      BY <2>1 DEF IsSum
    <2>2. CASE s # {}
      <3>1. PICK x \in s : x = CHOOSE z \in s : TRUE
        BY <2>2
      <3>2. g[s] = f[x] + g[s \ {x}]
        BY <2>2, <3>1 DEF IsSum
      <3>3. f[x] \in Nat /\ g[s \ {x}] \in Nat
        BY <1>1
      <3> QED BY <3>2, <3>3
    <2> QED BY <2>1, <2>2
  <1> HIDE DEF T
  <1>2. \A s \in SUBSET D : s \in T
    BY <1>1, SubsetsFrom
  <1> QED BY <1>2 DEF T

LEMMA SumTakes ==
    ASSUME NEW D, IsFiniteSet(D), NEW f \in [D -> Nat], NEW g, IsSum(g, D, f),
           NEW t \in SUBSET D, NEW e \in t
    PROVE  g[t] = f[e] + g[t \ {e}]
  <1> DEFINE T == {s \in SUBSET D : \A y \in s : g[s] = f[y] + g[s \ {y}]}
  <1>1. \A s \in SUBSET D : g[s] \in Nat
    BY SumTyped
  <1>2. ASSUME NEW s \in SUBSET D, \A x \in s : s \ {x} \in T, NEW y \in s
        PROVE  g[s] = f[y] + g[s \ {y}]
    <2>1. PICK x \in s : x = CHOOSE z \in s : TRUE
      OBVIOUS
    <2>2. g[s] = f[x] + g[s \ {x}]
      BY <2>1 DEF IsSum
    <2>3. CASE x = y
      BY <2>2, <2>3
    <2>4. CASE x # y
      <3>1. g[s \ {x}] = f[y] + g[(s \ {x}) \ {y}]
        BY <1>2, <2>4
      <3>2. g[s \ {y}] = f[x] + g[(s \ {y}) \ {x}]
        BY <1>2, <2>4
      <3>3. (s \ {x}) \ {y} = (s \ {y}) \ {x} /\ (s \ {x}) \ {y} \in SUBSET D
        OBVIOUS
      <3>4. f[x] \in Nat /\ f[y] \in Nat /\ g[(s \ {x}) \ {y}] \in Nat
        BY <1>1, <3>3
      <3> DEFINE u == g[(s \ {x}) \ {y}]
      <3>5. g[s] = f[x] + (f[y] + u) /\ g[s \ {y}] = f[x] + u
        BY <2>2, <3>1, <3>2, <3>3
      <3>6. u \in Nat
        BY <3>4
      <3> HIDE DEF u
      <3> QED BY <3>4, <3>5, <3>6
    <2> QED BY <2>3, <2>4
  <1>3. \A s \in SUBSET D : (\A x \in s : s \ {x} \in T) => s \in T
    BY <1>2
  <1> HIDE DEF T
  <1>4. \A s \in SUBSET D : s \in T
    BY <1>3, SubsetsFrom
  <1> QED BY <1>4 DEF T

LEMMA SumAgrees ==
    ASSUME NEW D, IsFiniteSet(D), NEW E, NEW e, NEW f, NEW g, NEW h, D \subseteq E, IsSum(g, D, f), IsSum(h, E, e),
           \A x \in D : f[x] = e[x]
    PROVE  \A s \in SUBSET D : g[s] = h[s]
  <1> DEFINE T == {s \in SUBSET D : g[s] = h[s]}
  <1>1. \A s \in SUBSET D : s \in SUBSET E
    OBVIOUS
  <1>2. ASSUME NEW s \in SUBSET D, \A x \in s : s \ {x} \in T
        PROVE  g[s] = h[s]
    <2>1. CASE s = {}
      BY <1>1, <2>1 DEF IsSum
    <2>2. CASE s # {}
      <3>1. PICK x \in s : x = CHOOSE z \in s : TRUE
        BY <2>2
      <3>2. g[s] = f[x] + g[s \ {x}]
        BY <2>2, <3>1 DEF IsSum
      <3>3. h[s] = e[x] + h[s \ {x}]
        BY <1>1, <2>2, <3>1 DEF IsSum
      <3>4. g[s \ {x}] = h[s \ {x}]
        BY <1>2
      <3> QED BY <3>2, <3>3, <3>4
    <2> QED BY <2>1, <2>2
  <1>3. \A s \in SUBSET D : (\A x \in s : s \ {x} \in T) => s \in T
    BY <1>2
  <1> HIDE DEF T
  <1>4. \A s \in SUBSET D : s \in T
    BY <1>3, SubsetsFrom
  <1> QED BY <1>4 DEF T

-----------------------------------------------------------------------------
\* Sorting.  The place of an element is one more than the number of those under it.

\* When what is under an element is ordered strictly, every place is taken.
LEMMA PlacesTaken ==
    ASSUME NEW n \in Nat, NEW Under, \A i \in 1..n : Under[i] \subseteq (1..n) \ {i},
           \A i, j \in 1..n : i \in Under[j] => Under[i] \subseteq Under[j],
           \A i, j \in 1..n : i # j => i \in Under[j] \/ j \in Under[i]
    PROVE  \A p \in 1..n : \E i \in 1..n : 1 + Cardinality(Under[i]) = p
  <1>1. IsFiniteSet(1..n) /\ Cardinality(1..n) = n
    <2>1. /\ IsFiniteSet(1..n)
          /\ Cardinality(1..n) = IF 1 > n THEN 0 ELSE n - 1 + 1
      BY FS_Interval, SMTT(30)
    <2> QED BY <2>1
  <1>2. ASSUME NEW i \in 1..n
        PROVE  IsFiniteSet(Under[i]) /\ Cardinality(Under[i]) \in Nat /\ Cardinality(Under[i]) <= n - 1
    <2>1. Under[i] \subseteq (1..n) \ {i}
      OBVIOUS
    <2>2. IsFiniteSet((1..n) \ {i}) /\ Cardinality((1..n) \ {i}) = n - 1
      BY <1>1, FS_RemoveElement
    <2> QED BY <2>1, <2>2, FS_Subset, FS_CardinalityType
  <1>3. ASSUME NEW i \in 1..n, NEW j \in 1..n, i \in Under[j]
        PROVE  Cardinality(Under[i]) < Cardinality(Under[j])
    <2>1. Under[i] \cup {i} \in SUBSET Under[j] /\ i \notin Under[i]
      BY <1>3
    <2>2. Cardinality(Under[i] \cup {i}) = Cardinality(Under[i]) + 1
      BY <1>2, <2>1, FS_AddElement
    <2>3. Cardinality(Under[i] \cup {i}) <= Cardinality(Under[j])
      BY <1>2, <2>1, FS_Subset
    <2> QED BY <1>2, <2>2, <2>3
  <1> DEFINE place == [i \in 1..n |-> 1 + Cardinality(Under[i])]
  <1>4. place \in Injection(1..n, 1..n)
    <2>1. place \in [1..n -> 1..n]
      <3>1. \A i \in 1..n : 1 + Cardinality(Under[i]) \in 1..n
        BY <1>2
      <3> QED BY <3>1
    <2>2. ASSUME NEW i \in 1..n, NEW j \in 1..n, i # j
          PROVE  place[i] # place[j]
      <3>1. Cardinality(Under[i]) \in Nat /\ Cardinality(Under[j]) \in Nat
        BY <1>2
      <3>2. CASE i \in Under[j]
        <4>1. Cardinality(Under[i]) < Cardinality(Under[j])
          BY <1>3, <3>2
        <4> QED BY <3>1, <4>1
      <3>3. CASE j \in Under[i]
        <4>1. Cardinality(Under[j]) < Cardinality(Under[i])
          BY <1>3, <3>3
        <4> QED BY <3>1, <4>1
      <3> QED BY <2>2, <3>2, <3>3
    <2> HIDE DEF place
    <2> QED BY <2>1, <2>2 DEF Injection, IsInjective
  <1>5. place \in Surjection(1..n, 1..n)
    <2> HIDE DEF place
    <2> QED BY <1>1, <1>4, FS_Injection
  <1> QED BY <1>5 DEF Surjection

==============================================================================

---------------------------- MODULE NumberProofs ----------------------------
(***************************************************************************)
(* Facts about numbers and sums that several proofs cite.                  *)
(*                                                                         *)
(* An induction over data (a recursion over a sequence, a sum over a       *)
(* finite set) is an argument about a least counterexample: LeastNumber,   *)
(* SmallestSubset.  SumFunctionOnSet is what its recursion says for any    *)
(* order of the elements (SumSplit), so a change at one element changes    *)
(* the sum by that difference (SumChange).                                 *)
(*                                                                         *)
(* Where a percentage rounded to two decimals still decides exactly: a     *)
(* rounded percentage reaches 80 exactly when 20000 m >= 15999 n           *)
(* (DivAtLeast), and an attempt that misses four fifths misses it by at    *)
(* least one fifth of a question, which n < 4000 questions are too few to  *)
(* round away; 100 is missed by one whole point, of n < 20000.             *)
(***************************************************************************)
EXTENDS Scoring, FiniteSetsExt, FiniteSetTheorems, TLAPS, WellFoundedInduction

(* A set of numbers has a least one: what an induction over data needs of a least counterexample. *)
LEMMA LeastNumber ==
    ASSUME NEW T, T \subseteq Nat, T # {}
    PROVE  \E x \in T : \A y \in T : x <= y
  <1>1. PICK x \in T : \A y \in T : ~(<<y, x>> \in OpToRel(<, Nat))
    BY NatLessThanWellFounded, WFMin
  <1>2. \A y \in T : ~(y < x)
    BY <1>1 DEF OpToRel
  <1>3. QED BY <1>2

(* Comparing a quotient with q is comparing the dividend with q times the divisor. *)
LEMMA DivAtLeast ==
    ASSUME NEW a \in Nat, NEW d \in Nat, d > 0, NEW q \in Nat
    PROVE  (a \div d >= q) <=> (a >= q * d)
  <1> DEFINE k == a \div d
             r == a % d
  <1>1. k \in Int /\ r \in 0..(d-1) /\ a = d * k + r
    OBVIOUS
  <1> HIDE DEF k, r
  <1>2. CASE k >= q
    <2>1. d * k >= d * q
      BY <1>2, <1>1
    <2>2. QED BY <2>1, <1>1, <1>2 DEF k
  <1>3. CASE k < q
    <2>1. d * (k + 1) <= d * q
      BY <1>3, <1>1
    <2>2. d * (k + 1) = d * k + d
      BY <1>1
    <2>3. QED BY <2>1, <2>2, <1>1, <1>3 DEF k
  <1>4. QED BY <1>1, <1>2, <1>3

(* The rounded, capped percentage of m out of n reaches 80 exactly at four fifths. *)
LEMMA RoundedPassIsExact ==
    ASSUME NEW m \in Nat, NEW n \in Nat, 0 < n, n < 4000
    PROVE  /\ (ToFixed2(m, n) >= 8000) <=> (5 * m >= 4 * n)
           /\ (CapAt100(ToFixed2(m, n)) >= 8000) <=> (5 * m >= 4 * n)
  <1>1. (ToFixed2(m, n) >= 8000) <=> (20000 * m + n >= 8000 * (2 * n))
    <2> DEFINE a == 20000 * m + n
               d == 2 * n
    <2>1. a \in Nat /\ d \in Nat /\ d > 0
      OBVIOUS
    <2> HIDE DEF a, d
    <2>2. (a \div d >= 8000) <=> (a >= 8000 * d)
      BY <2>1, DivAtLeast
    <2>3. QED BY <2>2 DEF a, d, ToFixed2
  <1>2. (20000 * m + n >= 8000 * (2 * n)) <=> (5 * m >= 4 * n)
    OBVIOUS
  <1>3. ToFixed2(m, n) \in Int
    BY DEF ToFixed2
  <1>4. (CapAt100(ToFixed2(m, n)) >= 8000) <=> (ToFixed2(m, n) >= 8000)
    BY <1>3 DEF CapAt100
  <1>5. QED BY <1>1, <1>2, <1>3, <1>4

(* The lowest band of calculatescore starts where a pass starts, and the bands meet. *)
LEMMA StarsFromEighty ==
    ASSUME NEW p \in Int
    PROVE  (calculatescore(p) > 0) = (p >= 8000)
  BY DEF calculatescore

(***************************************************************************)
(* The rounded percentage of m out of n reaches 100 exactly when all is    *)
(* there.                                                                  *)
(***************************************************************************)
LEMMA FullIsExact ==
    ASSUME NEW m \in Nat, NEW n \in Nat, 0 < n, n < 20000
    PROVE  (ToFixed2(m, n) >= 10000) <=> (m >= n)
  <1>1. (ToFixed2(m, n) >= 10000) <=> (20000 * m + n >= 10000 * (2 * n))
    <2> DEFINE a == 20000 * m + n
               d == 2 * n
    <2>1. a \in Nat /\ d \in Nat /\ d > 0
      OBVIOUS
    <2> HIDE DEF a, d
    <2>2. (a \div d >= 10000) <=> (a >= 10000 * d)
      BY <2>1, DivAtLeast
    <2>3. QED BY <2>2 DEF a, d, ToFixed2
  <1>2. (20000 * m + n >= 10000 * (2 * n)) <=> (m >= n)
    OBVIOUS
  <1>3. QED BY <1>1, <1>2

-----------------------------------------------------------------------------
(* Among some subsets of a finite set there is one with no other of them inside it. *)
LEMMA SmallestSubset ==
    ASSUME NEW S, IsFiniteSet(S), NEW B, B \subseteq SUBSET S, B # {}
    PROVE  \E t \in B : \A u \in B : u \subseteq t => u = t
<1> DEFINE T == {n \in Nat : \E t \in B : Cardinality(t) = n}
<1>1. \A t \in B : IsFiniteSet(t) /\ Cardinality(t) \in Nat BY FS_Subset, FS_CardinalityType
<1>2. T \subseteq Nat OBVIOUS
<1>3. T # {}
  <2>1. PICK t \in B : TRUE OBVIOUS
  <2>2. Cardinality(t) \in T BY <1>1, <2>1
  <2>3. QED BY <2>2
<1>4. PICK n \in T : \A m \in T : n <= m
  <2> HIDE DEF T
  <2>1. QED BY <1>2, <1>3, LeastNumber
<1>5. PICK t \in B : Cardinality(t) = n BY <1>4
<1>6. ASSUME NEW u \in B, u \subseteq t PROVE u = t
  <2>1. Cardinality(u) \in T BY <1>1
  <2>2. Cardinality(t) <= Cardinality(u) BY <1>4, <1>5, <2>1
  <2>3. Cardinality(u) <= Cardinality(t) /\ (Cardinality(t) = Cardinality(u) => t = u)
    BY <1>1, <1>6, FS_Subset
  <2>4. Cardinality(u) = Cardinality(t) BY <1>1, <2>2, <2>3
  <2>5. QED BY <2>3, <2>4
<1>7. QED BY <1>5, <1>6

(* The first element SumFunctionOnSet takes out of a set. *)
Taken(s) == CHOOSE x \in s : TRUE

(* It is one of them. *)
LEMMA TakenIn == ASSUME NEW s, s # {} PROVE Taken(s) \in s
  BY DEF Taken

(* g adds f up over every subset of S, as SumFunctionOnSet does. *)
Adds(f, S, g) == g = [s \in SUBSET S |-> IF s = {} THEN 0 ELSE f[Taken(s)] + g[s \ {Taken(s)}]]

(* The same over those of the subsets that B has. *)
AddsIn(f, B, g) == g = [s \in B |-> IF s = {} THEN 0 ELSE f[Taken(s)] + g[s \ {Taken(s)}]]

(* SumFunctionOnSet takes the elements out one by one. *)
LEMMA SumIsIter == ASSUME NEW f, NEW S PROVE SumFunctionOnSet(f, S) = (CHOOSE g : Adds(f, S, g))[S]
  BY DEF SumFunctionOnSet, FoldFunctionOnSet, MapThenFoldSet, Adds, Taken

UpTo(S, n) == {t \in SUBSET S : Cardinality(t) <= n}

(* The recursion is one: something adds f up over every subset of a finite set. *)
LEMMA AdderExists ==
    ASSUME NEW f, NEW S, IsFiniteSet(S)
    PROVE  \E g : Adds(f, S, g)
<1>1. ASSUME NEW t \in SUBSET S
      PROVE  /\ Cardinality(t) \in Nat /\ Cardinality(t) <= Cardinality(S) /\ (Cardinality(t) = 0 <=> t = {})
             /\ t # {} => t \ {Taken(t)} \in SUBSET S /\ Cardinality(t \ {Taken(t)}) = Cardinality(t) - 1
  <2>1. IsFiniteSet(t) /\ Cardinality(t) \in Nat /\ Cardinality(t) <= Cardinality(S)
    BY FS_Subset, FS_CardinalityType
  <2>2. Cardinality(t) = 0 <=> t = {} BY <2>1, FS_EmptySet
  <2>3. t # {} => Cardinality(t \ {Taken(t)}) = Cardinality(t) - 1 BY <2>1, TakenIn, FS_RemoveElement
  <2>4. QED BY <2>1, <2>2, <2>3
<1>2. Cardinality(S) \in Nat BY <1>1
<1> DEFINE T == {n \in Nat : ~\E g : AddsIn(f, UpTo(S, n), g)}
<1>3. T = {}
  <2>1. SUFFICES ASSUME T # {} PROVE FALSE OBVIOUS
  <2>2. PICK n \in T : \A m \in T : n <= m
    <3>1. T \subseteq Nat OBVIOUS
    <3> HIDE DEF T
    <3>2. QED BY <2>1, <3>1, LeastNumber
  <2>3. CASE n = 0
    <3> DEFINE g == [s \in UpTo(S, 0) |-> 0]
    <3>1. ASSUME NEW t \in UpTo(S, 0) PROVE t = {}
      <4>1. t \in SUBSET S /\ Cardinality(t) <= 0 BY DEF UpTo
      <4>2. Cardinality(t) \in Nat /\ (Cardinality(t) = 0 <=> t = {}) BY <1>1, <4>1
      <4>3. Cardinality(t) = 0 BY <4>1, <4>2
      <4>4. QED BY <4>2, <4>3
    <3>2. AddsIn(f, UpTo(S, 0), g) BY <3>1 DEF AddsIn
    <3> HIDE DEF g
    <3>3. QED BY <2>2, <2>3, <3>2
  <2>4. CASE n # 0
    <3>1. n \in Nat /\ n - 1 \in Nat /\ n - 1 \notin T
      <4>1. n \in Nat BY <2>2
      <4> HIDE DEF T
      <4>2. QED BY <2>2, <2>4, <4>1
    <3>2. PICK h : AddsIn(f, UpTo(S, n - 1), h) BY <3>1
    <3> DEFINE g == [s \in UpTo(S, n) |-> IF s = {} THEN 0 ELSE f[Taken(s)] + h[s \ {Taken(s)}]]
    <3>3. ASSUME NEW t \in UpTo(S, n), t # {}
          PROVE  g[t \ {Taken(t)}] = h[t \ {Taken(t)}]
      <4> DEFINE u == t \ {Taken(t)}
      <4>1. u \in UpTo(S, n - 1) /\ u \in UpTo(S, n) BY <1>1, <3>1, <3>3 DEF UpTo
      <4>2. h[u] = IF u = {} THEN 0 ELSE f[Taken(u)] + h[u \ {Taken(u)}] BY <3>2, <4>1 DEF AddsIn
      <4> HIDE DEF u
      <4>3. g[u] = h[u] BY <4>1, <4>2
      <4>4. QED BY <4>3 DEF u
    <3>4. AddsIn(f, UpTo(S, n), g)
      <4>1. g = [s \in UpTo(S, n) |-> IF s = {} THEN 0 ELSE f[Taken(s)] + g[s \ {Taken(s)}]] BY <3>3
      <4>2. QED BY <4>1 DEF AddsIn
    <3> HIDE DEF g
    <3>5. QED BY <2>2, <3>4
  <2>5. QED BY <2>3, <2>4
<1>4. PICK g : AddsIn(f, UpTo(S, Cardinality(S)), g) BY <1>2, <1>3
<1>5. UpTo(S, Cardinality(S)) = SUBSET S BY <1>1 DEF UpTo
<1>6. QED BY <1>4, <1>5 DEF Adds, AddsIn

(* What the sum is computed from. *)
LEMMA Adder ==
    ASSUME NEW f, NEW S, IsFiniteSet(S)
    PROVE  \E g : Adds(f, S, g) /\ SumFunctionOnSet(f, S) = g[S]
BY AdderExists, SumIsIter

(* Two functions that agree on a set add up to the same over it, wherever the adding started. *)
LEMMA AddersAgree ==
    ASSUME NEW f, NEW S, NEW g, Adds(f, S, g), NEW e, NEW R, NEW h, Adds(e, R, h),
           NEW t, t \subseteq S, t \subseteq R, IsFiniteSet(t), \A x \in t : f[x] = e[x]
    PROVE  g[t] = h[t]
<1> DEFINE B == {u \in SUBSET t : g[u] # h[u]}
<1>1. SUFFICES ASSUME B # {} PROVE FALSE
  OBVIOUS
<1>2. PICK u \in B : \A w \in B : w \subseteq u => w = u
  <2>1. B \subseteq SUBSET t OBVIOUS
  <2> HIDE DEF B
  <2>2. QED BY <1>1, <2>1, SmallestSubset
<1>3. u \in SUBSET S /\ u \in SUBSET R BY <1>2
<1>4. g[u] = IF u = {} THEN 0 ELSE f[Taken(u)] + g[u \ {Taken(u)}] BY <1>3 DEF Adds
<1>5. h[u] = IF u = {} THEN 0 ELSE e[Taken(u)] + h[u \ {Taken(u)}] BY <1>3 DEF Adds
<1>6. u # {} BY <1>2, <1>4, <1>5
<1>7. Taken(u) \in u BY <1>6, TakenIn
<1>8. f[Taken(u)] = e[Taken(u)] BY <1>2, <1>7
<1>9. g[u \ {Taken(u)}] = h[u \ {Taken(u)}]
  <2>1. u \ {Taken(u)} \in SUBSET t /\ u \ {Taken(u)} # u BY <1>2, <1>7
  <2>2. QED BY <1>2, <2>1
<1>10. QED BY <1>2, <1>4, <1>5, <1>6, <1>8, <1>9

(* The sum is of the values on the set only. *)
LEMMA SumSame ==
    ASSUME NEW f, NEW e, NEW S, IsFiniteSet(S), \A x \in S : f[x] = e[x]
    PROVE  SumFunctionOnSet(f, S) = SumFunctionOnSet(e, S)
<1>1. PICK g : Adds(f, S, g) /\ SumFunctionOnSet(f, S) = g[S] BY Adder
<1>2. PICK h : Adds(e, S, h) /\ SumFunctionOnSet(e, S) = h[S] BY Adder
<1>3. QED BY <1>1, <1>2, AddersAgree

(* Nothing adds up to 0. *)
LEMMA SumEmpty == ASSUME NEW f PROVE SumFunctionOnSet(f, {}) = 0
<1>1. PICK g : Adds(f, {}, g) /\ SumFunctionOnSet(f, {}) = g[{}] BY Adder, FS_EmptySet
<1>2. QED BY <1>1 DEF Adds

(* One element is taken out, the rest added up. *)
LEMMA SumTakes ==
    ASSUME NEW f, NEW S, IsFiniteSet(S), S # {}
    PROVE  SumFunctionOnSet(f, S) = f[Taken(S)] + SumFunctionOnSet(f, S \ {Taken(S)})
<1> DEFINE R == S \ {Taken(S)}
<1>1. PICK g : Adds(f, S, g) /\ SumFunctionOnSet(f, S) = g[S] BY Adder
<1>2. IsFiniteSet(R) BY FS_RemoveElement
<1>3. PICK h : Adds(f, R, h) /\ SumFunctionOnSet(f, R) = h[R] BY <1>2, Adder
<1>4. g[R] = h[R]
  <2>1. R \subseteq S OBVIOUS
  <2> HIDE DEF R
  <2>2. QED BY <1>1, <1>2, <1>3, <2>1, AddersAgree
<1>5. g[S] = f[Taken(S)] + g[R] BY <1>1 DEF Adds
<1>6. QED BY <1>1, <1>3, <1>4, <1>5

(* A sum of integers is one. *)
LEMMA SumTyped ==
    ASSUME NEW f, NEW S, IsFiniteSet(S), \A x \in S : f[x] \in Int
    PROVE  SumFunctionOnSet(f, S) \in Int
<1> DEFINE B == {u \in SUBSET S : SumFunctionOnSet(f, u) \notin Int}
<1>1. SUFFICES ASSUME B # {} PROVE FALSE
  OBVIOUS
<1>2. PICK u \in B : \A w \in B : w \subseteq u => w = u
  <2>1. B \subseteq SUBSET S OBVIOUS
  <2> HIDE DEF B
  <2>2. QED BY <1>1, <2>1, SmallestSubset
<1>3. u # {}
  <2>1. SumFunctionOnSet(f, {}) = 0 BY SumEmpty
  <2>2. SumFunctionOnSet(f, {}) \in Int BY <2>1
  <2>3. QED BY <1>2, <2>2
<1>4. IsFiniteSet(u) BY <1>2, FS_Subset
<1>5. SumFunctionOnSet(f, u) = f[Taken(u)] + SumFunctionOnSet(f, u \ {Taken(u)}) BY <1>3, <1>4, SumTakes
<1>6. Taken(u) \in u BY <1>3, TakenIn
<1>7. SumFunctionOnSet(f, u \ {Taken(u)}) \in Int BY <1>2, <1>6
<1>8. f[Taken(u)] \in Int BY <1>2, <1>6
<1>9. QED BY <1>2, <1>5, <1>7, <1>8

(* A sum of natural numbers is one. *)
LEMMA SumNat ==
    ASSUME NEW f, NEW S, IsFiniteSet(S), \A x \in S : f[x] \in Nat
    PROVE  SumFunctionOnSet(f, S) \in Nat
<1> DEFINE B == {u \in SUBSET S : SumFunctionOnSet(f, u) \notin Nat}
<1>1. SUFFICES ASSUME B # {} PROVE FALSE
  OBVIOUS
<1>2. PICK u \in B : \A w \in B : w \subseteq u => w = u
  <2>1. B \subseteq SUBSET S OBVIOUS
  <2> HIDE DEF B
  <2>2. QED BY <1>1, <2>1, SmallestSubset
<1>3. u # {}
  <2>1. SumFunctionOnSet(f, {}) = 0 BY SumEmpty
  <2>2. SumFunctionOnSet(f, {}) \in Nat BY <2>1
  <2>3. QED BY <1>2, <2>2
<1>4. IsFiniteSet(u) BY <1>2, FS_Subset
<1>5. SumFunctionOnSet(f, u) = f[Taken(u)] + SumFunctionOnSet(f, u \ {Taken(u)}) BY <1>3, <1>4, SumTakes
<1>6. Taken(u) \in u BY <1>3, TakenIn
<1>7. SumFunctionOnSet(f, u \ {Taken(u)}) \in Nat BY <1>2, <1>6
<1>8. f[Taken(u)] \in Nat BY <1>2, <1>6
<1>9. QED BY <1>2, <1>5, <1>7, <1>8

(* In whatever order the elements are taken. *)
LEMMA SumSplit ==
    ASSUME NEW f, NEW S, IsFiniteSet(S), \A x \in S : f[x] \in Int, NEW y \in S
    PROVE  SumFunctionOnSet(f, S) = f[y] + SumFunctionOnSet(f, S \ {y})
<1> DEFINE Splits(u, x) == SumFunctionOnSet(f, u) = f[x] + SumFunctionOnSet(f, u \ {x})
           B == {u \in SUBSET S : \E x \in u : ~Splits(u, x)}
<1>1. ASSUME B # {} PROVE FALSE
  <2>2. PICK u \in B : \A w \in B : w \subseteq u => w = u
    <3>1. B \subseteq SUBSET S OBVIOUS
    <3> HIDE DEF B
    <3>2. QED BY <1>1, <3>1, SmallestSubset
  <2>3. PICK x \in u : ~Splits(u, x) BY <2>2
  <2> DEFINE z == Taken(u)
             v == (u \ {z}) \ {x}
  <2>4. u \in SUBSET S /\ z \in u BY <2>2, <2>3, TakenIn
  <2>5. IsFiniteSet(u) BY <2>4, FS_Subset
  <2>6. SumFunctionOnSet(f, u) = f[z] + SumFunctionOnSet(f, u \ {z}) BY <2>4, <2>5, SumTakes
  <2>7. z # x BY <2>3, <2>6
  <2>8. u \ {z} \in SUBSET S /\ u \ {x} \in SUBSET S /\ u \ {z} # u /\ u \ {x} # u BY <2>3, <2>4
  <2>9. u \ {z} \notin B /\ u \ {x} \notin B
    <3> HIDE DEF B, z
    <3>1. QED BY <2>2, <2>8
  <2>10. Splits(u \ {z}, x) /\ Splits(u \ {x}, z) BY <2>3, <2>4, <2>7, <2>8, <2>9
  <2>11. (u \ {x}) \ {z} = v OBVIOUS
  <2>12. IsFiniteSet(v) /\ v \subseteq S BY <2>4, <2>5, FS_Subset
  <2>13. SumFunctionOnSet(f, v) \in Int BY <2>12, SumTyped
  <2>14. f[x] \in Int /\ f[z] \in Int BY <2>3, <2>4
  <2> DEFINE sv == SumFunctionOnSet(f, v)
             sx == SumFunctionOnSet(f, u \ {x})
             sz == SumFunctionOnSet(f, u \ {z})
  <2>15. sz = f[x] + sv /\ sx = f[z] + sv BY <2>10, <2>11
  <2>16. SumFunctionOnSet(f, u) # f[x] + sx BY <2>3
  <2>17. sv \in Int BY <2>13
  <2> HIDE DEF sv, sx, sz, z
  <2>18. f[z] + sz = f[x] + sx BY <2>14, <2>15, <2>17
  <2>19. SumFunctionOnSet(f, u) = f[z] + sz BY <2>6 DEF sz
  <2>20. QED BY <2>16, <2>18, <2>19
<1>2. S \notin B BY <1>1
<1>3. Splits(S, y) BY <1>2
<1>4. QED BY <1>3

(* Where a function changes at one element, the sum changes by the difference there. *)
LEMMA SumChange ==
    ASSUME NEW f, NEW e, NEW S, IsFiniteSet(S), NEW y \in S,
           \A x \in S : f[x] \in Int /\ e[x] \in Int, \A x \in S \ {y} : e[x] = f[x]
    PROVE  SumFunctionOnSet(e, S) = SumFunctionOnSet(f, S) + (e[y] - f[y])
<1> DEFINE R == S \ {y}
           sr == SumFunctionOnSet(f, R)
<1>1. IsFiniteSet(R) BY FS_RemoveElement
<1>2. SumFunctionOnSet(e, R) = sr BY <1>1, SumSame
<1>3. SumFunctionOnSet(f, S) = f[y] + sr /\ SumFunctionOnSet(e, S) = e[y] + sr BY <1>2, SumSplit
<1>4. sr \in Int BY <1>1, SumTyped
<1> HIDE DEF sr
<1>5. QED BY <1>3, <1>4

(* A change of at most one term is the change of the sum, if the sum has the term. *)
SumMoved(f, e, S, y, d) ==
    SumFunctionOnSet(f, S) \in Int /\ SumFunctionOnSet(e, S) = SumFunctionOnSet(f, S) + (IF y \in S THEN d ELSE 0)

LEMMA SumMoves ==
    ASSUME NEW f, NEW e, NEW S, IsFiniteSet(S), \A x \in S : f[x] \in Int /\ e[x] \in Int,
           NEW y, NEW d \in Int, \A x \in S : x # y => e[x] = f[x], y \in S => e[y] - f[y] = d
    PROVE  SumMoved(f, e, S, y, d)
<1> DEFINE sf == SumFunctionOnSet(f, S)
           se == SumFunctionOnSet(e, S)
<1>1. sf \in Int BY SumTyped
<1> USE DEF SumMoved
<1>2. CASE y \in S
  <2>1. \A x \in S \ {y} : e[x] = f[x] OBVIOUS
  <2>2. se = sf + (e[y] - f[y]) BY <1>2, <2>1, SumChange
  <2> HIDE DEF sf, se
  <2>3. QED BY <1>1, <1>2, <2>2 DEF sf, se
<1>3. CASE y \notin S
  <2>1. \A x \in S : f[x] = e[x] BY <1>3
  <2>2. se = sf BY <2>1, SumSame
  <2> HIDE DEF sf, se
  <2>3. sf = sf + 0 BY <1>1
  <2>4. QED BY <1>1, <1>3, <2>2, <2>3 DEF sf, se
<1>4. QED BY <1>2, <1>3

(* The sum over one element is its value. *)
LEMMA SumSingle ==
    ASSUME NEW f, NEW y, f[y] \in Int
    PROVE  SumFunctionOnSet(f, {y}) = f[y]
<1>1. IsFiniteSet({y}) BY FS_Singleton
<1>2. {y} \ {y} = {} OBVIOUS
<1>3. SumFunctionOnSet(f, {y}) = f[y] + SumFunctionOnSet(f, {}) BY <1>1, <1>2, SumSplit
<1>4. QED BY <1>3, SumEmpty

(* Of two functions the one that is nowhere larger has no larger sum. *)
LEMMA SumMono ==
    ASSUME NEW f, NEW e, NEW S, IsFiniteSet(S), \A x \in S : f[x] \in Int /\ e[x] \in Int /\ f[x] <= e[x]
    PROVE  SumFunctionOnSet(f, S) <= SumFunctionOnSet(e, S)
<1> DEFINE B == {u \in SUBSET S : ~(SumFunctionOnSet(f, u) <= SumFunctionOnSet(e, u))}
<1>1. SUFFICES ASSUME B # {} PROVE FALSE
  OBVIOUS
<1>2. PICK u \in B : \A w \in B : w \subseteq u => w = u
  <2>1. B \subseteq SUBSET S OBVIOUS
  <2> HIDE DEF B
  <2>2. QED BY <1>1, <2>1, SmallestSubset
<1>3. u # {}
  <2>1. SumFunctionOnSet(f, {}) = 0 /\ SumFunctionOnSet(e, {}) = 0 BY SumEmpty
  <2>2. 0 <= 0 OBVIOUS
  <2>3. SumFunctionOnSet(f, {}) <= SumFunctionOnSet(e, {}) BY <2>1, <2>2
  <2>4. QED BY <1>2, <2>3
<1> DEFINE x == Taken(u)
           sf == SumFunctionOnSet(f, u \ {x})
           se == SumFunctionOnSet(e, u \ {x})
<1>4. IsFiniteSet(u) /\ u \subseteq S BY <1>2, FS_Subset
<1>5. SumFunctionOnSet(f, u) = f[x] + sf /\ SumFunctionOnSet(e, u) = e[x] + se BY <1>3, <1>4, SumTakes
<1>6. x \in u /\ x \in S BY <1>3, <1>4, TakenIn
<1>7. u \ {x} \in SUBSET S /\ u \ {x} # u /\ u \ {x} \subseteq u BY <1>4, <1>6
<1>8. u \ {x} \notin B
  <2> HIDE DEF B, x
  <2>1. QED BY <1>2, <1>7
<1>9. sf <= se BY <1>7, <1>8
<1>10. IsFiniteSet(u \ {x}) BY <1>4, FS_Subset
<1>11. sf \in Int /\ se \in Int BY <1>4, <1>10, SumTyped
<1>12. f[x] \in Int /\ e[x] \in Int /\ f[x] <= e[x] BY <1>6
<1>13. ~(SumFunctionOnSet(f, u) <= SumFunctionOnSet(e, u)) BY <1>2
<1> HIDE DEF x, sf, se
<1>14. QED BY <1>5, <1>9, <1>11, <1>12, <1>13

(* Zeros add up to zero. *)
LEMMA SumZero ==
    ASSUME NEW f, NEW S, IsFiniteSet(S), \A x \in S : f[x] = 0
    PROVE  SumFunctionOnSet(f, S) = 0
<1> DEFINE B == {u \in SUBSET S : SumFunctionOnSet(f, u) # 0}
<1>1. SUFFICES ASSUME B # {} PROVE FALSE
  OBVIOUS
<1>2. PICK u \in B : \A w \in B : w \subseteq u => w = u
  <2>1. B \subseteq SUBSET S OBVIOUS
  <2> HIDE DEF B
  <2>2. QED BY <1>1, <2>1, SmallestSubset
<1>3. u # {} /\ IsFiniteSet(u) BY <1>2, SumEmpty, FS_Subset
<1>4. SumFunctionOnSet(f, u) = f[Taken(u)] + SumFunctionOnSet(f, u \ {Taken(u)}) BY <1>3, SumTakes
<1>5. Taken(u) \in u BY <1>3, TakenIn
<1>6. SumFunctionOnSet(f, u \ {Taken(u)}) = 0 BY <1>2, <1>5
<1>7. f[Taken(u)] = 0 BY <1>2, <1>5
<1>8. QED BY <1>2, <1>4, <1>6, <1>7

(* Of two sets apart from one another the sums add up. *)
LEMMA SumUnion ==
    ASSUME NEW f, NEW S, NEW R, IsFiniteSet(S), IsFiniteSet(R), S \cap R = {}, \A x \in S \cup R : f[x] \in Int
    PROVE  SumFunctionOnSet(f, S \cup R) = SumFunctionOnSet(f, S) + SumFunctionOnSet(f, R)
<1> DEFINE B == {u \in SUBSET R : SumFunctionOnSet(f, S \cup u) # SumFunctionOnSet(f, S) + SumFunctionOnSet(f, u)}
<1>1. ASSUME B # {} PROVE FALSE
  <2>1. PICK u \in B : \A w \in B : w \subseteq u => w = u
    <3>1. B \subseteq SUBSET R OBVIOUS
    <3> HIDE DEF B
    <3>2. QED BY <1>1, <3>1, SmallestSubset
  <2>2. SumFunctionOnSet(f, S) \in Int BY SumTyped
  <2>3. u # {}
    <3>1. S \cup {} = S OBVIOUS
    <3>2. SumFunctionOnSet(f, {}) = 0 BY SumEmpty
    <3>3. SumFunctionOnSet(f, S \cup {}) = SumFunctionOnSet(f, S) + SumFunctionOnSet(f, {}) BY <2>2, <3>1, <3>2
    <3>4. QED BY <2>1, <3>3
  <2> DEFINE x == Taken(u)
             v == u \ {x}
  <2>4. IsFiniteSet(u) /\ u \subseteq R /\ x \in u BY <2>1, <2>3, TakenIn, FS_Subset
  <2>5. IsFiniteSet(S \cup u) /\ IsFiniteSet(v) BY <2>4, FS_Union, FS_RemoveElement
  <2>6. v \in SUBSET R /\ v \subseteq u /\ v # u /\ (S \cup u) \ {x} = S \cup v BY <2>4
  <2>7. SumFunctionOnSet(f, S \cup v) = SumFunctionOnSet(f, S) + SumFunctionOnSet(f, v)
    <3> HIDE DEF x
    <3>1. QED BY <2>1, <2>6
  <2>8. SumFunctionOnSet(f, S \cup u) = f[x] + SumFunctionOnSet(f, S \cup v)
    BY <2>4, <2>5, <2>6, SumSplit
  <2>9. SumFunctionOnSet(f, u) = f[x] + SumFunctionOnSet(f, v) BY <2>4, SumSplit
  <2>10. SumFunctionOnSet(f, v) \in Int /\ f[x] \in Int BY <2>4, <2>5, <2>6, SumTyped
  <2>11. SumFunctionOnSet(f, S \cup u) # SumFunctionOnSet(f, S) + SumFunctionOnSet(f, u) BY <2>1
  <2> HIDE DEF x, v
  <2>12. QED BY <2>2, <2>7, <2>8, <2>9, <2>10, <2>11
<1>2. R \notin B BY <1>1
<1>3. QED BY <1>2

(* What is left out of a sum may be left out if it is nothing. *)
LEMMA SumOfTheRest ==
    ASSUME NEW f, NEW S, NEW R, IsFiniteSet(S), R \subseteq S, \A x \in S : f[x] \in Int, \A x \in S \ R : f[x] = 0
    PROVE  SumFunctionOnSet(f, R) = SumFunctionOnSet(f, S)
<1> DEFINE Q == S \ R
           sr == SumFunctionOnSet(f, R)
<1>1. IsFiniteSet(R) /\ IsFiniteSet(Q) BY FS_Subset
<1>2. sr \in Int BY <1>1, SumTyped
<1>3. SumFunctionOnSet(f, Q) = 0 BY <1>1, SumZero
<1>4. R \cup Q = S /\ R \cap Q = {} OBVIOUS
<1> HIDE DEF Q
<1>5. SumFunctionOnSet(f, R \cup Q) = sr + SumFunctionOnSet(f, Q) BY <1>1, <1>4, SumUnion
<1> HIDE DEF sr
<1>6. SumFunctionOnSet(f, S) = sr + 0 BY <1>3, <1>4, <1>5
<1>7. QED BY <1>2, <1>6 DEF sr

(* The sum of sums. *)
LEMMA SumPlus ==
    ASSUME NEW f, NEW e, NEW g, NEW S, IsFiniteSet(S),
           \A x \in S : f[x] \in Int /\ e[x] \in Int /\ g[x] = f[x] + e[x]
    PROVE  SumFunctionOnSet(g, S) = SumFunctionOnSet(f, S) + SumFunctionOnSet(e, S)
<1> DEFINE B == {u \in SUBSET S : SumFunctionOnSet(g, u) # SumFunctionOnSet(f, u) + SumFunctionOnSet(e, u)}
<1>1. ASSUME B # {} PROVE FALSE
  <2>1. PICK u \in B : \A w \in B : w \subseteq u => w = u
    <3>1. B \subseteq SUBSET S OBVIOUS
    <3> HIDE DEF B
    <3>2. QED BY <1>1, <3>1, SmallestSubset
  <2>2. u # {}
    <3>1. SumFunctionOnSet(f, {}) = 0 /\ SumFunctionOnSet(e, {}) = 0 /\ SumFunctionOnSet(g, {}) = 0 BY SumEmpty
    <3>2. 0 = 0 + 0 OBVIOUS
    <3>3. SumFunctionOnSet(g, {}) = SumFunctionOnSet(f, {}) + SumFunctionOnSet(e, {}) BY <3>1, <3>2
    <3>4. QED BY <2>1, <3>3
  <2> DEFINE x == Taken(u)
             v == u \ {x}
  <2>3. IsFiniteSet(u) /\ u \subseteq S /\ x \in u BY <2>1, <2>2, TakenIn, FS_Subset
  <2>4. IsFiniteSet(v) /\ v \in SUBSET S /\ v \subseteq u /\ v # u BY <2>3, FS_RemoveElement
  <2>5. SumFunctionOnSet(g, v) = SumFunctionOnSet(f, v) + SumFunctionOnSet(e, v)
    <3> HIDE DEF x
    <3>1. QED BY <2>1, <2>4
  <2>6. /\ SumFunctionOnSet(f, u) = f[x] + SumFunctionOnSet(f, v)
        /\ SumFunctionOnSet(e, u) = e[x] + SumFunctionOnSet(e, v)
        /\ SumFunctionOnSet(g, u) = g[x] + SumFunctionOnSet(g, v)
    BY <2>2, <2>3, SumTakes
  <2>7. SumFunctionOnSet(f, v) \in Int /\ SumFunctionOnSet(e, v) \in Int BY <2>4, SumTyped
  <2>8. f[x] \in Int /\ e[x] \in Int /\ g[x] = f[x] + e[x] BY <2>3
  <2>9. SumFunctionOnSet(g, u) # SumFunctionOnSet(f, u) + SumFunctionOnSet(e, u) BY <2>1
  <2> HIDE DEF x, v
  <2>10. QED BY <2>5, <2>6, <2>7, <2>8, <2>9
<1>2. S \notin B BY <1>1
<1>3. QED BY <1>2

(* Renaming the elements, no two to the same name, leaves the sum alone. *)
LEMMA SumRenamed ==
    ASSUME NEW f, NEW e, NEW m, NEW S, IsFiniteSet(S), \A x \in S : f[x] \in Int /\ e[m[x]] = f[x],
           \A x, y \in S : m[x] = m[y] => x = y
    PROVE  SumFunctionOnSet(e, {m[x] : x \in S}) = SumFunctionOnSet(f, S)
<1> DEFINE Image(u) == {m[x] : x \in u}
           B == {u \in SUBSET S : SumFunctionOnSet(e, Image(u)) # SumFunctionOnSet(f, u)}
<1>1. ASSUME B # {} PROVE FALSE
  <2>1. PICK u \in B : \A w \in B : w \subseteq u => w = u
    <3>1. B \subseteq SUBSET S OBVIOUS
    <3> HIDE DEF B
    <3>2. QED BY <1>1, <3>1, SmallestSubset
  <2>2. u # {}
    <3>1. Image({}) = {} OBVIOUS
    <3>2. SumFunctionOnSet(f, {}) = 0 /\ SumFunctionOnSet(e, {}) = 0 BY SumEmpty
    <3>3. SumFunctionOnSet(e, Image({})) = SumFunctionOnSet(f, {}) BY <3>1, <3>2
    <3>4. QED BY <2>1, <3>3
  <2> DEFINE x == Taken(u)
             v == u \ {x}
  <2>3. IsFiniteSet(u) /\ u \subseteq S /\ x \in u BY <2>1, <2>2, TakenIn, FS_Subset
  <2>4. v \in SUBSET S /\ v \subseteq u /\ v # u BY <2>3
  <2>5. SumFunctionOnSet(e, Image(v)) = SumFunctionOnSet(f, v)
    <3> HIDE DEF x
    <3>1. QED BY <2>1, <2>4
  <2>6. SumFunctionOnSet(f, u) = f[x] + SumFunctionOnSet(f, v) BY <2>2, <2>3, SumTakes
  <2>7. IsFiniteSet(Image(u))
    <3> DEFINE g == [y \in u |-> m[y]]
    <3>1. g \in Surjection(u, Image(u)) BY DEF Surjection
    <3> HIDE DEF g
    <3>2. QED BY <2>3, <3>1, FS_Surjection
  <2>8. m[x] \in Image(u) /\ Image(u) \ {m[x]} = Image(v)
    <3>1. m[x] \in Image(u) BY <2>3
    <3>2. ASSUME NEW y \in v PROVE m[y] # m[x] BY <2>3
    <3> HIDE DEF x
    <3>3. QED BY <2>3, <3>1, <3>2
  <2>9. \A z \in Image(u) : e[z] \in Int BY <2>3
  <2>10. SumFunctionOnSet(e, Image(u)) = e[m[x]] + SumFunctionOnSet(e, Image(u) \ {m[x]})
    <3> DEFINE T == Image(u)
    <3>1. IsFiniteSet(T) /\ m[x] \in T /\ \A z \in T : e[z] \in Int BY <2>7, <2>8, <2>9
    <3> HIDE DEF T
    <3>2. SumFunctionOnSet(e, T) = e[m[x]] + SumFunctionOnSet(e, T \ {m[x]}) BY <3>1, SumSplit
    <3>3. QED BY <3>2 DEF T
  <2>11. e[m[x]] = f[x] BY <2>3
  <2>12. SumFunctionOnSet(e, Image(u)) = SumFunctionOnSet(f, u) BY <2>5, <2>6, <2>8, <2>10, <2>11
  <2>13. QED BY <2>1, <2>12
<1>2. S \notin B BY <1>1
<1>3. QED BY <1>2

(* Of finitely many numbers one is the largest. *)
LEMMA LargestIsThere ==
    ASSUME NEW f, NEW S, IsFiniteSet(S), S # {}, \A x \in S : f[x] \in Int
    PROVE  \E x \in S : \A y \in S : f[y] <= f[x]
<1> DEFINE Has(u) == \E x \in u : \A y \in u : f[y] <= f[x]
           B == {u \in SUBSET S : u # {} /\ ~Has(u)}
<1>1. ASSUME B # {} PROVE FALSE
  <2>1. PICK u \in B : \A w \in B : w \subseteq u => w = u
    <3>1. B \subseteq SUBSET S OBVIOUS
    <3> HIDE DEF B
    <3>2. QED BY <1>1, <3>1, SmallestSubset
  <2>2. u \subseteq S /\ u # {} /\ ~Has(u) BY <2>1
  <2>3. PICK x \in u : TRUE BY <2>2
  <2>4. u \ {x} # {}
    <3>1. SUFFICES ASSUME u \ {x} = {} PROVE FALSE OBVIOUS
    <3>2. u = {x} BY <3>1
    <3>3. f[x] <= f[x] BY <2>2
    <3>4. Has(u) BY <3>2, <3>3
    <3>5. QED BY <2>2, <3>4
  <2>5. Has(u \ {x})
    <3>1. u \ {x} \subseteq u /\ u \ {x} # u /\ u \ {x} \in SUBSET S BY <2>2
    <3>2. u \ {x} \notin B
      <4> HIDE DEF B
      <4>1. QED BY <2>1, <3>1
    <3>3. QED BY <2>4, <3>1, <3>2
  <2>6. PICK z \in u \ {x} : \A y \in u \ {x} : f[y] <= f[z] BY <2>5
  <2>7. f[x] \in Int /\ f[z] \in Int /\ \A y \in u : f[y] \in Int BY <2>2
  <2>8. CASE f[x] <= f[z]
    <3>1. \A y \in u : f[y] <= f[z] BY <2>6, <2>8
    <3>2. QED BY <2>2, <3>1
  <2>9. CASE ~(f[x] <= f[z])
    <3>1. \A y \in u : f[y] <= f[x] BY <2>6, <2>7, <2>9
    <3>2. QED BY <2>2, <3>1
  <2>10. QED BY <2>8, <2>9
<1>2. S \notin B BY <1>1
<1>3. QED BY <1>2

(* None of the numbers added up is more than their sum. *)
LEMMA SumAtLeast ==
    ASSUME NEW f, NEW S, IsFiniteSet(S), \A x \in S : f[x] \in Nat, NEW y \in S
    PROVE  SumFunctionOnSet(f, S) \in Nat /\ f[y] <= SumFunctionOnSet(f, S)
<1> DEFINE R == S \ {y}
           n == SumFunctionOnSet(f, R)
<1>1. SumFunctionOnSet(f, S) = f[y] + n BY SumSplit
<1>2. IsFiniteSet(R) /\ \A x \in R : f[x] \in Nat BY FS_RemoveElement
<1> HIDE DEF R
<1>3. n \in Nat BY <1>2, SumNat
<1> HIDE DEF n
<1>4. f[y] \in Nat OBVIOUS
<1>5. QED BY <1>1, <1>3, <1>4

(* Those of X that m puts into v. *)
Group(X, m, v) == {x \in X : m[x] = v}

(* Adding up group by group adds up all. *)
LEMMA SumOfSums ==
    ASSUME NEW f, NEW X, IsFiniteSet(X), \A x \in X : f[x] \in Int, NEW m, NEW S, IsFiniteSet(S),
           \A x \in X : m[x] \in S, NEW g, \A v \in S : g[v] = SumFunctionOnSet(f, Group(X, m, v))
    PROVE  SumFunctionOnSet(g, S) = SumFunctionOnSet(f, X)
<1> DEFINE Groups(u) == {x \in X : m[x] \in u}
           B == {u \in SUBSET S : SumFunctionOnSet(g, u) # SumFunctionOnSet(f, Groups(u))}
<1>1. ASSUME B # {} PROVE FALSE
  <2>1. PICK u \in B : \A w \in B : w \subseteq u => w = u
    <3>1. B \subseteq SUBSET S OBVIOUS
    <3> HIDE DEF B
    <3>2. QED BY <1>1, <3>1, SmallestSubset
  <2>2. u # {}
    <3>1. Groups({}) = {} OBVIOUS
    <3>2. SumFunctionOnSet(f, {}) = 0 /\ SumFunctionOnSet(g, {}) = 0 BY SumEmpty
    <3>3. SumFunctionOnSet(g, {}) = SumFunctionOnSet(f, Groups({})) BY <3>1, <3>2
    <3>4. QED BY <2>1, <3>3
  <2> DEFINE v == Taken(u)
             w == u \ {v}
  <2>3. IsFiniteSet(u) /\ u \subseteq S /\ v \in u BY <2>1, <2>2, TakenIn, FS_Subset
  <2>4. w \in SUBSET S /\ w \subseteq u /\ w # u BY <2>3
  <2>5. SumFunctionOnSet(g, w) = SumFunctionOnSet(f, Groups(w))
    <3> HIDE DEF v
    <3>1. QED BY <2>1, <2>4
  <2>6. SumFunctionOnSet(g, u) = g[v] + SumFunctionOnSet(g, w) BY <2>2, <2>3, SumTakes
  <2>7. g[v] = SumFunctionOnSet(f, Group(X, m, v)) BY <2>3
  <2>8. SumFunctionOnSet(g, u) # SumFunctionOnSet(f, Groups(u)) BY <2>1
  <2> HIDE DEF v
  <2>9. /\ Groups(u) = Groups(w) \cup Group(X, m, v) /\ Groups(w) \cap Group(X, m, v) = {}
        /\ Groups(w) \subseteq X /\ Group(X, m, v) \subseteq X
    BY <2>3 DEF Group
  <2>10. SumFunctionOnSet(f, Groups(u)) = SumFunctionOnSet(f, Groups(w)) + SumFunctionOnSet(f, Group(X, m, v))
    <3> DEFINE P == Groups(w)
               Q == Group(X, m, v)
    <3>1. IsFiniteSet(P) /\ IsFiniteSet(Q) /\ P \cap Q = {} BY <2>9, FS_Subset
    <3>2. \A x \in P \cup Q : f[x] \in Int BY <2>9
    <3>3. Groups(u) = P \cup Q BY <2>9
    <3> HIDE DEF P, Q, Groups
    <3>4. SumFunctionOnSet(f, P \cup Q) = SumFunctionOnSet(f, P) + SumFunctionOnSet(f, Q) BY <3>1, <3>2, SumUnion
    <3>5. QED BY <3>3, <3>4 DEF P, Q
  <2>11. SumFunctionOnSet(f, Groups(w)) \in Int /\ SumFunctionOnSet(f, Group(X, m, v)) \in Int
    <3> DEFINE P == Groups(w)
               Q == Group(X, m, v)
    <3>1. IsFiniteSet(P) /\ IsFiniteSet(Q) BY <2>9, FS_Subset
    <3>2. (\A x \in P : f[x] \in Int) /\ \A x \in Q : f[x] \in Int BY <2>9
    <3> HIDE DEF P, Q
    <3>3. SumFunctionOnSet(f, P) \in Int /\ SumFunctionOnSet(f, Q) \in Int BY <3>1, <3>2, SumTyped
    <3>4. QED BY <3>3 DEF P, Q
  <2> HIDE DEF w, Groups
  <2>12. QED BY <2>5, <2>6, <2>7, <2>8, <2>10, <2>11
<1>2. S \notin B BY <1>1
<1>3. Groups(S) = X OBVIOUS
<1>4. SumFunctionOnSet(g, S) = SumFunctionOnSet(f, Groups(S)) BY <1>2
<1>5. QED BY <1>3, <1>4

=============================================================================

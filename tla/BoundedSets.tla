----------------------------- MODULE BoundedSets -----------------------------
(***************************************************************************)
(* Least and greatest elements of sets of integers: what `Max` is worth,   *)
(* which the models use for the highest of the complete blocks; induction  *)
(* over an interval and functions defined by recursion over it, which the  *)
(* models use for loops.                                                   *)
(***************************************************************************)
EXTENDS Integers, FiniteSetsExt, NaturalsInduction, WellFoundedInduction, TLAPS

\* Every set of naturals with an element has a least one.
LEMMA Least ==
    ASSUME NEW T \in SUBSET Nat, T # {}
    PROVE  \E x \in T : \A y \in T : x <= y
<1>1. \E R : IsWellFoundedOn(R, Nat) /\ \A x, y \in Nat : <<y, x>> \in R <=> y < x
  <2>1. \A x, y \in Nat : <<y, x>> \in OpToRel(<, Nat) <=> y < x
    BY DEF OpToRel
  <2> QED BY <2>1, NatLessThanWellFounded
<1>2. PICK R : IsWellFoundedOn(R, Nat) /\ \A x, y \in Nat : <<y, x>> \in R <=> y < x
  BY <1>1
<1>3. PICK x \in T : \A y \in T : ~ (<<y, x>> \in R)
  BY <1>2, WFMin, Zenon
<1>4. \A y \in T : x <= y
  <2> SUFFICES ASSUME NEW y \in T PROVE x <= y
    OBVIOUS
  <2>1. y \in Nat /\ x \in Nat
    OBVIOUS
  <2>2. ~(y < x)
    BY <1>2, <1>3, <2>1, Zenon
  <2> QED BY <2>1, <2>2
<1> QED BY <1>4

\* `Max` is the greatest element of a bounded set of integers from -1 on.
LEMMA MaxIsGreatest ==
    ASSUME NEW S \in SUBSET Int, S # {}, NEW bound \in Nat,
           \A s \in S : -1 <= s /\ s <= bound
    PROVE  Max(S) \in S /\ \A s \in S : s <= Max(S)
<1> DEFINE T == {n \in Nat : \A s \in S : s <= n - 1}
<1>1. bound + 1 \in T
  OBVIOUS
<1>2. PICK n \in T : \A m \in T : n <= m
  <2>1. T \in SUBSET Nat /\ T # {}
    BY <1>1
  <2> HIDE DEF T
  <2> QED BY <2>1, Least
<1>3. n \in Nat /\ \A s \in S : s <= n - 1
  OBVIOUS
<1>4. n - 1 \in S
  <2> SUFFICES ASSUME n - 1 \notin S PROVE FALSE
    OBVIOUS
  <2>1. \A s \in S : s <= n - 2
    BY <1>3
  <2>2. n # 0
    <3>1. PICK s \in S : TRUE
      OBVIOUS
    <3> QED BY <1>3, <2>1, <3>1
  <2>3. n - 1 \in T
    BY <1>3, <2>1, <2>2
  <2> QED BY <1>2, <1>3, <2>3
<1>5. \E x \in S : \A y \in S : x >= y
  BY <1>3, <1>4
<1>6. Max(S) \in S /\ \A y \in S : Max(S) >= y
  <2> DEFINE P(x) == \A y \in S : x >= y
  <2>1. \E x \in S : P(x)
    BY <1>5
  <2>2. (CHOOSE x \in S : P(x)) \in S /\ P(CHOOSE x \in S : P(x))
    <3> HIDE DEF P
    <3> QED BY <2>1
  <2> QED BY <2>2 DEF Max
<1> QED BY <1>6

\* Induction over an interval, for the set B of the indices that have a property.
LEMMA Induct ==
    ASSUME NEW lo \in Int, NEW hi \in Int, NEW B,
           \A i \in lo .. hi : (\A j \in lo .. i - 1 : j \in B) => i \in B
    PROVE  \A i \in lo .. hi : i \in B
<1> SUFFICES ASSUME NEW n \in lo .. hi, n \notin B PROVE FALSE
  OBVIOUS
<1> DEFINE T == {k \in Nat : lo + k <= hi /\ lo + k \notin B}
<1>1. T \in SUBSET Nat /\ n - lo \in T
  OBVIOUS
<1>2. PICK k \in T : \A j \in T : k <= j
  <2> HIDE DEF T
  <2> QED BY <1>1, Least
<1>3. \A j \in lo .. lo + k - 1 : j \in B
  <2> SUFFICES ASSUME NEW j \in lo .. lo + k - 1, j \notin B PROVE FALSE
    OBVIOUS
  <2>1. j - lo \in T
    OBVIOUS
  <2> QED BY <1>2, <2>1, SMTT(40)
<1> QED BY <1>3

\* A function on a bounded set of integers has a least value, which is `Min` of its
\* values.
LEMMA MinOfValues ==
    ASSUME NEW lo \in Int, NEW hi \in Int, NEW S \in SUBSET (lo .. hi), S # {}, NEW f \in [S -> Int]
    PROVE  Min({f[i] : i \in S}) \in Int
<1> DEFINE Leads(k, i) == \A j \in S : j <= i => f[k] <= f[j]
           B == {i \in lo .. hi : (\E j \in S : j <= i) => \E k \in S : Leads(k, i)}
<1>1. \A i \in lo .. hi : (\A j \in lo .. i - 1 : j \in B) => i \in B
  <2> SUFFICES ASSUME NEW i \in lo .. hi, \A j \in lo .. i - 1 : j \in B, NEW x \in S, x <= i
               PROVE  \E k \in S : Leads(k, i)
    OBVIOUS
  <2>1. CASE \E j \in S : j <= i - 1
    <3>1. i - 1 \in lo .. i - 1 /\ i - 1 \in Int
      BY <2>1
    <3>2. PICK k \in S : Leads(k, i - 1)
      BY <2>1, <3>1
    <3>3. CASE i \in S /\ f[i] < f[k]
      <4>1. Leads(i, i)
        <5> SUFFICES ASSUME NEW j \in S, j <= i PROVE f[i] <= f[j]
          OBVIOUS
        <5>1. j \in Int /\ f[j] \in Int /\ f[i] \in Int /\ f[k] \in Int
          BY <3>3
        <5>2. j = i \/ f[k] <= f[j]
          BY <3>2, <5>1
        <5> QED BY <3>3, <5>1, <5>2
      <4> QED BY <3>3, <4>1
    <3>4. CASE ~(i \in S /\ f[i] < f[k])
      <4>1. Leads(k, i)
        <5> SUFFICES ASSUME NEW j \in S, j <= i PROVE f[k] <= f[j]
          OBVIOUS
        <5>1. j \in Int /\ f[j] \in Int /\ f[k] \in Int
          OBVIOUS
        <5>2. j = i \/ f[k] <= f[j]
          BY <3>2, <5>1
        <5> QED BY <3>4, <5>1, <5>2
      <4> QED BY <4>1
    <3> QED BY <3>3, <3>4
  <2>2. CASE ~ \E j \in S : j <= i - 1
    <3>1. \A j \in S : j <= i => j = i
      BY <2>2
    <3>2. i \in S /\ f[i] \in Int
      BY <3>1
    <3> QED BY <3>1, <3>2
  <2> QED BY <2>1, <2>2
<1>2. \A i \in lo .. hi : i \in B
  <2> HIDE DEF B
  <2> QED BY <1>1, Induct, Zenon
<1>3. PICK x \in S : x \in lo .. hi
  OBVIOUS
<1>4. PICK k \in S : \A j \in S : f[k] <= f[j]
  <2>1. hi \in lo .. hi
    BY <1>3
  <2>2. hi \in B
    <3> HIDE DEF B
    <3> QED BY <1>2, <2>1
  <2>3. PICK k \in S : Leads(k, hi)
    BY <1>3, <2>2
  <2> QED BY <2>3
<1> DEFINE V == {f[i] : i \in S}
           P(v) == \A y \in V : v <= y
<1>5. f[k] \in V /\ P(f[k]) /\ V \subseteq Int
  BY <1>4
<1>6. (CHOOSE v \in V : P(v)) \in V
  <2> HIDE DEF P, V
  <2> QED BY <1>5
<1> QED BY <1>5, <1>6 DEF Min

\* Max of two numbers is the greater of them.
LEMMA MaxOfTwo ==
    ASSUME NEW a \in Int, NEW b \in Int
    PROVE  Max({a, b}) \in {a, b} /\ a <= Max({a, b}) /\ b <= Max({a, b})
<1> DEFINE P(x) == \A y \in {a, b} : x >= y
<1>1. \E x \in {a, b} : P(x)
  <2>1. a >= b \/ b >= a
    OBVIOUS
  <2> QED BY <2>1
<1>2. (CHOOSE x \in {a, b} : P(x)) \in {a, b} /\ P(CHOOSE x \in {a, b} : P(x))
  <2> HIDE DEF P
  <2> QED BY <1>1
<1> QED BY <1>2 DEF Max

\* The value of f at i is made from the value at par[i], unless i is a base case.
Follows(f, lo, hi, base, a, par, F) ==
    \A i \in lo .. hi : f[i] = IF i \in base THEN a[i] ELSE F[<<f[par[i]], i>>]

\* A function on an interval may be defined by recursion, with values in X[i].
LEMMA RecursiveFamily ==
    ASSUME NEW lo \in Int, NEW hi \in Int, NEW X, NEW base, NEW a, NEW par, NEW F,
           \A i \in lo .. hi : i \in base => a[i] \in X[i],
           \A i \in lo .. hi : i \notin base => par[i] \in lo .. i - 1,
           \A i \in lo .. hi : i \notin base => \A x \in X[par[i]] : F[<<x, i>>] \in X[i]
    PROVE  \E f \in [lo .. hi -> UNION {X[i] : i \in lo .. hi}] :
                Follows(f, lo, hi, base, a, par, F) /\ \A i \in lo .. hi : f[i] \in X[i]
<1> DEFINE U == UNION {X[i] : i \in lo .. hi}
           Is(f, k) == \A i \in lo .. k : f[i] = IF i \in base THEN a[i] ELSE F[<<f[par[i]], i>>]
           In(f, k) == \A i \in lo .. k : f[i] \in X[i]
           B == {k \in lo .. hi : \E f \in [lo .. k -> U] : Is(f, k) /\ In(f, k)}
<1>1. \A k \in lo .. hi : (\A j \in lo .. k - 1 : j \in B) => k \in B
  <2> SUFFICES ASSUME NEW k \in lo .. hi, \A j \in lo .. k - 1 : j \in B
               PROVE  \E f \in [lo .. k -> U] : Is(f, k) /\ In(f, k)
    OBVIOUS
  <2>0. \A g : (DOMAIN g = lo .. k /\ In(g, k) /\ g = [i \in lo .. k |-> g[i]]) => g \in [lo .. k -> U]
    OBVIOUS
  <2>1. CASE k = lo
    <3> DEFINE g == [i \in lo .. k |-> a[i]]
    <3>1. k \in base
      BY <2>1
    <3>2. In(g, k) /\ Is(g, k)
      BY <3>1, <2>1
    <3>3. g \in [lo .. k -> U]
      BY <3>2, <2>0
    <3> QED BY <3>2, <3>3
  <2>2. CASE k # lo
    <3>1. k - 1 \in B
      <4>1. k - 1 \in lo .. k - 1
        BY <2>2
      <4> HIDE DEF B
      <4> QED BY <4>1
    <3>2. PICK f \in [lo .. k - 1 -> U] : Is(f, k - 1) /\ In(f, k - 1)
      BY <3>1
    <3> DEFINE g == [i \in lo .. k |-> IF i < k THEN f[i]
                                       ELSE IF k \in base THEN a[k] ELSE F[<<f[par[k]], k>>]]
    <3>3. In(g, k)
      <4> SUFFICES ASSUME NEW i \in lo .. k PROVE g[i] \in X[i]
        OBVIOUS
      <4>1. CASE i < k
        <5>1. i \in lo .. k - 1
          BY <4>1
        <5> QED BY <3>2, <4>1, <5>1
      <4>2. CASE i = k /\ k \in base
        BY <4>2
      <4>3. CASE i = k /\ k \notin base
        <5>1. par[k] \in lo .. k - 1
          BY <4>3
        <5>2. f[par[k]] \in X[par[k]]
          BY <3>2, <5>1
        <5>3. F[<<f[par[k]], k>>] \in X[k]
          BY <5>2, <4>3
        <5> QED BY <4>3, <5>3
      <4> QED BY <4>1, <4>2, <4>3
    <3>4. Is(g, k)
      <4> SUFFICES ASSUME NEW i \in lo .. k
                   PROVE  g[i] = IF i \in base THEN a[i] ELSE F[<<g[par[i]], i>>]
        OBVIOUS
      <4>1. i \notin base => par[i] \in lo .. i - 1 /\ g[par[i]] = f[par[i]]
        BY SMTT(40)
      <4>2. CASE i < k
        <5>1. g[i] = f[i]
          BY <4>2
        <5>2. f[i] = IF i \in base THEN a[i] ELSE F[<<f[par[i]], i>>]
          BY <3>2, <4>2
        <5> HIDE DEF g
        <5> QED BY <5>1, <5>2, <4>1
      <4>3. CASE i = k
        <5>1. g[i] = IF k \in base THEN a[k] ELSE F[<<f[par[k]], k>>]
          BY <4>3
        <5> HIDE DEF g
        <5> QED BY <5>1, <4>1, <4>3
      <4> QED BY <4>2, <4>3
    <3>5. g \in [lo .. k -> U]
      <4>1. DOMAIN g = lo .. k /\ g = [i \in lo .. k |-> g[i]]
        OBVIOUS
      <4> HIDE DEF g, U
      <4> QED BY <2>0, <3>3, <4>1
    <3> QED BY <3>3, <3>4, <3>5
  <2> QED BY <2>1, <2>2
<1>2. CASE hi >= lo
  <2>1. \A k \in lo .. hi : k \in B
    <3> HIDE DEF B
    <3> QED BY <1>1, Induct
  <2>2. hi \in B
    <3> HIDE DEF B
    <3> QED BY <1>2, <2>1
  <2>3. PICK f \in [lo .. hi -> U] : Is(f, hi) /\ In(f, hi)
    BY <2>2
  <2>4. Follows(f, lo, hi, base, a, par, F)
    BY <2>3 DEF Follows
  <2> QED BY <2>3, <2>4
<1>3. CASE hi < lo
  <2> DEFINE g == [i \in lo .. hi |-> a[i]]
  <2>1. lo .. hi = {}
    BY <1>3
  <2>2. g \in [lo .. hi -> U]
    BY <2>1
  <2>3. Follows(g, lo, hi, base, a, par, F) /\ \A i \in lo .. hi : g[i] \in X[i]
    BY <2>1 DEF Follows
  <2> QED BY <2>2, <2>3
<1>4. hi >= lo \/ hi < lo
  OBVIOUS
<1> QED BY <1>2, <1>3, <1>4, Zenon

\* The same, with all values in one set.
LEMMA RecursiveFunction ==
    ASSUME NEW lo \in Int, NEW hi \in Int, NEW X, NEW base, NEW a, NEW par, NEW F,
           \A i \in lo .. hi : i \in base => a[i] \in X,
           \A i \in lo .. hi : i \notin base => par[i] \in lo .. i - 1,
           \A i \in lo .. hi, x \in X : i \notin base => F[<<x, i>>] \in X
    PROVE  \E f \in [lo .. hi -> X] : Follows(f, lo, hi, base, a, par, F)
<1> DEFINE Y == [i \in lo .. hi |-> X]
<1>1. \A i \in lo .. hi : i \in base => a[i] \in Y[i]
  OBVIOUS
<1>2. \A i \in lo .. hi : i \notin base => \A x \in Y[par[i]] : F[<<x, i>>] \in Y[i]
  <2> SUFFICES ASSUME NEW i \in lo .. hi, i \notin base, NEW x \in Y[par[i]]
               PROVE  F[<<x, i>>] \in Y[i]
    OBVIOUS
  <2>1. par[i] \in lo .. hi
    <3>1. par[i] \in lo .. i - 1
      OBVIOUS
    <3> QED BY <3>1
  <2> QED BY <2>1
<1>3. PICK f \in [lo .. hi -> UNION {Y[i] : i \in lo .. hi}] :
            Follows(f, lo, hi, base, a, par, F) /\ \A i \in lo .. hi : f[i] \in Y[i]
  <2> HIDE DEF Y
  <2> QED BY <1>1, <1>2, RecursiveFamily, Zenon
<1>4. f \in [lo .. hi -> X]
  BY <1>3
<1> QED BY <1>3, <1>4

\* f goes through a loop: a at the start, and then one step after the other.
Iterates(f, lo, hi, a, F) == \A i \in lo .. hi : f[i] = IF i = lo THEN a ELSE F[<<f[i - 1], i>>]

LEMMA LoopExists ==
    ASSUME NEW lo \in Int, NEW hi \in Int, NEW X, NEW a \in X, NEW F,
           \A i \in lo .. hi, x \in X : i # lo => F[<<x, i>>] \in X
    PROVE  \E f \in [lo .. hi -> X] : Iterates(f, lo, hi, a, F)
<1> DEFINE base == {lo}
           start == [i \in lo .. hi |-> a]
           par == [i \in lo .. hi |-> i - 1]
<1>1. \A i \in lo .. hi : i \in base => start[i] \in X
  OBVIOUS
<1>2. \A i \in lo .. hi : i \notin base => par[i] \in lo .. i - 1
  OBVIOUS
<1>3. \A i \in lo .. hi, x \in X : i \notin base => F[<<x, i>>] \in X
  OBVIOUS
<1>4. PICK f \in [lo .. hi -> X] : Follows(f, lo, hi, base, start, par, F)
  <2> HIDE DEF base, start, par
  <2> QED BY <1>1, <1>2, <1>3, RecursiveFunction, Zenon
<1>5. Iterates(f, lo, hi, a, F)
  BY <1>4 DEF Follows, Iterates
<1> QED BY <1>5

\* What holds at the start of a loop and is kept by every step holds at the end.
LEMMA LoopStays ==
    ASSUME NEW lo \in Int, NEW hi \in Int, NEW X, NEW f, f[lo] \in X,
           \A i \in lo .. hi : i # lo /\ f[i - 1] \in X => f[i] \in X
    PROVE  \A i \in lo .. hi : f[i] \in X
<1> DEFINE B == {i \in lo .. hi : f[i] \in X}
<1>1. ASSUME NEW i \in lo .. hi, \A j \in lo .. i - 1 : j \in B PROVE i \in B
  <2>1. CASE i = lo
    BY <2>1
  <2>2. CASE i # lo
    <3>1. i - 1 \in lo .. i - 1
      BY <2>2
    <3>2. f[i - 1] \in X
      BY <1>1, <3>1
    <3> QED BY <2>2, <3>2
  <2> QED BY <2>1, <2>2
<1>2. \A i \in lo .. hi : i \in B
  <2> HIDE DEF B
  <2> QED BY <1>1, Induct
<1> QED BY <1>2
=============================================================================

-------------------------- MODULE BoundedRecursion --------------------------
(***************************************************************************)
(* Induction over the natural numbers and definition by recursion up to a  *)
(* bound, stated with sets and functions instead of operator parameters.   *)
(* The loops of the code (over the steps of an expression, the fields of a *)
(* line, the lines of a file) are recursive functions of their models.     *)
(***************************************************************************)
EXTENDS Integers, WellFoundedInduction, TLAPS

(***************************************************************************)
(* Induction: a set of numbers that holds 0 and every successor is Nat.    *)
(***************************************************************************)
LEMMA NatInd ==
  ASSUME NEW T \in SUBSET Nat, 0 \in T, \A n \in T : n + 1 \in T
  PROVE  T = Nat
<1> DEFINE F == Nat \ T
           R == {ss \in Nat \X Nat : ss[1] < ss[2]}
<1> SUFFICES ASSUME F # {} PROVE FALSE
  OBVIOUS
<1>1. IsWellFoundedOn(R, Nat)
  BY NatLessThanWellFounded DEF OpToRel
<1>2. F \subseteq Nat
  OBVIOUS
<1>4. \A i, j \in Nat : i < j => <<i, j>> \in R
  OBVIOUS
<1> HIDE DEF F, R
<1>3. PICK m \in F : \A y \in F : ~ (<<y, m>> \in R)
  BY <1>1, <1>2, WFMin
<1> USE DEF F
<1>5. m # 0 /\ m \in Nat
  OBVIOUS
<1>6. m - 1 \in Nat /\ m - 1 < m
  BY <1>5
<1>7. m - 1 \in T
  BY <1>3, <1>4, <1>5, <1>6
<1>8. m - 1 + 1 = m
  BY <1>5
<1> QED
  BY <1>7, <1>8, <1>3

(***************************************************************************)
(* A set of numbers that is not empty has a least member.                  *)
(***************************************************************************)
LEMMA LeastMember ==
  ASSUME NEW P \in SUBSET Nat, P # {}
  PROVE  \E m \in P : \A k \in P : m <= k
<1> DEFINE T == {n \in Nat : \A k \in 0 .. n : k \notin P}
<1> SUFFICES ASSUME \A m \in P : \E k \in P : k < m PROVE FALSE
  OBVIOUS
<1>1. 0 \in T
  OBVIOUS
<1>2. \A n \in T : n + 1 \in T
  <2> SUFFICES ASSUME NEW n \in T, NEW k \in 0 .. n + 1, k \in P PROVE FALSE
    OBVIOUS
  <2>1. k = n + 1
    OBVIOUS
  <2>2. PICK j \in P : j < n + 1
    BY <2>1
  <2>3. j \in 0 .. n
    BY <2>2
  <2> QED
    BY <2>3
<1>3. T \in SUBSET Nat
  OBVIOUS
<1> HIDE DEF T
<1>4. T = Nat
  BY <1>1, <1>2, <1>3, NatInd
<1>5. PICK p \in P : p \in Nat
  OBVIOUS
<1>6. p \in T /\ p \in 0 .. p
  BY <1>4, <1>5
<1> QED
  BY <1>5, <1>6 DEF T

(***************************************************************************)
(* Induction up to a bound.                                                *)
(***************************************************************************)
LEMMA BoundedInd ==
  ASSUME NEW n \in Nat, NEW T \in SUBSET Nat, 0 \in T,
         \A k \in 1 .. n : k - 1 \in T => k \in T
  PROVE  \A k \in 0 .. n : k \in T
<1> DEFINE U == {k \in Nat : k <= n => k \in T}
<1>1. 0 \in U
  OBVIOUS
<1>2. ASSUME NEW k \in U PROVE k + 1 \in U
  <2> SUFFICES ASSUME k + 1 <= n PROVE k + 1 \in T
    OBVIOUS
  <2>1. k + 1 \in 1 .. n /\ k + 1 - 1 = k /\ k \in T
    OBVIOUS
  <2>2. \A j \in 1 .. n : j - 1 = k => j \in T
    BY <2>1
  <2> QED
    BY <2>1, <2>2
<1>3. U \in SUBSET Nat
  OBVIOUS
<1> HIDE DEF U
<1>4. U = Nat
  BY <1>1, <1>2, <1>3, NatInd
<1> QED
  BY <1>4 DEF U

(***************************************************************************)
(* Recursion up to n: the values 0 .. n of a function that starts with     *)
(* base and whose k-th value follows from the one before it by step[k].    *)
(***************************************************************************)
Steps(n, S) == [1 .. n -> [S -> S]]

Iterates(f, n, base, step) ==
  f = [k \in 0 .. n |-> IF k = 0 THEN base ELSE step[k][f[k - 1]]]

LEMMA RecursionExists ==
  ASSUME NEW S, NEW n \in Nat, NEW base \in S, NEW step \in Steps(n, S)
  PROVE  \E f \in [0 .. n -> S] : Iterates(f, n, base, step)
<1> USE DEF Steps
<1> DEFINE T == {m \in 0 .. n : \E f \in [0 .. m -> S] : Iterates(f, m, base, step)}
<1>1. 0 \in T
  <2>1. [k \in 0 .. 0 |-> base] \in [0 .. 0 -> S]
    OBVIOUS
  <2>2. Iterates([k \in 0 .. 0 |-> base], 0, base, step)
    BY DEF Iterates
  <2> QED
    BY <2>1, <2>2
<1>2. ASSUME NEW m \in 1 .. n, m - 1 \in T PROVE m \in T
  <2>1. PICK f \in [0 .. m - 1 -> S] : Iterates(f, m - 1, base, step)
    BY <1>2
  <2> DEFINE g == [k \in 0 .. m |-> IF k = m THEN step[m][f[m - 1]] ELSE f[k]]
  <2>2. m - 1 \in 0 .. m - 1 /\ f[m - 1] \in S
    OBVIOUS
  <2>3. step[m][f[m - 1]] \in S
    BY <2>2
  <2>4. g \in [0 .. m -> S]
    BY <2>3
  <2>5. \A k \in 0 .. m - 1 : g[k] = f[k]
    OBVIOUS
  <2>6. ASSUME NEW k \in 0 .. m
        PROVE  g[k] = IF k = 0 THEN base ELSE step[k][g[k - 1]]
    <3>1. CASE k = m
      <4>1. k # 0 /\ g[k - 1] = f[m - 1] /\ g[k] = step[m][f[m - 1]]
        BY <2>2, <3>1
      <4> QED
        BY <3>1, <4>1
    <3>2. CASE k # m
      <4>1. k \in 0 .. m - 1 /\ g[k] = f[k] /\ (k # 0 => g[k - 1] = f[k - 1])
        BY <3>2
      <4>2. f[k] = IF k = 0 THEN base ELSE step[k][f[k - 1]]
        BY <2>1, <4>1 DEF Iterates
      <4> QED
        BY <4>1, <4>2
    <3> QED
      BY <3>1, <3>2
  <2>7. Iterates(g, m, base, step)
    <3> HIDE DEF g
    <3>1. DOMAIN g = 0 .. m
      BY <2>4
    <3> QED
      BY <2>4, <2>6, <3>1 DEF Iterates
  <2> QED
    BY <2>4, <2>7
<1>3. T \in SUBSET Nat
  OBVIOUS
<1> HIDE DEF T
<1>4. \A k \in 0 .. n : k \in T
  BY <1>1, <1>2, <1>3, BoundedInd
<1>5. n \in T
  BY <1>4
<1> QED
  BY <1>5 DEF T

\* h is defined by recursion up to n, with base and step while it stays in S.
Unfolds(h, n, S, base, step) ==
  /\ h = [i \in 0 .. n |-> h[i]] /\ h[0] = base
  /\ \A k \in 1 .. n : h[k - 1] \in S => h[k] = step[k][h[k - 1]]

\* Such a function stays in S.
LEMMA RecursionTyped ==
  ASSUME NEW n \in Nat, NEW S, NEW base \in S, NEW step \in Steps(n, S),
         NEW h, Unfolds(h, n, S, base, step)
  PROVE  h \in [0 .. n -> S]
<1> USE DEF Unfolds
<1> DEFINE T == {k \in 0 .. n : h[k] \in S}
<1>1. 0 \in T /\ T \in SUBSET Nat
  OBVIOUS
<1>2. ASSUME NEW k \in 1 .. n, k - 1 \in T PROVE k \in T
  <2>1. k \in 0 .. n /\ h[k - 1] \in S /\ step[k] \in [S -> S]
    BY <1>2 DEF Steps
  <2> QED
    BY <1>2, <2>1
<1> HIDE DEF T
<1>3. \A k \in 0 .. n : k \in T
  BY <1>1, <1>2, BoundedInd
<1> QED
  BY <1>3 DEF T
=============================================================================

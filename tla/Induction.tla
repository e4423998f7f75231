------------------------------ MODULE Induction ------------------------------
(***************************************************************************)
(* Facts about the naturals the other proofs rest on, without an operator  *)
(* as a parameter: every set of naturals has a least element, so a fact    *)
(* with a least counterexample that has none below it holds of all; and a  *)
(* function that is defined by its value at 0 and a step exists.           *)
(***************************************************************************)
EXTENDS Integers, WellFoundedInduction, TLAPS

(* A nonempty set of naturals has a least element. *)
LEMMA LeastNat ==
  ASSUME NEW S \in SUBSET Nat, S # {}
  PROVE  \E n \in S : \A m \in S : n <= m
<1> DEFINE R == OpToRel(<, Nat)
<1>1. IsWellFoundedOn(R, Nat)
  BY NatLessThanWellFounded
<1>2. PICK n \in S : \A m \in S : <<m, n>> \notin R
  <2> HIDE DEF R
  <2>1. QED
    BY <1>1, WFMin
<1>3. \A m \in S : ~ (m < n)
  BY <1>2 DEF OpToRel
<1>4. QED
  BY <1>3

(* The first n + 1 values of what the step F makes of v *)
Beginnings(V, v, F, n) ==
  {h \in [0 .. n -> V] : h[0] = v /\ \A j \in 1 .. n : h[j] = F[j][h[j - 1]]}

(* A sequence of any length may be defined by its first value and a step, *)
LEMMA BeginningsExist ==
  ASSUME NEW V, NEW v \in V, NEW F \in [Nat -> [V -> V]], NEW n \in Nat
  PROVE  Beginnings(V, v, F, n) # {}
<1> DEFINE B(x) == Beginnings(V, v, F, x)
<1> DEFINE Lacking == {m \in Nat : B(m) = {}}
<1>1. SUFFICES ASSUME Lacking # {} PROVE FALSE
  OBVIOUS
<1>2. PICK m \in Lacking : \A k \in Lacking : m <= k
  <2>1. Lacking \in SUBSET Nat
    OBVIOUS
  <2> HIDE DEF Lacking
  <2>2. QED
    BY <1>1, <2>1, LeastNat
<1>3. CASE m = 0
  <2>1. [j \in 0 .. 0 |-> v] \in B(0)
    BY DEF Beginnings
  <2>2. QED
    BY <1>3, <2>1
<1>4. CASE m # 0
  <2>1. m - 1 \in Nat /\ m - 1 \notin Lacking
    BY <1>2, <1>4
  <2>2. PICK h \in B(m - 1) : TRUE
    BY <2>1
  <2> DEFINE w == F[m][h[m - 1]]
             g == [j \in 0 .. m |-> IF j = m THEN w ELSE h[j]]
  <2>3. h \in [0 .. m - 1 -> V] /\ h[0] = v /\ \A j \in 1 .. m - 1 : h[j] = F[j][h[j - 1]]
    BY <2>2 DEF Beginnings
  <2>4. w \in V
    BY <2>1, <2>3
  <2>5. g \in [0 .. m -> V] /\ g[0] = v
    BY <1>4, <2>1, <2>3, <2>4
  <2>6. ASSUME NEW j \in 1 .. m PROVE g[j] = F[j][g[j - 1]]
    BY <2>1, <2>3
  <2>7. g \in B(m)
    BY <2>5, <2>6 DEF Beginnings
  <2>8. QED
    BY <2>7
<1>5. QED
  BY <1>3, <1>4

Iterated(V, v, F) ==
  {g \in [Nat -> V] : g[0] = v /\ \A n \in Nat \ {0} : g[n] = F[n][g[n - 1]]}

(* and so may a function on the naturals. *)
LEMMA RecursionOnNat ==
  ASSUME NEW V, NEW v \in V, NEW F \in [Nat -> [V -> V]]
  PROVE  Iterated(V, v, F) # {}
<1> DEFINE B(n) == Beginnings(V, v, F, n)
<1>1. ASSUME NEW n \in Nat PROVE B(n) # {}
  BY BeginningsExist
<1>2. ASSUME NEW n \in Nat, NEW m \in Nat, NEW h \in B(n), NEW k \in B(m),
             NEW j \in Nat, j <= n, j <= m
      PROVE  h[j] = k[j]
  <2> DEFINE Unlike == {x \in 0 .. j : h[x] # k[x]}
  <2>1. SUFFICES ASSUME Unlike # {} PROVE FALSE
    BY <1>2
  <2>2. PICK x \in Unlike : \A y \in Unlike : x <= y
    <3>1. Unlike \in SUBSET Nat
      OBVIOUS
    <3> HIDE DEF Unlike
    <3>2. QED
      BY <2>1, <3>1, LeastNat
  <2>3. /\ h[0] = v /\ \A i \in 1 .. n : h[i] = F[i][h[i - 1]]
        /\ k[0] = v /\ \A i \in 1 .. m : k[i] = F[i][k[i - 1]]
    BY DEF Beginnings
  <2>4. x # 0
    BY <2>2, <2>3
  <2>5. x - 1 \in 0 .. j /\ x - 1 \notin Unlike
    BY <2>2, <2>4
  <2>6. h[x] = k[x]
    BY <1>2, <2>2, <2>3, <2>4, <2>5
  <2>7. QED
    BY <2>2, <2>6
<1> DEFINE g == [n \in Nat |-> (CHOOSE f \in B(n) : TRUE)[n]]
<1>3. ASSUME NEW n \in Nat PROVE (CHOOSE f \in B(n) : TRUE) \in B(n)
  <2> HIDE DEF B
  <2>1. QED
    BY <1>1
<1>4. ASSUME NEW n \in Nat PROVE g[n] \in V
  <2> DEFINE h == CHOOSE f \in B(n) : TRUE
  <2>1. h \in B(n) /\ g[n] = h[n]
    BY <1>3
  <2> HIDE DEF h, g
  <2>2. QED
    BY <2>1 DEF Beginnings
<1>5. g[0] = v
  <2> DEFINE h == CHOOSE f \in B(0) : TRUE
  <2>1. h \in B(0) /\ g[0] = h[0]
    BY <1>3
  <2> HIDE DEF h, g
  <2>2. QED
    BY <2>1 DEF Beginnings
<1>6. ASSUME NEW n \in Nat \ {0} PROVE g[n] = F[n][g[n - 1]]
  <2> DEFINE h == CHOOSE f \in B(n) : TRUE
             k == CHOOSE f \in B(n - 1) : TRUE
  <2>1. h \in B(n) /\ g[n] = h[n] /\ k \in B(n - 1) /\ g[n - 1] = k[n - 1]
    BY <1>3
  <2> HIDE DEF h, k, g
  <2>2. h[n] = F[n][h[n - 1]]
    BY <2>1 DEF Beginnings
  <2>3. h[n - 1] = k[n - 1]
    BY <1>2, <2>1
  <2>4. QED
    BY <2>1, <2>2, <2>3
<1>7. g \in [Nat -> V]
  BY <1>4
<1>8. QED
  <2> HIDE DEF g
  <2>1. QED
    BY <1>5, <1>6, <1>7 DEF Iterated
==============================================================================

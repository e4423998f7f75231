---------------------------- MODULE BackoffProofs ----------------------------
(***************************************************************************)
(* How often Retry calls fn and how long it waits between the calls, for   *)
(* every policy, every attempt argument and every width of a duration.     *)
(***************************************************************************)
EXTENDS Backoff, Induction, TLAPS

(* What the loop of Retry keeps true at each of its places; CallsMatchOutcome
   alone does not say that a wait is followed by another attempt. *)
LoopInv ==
  /\ attempts \in Nat \ {0} /\ i \in 1 .. attempts /\ calls \in Nat
  /\ phase \in {"call", "wait", "done"} /\ cancelled \in BOOLEAN
  /\ outcome \in {"none", "nil", "lastErr", "ctx.Err"}
  /\ phase # "done" => outcome = "none"
  /\ phase = "wait" => i < attempts
  /\ calls = (IF phase = "call" THEN i - 1 ELSE i)
  /\ outcome = "lastErr" => i = attempts
  /\ outcome = "ctx.Err" => i < attempts /\ cancelled

(* An argument of zero or less is corrected to one attempt. *)
LEMMA LoopInvInit == RetryInit => LoopInv
<1> SUFFICES ASSUME RetryInit PROVE LoopInv
  OBVIOUS
<1>1. attempts \in Nat \ {0}
  BY BackoffAssumption DEF RetryInit
<1> QED BY <1>1 DEF RetryInit, LoopInv

LEMMA LoopInvStep == LoopInv /\ [RetryNext]_backoffVars => LoopInv'
<1> SUFFICES ASSUME LoopInv, [RetryNext]_backoffVars PROVE LoopInv'
  OBVIOUS
<1> USE DEF LoopInv
<1>1. CASE CallSucceeds
  BY <1>1 DEF CallSucceeds, Finish
<1>2. CASE CallFails
  <2>1. CASE i = attempts /\ Finish("lastErr")
    BY <1>2, <2>1 DEF CallFails, Finish
  <2>2. CASE i # attempts /\ phase' = "wait" /\ UNCHANGED <<attempts, i, cancelled, outcome>>
    BY <1>2, <2>2 DEF CallFails
  <2> QED BY <1>2, <2>1, <2>2 DEF CallFails
<1>3. CASE TimerFires
  BY <1>3 DEF TimerFires
<1>4. CASE ContextDone
  BY <1>4 DEF ContextDone, Finish
<1>5. CASE Cancel
  BY <1>5 DEF Cancel
<1>6. CASE UNCHANGED backoffVars
  BY <1>6 DEF backoffVars
<1> QED BY <1>1, <1>2, <1>3, <1>4, <1>5, <1>6 DEF RetryNext

(* Retry gives up after exactly its attempts, whatever the policy and the
   argument, calls nothing after its answer, and lets a done context end it
   before the last attempt only (reconnect.go:46-75). *)
THEOREM AttemptsExact == RetrySpec => []CallsMatchOutcome
<1>1. LoopInv => CallsMatchOutcome
  BY DEF LoopInv, CallsMatchOutcome
<1> QED BY LoopInvInit, LoopInvStep, <1>1, PTL DEF RetrySpec

-----------------------------------------------------------------------------
(* What the recursive definition of Power computes *)
LEMMA PowerStep ==
  ASSUME NEW b \in Nat
  PROVE  /\ Power(b) \in [Nat -> Nat] /\ Power(b)[0] = 1
         /\ \A n \in Nat \ {0} : Power(b)[n] = b * Power(b)[n - 1]
<1> DEFINE F == [n \in Nat |-> [x \in Nat |-> b * x]]
           Step(g) == [n \in Nat |-> IF n = 0 THEN 1 ELSE b * g[n - 1]]
<1>1. F \in [Nat -> [Nat -> Nat]]
  <2>1. \A x \in Nat : b * x \in Nat
    OBVIOUS
  <2>2. QED
    BY <2>1
<1>2. PICK g \in [Nat -> Nat] : g[0] = 1 /\ \A n \in Nat \ {0} : g[n] = F[n][g[n - 1]]
  <2>1. 1 \in Nat
    OBVIOUS
  <2> HIDE DEF F
  <2>2. Iterated(Nat, 1, F) # {}
    BY <1>1, <2>1, RecursionOnNat
  <2>3. QED
    BY <2>2 DEF Iterated
<1>3. ASSUME NEW n \in Nat \ {0} PROVE g[n] = b * g[n - 1]
  <2>1. F[n][g[n - 1]] = b * g[n - 1]
    BY <1>2
  <2>2. g[n] = F[n][g[n - 1]]
    BY <1>2
  <2>3. QED
    BY <2>1, <2>2
<1>4. g = Step(g)
  BY <1>2, <1>3
<1>5. Power(b) = CHOOSE f : f = Step(f)
  BY DEF Power
<1>6. Power(b) = Step(Power(b))
  BY <1>4, <1>5
<1> DEFINE p == Power(b)
           Other == {n \in Nat : p[n] \notin Nat}
<1>7. /\ p = [n \in Nat |-> p[n]] /\ p[0] = 1
      /\ \A n \in Nat \ {0} : p[n] = b * p[n - 1]
  <2> HIDE DEF p
  <2>1. p = Step(p)
    BY <1>6 DEF p
  <2>2. QED
    BY <2>1
<1> HIDE DEF p
<1>8. Other = {}
  <2>1. SUFFICES ASSUME Other # {} PROVE FALSE
    OBVIOUS
  <2>2. PICK n \in Other : \A m \in Other : n <= m
    <3>1. Other \in SUBSET Nat
      OBVIOUS
    <3> HIDE DEF Other
    <3>2. QED
      BY <2>1, <3>1, LeastNat
  <2>3. n \in Nat \ {0} /\ n - 1 \in Nat /\ p[n] \notin Nat
    BY <1>7, <2>2
  <2>4. n - 1 \notin Other
    BY <2>2, <2>3
  <2>5. p[n - 1] \in Nat /\ p[n] = b * p[n - 1]
    BY <1>7, <2>3, <2>4
  <2>6. p[n - 1] \in Nat => b * p[n - 1] \in Nat
    <3> DEFINE x == p[n - 1]
    <3> HIDE DEF x
    <3>1. x \in Nat => b * x \in Nat
      OBVIOUS
    <3>2. QED
      BY <3>1 DEF x
  <2>7. QED
    BY <2>3, <2>5, <2>6
<1>9. p \in [Nat -> Nat]
  <2>1. \A n \in Nat : p[n] \in Nat
    BY <1>8
  <2>2. QED
    BY <1>7, <2>1
<1>10. QED
  BY <1>7, <1>9 DEF p

(* By the least exponent whose power would not be positive *)
LEMMA PowerPositive ==
  ASSUME NEW b \in Nat \ {0}, NEW n \in Nat
  PROVE  Power(b)[n] \in Nat \ {0}
<1> DEFINE Low == {m \in Nat : Power(b)[m] \notin Nat \ {0}}
<1>1. SUFFICES ASSUME Low # {} PROVE FALSE
  BY <1>1
<1>2. PICK m \in Low : \A k \in Low : m <= k
  <2>1. Low \in SUBSET Nat
    OBVIOUS
  <2> HIDE DEF Low
  <2>2. QED
    BY <1>1, <2>1, LeastNat
<1>3. m # 0
  BY PowerStep
<1>4. m - 1 \in Nat /\ Power(b)[m - 1] \in Nat \ {0}
  BY <1>2, <1>3
<1>5. Power(b)[m] = b * Power(b)[m - 1]
  BY <1>3, <1>4, PowerStep
<1>6. \A x \in Nat \ {0} : b * x \in Nat \ {0}
  OBVIOUS
<1>7. QED
  BY <1>2, <1>4, <1>5, <1>6

(* A factor above one never makes the product smaller than the base. *)
LEMMA ProductGrows ==
  ASSUME NEW base \in Nat, NEW b \in Nat \ {0}, NEW n \in Nat
  PROVE  base * Power(b)[n] \in Nat /\ base <= base * Power(b)[n]
<1>1. \A x \in Nat \ {0} : base * x \in Nat /\ base <= base * x
  OBVIOUS
<1>2. QED
  BY <1>1, PowerPositive

Durations == -MaxInt - 1 .. MaxInt

Product(p, attempt) == Normalized(p).base * Power(Normalized(p).factor)[attempt - 1]

LEMMA NormalizedWindow ==
  ASSUME NEW p \in Policies
  PROVE  /\ Normalized(p).base \in Nat \ {0} /\ Normalized(p).max \in Nat \ {0}
         /\ Normalized(p).base <= Normalized(p).max /\ Normalized(p).max <= MaxInt
         /\ Normalized(p).factor \in Nat \ {0}
  BY BackoffAssumption DEF Normalized

(* What Delay gives: a duration, and one of the window unless the product is
   no duration. *)
LEMMA DelayBounds ==
  ASSUME NEW p \in Policies, NEW attempt \in Nat \ {0}, NEW d \in Delay(p, attempt)
  PROVE  /\ d \in Durations
         /\ attempt = 1 \/ Product(p, attempt) <= MaxInt =>
              Normalized(p).base <= d /\ d <= Normalized(p).max
<1> DEFINE n == Normalized(p)
<1>1. /\ n.base \in Nat \ {0} /\ n.max \in Nat \ {0} /\ n.base <= n.max /\ n.max <= MaxInt
      /\ n.factor \in Nat \ {0} /\ MaxInt \in Nat
  BY NormalizedWindow, BackoffAssumption
<1>2. CASE attempt = 1
  BY <1>1, <1>2 DEF Delay, Durations
<1>3. CASE attempt # 1
  <2>1. Product(p, attempt) \in Nat /\ n.base <= Product(p, attempt)
    <3>1. attempt - 1 \in Nat
      BY <1>3
    <3>2. QED
      BY <1>1, <3>1, ProductGrows DEF Product
  <2>2. PICK x \in ToDuration(Product(p, attempt)) : d = IF x > n.max THEN n.max ELSE x
    BY <1>3 DEF Delay, Product
  <2> HIDE DEF n
  <2>3. x \in Durations /\ (Product(p, attempt) <= MaxInt => x = Product(p, attempt))
    BY <1>1, <2>1 DEF ToDuration, Durations
  <2>4. /\ d \in Durations
        /\ Product(p, attempt) <= MaxInt => n.base <= d /\ d <= n.max
    BY <1>1, <2>1, <2>2, <2>3 DEF Durations
  <2>5. QED
    BY <1>3, <2>4 DEF n
<1>4. QED
  BY <1>2, <1>3

(* Where the delay of a wait comes from *)
DelayInv ==
  /\ policy \in Policies /\ delay \in Durations
  /\ phase = "wait" => delay \in Delay(policy, i)
  /\ attempts \in {IF a <= 0 THEN 1 ELSE a : a \in AttemptArgs}

LEMMA DelayInvHolds == RetrySpec => []DelayInv
<1>1. RetryInit => DelayInv
  BY BackoffAssumption DEF RetryInit, DelayInv, Durations
<1>2. LoopInv /\ DelayInv /\ [RetryNext]_backoffVars => DelayInv'
  <2> SUFFICES ASSUME LoopInv, DelayInv, [RetryNext]_backoffVars PROVE DelayInv'
    OBVIOUS
  <2>1. CASE CallFails
    <3>1. delay' \in Delay(policy, i) => delay' \in Durations
      BY DelayBounds DEF LoopInv, DelayInv
    <3>2. QED
      BY <2>1, <3>1 DEF CallFails, Finish, DelayInv
  <2>2. CASE ~CallFails
    BY <2>2 DEF DelayInv, RetryNext, CallSucceeds, TimerFires, ContextDone, Cancel, Finish, backoffVars
  <2>3. QED
    BY <2>1, <2>2
<1>3. QED
  BY <1>1, <1>2, LoopInvInit, LoopInvStep, PTL DEF RetrySpec

(* Retry's variables stay in their ranges; a delay is a duration whatever
   becomes of a product that is none. *)
THEOREM RetryTyped == RetrySpec => []BackoffTypeOK
<1>1. LoopInv /\ DelayInv => BackoffTypeOK
  <2> SUFFICES ASSUME LoopInv, DelayInv PROVE BackoffTypeOK
    OBVIOUS
  <2>1. calls \in 0 .. attempts
    BY DEF LoopInv
  <2>2. QED
    BY <2>1 DEF LoopInv, DelayInv, BackoffTypeOK, Durations
<1>2. QED
  BY <1>1, DelayInvHolds, LoopInvInit, LoopInvStep, PTL DEF RetrySpec

(* Every product Retry computes is a duration. *)
ProductsFit ==
  \A p \in Policies, a \in AttemptArgs : \A k \in 2 .. a - 1 : Product(p, k) <= MaxInt

(* While the products are durations, every wait lies in the window
   (reconnect.go:33-44); run backoff_overflow shows that the premise is
   needed. *)
THEOREM WaitsInWindow == ASSUME ProductsFit PROVE RetrySpec => []DelayInWindow
<1>1. LoopInv /\ DelayInv => DelayInWindow
  <2> SUFFICES ASSUME LoopInv, DelayInv, phase = "wait"
               PROVE  Normalized(policy).base <= delay /\ delay <= Normalized(policy).max
    BY DEF DelayInWindow
  <2>1. policy \in Policies /\ i \in Nat \ {0} /\ delay \in Delay(policy, i) /\ i < attempts
    BY DEF LoopInv, DelayInv
  <2>2. i = 1 \/ Product(policy, i) <= MaxInt
    <3>1. PICK a \in AttemptArgs : attempts = IF a <= 0 THEN 1 ELSE a
      BY DEF DelayInv
    <3>2. CASE i # 1
      <4>1. i \in 2 .. a - 1
        BY <2>1, <3>1, <3>2, BackoffAssumption
      <4>2. QED
        BY <2>1, <4>1, ProductsFit DEF ProductsFit
    <3>3. QED
      BY <3>2
  <2>3. QED
    BY <2>1, <2>2, DelayBounds
<1>2. QED
  BY <1>1, DelayInvHolds, LoopInvInit, LoopInvStep, PTL DEF RetrySpec
=============================================================================

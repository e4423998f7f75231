------------------------------- MODULE Policy --------------------------------
(***************************************************************************)
(* BackoffPolicy of src/internal/transport/websocket/reconnect.go.         *)
(* A duration is a signed integer of the width MaxInt gives; the product   *)
(* of a delay is a float, and converting one that does not fit is left to  *)
(* the implementation by Go: amd64 gives the least integer, arm64 the      *)
(* greatest.                                                               *)
(***************************************************************************)
EXTENDS Integers

CONSTANTS
  DefaultBase,  \* 200 milliseconds
  DefaultMax,   \* 2 seconds
  MaxInt        \* the greatest duration

\* Mutant: MaxDelay is raised to BaseDelay before BaseDelay gets its default.
NormalizedMaxFirst(p) ==
  LET max == IF p.max < p.base THEN p.base ELSE p.max
      base == IF p.base <= 0 THEN DefaultBase ELSE p.base
  IN [base |-> base, max |-> IF max <= 0 THEN DefaultMax ELSE max,
      factor |-> IF p.factor <= 1 THEN 2 ELSE p.factor]

Normalized(p) ==
  LET base == IF p.base <= 0 THEN DefaultBase ELSE p.base
      max == IF p.max <= 0 THEN DefaultMax ELSE p.max
  IN [base |-> base, max |-> IF max < base THEN base ELSE max,
      factor |-> IF p.factor <= 1 THEN 2 ELSE p.factor]

(* The durations a float may become. *)
ToDuration(x) == IF x <= MaxInt THEN {x} ELSE {MaxInt, -MaxInt - 1}

(* math.Pow for a whole exponent, as a recursive function of it *)
Power(b) == LET power[n \in Nat] == IF n = 0 THEN 1 ELSE b * power[n - 1] IN power

(* The results BackoffPolicy.Delay may have. *)
Delay(p, attempt) ==
  LET n == Normalized(p)
  IN IF attempt <= 1 THEN {n.base}
     ELSE {IF d > n.max THEN n.max ELSE d :
             d \in ToDuration(n.base * Power(n.factor)[attempt - 1])}
=============================================================================

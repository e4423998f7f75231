------------------------------- MODULE Backoff -------------------------------
(***************************************************************************)
(* Retry of src/internal/transport/websocket/reconnect.go, with the delays *)
(* of module Policy.                                                       *)
(***************************************************************************)
EXTENDS Policy

CONSTANTS
  Policies,     \* the policies Retry is called with: [base, max, factor]
  AttemptArgs   \* the attempts it is called with, 0 and negative ones too

ASSUME BackoffAssumption ==
  /\ MaxInt \in Nat
  /\ DefaultBase \in 1 .. MaxInt
  /\ DefaultMax \in DefaultBase .. MaxInt
  /\ AttemptArgs \subseteq Int
  /\ \A p \in Policies : /\ p.base \in Int /\ p.base <= MaxInt
                         /\ p.max \in Int /\ p.max <= MaxInt
                         /\ p.factor \in Int

VARIABLES
  policy,     \* the policy of this call of Retry
  attempts,   \* its attempts after Retry's own correction
  i,          \* the loop variable
  phase,      \* "call": fn runs; "wait": the select on the timer; "done"
  delay,      \* the delay of the current or the last wait
  cancelled,  \* ctx is done
  outcome,    \* what Retry returned
  calls       \* history: how often fn was called

backoffVars == <<policy, attempts, i, phase, delay, cancelled, outcome, calls>>

-----------------------------------------------------------------------------
RetryInit ==
  /\ policy \in Policies
  /\ attempts \in {IF a <= 0 THEN 1 ELSE a : a \in AttemptArgs}
  /\ i = 1
  /\ phase = "call"
  /\ delay = 0
  /\ cancelled \in BOOLEAN
  /\ outcome = "none"
  /\ calls = 0

Finish(result) ==
  /\ phase' = "done"
  /\ outcome' = result
  /\ UNCHANGED <<policy, attempts, i, delay, cancelled>>

CallSucceeds ==
  /\ phase = "call"
  /\ calls' = calls + 1
  /\ Finish("nil")

\* Mutant: a wait after the last attempt, and with it one attempt too many.
CallFailsLate ==
  /\ phase = "call"
  /\ calls' = calls + 1
  /\ \/ /\ i = attempts + 1
        /\ Finish("lastErr")
     \/ /\ i # attempts + 1
        /\ phase' = "wait"
        /\ delay' \in Delay(policy, i)
        /\ UNCHANGED <<policy, attempts, i, cancelled, outcome>>

(* fn fails, with whatever error: the last attempt ends Retry, any other
   starts the timer. *)
CallFails ==
  /\ phase = "call"
  /\ calls' = calls + 1
  /\ \/ /\ i = attempts
        /\ Finish("lastErr")
     \/ /\ i # attempts
        /\ phase' = "wait"
        /\ delay' \in Delay(policy, i)
        /\ UNCHANGED <<policy, attempts, i, cancelled, outcome>>

(* A delay of zero or less has passed at once. *)
TimerFires ==
  /\ phase = "wait"
  /\ i' = i + 1
  /\ phase' = "call"
  /\ UNCHANGED <<policy, attempts, delay, cancelled, outcome, calls>>

ContextDone ==
  /\ phase = "wait"
  /\ cancelled
  /\ Finish("ctx.Err")
  /\ UNCHANGED calls

Cancel ==
  /\ ~cancelled
  /\ cancelled' = TRUE
  /\ UNCHANGED <<policy, attempts, i, phase, delay, outcome, calls>>

RetryNext ==
  \/ CallSucceeds \/ CallFails \/ TimerFires \/ ContextDone \/ Cancel
  \/ phase = "done" /\ cancelled /\ UNCHANGED backoffVars

RetrySpec == RetryInit /\ [][RetryNext]_backoffVars
-----------------------------------------------------------------------------
BackoffTypeOK ==
  /\ policy \in Policies
  /\ attempts \in Nat \ {0}
  /\ i \in 1 .. attempts
  /\ phase \in {"call", "wait", "done"}
  /\ delay \in -MaxInt - 1 .. MaxInt
  /\ cancelled \in BOOLEAN
  /\ outcome \in {"none", "nil", "lastErr", "ctx.Err"}
  /\ calls \in 0 .. attempts

(* Every wait lies in the window WithReconnect configures, "reconnect
   attempts and backoff window" (options.go:105): never shorter than
   BaseDelay and never longer than MaxDelay (reconnect.go:33-44). *)
DelayInWindow ==
  phase = "wait" => Normalized(policy).base <= delay /\ delay <= Normalized(policy).max

(* Retry gives up only after exactly its attempts, one for an argument of
   zero or less, and makes no call after it has its answer
   (reconnect.go:48-62). *)
CallsMatchOutcome ==
  /\ calls = (IF phase = "call" THEN i - 1 ELSE i)
  /\ outcome = "lastErr" => calls = attempts
  /\ outcome = "ctx.Err" => calls < attempts /\ cancelled
=============================================================================

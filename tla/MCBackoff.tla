------------------------------ MODULE MCBackoff ------------------------------
(* Checks Backoff for every policy with small fields, the ones normalized   *)
(* has to correct included.                                                 *)
EXTENDS Backoff

CONSTANTS Fields, Attempts

MCPolicies == [base : Fields \cup {-1}, max : Fields \cup {-1}, factor : {-1, 1, 2, 3}]
MCAttemptArgs == Attempts \cup {-1}
=============================================================================

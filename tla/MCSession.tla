------------------------------ MODULE MCSession ------------------------------
(* Checks Session with few goroutines, connections and messages.           *)
EXTENDS Session, TLC

Symmetry == Permutations(Conns) \cup Permutations(Senders) \cup Permutations(Closers)
=============================================================================

--------------------------- MODULE MCCircuitBreaker ---------------------------
(* Small instances of CircuitBreaker for TLC. *)
EXTENDS CircuitBreaker, TLC

\* Callers are only compared for equality.
Symmetry == Permutations(Callers)
=============================================================================

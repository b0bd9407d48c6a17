-------------------------- MODULE MCCircuitBreaker --------------------------
(* Finite values for CircuitBreaker.                                       *)
EXTENDS CircuitBreaker, TLC

Symmetry == Permutations(Calls)

=============================================================================

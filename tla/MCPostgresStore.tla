-------------------------- MODULE MCPostgresStore --------------------------
(* Finite instances of PostgresStore for TLC.                              *)
EXTENDS PostgresStore, TLC

Symmetry == Permutations(Commits) \cup Permutations(Compactions)

=============================================================================

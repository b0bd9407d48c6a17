--------------------------- MODULE MCTurnLifecycle ---------------------------
(* Finite values for TurnLifecycle.                                        *)
EXTENDS TurnLifecycle, TLC

Symmetry ==
    Permutations(Turns) \cup Permutations(Users) \cup Permutations(Conversations)

=============================================================================

--------------------------- MODULE MCSessionResume ---------------------------
(* Finite values for SessionResume.                                        *)
EXTENDS SessionResume, TLC

Symmetry == Permutations(Turns) \cup Permutations(Resumes)

=============================================================================

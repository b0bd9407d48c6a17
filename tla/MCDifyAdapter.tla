--------------------------- MODULE MCDifyAdapter ---------------------------
(* Finite instances of DifyAdapter for TLC.                                *)
EXTENDS DifyAdapter

=============================================================================

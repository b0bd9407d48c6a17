----------------------- MODULE MCReliableOrchestrator -----------------------
(* Finite instances of ReliableOrchestrator for TLC.                       *)
EXTENDS ReliableOrchestrator

=============================================================================

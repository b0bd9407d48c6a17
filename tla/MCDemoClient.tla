----------------------------- MODULE MCDemoClient -----------------------------
(* Finite instances of DemoClient for TLC.                                 *)
EXTENDS DemoClient

=============================================================================

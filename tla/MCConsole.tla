------------------------------ MODULE MCConsole -----------------------------
(* Model checking of Console: the sizes are in MCConsole.cfg.              *)
EXTENDS Console
=============================================================================

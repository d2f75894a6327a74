---------------------------- MODULE MCSystemTime ----------------------------
(* Instances of SystemTime for TLC.                                         *)
EXTENDS SystemTime
=============================================================================

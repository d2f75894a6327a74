---------------------------- MODULE MCEthernetIf ----------------------------
(* Model checking of EthernetIf: MCEthernetIf.cfg and MCEthernetHeld.cfg   *)
(* give the sizes of the ring, the pool and the mailbox.                   *)
EXTENDS EthernetIf
=============================================================================

------------------------------ MODULE MCUartTx ------------------------------
(* Model checking of UartTx: a ring of 3 slots, lapped by up to 8          *)
(* characters, with every placement of the interrupt.                      *)
EXTENDS UartTx

=============================================================================

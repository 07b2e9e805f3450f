----------------------------- MODULE MCUartFlash -----------------------------
(* Instances of UartFlash for TLC. *)
EXTENDS UartFlash
=============================================================================

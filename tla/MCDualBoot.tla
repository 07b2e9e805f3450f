----------------------------- MODULE MCDualBoot -----------------------------
(* Instances of DualBoot for TLC. *)
EXTENDS DualBoot
=============================================================================

----------------------------- MODULE MCDiagLog -----------------------------
(* Instances of DiagLog for TLC. *)
EXTENDS DiagLog
=============================================================================

---------------------------- MODULE MCNvmTrailer ----------------------------
(* Instances of NvmTrailer for TLC. *)
EXTENDS NvmTrailer

\* IMG_STATE_UPDATING and IMG_STATE_FINAL_FLAGS
MCStates == {112, 48}
=============================================================================

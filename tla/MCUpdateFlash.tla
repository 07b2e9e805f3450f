---------------------------- MODULE MCUpdateFlash ----------------------------
(* Small instances of UpdateFlash and of its inductive invariant. *)
EXTENDS SwapInvariant

\* Image 1 fills the partition up to the trailer, the others leave room.
MCSize == [v \in Versions |-> IF v = 1 THEN N - 1 ELSE 1]
==============================================================================

------------------------------ MODULE Trailer ------------------------------
(***************************************************************************)
(* What the trailer functions of libwolfboot.c promise their callers: one  *)
(* trailer that survives resets, and calls that change it at one instant,  *)
(* all or nothing.                                                         *)
(***************************************************************************)
EXTENDS TrailerBytes

VARIABLES
  val,  \* the trailer, as the next read sees it
  req   \* the call in progress, or NoCall

vars == <<val, req>>

Init == val = Blank /\ req = NoCall

Begin == req = NoCall /\ req' \in Calls /\ val' = val

\* a setter first marks a blank trailer as valid
Format ==
  /\ req.call \in {"state", "flag"}
  /\ ~HasMagic(val)
  /\ val' = [val EXCEPT ![0] = Magic]
  /\ req' = req

Apply ==
  /\ req # NoCall
  /\ val' = Effect(val, req)
  /\ req' = req

\* a call returns only when it has taken effect
Return == req # NoCall /\ val' = Effect(val, req) /\ req' = NoCall

\* a reset ends the call, before or after it takes effect
Reset == req # NoCall /\ val' \in {val, Effect(val, req)} /\ req' = NoCall

Next == Begin \/ Format \/ Apply \/ Return \/ Reset

\* a call that has begun takes effect and returns, unless a reset ends it
Spec ==
  /\ Init /\ [][Next]_vars
  /\ WF_vars(Apply /\ val' # val)
  /\ WF_vars(Return)
=============================================================================

----------------------------- MODULE FrameSupply -----------------------------
(***************************************************************************)
(* What the mixer takes a file source for: a number of whole frames.  Each *)
(* pull at the source's rate takes one and is answered with kNormal, as    *)
(* long as there are any, and with kError from then on; a frame whose      *)
(* resampling fails is lost; a pull at another rate takes nothing.         *)
(***************************************************************************)
EXTENDS Naturals

VARIABLES supply, answer

Init == supply \in Nat /\ answer = "none"

Pull ==
  \/ supply > 0 /\ supply' = supply - 1 /\ answer' = "kNormal"
  \/ supply = 0 /\ answer' = "kError" /\ UNCHANGED supply

Fail == supply > 0 /\ supply' = supply - 1 /\ answer' = "failed"

Refuse == answer' = "foreign rate" /\ UNCHANGED supply

Spec == Init /\ [][Pull \/ Fail \/ Refuse]_<<supply, answer>>
=============================================================================

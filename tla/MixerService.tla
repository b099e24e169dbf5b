---------------------------- MODULE MixerService ----------------------------
(***************************************************************************)
(* What AudioMixerApi promises its clients: a set of participants, and a   *)
(* Mix that takes place at one instant and delivers audio only of sources  *)
(* that are participants at that instant, at most MaxMixed of them.        *)
(***************************************************************************)
EXTENDS Integers, FiniteSets

CONSTANTS Ssrcs, MaxMixed

VARIABLES participants, output

Init == participants = {} /\ output = {}

Join(s) ==
  /\ participants' = participants \cup {s}
  /\ UNCHANGED output

Leave(s) ==
  /\ participants' = participants \ {s}
  /\ UNCHANGED output

Mix ==
  /\ output' \in SUBSET participants
  /\ Cardinality(output') <= MaxMixed
  /\ UNCHANGED participants

Next == Mix \/ \E s \in Ssrcs : Join(s) \/ Leave(s)

Spec == Init /\ [][Next]_<<participants, output>>
=============================================================================

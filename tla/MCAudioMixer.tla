---------------------------- MODULE MCAudioMixer ----------------------------
(* Symmetry for the runs without liveness: addresses are interchangeable.   *)
EXTENDS AudioMixer, TLC

AddressSymmetry == Permutations(Addresses)
=============================================================================

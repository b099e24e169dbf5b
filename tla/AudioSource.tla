----------------------------- MODULE AudioSource -----------------------------
(***************************************************************************)
(* AudioSource: ApplyVolume, on the audio thread, reads volume_ up to      *)
(* three times without a lock, UpdateVolume, on the client's thread, may   *)
(* store it in between.  A load or store of an aligned float is atomic in  *)
(* every build.  Volumes are in percent.                                   *)
(***************************************************************************)
EXTENDS Integers

CONSTANT Volumes   \* gains the client sets

ASSUME VolumeConfig == Volumes \subseteq Nat

VARIABLES
  volume_,
  stage,  \* where ApplyVolume is: the read that comes next
  gain,   \* the gain the last frame got; 100 for a frame left alone
  seen    \* history: the values volume_ had since ApplyVolume was called

volumeVars == <<volume_, stage, gain, seen>>

VolumeInit == volume_ \in Volumes /\ stage = "idle" /\ gain = 100 /\ seen = {}

UpdateVolume(volume) ==
  /\ volume_' = volume
  /\ seen' = IF stage = "idle" THEN seen ELSE seen \cup {volume}
  /\ UNCHANGED <<stage, gain>>

Call ==
  /\ stage = "idle"
  /\ stage' = "low" /\ seen' = {volume_}
  /\ UNCHANGED <<volume_, gain>>

\* volume_ < 0.99f
TestLow ==
  /\ stage = "low"
  /\ stage' = IF volume_ < 99 THEN "scale" ELSE "high"
  /\ UNCHANGED <<volume_, gain, seen>>

\* Mutant: the upper bound is not tested.
TestHighMissing ==
  /\ stage = "high"
  /\ stage' = "idle" /\ gain' = 100
  /\ UNCHANGED <<volume_, seen>>

\* || volume_ > 1.01f
TestHigh ==
  /\ stage = "high"
  /\ \/ volume_ > 101 /\ stage' = "scale" /\ UNCHANGED gain
     \/ volume_ <= 101 /\ stage' = "idle" /\ gain' = 100
  /\ UNCHANGED <<volume_, seen>>

\* ScaleWithSat(volume_, frame)
Scale ==
  /\ stage = "scale"
  /\ gain' = volume_ /\ stage' = "idle"
  /\ UNCHANGED <<volume_, seen>>

\* What ApplyVolume does once it is called.
ApplyVolume == TestLow \/ TestHigh \/ Scale

------------------------------------------------------------------------------
\* Whatever is stored between the reads of ApplyVolume, the frame gets a gain
\* within one percent of the range of the values volume_ had during the call,
\* though not always one of them: a frame may be left alone although the volume
\* went from one side of 1 to the other.
GainWithinRange ==
  stage = "idle" /\ seen # {} =>
    /\ \E v \in seen : v <= gain + 1
    /\ \E v \in seen : gain <= v + 1
=============================================================================

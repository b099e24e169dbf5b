----------------------------- MODULE TestMembers -----------------------------
(* The members of AudioMixerTestController that its parts share.             *)
VARIABLES
  _testType,
  _remainingData  \* how much of a block waits for the next callback
=============================================================================

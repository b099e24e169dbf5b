SPECIFICATION Spec
CONSTANTS
  SampleRate = 400
  ChannelNum = 2
  FrameDurationMs = 5
  ByteSizes <- MCByteSizes
  MaxRecorded = 22
INVARIANT NormalFrameIsValid

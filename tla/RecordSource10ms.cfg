SPECIFICATION Spec
CONSTANTS
  SampleRate = 200
  ChannelNum = 2
  FrameDurationMs = 10
  ByteSizes <- MCByteSizes
  MaxRecorded = 22
INVARIANT TypeOK
INVARIANT NormalFrameIsValid
INVARIANT RecordedInOrder

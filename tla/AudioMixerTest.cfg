\* Blocks of 3 samples are played, blocks of 4 elements are recorded (400 Hz, one
\* channel, 10 ms).  Resample fills its block, is one sample short or gives none.
CONSTANTS
  BlockSize = 3
  Results = {3}
  Resampled = {0, 2, 3}
  Requests = {0, 1, 2, 3, 4, 8}
  MaxPlayed = 12
  SampleRate = 400
  ChannelNum = 1
  FrameDurationMs = 10
  ByteSizes = {}
  MaxRecorded = 24
  Callbacks = {0, 1, 2, 3, 4, 9}
  MaxCaptured = 17
SPECIFICATION TestSpec
INVARIANTS FaultNeedsOverlap PlayedInOrder LossNeedsShortCallback OneBlockBuffered
PROPERTY StopEnds

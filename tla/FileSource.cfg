CONSTANTS
  Files <- LongFrames
  SampleRate = 20
  ChannelNum = 2
  MaxFrame = 3
  CodecRoom = 2
  CodecDelay = 1
  Requests = {}
  MaxTrouble = 1
  InputRate = 20
  InputChannels = 2
  InputBytes = 2
  OutputRate = 30
  OutputChannels = 1
  Delay = 3
  InputSizes = {}
  MaxFed = 12
  frame_duration_ms_ = 100
  AskedRates = {30, 48}
  Volumes = {50, 101, 200}
SPECIFICATION FairSourceSpec
INVARIANTS ResamplerTypeOK NothingPending FrameIsWhole EOFOnlyAtEnd OnlyTailUnheard GainWithinRange
PROPERTIES FileEnds ImplementsSupply

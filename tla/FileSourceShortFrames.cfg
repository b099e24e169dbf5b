CONSTANTS
  Files <- ShortFrames
  SampleRate = 30
  ChannelNum = 2
  MaxFrame = 3
  CodecRoom = 2
  CodecDelay = 0
  Requests = {}
  MaxTrouble = 0
  InputRate = 30
  InputChannels = 2
  InputBytes = 2
  OutputRate = 30
  OutputChannels = 1
  Delay = 1
  InputSizes = {}
  MaxFed = 12
  frame_duration_ms_ = 100
  AskedRates = {30, 48}
  Volumes = {100}
SPECIFICATION SourceSpec
INVARIANT EOFOnlyAtEnd

CONSTANTS
  Files <- MCFiles
  SampleRate = 20
  ChannelNum = 2
  MaxFrame = 3
  CodecRoom = 2
  CodecDelay = 1
  Requests = {1, 2}
  MaxTrouble = 1
SPECIFICATION FairDecoderSpec
INVARIANTS DecoderTypeOK NothingLost FifoBounded
PROPERTY EverythingDelivered

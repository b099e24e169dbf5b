SPECIFICATION FairSpec
CONSTANTS
  Ssrcs = {1, 2}
  Addresses = {a1, a2, a3}
  Null = Null
  OutputSampleRate = 16000
  Volumes = {1}
  Durations = {10, 11}
  MaxMixed = 1
  MaxSupply = 2
  MaxConfig = 2
  MaxRegistered = 2
PROPERTIES ImplementsService EventuallyPulled

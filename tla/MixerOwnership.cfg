SPECIFICATION Spec
CONSTANTS
  Ssrcs = {1, 2}
  Addresses = {a1, a2, a3}
  Null = Null
  OutputSampleRate = 16000
  Volumes = {1, 2}
  Durations = {10, 11}
  MaxMixed = 1
  MaxSupply = 1
  MaxConfig = 2
  MaxRegistered = 3
SYMMETRY AddressSymmetry
INVARIANT TypeOK
INVARIANT FaultNeedsBreach
INVARIANT RegisteredAreOwned
INVARIANT NothingLeaks
INVARIANT RemovalIsOfAdded

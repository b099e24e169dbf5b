SPECIFICATION Spec
CONSTANTS
  Ssrcs = {1, 2}
  Addresses = {a1, a2, a3}
  Null = Null
  OutputSampleRate = 16000
  Volumes = {1}
  Durations = {10, 11}
  MaxMixed = 1
  MaxSupply = 1
  MaxConfig = 1
  MaxRegistered = 3
SYMMETRY AddressSymmetry
INVARIANT NeverAddedTwice

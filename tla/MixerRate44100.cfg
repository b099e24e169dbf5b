SPECIFICATION Spec
CONSTANTS
  Ssrcs = {1, 2}
  Addresses = {a1, a2}
  Null = Null
  OutputSampleRate = 44100
  Volumes = {1}
  Durations = {10, 11}
  MaxMixed = 1
  MaxSupply = 1
  MaxConfig = 1
  MaxRegistered = 2
SYMMETRY AddressSymmetry
INVARIANT PreferredRateServed

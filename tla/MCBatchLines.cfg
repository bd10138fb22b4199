CONSTANTS
  WordSize = 64
  Mix <- MCMix
  MixIncrement = 23
  DefaultRegionBytes = 4
  MaxLines = 5
  MaxCalls = 2
SPECIFICATION BatchSpec
INVARIANTS
  InPoolOrder
  PositionKept

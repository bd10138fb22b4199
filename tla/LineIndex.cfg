CONSTANTS
  WordSize = 64
  Mix <- MCMix
  MixIncrement = 23
  DefaultRegionBytes = 2
  TailReadBytes = 1
  LineReadBytes = 1
  LookaheadDivisor = 1
  KernelBytes = 4
  SearchLineBytes = 3
  PageBytes = 2
  AlignedBytes = 4
  FirstOffsets = 8
  OffsetsShare = 4
  WordLanes = 2
  VectorLanes = 4
  Backends = {"scalar", "AVX", "NEON"}
  MaxBlock = 8
  Capacities = {0, 5, 8}
  Blocks <- MCBlocks
SPECIFICATION IndexSpec
INVARIANTS
  OffsetsAreLineEnds
  RoomSuffices
PROPERTIES
  IndexingEnds
CHECK_DEADLOCK FALSE

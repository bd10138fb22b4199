CONSTANTS
  WordSize = 512
  Mix <- MCMix
  MixIncrement = 23
  DefaultRegionBytes = 16
  TailReadBytes = 3
  LineReadBytes = 4
  LookaheadDivisor = 2
  PageBytes = 3
  AlignedBytes = 6
  FirstOffsets = 8
  OffsetsShare = 2
  DefaultSequentialBufferBytes = 4
  DefaultBlockBytes = 8
  DefaultMaxLineBytes = 4
  Int64Max = 255
  Platforms <- MCPlatforms
  FileSizes = {0, 4, 19}
  AskedBlocks = {0, 3, 17, 255}
  AskedLines = {0, 11, 30, 254}
  Requests <- MCRequests
  Batches = {b1}
  Elsewhere <- MCElsewhere
SPECIFICATION Spec
INVARIANTS
  OpenedIsValid
  BuffersHoldLengths
  RetainedWithinBound
CHECK_DEADLOCK FALSE

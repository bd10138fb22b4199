CONSTANTS
  WordSize = 64
  Mix <- MCMix
  MixIncrement = 23
  DefaultRegionBytes = 16
  TailReadBytes = 4
  LineReadBytes = 4
  LookaheadDivisor = 2
  Opened <- MCOpened
  MaxCycle = 1
  AheadDepth = 2
  FirstOffsets = 2
  OffsetsShare = 2
  PageBytes = 4
  AlignedBytes = 8
  Storages = {1, 2, 3, 4, 5, 6}
  Batches = {b1}
  Operations = {"Next", "NextBatch", "Reset", "Close"}
  MaxFaults = 1
  FileSizes = {21}
  BlockBytes = 8
  BlocksOfRegion = 2
  LineLimit = 2
  Reuses = {TRUE}
SPECIFICATION AheadSpec
INVARIANTS
  StorageHasOneOwner
  HeldBlocksWhole
  IdleSlotForEach

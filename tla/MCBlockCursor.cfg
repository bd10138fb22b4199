CONSTANTS
  WordSize = 64
  Mix <- MCMix
  MixIncrement = 23
  DefaultRegionBytes = 4
  Opened <- MCOpened
  MaxCycle = 1
  MaxSize = 6
  MaxShards = 3
  MaxSeed = 4
SPECIFICATION CursorSpec
INVARIANTS
  OnSchedule
  NextBlockIsNew
  ExhaustedMeansAllPassed
  ShardsPartitionBlocks

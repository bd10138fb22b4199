CONSTANTS
  WordSize = 64
  Mix <- MCMix
  MixIncrement = 23
  DefaultRegionBytes = 2
  TailReadBytes = 1
  LineReadBytes = 1
  LookaheadDivisor = 2
  Opened <- MCOpened
  Sources <- MCSources
  MaxCycle = 9
  MaxSize = 3
  Alphabet = {"LF", "Text"}
  BlockSizes = {1}
  LineLimits = {3}
  RegionSizes = {1}
  Shards = {1}
  Seeds = {1}
  Reuses = {FALSE}
  Callers = {c1, c2}
  Operations = {"Next", "Reset"}
  MaxCursor = 1
  MaxChanges = 0
  MaxFaults = 0
SPECIFICATION FairSpec
PROPERTIES
  EveryCallReturns

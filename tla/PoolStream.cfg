CONSTANTS
  WordSize = 64
  Mix <- MCMix
  MixIncrement = 23
  DefaultRegionBytes = 2
  TailReadBytes = 1
  LineReadBytes = 1
  LookaheadDivisor = 2
  Opened <- MCOpened
  Sources <- MCSources
  MaxCycle = 9
  MaxSize = 3
  Alphabet = {"LF", "Text"}
  BlockSizes = {2}
  LineLimits = {2}
  RegionSizes = {1}
  Shards = {1}
  Seeds = {1}
  Reuses = {FALSE, TRUE}
  Callers = {c1, c2}
  Operations = {"Next", "NextBatch", "Reset", "Close"}
  MaxCursor = 4
  MaxChanges = 0
  MaxFaults = 1
SYMMETRY Symmetry
SPECIFICATION Spec
INVARIANTS
  Reproducible
PROPERTIES
  ImplementsStream
  ClosedForGood

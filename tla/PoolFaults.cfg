CONSTANTS
  WordSize = 64
  Mix <- MCMix
  MixIncrement = 23
  DefaultRegionBytes = 2
  TailReadBytes = 1
  LineReadBytes = 1
  LookaheadDivisor = 1
  Opened <- MCOpened
  Sources <- MCSources
  MaxCycle = 9
  MaxSize = 3
  Alphabet = {"LF", "Text"}
  BlockSizes = {1}
  LineLimits = {2}
  RegionSizes = {1}
  Shards = {1}
  Seeds = {1}
  Reuses = {FALSE, TRUE}
  Callers = {c1}
  Operations = {"Next", "Reset"}
  MaxCursor = 3
  MaxChanges = 1
  MaxFaults = 1
SPECIFICATION Spec
INVARIANTS
  LinesIntact
  EofMeansComplete
PROPERTIES
  WalkIsBlockCursor
  CyclesComplete
  ErrorIsTerminal

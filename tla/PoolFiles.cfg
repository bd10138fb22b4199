CONSTANTS
  WordSize = 64
  Mix <- MCMix
  MixIncrement = 23
  DefaultRegionBytes = 4
  TailReadBytes = 2
  LineReadBytes = 2
  LookaheadDivisor = 2
  Opened <- MCOpened
  Sources <- MCSources
  MaxCycle = 9
  MaxSize = 5
  Alphabet = {"LF", "CR", "Text"}
  BlockSizes = {2, 4}
  LineLimits = {1, 3}
  RegionSizes = {1, 2}
  Shards = {1, 2}
  Seeds = {1}
  Reuses = {FALSE}
  Callers = {c1}
  Operations = {"Next", "NextBatch"}
  MaxCursor = 6
  MaxChanges = 0
  MaxFaults = 0
SPECIFICATION Spec
INVARIANTS
  TypeOK
  InOrderOnce
  LinesIntact
  EofMeansComplete
  LimitEnforced
  CarriedOverIsTrue

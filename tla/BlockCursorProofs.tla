------------------------- MODULE BlockCursorProofs -------------------------
(***************************************************************************)
(* The walk over blocks, for files, blocks, regions, shards, seeds and     *)
(* words of every size: it stays on the schedule that the seed, the cycle  *)
(* and the shard fix, meets no block twice, and is exhausted exactly when  *)
(* every block of the shard was passed.  Between them the shards walk every *)
(* block of the file exactly once: the permuted positions, dealt           *)
(* round-robin, leave no region out and give none to two shards.           *)
(***************************************************************************)
EXTENDS BlockCursor, ModularArithmetic, PoolLayoutProofs

\* The inductive invariant.
Invariant == CursorTypeOK /\ OnSchedule

-----------------------------------------------------------------------------
(* What the invariant says of a state. *)

\* The fields that Open sets are those of an opened pool.
LEMMA OpenedPool ==
    ASSUME CursorTypeOK
    PROVE  /\ options \in ValidOptions
           /\ cycle \in Nat
           /\ RegionsForShard(options) \in Nat
           /\ RegionCount(options) \in Nat
           /\ RegionCount(options) < WordSize
           /\ BlocksPerRegion(options) \in Nat \ {0}
           /\ BlocksPerRegion(options) < WordSize
           /\ BlockCount(options) \in Nat
           /\ regionCursor \in 0 .. RegionsForShard(options)
           /\ regionBlockNext \in Nat
           /\ regionBlocks \in Nat
           /\ WordSize \in Nat
  <1>1. options \in ValidOptions /\ cycle \in Nat
    BY OpenedAssumption DEF CursorTypeOK
  <1>2. /\ BlocksPerRegion(options) \in Nat \ {0}
        /\ BlocksPerRegion(options) < WordSize
        /\ BlockCount(options) \in Nat
        /\ BlockCount(options) < WordSize
        /\ RegionCount(options) \in 0 .. BlockCount(options)
        /\ RegionsForShard(options) \in Nat
    BY <1>1, LayoutFacts
  <1>3. /\ regionCursor \in 0 .. RegionsForShard(options)
        /\ regionBlocks \in 0 .. BlocksPerRegion(options)
        /\ regionBlockNext \in 0 .. regionBlocks
    BY DEF CursorTypeOK
  <1> QED
    BY <1>1, <1>2, <1>3, WordAssumption, SMT

\* The region entered last.
Entered == ShardRegion(options, cycle, regionCursor - 1)

\* Once a region was entered, the walk is in a region of the file.
LEMMA InRegion ==
    ASSUME Invariant, regionCursor > 0
    PROVE  /\ regionCursor - 1 \in 0 .. RegionsForShard(options) - 1
           /\ Entered \in 0 .. RegionCount(options) - 1
           /\ regionBlockBase = RegionBase(options, Entered)
           /\ regionBlocks = RegionLength(options, Entered)
           /\ taken \cup skipped =
                  FirstBlocks(options, cycle, regionCursor - 1) \cup PassedInRegion
           /\ regionBlockBase \in Nat
           /\ regionBlocks \in Nat \ {0}
           /\ regionBlocks < WordSize
           /\ regionBlockBase + regionBlocks <= BlockCount(options)
           /\ regionRotation \in 0 .. regionBlocks - 1
  <1>1. options \in ValidOptions /\ cycle \in Nat
    BY OpenedPool DEF Invariant
  <1>2. regionCursor - 1 \in 0 .. RegionsForShard(options) - 1
    BY OpenedPool, SMT DEF Invariant
  <1>3. Entered \in 0 .. RegionCount(options) - 1
    BY <1>1, <1>2, ShardRegionInRange DEF Entered
  <1>4. /\ regionBlockBase = RegionBase(options, Entered)
        /\ regionBlocks = RegionLength(options, Entered)
        /\ regionRotation = Rotation(options, cycle, Entered)
        /\ taken \cup skipped =
               FirstBlocks(options, cycle, regionCursor - 1) \cup PassedInRegion
    BY DEF Invariant, OnSchedule, Entered
  <1>5. /\ RegionBase(options, Entered) \in Nat
        /\ RegionLength(options, Entered) \in 1 .. BlocksPerRegion(options)
        /\ RegionBase(options, Entered) + RegionLength(options, Entered) <= BlockCount(options)
    BY <1>1, <1>3, RegionLiesInFile
  <1>6. Rotation(options, cycle, Entered) \in 0 .. RegionLength(options, Entered) - 1
    BY <1>1, <1>3, RotationInRegion
  <1>7. /\ BlocksPerRegion(options) \in Nat /\ BlocksPerRegion(options) < WordSize
        /\ WordSize \in Nat
    BY OpenedPool, SMT DEF Invariant
  <1>8. regionBlocks \in Nat \ {0} /\ regionBlocks < WordSize
    BY <1>4, <1>5, <1>7, SMT
  <1> QED
    BY <1>2, <1>3, <1>4, <1>5, <1>6, <1>8

\* While a region is not done, the walk's position is one of its blocks.
LEMMA PositionInRegion ==
    ASSUME Invariant, ~ RegionDone
    PROVE  /\ regionCursor > 0
           /\ regionBlockNext \in 0 .. regionBlocks - 1
           /\ CurrentBlock \in RegionBlocksOf(options, Entered)
           /\ CurrentBlock \in 0 .. BlockCount(options) - 1
  <1>1. /\ regionBlockNext \in Nat /\ regionBlocks \in Nat
        /\ regionCursor \in Nat /\ BlockCount(options) \in Nat
    BY OpenedPool, SMT DEF Invariant
  <1>2. regionBlockNext \in 0 .. regionBlocks - 1
    BY <1>1, SMT DEF RegionDone
  <1>3. regionCursor > 0
    <2> SUFFICES ASSUME regionCursor = 0
                 PROVE  FALSE
      BY <1>1, SMT
    <2>1. regionBlocks = 0
      BY DEF Invariant, OnSchedule
    <2> QED
      BY <1>2, <2>1, SMT
  <1>4. /\ regionBlockBase = RegionBase(options, Entered)
        /\ regionBlocks = RegionLength(options, Entered)
        /\ regionBlockBase \in Nat
        /\ regionBlocks \in Nat \ {0}
        /\ regionBlocks < WordSize
        /\ regionBlockBase + regionBlocks <= BlockCount(options)
        /\ regionRotation \in 0 .. regionBlocks - 1
    BY <1>3, InRegion
  <1>5. AddModulo(regionRotation, regionBlockNext, regionBlocks) \in 0 .. regionBlocks - 1
    BY <1>2, <1>4, RotatedBlocksAreAll
  <1>6. CurrentBlock \in regionBlockBase .. regionBlockBase + regionBlocks - 1
    BY <1>4, <1>5, SMT DEF CurrentBlock
  <1>7. CurrentBlock \in RegionBlocksOf(options, Entered)
    BY <1>4, <1>6 DEF RegionBlocksOf
  <1>8. CurrentBlock \in 0 .. BlockCount(options) - 1
    BY <1>1, <1>4, <1>6, SMT
  <1> QED
    BY <1>2, <1>3, <1>7, <1>8

\* One more region adds its blocks.
LEMMA OneMoreRegion ==
    ASSUME NEW o, NEW c, NEW k \in Nat \ {0}
    PROVE  FirstBlocks(o, c, k) =
               FirstBlocks(o, c, k - 1) \cup RegionBlocksOf(o, ShardRegion(o, c, k - 1))
  <1>1. 0 .. k - 1 = (0 .. (k - 1) - 1) \cup {k - 1}
    BY SMT
  <1> QED
    BY <1>1 DEF FirstBlocks

\* No region was walked before the first one.
LEMMA NoRegion ==
    ASSUME NEW o, NEW c
    PROVE  FirstBlocks(o, c, 0) = {}
  <1>1. 0 .. 0 - 1 = {}
    BY SMT
  <1> QED
    BY <1>1 DEF FirstBlocks

\* When a region is done, what was passed is the regions entered so far.
LEMMA DoneMeansAllOfRegions ==
    ASSUME Invariant, RegionDone
    PROVE  taken \cup skipped = FirstBlocks(options, cycle, regionCursor)
  <1>1. regionCursor \in Nat
    BY OpenedPool, SMT DEF Invariant
  <1>2. CASE regionCursor = 0
    BY <1>2, NoRegion DEF Invariant, OnSchedule
  <1>3. CASE regionCursor > 0
    <2>1. regionBlockNext = regionBlocks
      <3>1. regionBlockNext \in 0 .. regionBlocks /\ regionBlocks \in Nat
        BY OpenedPool DEF Invariant, CursorTypeOK
      <3> QED
        BY <3>1, SMT DEF RegionDone
    <2>2. { AddModulo(regionRotation, j, regionBlocks) : j \in 0 .. regionBlocks - 1 }
            = 0 .. regionBlocks - 1
      BY <1>3, InRegion, RotatedBlocksAreAll
    <2>3. PassedInRegion = { regionBlockBase + r : r \in 0 .. regionBlocks - 1 }
      BY <2>1, <2>2 DEF PassedInRegion
    <2>4. regionBlockBase \in Nat /\ regionBlocks \in Nat
      BY <1>3, InRegion
    <2>5. { regionBlockBase + r : r \in 0 .. regionBlocks - 1 }
            = regionBlockBase .. regionBlockBase + regionBlocks - 1
      <3>1. ASSUME NEW x \in regionBlockBase .. regionBlockBase + regionBlocks - 1
            PROVE  x \in { regionBlockBase + r : r \in 0 .. regionBlocks - 1 }
        <4>1. x - regionBlockBase \in 0 .. regionBlocks - 1
                /\ x = regionBlockBase + (x - regionBlockBase)
          BY <2>4, SMT
        <4> QED
          BY <4>1
      <3>2. \A r \in 0 .. regionBlocks - 1 :
              regionBlockBase + r \in regionBlockBase .. regionBlockBase + regionBlocks - 1
        BY <2>4, SMT
      <3> QED
        BY <3>1, <3>2
    <2>6. PassedInRegion = RegionBlocksOf(options, Entered)
      BY <1>3, <2>3, <2>5, InRegion DEF RegionBlocksOf
    <2>7. regionCursor \in Nat \ {0}
      BY <1>1, <1>3, SMT
    <2> QED
      BY <1>3, <2>6, <2>7, InRegion, OneMoreRegion DEF Entered
  <1> QED
    BY <1>1, <1>2, <1>3, SMT

-----------------------------------------------------------------------------
(* The invariant implies the properties. *)

\* The block the walk comes to was not met in an earlier region.
LEMMA NotInEarlierRegion ==
    ASSUME Invariant, ~ RegionDone
    PROVE  CurrentBlock \notin FirstBlocks(options, cycle, regionCursor - 1)
  <1> SUFFICES ASSUME NEW k \in 0 .. (regionCursor - 1) - 1,
                      CurrentBlock \in RegionBlocksOf(options, ShardRegion(options, cycle, k))
               PROVE  FALSE
    BY DEF FirstBlocks
  <1>1. options \in ValidOptions /\ cycle \in Nat
    BY OpenedPool DEF Invariant
  <1>2. /\ regionCursor - 1 \in 0 .. RegionsForShard(options) - 1
        /\ Entered \in 0 .. RegionCount(options) - 1
        /\ CurrentBlock \in RegionBlocksOf(options, Entered)
    BY InRegion, PositionInRegion
  <1>3. k \in 0 .. RegionsForShard(options) - 1 /\ k # regionCursor - 1
    BY <1>2, OpenedPool, SMT DEF Invariant
  <1>4. ShardRegion(options, cycle, k) \in 0 .. RegionCount(options) - 1
    BY <1>1, <1>3, ShardRegionInRange
  <1>5. ShardRegion(options, cycle, k) # Entered
    BY <1>1, <1>2, <1>3, ShardRegionsDiffer DEF Entered
  <1>6. RegionBlocksOf(options, ShardRegion(options, cycle, k))
          \cap RegionBlocksOf(options, Entered) = {}
    BY <1>1, <1>2, <1>4, <1>5, RegionsAreDisjoint
  <1> QED
    BY <1>2, <1>6

\* Nor earlier in this region.
LEMMA NotEarlierInRegion ==
    ASSUME Invariant, ~ RegionDone
    PROVE  CurrentBlock \notin PassedInRegion
  <1> SUFFICES ASSUME NEW j \in 0 .. regionBlockNext - 1,
                      CurrentBlock = regionBlockBase + AddModulo(regionRotation, j, regionBlocks)
               PROVE  FALSE
    BY DEF PassedInRegion
  <1>1. /\ regionBlockBase \in Nat
        /\ regionBlocks \in Nat \ {0}
        /\ regionBlocks < WordSize
        /\ regionRotation \in 0 .. regionBlocks - 1
        /\ regionBlockNext \in 0 .. regionBlocks - 1
    BY InRegion, PositionInRegion
  <1>2. j \in 0 .. regionBlocks - 1 /\ j # regionBlockNext
    BY <1>1, SMT
  <1>3. /\ AddModulo(regionRotation, j, regionBlocks) \in 0 .. regionBlocks - 1
        /\ AddModulo(regionRotation, regionBlockNext, regionBlocks) \in 0 .. regionBlocks - 1
    BY <1>1, <1>2, RotatedBlocksAreAll
  <1>4. AddModulo(regionRotation, j, regionBlocks)
          = AddModulo(regionRotation, regionBlockNext, regionBlocks)
    BY <1>1, <1>3, SMT DEF CurrentBlock
  <1> QED
    BY <1>1, <1>2, <1>4, RotatedBlocksDiffer

\* On schedule, the next block is new and lies in the file.
LEMMA InvariantGivesNewBlock ==
    ASSUME Invariant
    PROVE  NextBlockIsNew
  <1> SUFFICES ASSUME ~ RegionDone
               PROVE  /\ CurrentBlock \notin taken \cup skipped
                      /\ CurrentBlock < BlockCount(options)
    BY DEF NextBlockIsNew
  <1>1. taken \cup skipped =
            FirstBlocks(options, cycle, regionCursor - 1) \cup PassedInRegion
    BY PositionInRegion, InRegion
  <1>2. CurrentBlock < BlockCount(options)
    <2>1. CurrentBlock \in 0 .. BlockCount(options) - 1
      BY PositionInRegion
    <2>2. BlockCount(options) \in Nat
      BY OpenedPool DEF Invariant
    <2> QED
      BY <2>1, <2>2, SMT
  <1> QED
    BY <1>1, <1>2, NotInEarlierRegion, NotEarlierInRegion

\* On schedule, an exhausted walk has passed the blocks of the shard.
LEMMA InvariantGivesAllPassed ==
    ASSUME Invariant
    PROVE  ExhaustedMeansAllPassed
  BY DoneMeansAllOfRegions DEF ExhaustedMeansAllPassed, Exhausted, ShardBlocks

-----------------------------------------------------------------------------
(* The invariant holds in every state. *)

\* A cycle that has just started is on schedule.
LEMMA StartedIsOnSchedule ==
    ASSUME NEW o \in ValidOptions, NEW c \in Nat
    PROVE  /\ FirstRegion(o, c) \in 0 .. Greater(0, RegionCount(o) - 1)
           /\ RegionAdvance(o, c) \in 0 .. RegionCount(o)
           /\ 0 < RegionsForShard(o) => FirstRegion(o, c) = ShardRegion(o, c, 0)
  BY FirstRegionInRange, RegionAdvanceInRange, FirstShardRegion

\* A pool just opened satisfies the invariant.
LEMMA InitInvariant == CursorInit => Invariant
  <1> SUFFICES ASSUME CursorInit
               PROVE  Invariant
    OBVIOUS
  <1>1. options \in Opened /\ options \in ValidOptions
    BY OpenedAssumption DEF CursorInit
  <1>2. /\ RegionsForShard(options) \in Nat
        /\ BlockCount(options) \in Nat
        /\ BlocksPerRegion(options) \in Nat \ {0}
    BY <1>1, LayoutFacts
  <1>3. /\ FirstRegion(options, 0) \in 0 .. Greater(0, RegionCount(options) - 1)
        /\ RegionAdvance(options, 0) \in 0 .. RegionCount(options)
        /\ 0 < RegionsForShard(options) => FirstRegion(options, 0) = ShardRegion(options, 0, 0)
    BY <1>1, StartedIsOnSchedule
  <1>4. CursorTypeOK
    BY <1>1, <1>2, <1>3, SMT DEF CursorInit, CursorTypeOK, NoBlock
  <1>5. OnSchedule
    BY <1>3, SMT DEF CursorInit, OnSchedule
  <1> QED
    BY <1>4, <1>5 DEF Invariant

\* startCycleLocked, for an automatic cycle or a Reset, puts the walk on the
\* schedule of the cycle it starts.
LEMMA StartCyclePreserves ==
    ASSUME Invariant, NEW c \in Nat, StartCycle(c)
    PROVE  Invariant'
  <1>1. options \in ValidOptions
    BY OpenedPool DEF Invariant
  <1>2. /\ RegionsForShard(options) \in Nat
        /\ BlockCount(options) \in Nat
        /\ BlocksPerRegion(options) \in Nat \ {0}
    BY OpenedPool DEF Invariant
  <1>3. /\ FirstRegion(options, c) \in 0 .. Greater(0, RegionCount(options) - 1)
        /\ RegionAdvance(options, c) \in 0 .. RegionCount(options)
        /\ 0 < RegionsForShard(options) => FirstRegion(options, c) = ShardRegion(options, c, 0)
    BY <1>1, StartedIsOnSchedule
  <1>4. /\ options' = options /\ cycle' = c
        /\ regionCursor' = 0 /\ regionBlockNext' = 0 /\ regionBlocks' = 0
        /\ continuationStart' = 0 /\ continuationEnd' = 0
        /\ nextRegion' = FirstRegion(options, c)
        /\ regionAdvance' = RegionAdvance(options, c)
        /\ block' = NoBlock /\ taken' = {} /\ skipped' = {}
        /\ regionBlockBase' = regionBlockBase /\ regionRotation' = regionRotation
    BY DEF StartCycle
  <1>5. CursorTypeOK'
    BY <1>2, <1>3, <1>4, SMT DEF Invariant, CursorTypeOK, NoBlock
  <1>6. OnSchedule'
    BY <1>3, <1>4, SMT DEF OnSchedule
  <1> QED
    BY <1>5, <1>6 DEF Invariant

\* The walk passes its current block, taken or skipped.
LEMMA PassingPreserves ==
    ASSUME Invariant, ~ RegionDone,
           regionBlockNext' = regionBlockNext + 1,
           UNCHANGED <<options, cycle, regionVars>>,
           (taken \cup skipped)' = (taken \cup skipped) \cup {CurrentBlock}
    PROVE  OnSchedule' /\ regionBlockNext' \in 0 .. regionBlocks'
  <1>1. /\ options' = options /\ cycle' = cycle /\ regionCursor' = regionCursor
        /\ nextRegion' = nextRegion /\ regionAdvance' = regionAdvance
        /\ regionBlockBase' = regionBlockBase /\ regionBlocks' = regionBlocks
        /\ regionRotation' = regionRotation
    BY DEF regionVars
  <1>2. /\ regionCursor > 0
        /\ regionBlockNext \in 0 .. regionBlocks - 1
        /\ regionBlocks \in Nat
        /\ regionCursor \in Nat
    BY PositionInRegion, OpenedPool, SMT DEF Invariant
  <1>3. 0 .. regionBlockNext' - 1 = (0 .. regionBlockNext - 1) \cup {regionBlockNext}
    BY <1>2, SMT
  <1>4. PassedInRegion' = PassedInRegion \cup {CurrentBlock}
    BY <1>1, <1>3 DEF PassedInRegion, CurrentBlock
  <1>5. (taken \cup skipped)' =
            FirstBlocks(options, cycle, regionCursor - 1) \cup PassedInRegion'
    BY <1>2, <1>4, InRegion
  <1>6. regionCursor # 0
    BY <1>2, SMT
  <1>7. OnSchedule'
    BY <1>1, <1>5, <1>6 DEF Invariant, OnSchedule
  <1> QED
    BY <1>1, <1>2, <1>7, SMT

\* loadNextBlockLocked takes the current block.
LEMMA TakeBlockPreserves ==
    ASSUME Invariant, TakeBlock
    PROVE  Invariant'
  <1>1. CurrentBlock \in 0 .. BlockCount(options) - 1
    BY PositionInRegion DEF TakeBlock
  <1>2. OnSchedule' /\ regionBlockNext' \in 0 .. regionBlocks'
    <2>1. (taken \cup skipped)' = (taken \cup skipped) \cup {CurrentBlock}
      BY DEF TakeBlock
    <2> QED
      BY <2>1, PassingPreserves DEF TakeBlock
  <1>3. CursorTypeOK'
    BY <1>1, <1>2 DEF Invariant, CursorTypeOK, TakeBlock, regionVars, continuationVars
  <1> QED
    BY <1>2, <1>3 DEF Invariant

\* loadNextBlockLocked skips the current block.
LEMMA SkipBlockPreserves ==
    ASSUME Invariant, SkipBlock
    PROVE  Invariant'
  <1>1. CurrentBlock \in 0 .. BlockCount(options) - 1
    BY PositionInRegion DEF SkipBlock
  <1>2. OnSchedule' /\ regionBlockNext' \in 0 .. regionBlocks'
    <2>1. (taken \cup skipped)' = (taken \cup skipped) \cup {CurrentBlock}
      BY DEF SkipBlock
    <2> QED
      BY <2>1, PassingPreserves DEF SkipBlock
  <1>3. CursorTypeOK'
    BY <1>1, <1>2 DEF Invariant, CursorTypeOK, SkipBlock, regionVars, continuationVars
  <1> QED
    BY <1>2, <1>3 DEF Invariant

\* loadNextBlockLocked enters the next region of the shard.
LEMMA EnterRegionPreserves ==
    ASSUME Invariant, EnterRegion
    PROVE  Invariant'
  <1> DEFINE entering == ShardRegion(options, cycle, regionCursor)
             count    == RegionsForShard(options)
  <1>1. /\ options \in ValidOptions /\ cycle \in Nat
        /\ count \in Nat /\ RegionCount(options) \in Nat
        /\ RegionCount(options) < WordSize
        /\ BlocksPerRegion(options) \in Nat \ {0}
        /\ BlockCount(options) \in Nat
        /\ regionCursor \in 0 .. count
    BY OpenedPool DEF Invariant
  <1>2. regionCursor \in 0 .. count - 1 /\ regionCursor < count
    BY <1>1, SMT DEF EnterRegion
  <1>3. nextRegion = entering
    BY <1>2 DEF Invariant, OnSchedule
  <1>4. entering \in 0 .. RegionCount(options) - 1
    BY <1>1, <1>2, ShardRegionInRange
  <1>5. /\ RegionBase(options, entering) \in Nat
        /\ RegionLength(options, entering) \in 1 .. BlocksPerRegion(options)
        /\ RegionBase(options, entering) + RegionLength(options, entering) <= BlockCount(options)
        /\ Rotation(options, cycle, entering) \in 0 .. RegionLength(options, entering) - 1
    BY <1>1, <1>4, RegionLiesInFile, RotationInRegion
  <1>6. /\ options' = options /\ cycle' = cycle
        /\ regionCursor' = regionCursor + 1
        /\ nextRegion' = AddModulo(entering, regionAdvance, RegionCount(options))
        /\ regionAdvance' = regionAdvance
        /\ regionBlockBase' = RegionBase(options, entering)
        /\ regionBlocks' = RegionLength(options, entering)
        /\ regionBlockNext' = 0
        /\ regionRotation' = Rotation(options, cycle, entering)
        /\ continuationStart' = continuationStart /\ continuationEnd' = continuationEnd
        /\ block' = block /\ taken' = taken /\ skipped' = skipped
    BY <1>3 DEF EnterRegion, continuationVars, historyVars
  <1>7. nextRegion' \in 0 .. Greater(0, RegionCount(options) - 1)
    <2>1. /\ nextRegion \in 0 .. Greater(0, RegionCount(options) - 1)
          /\ regionAdvance \in 0 .. RegionCount(options)
      BY DEF Invariant, CursorTypeOK
    <2> QED
      BY <1>1, <1>3, <1>6, <2>1, AddModuloInRange
  <1>8. CursorTypeOK'
    <2> HIDE DEF entering
    <2>1. /\ regionBlockBase' \in 0 .. BlockCount(options)
          /\ regionBlocks' \in 0 .. BlocksPerRegion(options)
          /\ regionRotation' \in 0 .. BlocksPerRegion(options) - 1
          /\ regionBlockNext' \in 0 .. regionBlocks'
          /\ regionCursor' \in 0 .. count
      BY <1>1, <1>2, <1>5, <1>6, SMT
    <2> QED
      BY <1>6, <1>7, <2>1 DEF Invariant, CursorTypeOK
  <1>9. OnSchedule'
    <2>1. regionAdvance' = RegionAdvance(options', cycle')
      BY <1>6 DEF Invariant, OnSchedule
    <2>2. ASSUME regionCursor' < RegionsForShard(options')
          PROVE  nextRegion' = ShardRegion(options', cycle', regionCursor')
      <3>1. regionCursor \in Nat /\ regionCursor + 1 < RegionsForShard(options)
        BY <1>2, <1>6, <2>2, <1>1, SMT
      <3> QED
        BY <1>1, <1>6, <2>1, <3>1, NextShardRegion
    <2>3. regionCursor' # 0 /\ regionCursor' - 1 = regionCursor
      BY <1>1, <1>6, SMT
    <2>4. PassedInRegion' = {}
      <3>1. 0 .. regionBlockNext' - 1 = {}
        BY <1>6, SMT
      <3> QED
        BY <3>1 DEF PassedInRegion
    <2>5. taken' \cup skipped' = FirstBlocks(options', cycle', regionCursor' - 1)
      BY <1>6, <2>3, DoneMeansAllOfRegions DEF EnterRegion
    <2> QED
      BY <1>6, <2>1, <2>2, <2>3, <2>4, <2>5 DEF OnSchedule
  <1> QED
    BY <1>8, <1>9 DEF Invariant

\* The last line of a block runs on to a later block.
LEMMA ContinueLinePreserves ==
    ASSUME Invariant, NEW end \in 0 .. BlockCount(options), block + 1 <= end,
           ContinueLine(end)
    PROVE  Invariant'
  <1>1. BlockCount(options) \in Nat
    BY OpenedPool DEF Invariant
  <1>2. continuationStart' \in 0 .. BlockCount(options)
    <2>1. block \in 0 .. BlockCount(options) - 1
      BY DEF Invariant, CursorTypeOK, ContinueLine
    <2> QED
      BY <1>1, <2>1, SMT DEF ContinueLine
  <1>3. CursorTypeOK'
    BY <1>2 DEF Invariant, CursorTypeOK, ContinueLine, regionVars, historyVars
  <1>4. OnSchedule'
    BY DEF Invariant, OnSchedule, PassedInRegion, ContinueLine, regionVars, historyVars
  <1> QED
    BY <1>3, <1>4 DEF Invariant

\* Every step of the walk keeps it on schedule.
LEMMA NextInvariant == Invariant /\ [CursorNext]_cursorVars => Invariant'
  <1> SUFFICES ASSUME Invariant, [CursorNext]_cursorVars
               PROVE  Invariant'
    OBVIOUS
  <1>1. CASE TakeBlock
    BY <1>1, TakeBlockPreserves
  <1>2. CASE SkipBlock
    BY <1>2, SkipBlockPreserves
  <1>3. CASE EnterRegion
    BY <1>3, EnterRegionPreserves
  <1>4. CASE NextCycle
    <2>1. cycle + 1 \in Nat
      BY OpenedPool, SMT DEF Invariant
    <2> QED
      BY <1>4, <2>1, StartCyclePreserves DEF NextCycle
  <1>5. CASE Rewind
    BY <1>5, StartCyclePreserves, SMT DEF Rewind
  <1>6. CASE \E end \in 0 .. BlockCount(options) : block + 1 <= end /\ ContinueLine(end)
    BY <1>6, ContinueLinePreserves
  <1>7. CASE UNCHANGED cursorVars
    BY <1>7 DEF Invariant, CursorTypeOK, OnSchedule, PassedInRegion, cursorVars,
                regionVars, continuationVars, historyVars
  <1> QED
    BY <1>1, <1>2, <1>3, <1>4, <1>5, <1>6, <1>7 DEF CursorNext

\* The walk keeps to the order that the seed, the cycle and the shard fix.
THEOREM WalkStaysOnSchedule == CursorSpec => [](CursorTypeOK /\ OnSchedule)
  <1>1. Invariant => CursorTypeOK /\ OnSchedule
    BY DEF Invariant
  <1> QED
    BY <1>1, InitInvariant, NextInvariant, PTL DEF CursorSpec

\* No block is loaded or skipped twice in a cycle, and none beyond the file.
THEOREM NoBlockTwice == CursorSpec => []NextBlockIsNew
  BY InitInvariant, NextInvariant, InvariantGivesNewBlock, PTL DEF CursorSpec

\* An exhausted walk has passed every block of the shard and no other.
THEOREM ExhaustedIsComplete == CursorSpec => []ExhaustedMeansAllPassed
  BY InitInvariant, NextInvariant, InvariantGivesAllPassed, PTL DEF CursorSpec

-----------------------------------------------------------------------------
(* The permutation is onto. *)

\* Every index has a position in the order permutationParams fixes.
THEOREM PermutationIsSurjective ==
    ASSUME NEW count \in Nat \ {0, 1}, NEW seed \in Words, NEW r \in 0 .. count - 1
    PROVE  \E p \in 0 .. count - 1 :
               (PermutationFirst(count, seed) + PermutationStep(count, seed) * p) % count = r
  <1> DEFINE S == 0 .. count - 1
             Stands(p) == (PermutationFirst(count, seed) + PermutationStep(count, seed) * p) % count
             f == [p \in S |-> Stands(p)]
  <1>1. \A p \in S : Stands(p) \in S
    <2> TAKE p \in S
    <2>1. PermutationFirst(count, seed) + PermutationStep(count, seed) * p \in Int
      BY PermutationFirstInRange, PermutationStepIsCoprime, SMT
    <2> QED
      BY <2>1, DivisionFacts
  <1>2. \A i, j \in S : Stands(i) = Stands(j) => i = j
    BY PermutationIsInjective
  <1> HIDE DEF Stands
  <1>3. f \in Injection(S, S)
    BY <1>1, <1>2 DEF Injection, IsInjective
  <1>4. IsFiniteSet(S)
    BY FS_Interval, SMT
  <1>5. f \in Surjection(S, S)
    BY <1>3, <1>4, FS_Injection
  <1>6. PICK p \in S : f[p] = r
    BY <1>5 DEF Surjection
  <1>7. Stands(p) = r
    BY <1>6
  <1> QED
    BY <1>7 DEF Stands

\* The arithmetic under the pool's permutations is exact for all operands that a
\* word holds.
LEMMA OperandsExact ==
    ASSUME NEW modulus \in 1 .. WordSize - 1, NEW left \in 0 .. modulus - 1, NEW right \in 0 .. modulus
    PROVE  LET step  == PermutationStep(modulus, left)
               first == PermutationFirst(modulus, left)
           IN  /\ MultiplyModulo(left, right, modulus) = ProductModulo(left, right, modulus)
               /\ GreatestCommonDivisor(left, modulus) = 1 <=> Coprime(left, modulus)
               /\ modulus > 1 =>
                    { (first + k * step) % modulus : k \in 0 .. modulus - 1 } = 0 .. modulus - 1
  <1> DEFINE step    == PermutationStep(modulus, left)
             first   == PermutationFirst(modulus, left)
             IndexAt(k)   == (first + step * k) % modulus
             indices == { (first + k * step) % modulus : k \in 0 .. modulus - 1 }
  <1>1. modulus \in Nat \ {0} /\ modulus < WordSize /\ left \in Nat /\ left \in Words
    BY WordAssumption, SMT DEF Words
  <1>2. MultiplyModulo(left, right, modulus) = ProductModulo(left, right, modulus)
    <2>1. right \in Nat
      BY <1>1, SMT
    <2> QED
      BY <1>1, <2>1, MultiplyModuloExact
  <1>3. GreatestCommonDivisor(left, modulus) = 1 <=> Coprime(left, modulus)
    BY <1>1, EuclidTellsCoprime
  <1>4. ASSUME modulus > 1
        PROVE  indices = 0 .. modulus - 1
    <2>1. modulus \in Nat \ {0, 1}
      BY <1>1, <1>4, SMT
    <2>2. step \in 1 .. modulus - 1
      BY <1>1, <2>1, PermutationStepIsCoprime
    <2>3. first \in 0 .. modulus - 1
      BY <1>1, <2>1, PermutationFirstInRange
    <2>4. \A r \in 0 .. modulus - 1 : \E k \in 0 .. modulus - 1 : IndexAt(k) = r
      BY <1>1, <2>1, PermutationIsSurjective
    <2> HIDE DEF step, first
    <2>5. \A k \in 0 .. modulus - 1 : IndexAt(k) = (first + k * step) % modulus
      <3> TAKE k \in 0 .. modulus - 1
      <3>1. step * k = k * step
        BY <2>2, SMT
      <3> QED
        BY <3>1
    <2>6. \A k \in 0 .. modulus - 1 : IndexAt(k) \in 0 .. modulus - 1
      <3> TAKE k \in 0 .. modulus - 1
      <3> DEFINE sum == first + step * k
      <3>1. sum \in Int
        BY <2>2, <2>3, SMT
      <3> HIDE DEF sum
      <3>2. sum % modulus \in 0 .. modulus - 1
        BY <3>1, <1>1, DivisionFacts
      <3> QED
        BY <3>2 DEF sum
    <2> HIDE DEF IndexAt
    <2> QED
      BY <2>4, <2>5, <2>6
  <1> QED
    BY <1>2, <1>3, <1>4

\* Whatever operands they are called with, multiplyModulo, Euclid's algorithm and
\* permutationParams compute what they should.
THEOREM ArithmeticIsExact == OperandsSpec => []ModularArithmeticExact
  <1> DEFINE Inv == operands \in Operands
  <1>1. OperandsInit => Inv
    BY DEF OperandsInit
  <1>2. Inv /\ [NextOperand]_operands => Inv'
    <2> SUFFICES ASSUME operands \in Operands, [NextOperand]_operands
                 PROVE  operands' \in Operands
      OBVIOUS
    <2>1. CASE NextOperand
      <3>1. /\ operands \in [modulus : 1 .. WordSize - 1, left : 0 .. WordSize - 1, right : 0 .. WordSize - 1]
            /\ operands.left < operands.modulus /\ operands.right < operands.modulus
            /\ operands' = [operands EXCEPT !.right = @ + 1]
        BY <2>1 DEF Operands, NextOperand
      <3>2. operands.right + 1 \in 0 .. WordSize - 1 /\ operands.right + 1 <= operands.modulus
        BY <3>1, WordAssumption, SMT
      <3>3. /\ operands' \in [modulus : 1 .. WordSize - 1, left : 0 .. WordSize - 1, right : 0 .. WordSize - 1]
            /\ operands'.left = operands.left /\ operands'.modulus = operands.modulus
            /\ operands'.right = operands.right + 1
        BY <3>1, <3>2
      <3> QED
        BY <3>1, <3>2, <3>3 DEF Operands
    <2>2. CASE UNCHANGED operands
      BY <2>2
    <2> QED
      BY <2>1, <2>2
  <1>3. Inv => ModularArithmeticExact
    <2> SUFFICES ASSUME operands \in Operands
                 PROVE  ModularArithmeticExact
      OBVIOUS
    <2> DEFINE modulus == operands.modulus
               left    == operands.left
               right   == operands.right
    <2>1. modulus \in 1 .. WordSize - 1 /\ left \in 0 .. modulus - 1 /\ right \in 0 .. modulus
      <3>1. /\ modulus \in 1 .. WordSize - 1 /\ left \in 0 .. WordSize - 1 /\ right \in 0 .. WordSize - 1
            /\ left < modulus /\ right <= modulus
        BY DEF Operands
      <3> HIDE DEF modulus, left, right
      <3> QED
        BY <3>1, WordAssumption, SMT
    <2> HIDE DEF modulus, left, right
    <2>2. LET step  == PermutationStep(modulus, left)
              first == PermutationFirst(modulus, left)
          IN  /\ MultiplyModulo(left, right, modulus) = ProductModulo(left, right, modulus)
              /\ GreatestCommonDivisor(left, modulus) = 1 <=> Coprime(left, modulus)
              /\ modulus > 1 =>
                   { (first + k * step) % modulus : k \in 0 .. modulus - 1 } = 0 .. modulus - 1
      BY <2>1, OperandsExact
    <2> QED
      BY <2>2 DEF ModularArithmeticExact, modulus, left, right
  <1> QED
    BY <1>1, <1>2, <1>3, PTL DEF OperandsSpec

-----------------------------------------------------------------------------
(* Pools opened alike but for their shard. *)

OfShard(o, i) == [o EXCEPT !.shardIndex = i]

\* They are opened pools, and have the layout and the order of regions in common.
LEMMA ShardsAlike ==
    ASSUME NEW o \in ValidOptions, NEW inCycle \in Nat, NEW i \in 0 .. o.shardCount - 1
    PROVE  /\ OfShard(o, i) \in ValidOptions
           /\ OfShard(o, i).shardIndex = i
           /\ OfShard(o, i).shardCount = o.shardCount
           /\ OfShard(o, i).mode = o.mode
           /\ BlockCount(OfShard(o, i)) = BlockCount(o)
           /\ BlocksPerRegion(OfShard(o, i)) = BlocksPerRegion(o)
           /\ RegionCount(OfShard(o, i)) = RegionCount(o)
           /\ CycleSeed(OfShard(o, i), inCycle) = CycleSeed(o, inCycle)
           /\ RegionStep(OfShard(o, i), inCycle) = RegionStep(o, inCycle)
           /\ \A r : RegionBlocksOf(OfShard(o, i), r) = RegionBlocksOf(o, r)
  <1> DEFINE s == OfShard(o, i)
  <1>1. /\ o.shardCount \in Words \ {0}
        /\ o \in [mode : {"ModeSequential", "ModeShuffled"}, reuse : BOOLEAN,
                  seed : Words, fileSize : Words,
                  blockBytes : Words \ {0}, regionBytes : Words \ {0},
                  maxLineBytes : Words \ {0},
                  shardCount : Words \ {0}, shardIndex : Words]
    BY DEF ValidOptions
  <1>2. i \in Words /\ i < o.shardCount
    BY <1>1, WordAssumption, SMT DEF Words
  <1>3. /\ s \in [mode : {"ModeSequential", "ModeShuffled"}, reuse : BOOLEAN,
                  seed : Words, fileSize : Words,
                  blockBytes : Words \ {0}, regionBytes : Words \ {0},
                  maxLineBytes : Words \ {0},
                  shardCount : Words \ {0}, shardIndex : Words]
        /\ s.mode = o.mode /\ s.reuse = o.reuse /\ s.seed = o.seed
        /\ s.fileSize = o.fileSize /\ s.blockBytes = o.blockBytes
        /\ s.regionBytes = o.regionBytes /\ s.shardCount = o.shardCount
        /\ s.shardIndex = i
    BY <1>1, <1>2 DEF OfShard
  <1> HIDE DEF s
  <1>4. s \in ValidOptions
    BY <1>2, <1>3 DEF ValidOptions
  <1>5. BlockCount(s) = BlockCount(o) /\ BlocksPerRegion(s) = BlocksPerRegion(o)
    BY <1>3 DEF BlockCount, BlocksPerRegion
  <1>6. RegionCount(s) = RegionCount(o) /\ CycleSeed(s, inCycle) = CycleSeed(o, inCycle)
    BY <1>3, <1>5 DEF RegionCount, CycleSeed
  <1>7. RegionStep(s, inCycle) = RegionStep(o, inCycle)
    BY <1>3, <1>6 DEF RegionStep
  <1>8. \A r : RegionBlocksOf(s, r) = RegionBlocksOf(o, r)
    BY <1>5 DEF RegionBlocksOf, RegionBase, RegionLength
  <1> QED
    BY <1>3, <1>4, <1>5, <1>6, <1>7, <1>8 DEF s

-----------------------------------------------------------------------------
(* Positions in the order of regions. *)

\* The region at a position of the order all shards have in common.
RegionAt(o, inCycle, p) ==
    IF RegionCount(o) <= 1 \/ o.mode = "ModeSequential"
    THEN p
    ELSE (PermutationFirst(RegionCount(o), CycleSeed(o, inCycle)) + RegionStep(o, inCycle) * p)
           % RegionCount(o)

\* Each region is at one position, and no other.
LEMMA RegionAtIsBijective ==
    ASSUME NEW o \in ValidOptions, NEW inCycle \in Nat
    PROVE  /\ \A p, q \in 0 .. RegionCount(o) - 1 :
                RegionAt(o, inCycle, p) = RegionAt(o, inCycle, q) => p = q
           /\ \A r \in 0 .. RegionCount(o) - 1 :
                \E p \in 0 .. RegionCount(o) - 1 : RegionAt(o, inCycle, p) = r
  <1>1. CASE RegionCount(o) <= 1 \/ o.mode = "ModeSequential"
    BY <1>1 DEF RegionAt
  <1>2. CASE ~ (RegionCount(o) <= 1 \/ o.mode = "ModeSequential")
    <2>1. RegionCount(o) > 1 /\ o.mode # "ModeSequential"
      BY <1>2, LayoutFacts, SMT
    <2>2. /\ RegionCount(o) \in Nat \ {0, 1}
          /\ CycleSeed(o, inCycle) \in Words
          /\ RegionStep(o, inCycle) = PermutationStep(RegionCount(o), CycleSeed(o, inCycle))
      BY <2>1, ShuffledRegions
    <2>3. \A p : RegionAt(o, inCycle, p) =
                   (PermutationFirst(RegionCount(o), CycleSeed(o, inCycle))
                      + PermutationStep(RegionCount(o), CycleSeed(o, inCycle)) * p) % RegionCount(o)
      BY <1>2, <2>2 DEF RegionAt
    <2>4. \A p, q \in 0 .. RegionCount(o) - 1 :
            RegionAt(o, inCycle, p) = RegionAt(o, inCycle, q) => p = q
      BY <2>2, <2>3, PermutationIsInjective
    <2>5. \A r \in 0 .. RegionCount(o) - 1 :
            \E p \in 0 .. RegionCount(o) - 1 : RegionAt(o, inCycle, p) = r
      BY <2>2, <2>3, PermutationIsSurjective
    <2> QED
      BY <2>4, <2>5
  <1> QED
    BY <1>1, <1>2

\* The k-th region of shard i is at position i + k * shardCount.
LEMMA PositionOfShardRegion ==
    ASSUME NEW o \in ValidOptions, NEW inCycle \in Nat, NEW i \in 0 .. o.shardCount - 1,
           NEW k \in 0 .. RegionsForShard(OfShard(o, i)) - 1
    PROVE  /\ i + o.shardCount * k \in 0 .. RegionCount(o) - 1
           /\ ShardRegion(OfShard(o, i), inCycle, k) = RegionAt(o, inCycle, i + o.shardCount * k)
  <1> DEFINE s == OfShard(o, i)
  <1>1. /\ s \in ValidOptions /\ s.shardIndex = i /\ s.shardCount = o.shardCount
        /\ s.mode = o.mode /\ RegionCount(s) = RegionCount(o)
        /\ CycleSeed(s, inCycle) = CycleSeed(o, inCycle)
        /\ RegionStep(s, inCycle) = RegionStep(o, inCycle)
    BY ShardsAlike
  <1> HIDE DEF s
  <1>2. k \in 0 .. RegionsForShard(s) - 1
    BY DEF s
  <1>3. /\ i + o.shardCount * k \in 0 .. RegionCount(o) - 1
        /\ k \in Nat /\ i \in Nat /\ o.shardCount \in Nat \ {0} /\ RegionCount(o) \in Nat
        /\ k \in 0 .. RegionCount(o) - 1
    BY <1>1, <1>2, ShardPositionInRange
  <1>4. CASE RegionCount(o) <= 1 \/ o.mode = "ModeSequential"
    <2>1. ShardRegion(s, inCycle, k) = k /\ RegionAt(o, inCycle, i + o.shardCount * k)
                                            = i + o.shardCount * k
      BY <1>1, <1>4 DEF ShardRegion, RegionAt
    <2>2. CASE RegionCount(o) <= 1
      <3>1. i + o.shardCount * k = 0 /\ k = 0
        BY <1>3, <2>2, SMT
      <3> QED
        BY <2>1, <3>1, <1>3 DEF s
    <2>3. CASE o.mode = "ModeSequential"
      <3>1. o.shardCount = 1
        BY <2>3 DEF ValidOptions
      <3>2. i + o.shardCount * k = k
        BY <3>1, <1>3, SMT
      <3> QED
        BY <2>1, <3>2, <1>3 DEF s
    <2> QED
      BY <1>4, <2>2, <2>3
  <1>5. CASE ~ (RegionCount(o) <= 1 \/ o.mode = "ModeSequential")
    BY <1>1, <1>3, <1>5 DEF ShardRegion, RegionAt, s
  <1> QED
    BY <1>4, <1>5

\* Every position is dealt to a shard, and to no other.
LEMMA PositionIsDealt ==
    ASSUME NEW o \in ValidOptions, NEW p \in 0 .. RegionCount(o) - 1
    PROVE  \E i \in 0 .. o.shardCount - 1 :
             \E k \in 0 .. RegionsForShard(OfShard(o, i)) - 1 : p = i + o.shardCount * k
  <1> DEFINE n     == o.shardCount
             total == RegionCount(o)
             i     == p % n
             k     == p \div n
             rest  == total - 1 - i
             q     == rest \div n
  <1>1. n \in Nat \ {0} /\ total \in Nat /\ p \in Int
    <2>1. o.shardCount \in Words \ {0}
      BY DEF ValidOptions
    <2> QED
      BY <2>1, LayoutFacts, WordAssumption, SMT DEF Words
  <1>2. k \in Int /\ i \in 0 .. n - 1 /\ p = n * k + i
    BY <1>1, DivisionFacts
  <1> HIDE DEF i, k, n, total
  <1>3. p \in 0 .. total - 1
    BY DEF total
  <1>4. rest \in Int /\ i < total
    BY <1>1, <1>2, <1>3, SMT
  <1>5. k \in Nat
    BY <1>1, <1>2, <1>3, SMT
  <1>6. q \in Int /\ rest % n \in 0 .. n - 1 /\ rest = n * q + (rest % n)
    BY <1>1, <1>4, DivisionFacts
  <1> HIDE DEF q
  <1>7. k <= q
    <2> SUFFICES ASSUME q + 1 <= k PROVE FALSE
      BY <1>5, <1>6, SMT
    <2>1. q + 1 \in Nat
      BY <1>1, <1>2, <1>4, <1>6, <1>3, SMT
    <2>2. n * (q + 1) <= n * k
      BY <1>1, <1>5, <2>1, ProductOrder
    <2>3. n * (q + 1) = n * q + n /\ n * q \in Int /\ n * k \in Int
      BY <1>1, <1>5, <1>6, SMT
    <2>4. n * k + i <= total - 1
      BY <1>2, <1>3, SMT
    <2> QED
      BY <1>1, <1>2, <1>4, <1>6, <2>2, <2>3, <2>4, SMT
  <1>8. RegionsForShard(OfShard(o, i)) = q + 1
    <2>1. i \in 0 .. o.shardCount - 1
      BY <1>2 DEF n
    <2>2. /\ OfShard(o, i).shardIndex = i /\ OfShard(o, i).shardCount = n
          /\ RegionCount(OfShard(o, i)) = total
      BY <2>1, ShardsAlike DEF n, total
    <2>3. ~ (i >= total)
      BY <1>1, <1>2, <1>4, SMT
    <2> QED
      BY <2>2, <2>3 DEF RegionsForShard, ShardItemCount, q
  <1>9. k \in 0 .. RegionsForShard(OfShard(o, i)) - 1
    BY <1>5, <1>6, <1>7, <1>8, SMT
  <1>10. p = i + n * k
    BY <1>1, <1>2, <1>5, SMT
  <1> QED
    BY <1>2, <1>9, <1>10 DEF n

\* No two shards are dealt the same position.
LEMMA DealtOnce ==
    ASSUME NEW n \in Nat \ {0}, NEW i \in 0 .. n - 1, NEW j \in 0 .. n - 1,
           NEW k \in Nat, NEW m \in Nat, i + n * k = j + n * m
    PROVE  i = j
  <1>1. n * k \in Int /\ n * m \in Int
    BY SMT
  <1>2. (i + n * k) % n = i
    BY <1>1, RemainderUnique, SMT
  <1>3. (j + n * m) % n = j
    BY <1>1, RemainderUnique, SMT
  <1> QED
    BY <1>2, <1>3

-----------------------------------------------------------------------------
(* Blocks. *)

\* Every block of the file lies in a region.
LEMMA BlockLiesInRegion ==
    ASSUME NEW o \in ValidOptions, NEW b \in 0 .. BlockCount(o) - 1
    PROVE  \E r \in 0 .. RegionCount(o) - 1 : b \in RegionBlocksOf(o, r)
  <1> DEFINE size == BlocksPerRegion(o)
             r    == b \div size
  <1>1. size \in Nat \ {0} /\ BlockCount(o) \in Nat /\ RegionCount(o) \in Nat
    BY LayoutFacts, SMT
  <1>2. r \in Int /\ b % size \in 0 .. size - 1 /\ b = size * r + (b % size)
    <2>1. b \in Int
      BY <1>1, SMT
    <2> HIDE DEF size
    <2> QED
      BY <1>1, <2>1, DivisionFacts
  <1>3. BlockCount(o) <= RegionCount(o) * size
    BY <1>1, CeilingQuotientCovers DEF RegionCount
  <1> HIDE DEF size, r
  <1>4. b < RegionCount(o) * size /\ b \in Nat
    BY <1>1, <1>3, SMT
  <1>5. r \in Nat
    BY <1>1, <1>2, <1>4, SMT
  <1>6. r < RegionCount(o)
    <2> SUFFICES ASSUME RegionCount(o) <= r PROVE FALSE
      BY <1>1, <1>5, SMT
    <2>1. size * RegionCount(o) <= size * r
      BY <1>1, <1>5, ProductOrder
    <2>2. size * r \in Int /\ size * RegionCount(o) = RegionCount(o) * size
      BY <1>1, <1>5, SMT
    <2> QED
      BY <1>1, <1>2, <1>4, <2>1, <2>2, SMT
  <1>7. RegionBase(o, r) = size * r /\ size * r \in Nat
    BY <1>1, <1>5, SMT DEF RegionBase, size
  <1>8. RegionLength(o, r) = Lesser(size, BlockCount(o) - size * r)
    BY <1>7 DEF RegionLength, size
  <1>9. b \in size * r .. size * r + Lesser(size, BlockCount(o) - size * r) - 1
    BY <1>1, <1>2, <1>4, <1>7, SMT DEF Lesser
  <1>10. r \in 0 .. RegionCount(o) - 1
    BY <1>1, <1>5, <1>6, SMT
  <1> QED
    BY <1>7, <1>8, <1>9, <1>10 DEF RegionBlocksOf

-----------------------------------------------------------------------------
(* The shards of a pool partition its blocks. *)

\* The shards whose walk has a block are one.
LEMMA OneShardHasBlock ==
    ASSUME NEW o \in ValidOptions, NEW inCycle \in Nat, NEW b \in 0 .. BlockCount(o) - 1
    PROVE  \E shard \in 0 .. o.shardCount - 1 :
             { i \in 0 .. o.shardCount - 1 : b \in ShardBlocks(OfShard(o, i), inCycle) } = {shard}
  <1> DEFINE n == o.shardCount
             Has(i) == b \in ShardBlocks(OfShard(o, i), inCycle)
  <1>1. n \in Nat \ {0} /\ RegionCount(o) \in Nat
    <2>1. o.shardCount \in Words \ {0}
      BY DEF ValidOptions
    <2> QED
      BY <2>1, LayoutFacts, WordAssumption, SMT DEF Words
  <1>2. PICK r \in 0 .. RegionCount(o) - 1 : b \in RegionBlocksOf(o, r)
    BY BlockLiesInRegion
  <1>3. PICK p \in 0 .. RegionCount(o) - 1 : RegionAt(o, inCycle, p) = r
    BY RegionAtIsBijective
  <1>4. PICK shard \in 0 .. n - 1 :
          \E k \in 0 .. RegionsForShard(OfShard(o, shard)) - 1 : p = shard + n * k
    BY PositionIsDealt
  <1>5. PICK k \in 0 .. RegionsForShard(OfShard(o, shard)) - 1 : p = shard + n * k
    BY <1>4
  <1>6. \A i \in 0 .. n - 1 :
          Has(i) <=> \E m \in 0 .. RegionsForShard(OfShard(o, i)) - 1 :
                       b \in RegionBlocksOf(o, RegionAt(o, inCycle, i + n * m))
    <2> TAKE i \in 0 .. n - 1
    <2>1. \A m \in 0 .. RegionsForShard(OfShard(o, i)) - 1 :
            RegionBlocksOf(OfShard(o, i), ShardRegion(OfShard(o, i), inCycle, m))
              = RegionBlocksOf(o, RegionAt(o, inCycle, i + n * m))
      BY ShardsAlike, PositionOfShardRegion
    <2> QED
      BY <2>1, Zenon DEF ShardBlocks, FirstBlocks
  <1>7. Has(shard)
    BY <1>2, <1>3, <1>5, <1>6
  <1>8. ASSUME NEW i \in 0 .. n - 1, Has(i)
        PROVE  i = shard
    <2>1. PICK m \in 0 .. RegionsForShard(OfShard(o, i)) - 1 :
            b \in RegionBlocksOf(o, RegionAt(o, inCycle, i + n * m))
      BY <1>6, <1>8
    <2>2. /\ i + n * m \in 0 .. RegionCount(o) - 1
          /\ RegionAt(o, inCycle, i + n * m) \in 0 .. RegionCount(o) - 1
      <3>1. /\ i + n * m \in 0 .. RegionCount(o) - 1
            /\ ShardRegion(OfShard(o, i), inCycle, m) = RegionAt(o, inCycle, i + n * m)
        BY PositionOfShardRegion
      <3>2. ShardRegion(OfShard(o, i), inCycle, m) \in 0 .. RegionCount(OfShard(o, i)) - 1
        BY ShardsAlike, ShardRegionInRange
      <3> QED
        BY <3>1, <3>2, ShardsAlike
    <2>3. RegionAt(o, inCycle, i + n * m) = r
      BY <1>2, <2>1, <2>2, RegionsAreDisjoint
    <2>4. i + n * m = shard + n * k
      <3>1. \A x, y \in 0 .. RegionCount(o) - 1 :
              RegionAt(o, inCycle, x) = RegionAt(o, inCycle, y) => x = y
        BY RegionAtIsBijective
      <3>2. i + n * m = p
        BY <1>3, <2>2, <2>3, <3>1, Zenon
      <3> QED
        BY <1>5, <3>2
    <2>5. m \in Nat /\ k \in Nat
      BY SMT
    <2> QED
      BY <1>1, <2>4, <2>5, DealtOnce
  <1> QED
    BY <1>7, <1>8

\* Options.ShardCount: for every file, block, region and shard size, every
\* seed and every hash, pools opened alike, one for each shard, walk every
\* block of the file between them, and none of them twice.
THEOREM ShardsPartition == CursorSpec => []ShardsPartitionBlocks
  <1>1. Invariant => ShardsPartitionBlocks
    <2> SUFFICES ASSUME Invariant, NEW b \in 0 .. BlockCount(options) - 1
                 PROVE  \E shard \in 0 .. options.shardCount - 1 :
                          { i \in 0 .. options.shardCount - 1 :
                              b \in ShardBlocks(OfShard(options, i), cycle) } = {shard}
      BY DEF ShardsPartitionBlocks, OfShard
    <2> QED
      BY OpenedPool, OneShardHasBlock DEF Invariant
  <1> QED
    BY <1>1, InitInvariant, NextInvariant, PTL DEF CursorSpec

-----------------------------------------------------------------------------
(* The order of a cycle: which block comes before which.                   *)

\* The i-th block that the walk of cycle c comes to in the k-th region.
IthBlock(o, c, k, i) ==
    LET region == ShardRegion(o, c, k)
    IN  RegionBase(o, region) + AddModulo(Rotation(o, c, region), i, RegionLength(o, region))

\* The walk of cycle c comes to an i-th block of a k-th region.
IsPlace(o, c, k, i) ==
    /\ k \in 0 .. RegionsForShard(o) - 1
    /\ i \in 0 .. RegionLength(o, ShardRegion(o, c, k)) - 1

\* The blocks it passes before.
PassedAt(o, c, k, i) == FirstBlocks(o, c, k) \cup { IthBlock(o, c, k, j) : j \in 0 .. i - 1 }

BlockBefore(o, c, a, b) ==
    \E k, i : IsPlace(o, c, k, i) /\ b = IthBlock(o, c, k, i) /\ a \in PassedAt(o, c, k, i)

\* The walk comes to every block of a region exactly once.
LEMMA BlocksOfRegion ==
    ASSUME NEW o \in ValidOptions, NEW c \in Nat, NEW k \in 0 .. RegionsForShard(o) - 1
    PROVE  LET region == ShardRegion(o, c, k)
               length == RegionLength(o, region)
           IN  /\ length \in Nat
               /\ region \in 0 .. RegionCount(o) - 1
               /\ \A i \in 0 .. length - 1 : IthBlock(o, c, k, i) \in RegionBlocksOf(o, region)
               /\ \A i, j \in 0 .. length - 1 : IthBlock(o, c, k, i) = IthBlock(o, c, k, j) => i = j
               /\ \A b \in RegionBlocksOf(o, region) :
                    \E i \in 0 .. length - 1 : b = IthBlock(o, c, k, i)
  <1> DEFINE region   == ShardRegion(o, c, k)
             base     == RegionBase(o, region)
             length   == RegionLength(o, region)
             rotation == Rotation(o, c, region)
             turned(i) == AddModulo(rotation, i, length)
  <1>1. region \in 0 .. RegionCount(o) - 1
    BY ShardRegionInRange
  <1>2. /\ base \in Nat /\ length \in Nat \ {0} /\ length < WordSize
        /\ rotation \in 0 .. length - 1
    <2>1. /\ base \in Nat /\ length \in 1 .. BlocksPerRegion(o)
          /\ BlocksPerRegion(o) \in Nat /\ BlocksPerRegion(o) < WordSize
      BY <1>1, RegionLiesInFile, LayoutFacts
    <2>2. rotation \in 0 .. length - 1
      BY <1>1, RotationInRegion
    <2> HIDE DEF base, length, rotation
    <2> QED
      BY <2>1, <2>2, WordAssumption, SMT
  <1>3. /\ RegionBlocksOf(o, region) = base .. base + length - 1
        /\ \A i : IthBlock(o, c, k, i) = base + turned(i)
    BY DEF RegionBlocksOf, IthBlock
  <1> HIDE DEF base, length, rotation
  <1>4. { turned(j) : j \in 0 .. length - 1 } = 0 .. length - 1
    BY <1>2, RotatedBlocksAreAll
  <1>5. \A i, j \in 0 .. length - 1 : turned(i) = turned(j) => i = j
    BY <1>2, RotatedBlocksDiffer
  <1> HIDE DEF turned, region
  <1>6. \A i \in 0 .. length - 1 : turned(i) \in 0 .. length - 1
    BY <1>4
  <1>7. ASSUME NEW i \in 0 .. length - 1
        PROVE  IthBlock(o, c, k, i) \in RegionBlocksOf(o, region)
    <2> DEFINE d == turned(i)
    <2>1. d \in 0 .. length - 1 /\ IthBlock(o, c, k, i) = base + d
      BY <1>3, <1>6
    <2> HIDE DEF d
    <2>2. base + d \in base .. base + length - 1
      BY <1>2, <2>1, SMT
    <2> QED
      BY <1>3, <2>1, <2>2
  <1>8. ASSUME NEW i \in 0 .. length - 1, NEW j \in 0 .. length - 1,
               IthBlock(o, c, k, i) = IthBlock(o, c, k, j)
        PROVE  i = j
    <2>1. turned(i) \in Nat /\ turned(j) \in Nat
      BY <1>2, <1>6, SMT
    <2>2. turned(i) = turned(j)
      BY <1>2, <1>3, <1>8, <2>1, SMT
    <2> QED
      BY <1>5, <2>2
  <1>9. ASSUME NEW b \in RegionBlocksOf(o, region)
        PROVE  \E i \in 0 .. length - 1 : b = IthBlock(o, c, k, i)
    <2>1. b \in Int /\ b - base \in 0 .. length - 1
      BY <1>2, <1>3, SMT
    <2>2. PICK i \in 0 .. length - 1 : turned(i) = b - base
      BY <1>4, <2>1
    <2>3. base + turned(i) = b
      BY <1>2, <2>1, <2>2, SMT
    <2> QED
      BY <1>3, <2>3
  <1> QED
    BY <1>1, <1>2, <1>7, <1>8, <1>9 DEF region, length

\* No block has two places.
LEMMA PlaceIsUnique ==
    ASSUME NEW o \in ValidOptions, NEW c \in Nat,
           NEW k, NEW i, IsPlace(o, c, k, i), NEW m, NEW j, IsPlace(o, c, m, j),
           IthBlock(o, c, k, i) = IthBlock(o, c, m, j)
    PROVE  k = m /\ i = j
  <1>1. /\ k \in 0 .. RegionsForShard(o) - 1 /\ m \in 0 .. RegionsForShard(o) - 1
        /\ i \in 0 .. RegionLength(o, ShardRegion(o, c, k)) - 1
        /\ j \in 0 .. RegionLength(o, ShardRegion(o, c, m)) - 1
    BY DEF IsPlace
  <1>2. /\ IthBlock(o, c, k, i) \in RegionBlocksOf(o, ShardRegion(o, c, k))
        /\ IthBlock(o, c, m, j) \in RegionBlocksOf(o, ShardRegion(o, c, m))
        /\ ShardRegion(o, c, k) \in 0 .. RegionCount(o) - 1
        /\ ShardRegion(o, c, m) \in 0 .. RegionCount(o) - 1
    BY <1>1, BlocksOfRegion
  <1>3. ShardRegion(o, c, k) = ShardRegion(o, c, m)
    BY <1>2, RegionsAreDisjoint
  <1>4. k = m
    BY <1>1, <1>3, ShardRegionsDiffer
  <1> QED
    BY <1>1, <1>4, BlocksOfRegion

\* A block of the first n regions has a place in one of them.
LEMMA BlockHasPlace ==
    ASSUME NEW o \in ValidOptions, NEW c \in Nat, NEW n \in 0 .. RegionsForShard(o),
           NEW b \in FirstBlocks(o, c, n)
    PROVE  \E k \in 0 .. n - 1 : \E i : IsPlace(o, c, k, i) /\ b = IthBlock(o, c, k, i)
  <1>1. PICK k \in 0 .. n - 1 : b \in RegionBlocksOf(o, ShardRegion(o, c, k))
    BY DEF FirstBlocks
  <1>2. k \in 0 .. RegionsForShard(o) - 1
    <2>1. RegionsForShard(o) \in Nat
      BY LayoutFacts
    <2> QED
      BY <2>1, SMT
  <1>3. PICK i \in 0 .. RegionLength(o, ShardRegion(o, c, k)) - 1 : b = IthBlock(o, c, k, i)
    BY <1>1, <1>2, BlocksOfRegion
  <1> QED
    BY <1>2, <1>3 DEF IsPlace

\* What comes before a block is what is passed before its place.
LEMMA BeforePlace ==
    ASSUME NEW o \in ValidOptions, NEW c \in Nat, NEW k, NEW i, IsPlace(o, c, k, i), NEW a
    PROVE  BlockBefore(o, c, a, IthBlock(o, c, k, i)) <=> a \in PassedAt(o, c, k, i)
  BY PlaceIsUnique DEF BlockBefore

\* The blocks of a shard are ordered.
LEMMA BlocksAreOrdered ==
    ASSUME NEW o \in ValidOptions, NEW c \in Nat
    PROVE  /\ \A b \in ShardBlocks(o, c) : ~ BlockBefore(o, c, b, b)
           /\ \A a, b \in ShardBlocks(o, c) :
                a # b => BlockBefore(o, c, a, b) \/ BlockBefore(o, c, b, a)
  <1>1. RegionsForShard(o) \in Nat
    BY LayoutFacts
  <1>2. \A b \in ShardBlocks(o, c) :
          \E k \in 0 .. RegionsForShard(o) - 1 : \E i : IsPlace(o, c, k, i) /\ b = IthBlock(o, c, k, i)
    BY <1>1, BlockHasPlace, SMT DEF ShardBlocks
  <1>3. ASSUME NEW k, NEW i, IsPlace(o, c, k, i),
               IthBlock(o, c, k, i) \in PassedAt(o, c, k, i)
        PROVE  FALSE
    <2>1. k \in 0 .. RegionsForShard(o) - 1 /\ k \in Nat /\ i \in Nat
      <3>1. RegionLength(o, ShardRegion(o, c, k)) \in Nat /\ k \in 0 .. RegionsForShard(o) - 1
        BY <1>3, BlocksOfRegion DEF IsPlace
      <3> QED
        BY <1>1, <1>3, <3>1, SMT DEF IsPlace
    <2>2. CASE IthBlock(o, c, k, i) \in FirstBlocks(o, c, k)
      <3>1. k \in 0 .. RegionsForShard(o)
        BY <1>1, <2>1, SMT
      <3>2. PICK m \in 0 .. k - 1 : \E j : IsPlace(o, c, m, j) /\ IthBlock(o, c, k, i) = IthBlock(o, c, m, j)
        BY <2>2, <3>1, BlockHasPlace
      <3>3. k = m
        BY <1>3, <3>2, PlaceIsUnique
      <3> QED
        BY <2>1, <3>2, <3>3, SMT
    <2>3. CASE IthBlock(o, c, k, i) \in { IthBlock(o, c, k, j) : j \in 0 .. i - 1 }
      <3>1. PICK j \in 0 .. i - 1 : IthBlock(o, c, k, i) = IthBlock(o, c, k, j)
        BY <2>3
      <3>2. IsPlace(o, c, k, j)
        <4>1. RegionLength(o, ShardRegion(o, c, k)) \in Nat
          BY <2>1, BlocksOfRegion
        <4> QED
          BY <1>3, <2>1, <4>1, SMT DEF IsPlace
      <3>3. i = j
        BY <1>3, <3>1, <3>2, PlaceIsUnique
      <3> QED
        BY <2>1, <3>3, SMT
    <2> QED
      BY <1>3, <2>2, <2>3 DEF PassedAt
  <1>4. ASSUME NEW k, NEW i, IsPlace(o, c, k, i), NEW m, NEW j, IsPlace(o, c, m, j), k < m
        PROVE  IthBlock(o, c, k, i) \in PassedAt(o, c, m, j)
    <2>1. k \in 0 .. RegionsForShard(o) - 1 /\ k \in 0 .. m - 1
      BY <1>1, <1>4, SMT DEF IsPlace
    <2>2. IthBlock(o, c, k, i) \in RegionBlocksOf(o, ShardRegion(o, c, k))
      BY <1>4, <2>1, BlocksOfRegion DEF IsPlace
    <2> QED
      BY <2>1, <2>2 DEF PassedAt, FirstBlocks
  <1>5. ASSUME NEW k, NEW i, IsPlace(o, c, k, i), NEW j, IsPlace(o, c, k, j), i < j
        PROVE  IthBlock(o, c, k, i) \in PassedAt(o, c, k, j)
    <2>1. i \in 0 .. j - 1
      <3>1. RegionLength(o, ShardRegion(o, c, k)) \in Nat
        BY <1>5, BlocksOfRegion DEF IsPlace
      <3> QED
        BY <1>5, <3>1, SMT DEF IsPlace
    <2> QED
      BY <2>1 DEF PassedAt
  <1>6. ASSUME NEW b \in ShardBlocks(o, c), BlockBefore(o, c, b, b)
        PROVE  FALSE
    BY <1>3, <1>6 DEF BlockBefore
  <1>7. ASSUME NEW a \in ShardBlocks(o, c), NEW b \in ShardBlocks(o, c), a # b
        PROVE  BlockBefore(o, c, a, b) \/ BlockBefore(o, c, b, a)
    <2>1. PICK k, i : IsPlace(o, c, k, i) /\ a = IthBlock(o, c, k, i)
      BY <1>2
    <2>2. PICK m, j : IsPlace(o, c, m, j) /\ b = IthBlock(o, c, m, j)
      BY <1>2
    <2>3. k \in Int /\ m \in Int /\ i \in Int /\ j \in Int
      BY <2>1, <2>2 DEF IsPlace
    <2>4. \/ k < m \/ m < k \/ (k = m /\ i < j) \/ (k = m /\ j < i) \/ (k = m /\ i = j)
      BY <2>3, SMT
    <2>5. CASE k < m \/ m < k
      BY <1>4, <2>1, <2>2, <2>5 DEF BlockBefore
    <2>6. CASE k = m /\ (i < j \/ j < i)
      BY <1>5, <2>1, <2>2, <2>6 DEF BlockBefore
    <2> QED
      BY <1>7, <2>1, <2>2, <2>4, <2>5, <2>6
  <1> QED
    BY <1>6, <1>7

-----------------------------------------------------------------------------
(* The order of a cycle: which line comes before which.                    *)

\* Where the lines of a block start, and how many there are.
StartsIn(o, file, b) == { s \in LineStarts(file) : s \div o.blockBytes = b }

LinesIn(o, file, b) == Cardinality(StartsIn(o, file, b))

\* The index of the line that starts here among the lines of its block.
IndexIn(o, file, b, s) == Cardinality({ t \in StartsIn(o, file, b) : t <= s }) - 1

\* Of the n lines of block b, the index of the one returned as the k-th.
KthIndex(o, c, b, n, k) ==
    LET seed == Mix(CycleSeed(o, c), b)
    IN  IF o.mode = "ModeSequential"
        THEN k
        ELSE (PermutationFirst(n, seed) + PermutationStep(n, seed) * k) % n

\* In cycle c the line that starts at t is returned before the one that starts
\* at s: its block comes before, or its place in the order of the same block.
LineBefore(o, file, c, t, s) ==
    LET a == t \div o.blockBytes
        b == s \div o.blockBytes
        n == LinesIn(o, file, b)
    IN  \/ BlockBefore(o, c, a, b)
        \/ /\ a = b
           /\ \E k \in 0 .. n - 1 : \E j \in 0 .. k - 1 :
                /\ IndexIn(o, file, b, s) = KthIndex(o, c, b, n, k)
                /\ IndexIn(o, file, b, t) = KthIndex(o, c, b, n, j)

OwedStarts(o, file, c) ==
    { s \in LineStarts(file) : s \div o.blockBytes \in ShardBlocks(o, c) }

LinesBefore(o, file, c, s) == { t \in OwedStarts(o, file, c) : LineBefore(o, file, c, t, s) }

LEMMA StartsAreFinite ==
    ASSUME NEW file \in Seq(Byte)
    PROVE  /\ LineStarts(file) \in SUBSET (0 .. Len(file))
           /\ Len(file) \in Nat
           /\ \A S \in SUBSET LineStarts(file) : IsFiniteSet(S) /\ Cardinality(S) \in Nat
  <1>1. Len(file) \in Nat
    OBVIOUS
  <1>2. 0 .. Len(file) - 1 \subseteq 0 .. Len(file)
    BY <1>1, SMT
  <1>3. LineStarts(file) \in SUBSET (0 .. Len(file))
    BY <1>2 DEF LineStarts
  <1>4. IsFiniteSet(0 .. Len(file))
    BY <1>1, FS_Interval
  <1>5. ASSUME NEW S \in SUBSET LineStarts(file)
        PROVE  IsFiniteSet(S) /\ Cardinality(S) \in Nat
    <2>1. S \in SUBSET (0 .. Len(file))
      BY <1>3
    <2>2. IsFiniteSet(S)
      BY <1>4, <2>1, FS_Subset
    <2> QED
      BY <2>2, FS_CardinalityType
  <1> QED
    BY <1>1, <1>3, <1>5

\* The lines of a block are numbered from 0 on.
LEMMA LinesAreNumbered ==
    ASSUME NEW o, NEW file \in Seq(Byte), NEW b
    PROVE  LET starts == StartsIn(o, file, b)
               n      == LinesIn(o, file, b)
           IN  /\ n \in Nat
               /\ \A s \in starts : IndexIn(o, file, b, s) \in 0 .. n - 1
               /\ \A s, t \in starts : IndexIn(o, file, b, s) = IndexIn(o, file, b, t) => s = t
               /\ \A r \in 0 .. n - 1 : \E s \in starts : IndexIn(o, file, b, s) = r
  <1> DEFINE starts  == StartsIn(o, file, b)
             n       == LinesIn(o, file, b)
             upTo(s) == { t \in starts : t <= s }
             m       == Len(file)
  <1>1. /\ starts \in SUBSET (0 .. m) /\ m \in Nat /\ IsFiniteSet(starts)
        /\ n = Cardinality(starts) /\ n \in Nat
    <2>1. starts \in SUBSET LineStarts(file)
      BY DEF StartsIn
    <2> QED
      BY <2>1, StartsAreFinite DEF LinesIn
  <1>2. \A s : IndexIn(o, file, b, s) = Cardinality(upTo(s)) - 1
    BY DEF IndexIn
  <1> HIDE DEF starts, n, m
  <1>3. ASSUME NEW s \in starts
        PROVE  Cardinality(upTo(s)) \in 1 .. n
    <2>1. upTo(s) \in SUBSET starts /\ s \in upTo(s)
      <3>1. s <= s
        BY <1>1, SMT
      <3> QED
        BY <3>1
    <2>2. IsFiniteSet(upTo(s)) /\ Cardinality(upTo(s)) <= n
      BY <1>1, <2>1, FS_Subset
    <2>3. Cardinality(upTo(s)) \in Nat /\ Cardinality(upTo(s)) # 0
      BY <2>1, <2>2, FS_CardinalityType, FS_EmptySet
    <2> DEFINE k == Cardinality(upTo(s))
    <2> HIDE DEF k
    <2>4. k \in Nat /\ k # 0 /\ k <= n
      BY <2>2, <2>3 DEF k
    <2>5. k \in 1 .. n
      BY <1>1, <2>4, SMT
    <2> QED
      BY <2>5 DEF k
  <1>4. \A s, t \in starts : s < t => Cardinality(upTo(s)) < Cardinality(upTo(t))
    BY <1>1, RanksAscend
  <1>5. \A k \in 1 .. n : \E s \in starts : Cardinality(upTo(s)) = k
    BY <1>1, RankIsMet
  <1> HIDE DEF upTo
  <1> DEFINE r(s) == Cardinality(upTo(s))
  <1>6. /\ \A s \in starts : r(s) \in 1 .. n
        /\ \A s, t \in starts : s < t => r(s) < r(t)
        /\ \A k \in 1 .. n : \E s \in starts : r(s) = k
        /\ \A s : IndexIn(o, file, b, s) = r(s) - 1
    BY <1>2, <1>3, <1>4, <1>5
  <1> HIDE DEF r
  <1>7. ASSUME NEW s \in starts
        PROVE  IndexIn(o, file, b, s) \in 0 .. n - 1
    BY <1>1, <1>6, SMT
  <1>8. ASSUME NEW s \in starts, NEW t \in starts,
               IndexIn(o, file, b, s) = IndexIn(o, file, b, t)
        PROVE  s = t
    <2>1. s \in Int /\ t \in Int /\ r(s) \in Int /\ r(t) \in Int
      BY <1>1, <1>6, SMT
    <2>2. r(s) - 1 = r(t) - 1
      BY <1>6, <1>8
    <2>3. r(s) = r(t)
      BY <2>1, <2>2, SMT
    <2>4. ~ (s < t) /\ ~ (t < s)
      BY <1>6, <2>1, <2>3, SMT
    <2> QED
      BY <2>1, <2>4, SMT
  <1>9. ASSUME NEW k \in 0 .. n - 1
        PROVE  \E s \in starts : IndexIn(o, file, b, s) = k
    <2>1. k + 1 \in 1 .. n /\ (k + 1) - 1 = k
      BY <1>1, SMT
    <2>2. PICK s \in starts : r(s) = k + 1
      BY <1>6, <2>1
    <2> QED
      BY <1>6, <2>1, <2>2
  <1> QED
    BY <1>1, <1>7, <1>8, <1>9 DEF starts, n

\* Every line of the block is the k-th for exactly one k.
LEMMA KthIndexIsBijective ==
    ASSUME NEW o \in ValidOptions, NEW c \in Nat, NEW b \in Words, NEW n \in Nat \ {0}
    PROVE  /\ \A k, j \in 0 .. n - 1 : KthIndex(o, c, b, n, k) = KthIndex(o, c, b, n, j) => k = j
           /\ \A r \in 0 .. n - 1 : \E k \in 0 .. n - 1 : KthIndex(o, c, b, n, k) = r
  <1> DEFINE seed == Mix(CycleSeed(o, c), b)
  <1>1. CASE o.mode = "ModeSequential"
    BY <1>1 DEF KthIndex
  <1>2. CASE o.mode # "ModeSequential" /\ n = 1
    <2>1. \A k \in 0 .. n - 1 : k = 0
      BY <1>2, SMT
    <2>2. KthIndex(o, c, b, n, 0) = (0 + 0 * 0) % 1
      BY <1>2 DEF KthIndex, PermutationFirst, PermutationStep
    <2>3. KthIndex(o, c, b, n, 0) = 0 /\ 0 \in 0 .. n - 1
      BY <1>2, <2>2, SMT
    <2> QED
      BY <2>1, <2>3
  <1>3. CASE o.mode # "ModeSequential" /\ n # 1
    <2>1. n \in Nat \ {0, 1}
      BY <1>3
    <2>2. seed \in Words
      BY CycleSeedIsWord, MixAssumption
    <2>3. \A k : KthIndex(o, c, b, n, k) = (PermutationFirst(n, seed) + PermutationStep(n, seed) * k) % n
      BY <1>3 DEF KthIndex
    <2> HIDE DEF seed
    <2>4. \A k, j \in 0 .. n - 1 : KthIndex(o, c, b, n, k) = KthIndex(o, c, b, n, j) => k = j
      BY <2>1, <2>2, <2>3, PermutationIsInjective
    <2>5. \A r \in 0 .. n - 1 : \E k \in 0 .. n - 1 : KthIndex(o, c, b, n, k) = r
      BY <2>1, <2>2, <2>3, PermutationIsSurjective
    <2> QED
      BY <2>4, <2>5
  <1> QED
    BY <1>1, <1>2, <1>3

\* A block of the pool's shard is a word.
LEMMA ShardBlockIsWord ==
    ASSUME NEW o \in ValidOptions, NEW c \in Nat, NEW b \in ShardBlocks(o, c)
    PROVE  b \in Words
  <1>1. PICK k \in 0 .. RegionsForShard(o) - 1 : b \in RegionBlocksOf(o, ShardRegion(o, c, k))
    BY DEF ShardBlocks, FirstBlocks
  <1> DEFINE region == ShardRegion(o, c, k)
             base   == RegionBase(o, region)
             length == RegionLength(o, region)
             count  == BlockCount(o)
  <1>2. region \in 0 .. RegionCount(o) - 1
    BY ShardRegionInRange
  <1>3. base \in Nat /\ length \in Nat /\ base + length <= count
    <2>1. /\ base \in Nat /\ length \in 1 .. BlocksPerRegion(o) /\ base + length <= count
          /\ BlocksPerRegion(o) \in Nat
      BY <1>2, RegionLiesInFile, LayoutFacts
    <2> HIDE DEF base, length, count
    <2> QED
      BY <2>1, SMT
  <1>4. count \in Nat /\ count < WordSize
    BY LayoutFacts
  <1>5. b \in base .. base + length - 1
    BY <1>1 DEF RegionBlocksOf
  <1> HIDE DEF base, length, count
  <1> QED
    BY <1>3, <1>4, <1>5, WordAssumption, SMT DEF Words

\* The lines of a cycle are ordered.
LEMMA LinesAreOrdered ==
    ASSUME NEW o \in ValidOptions, NEW file \in Seq(Byte), NEW c \in Nat
    PROVE  /\ \A s \in OwedStarts(o, file, c) : ~ LineBefore(o, file, c, s, s)
           /\ \A s, t \in OwedStarts(o, file, c) :
                s # t => LineBefore(o, file, c, s, t) \/ LineBefore(o, file, c, t, s)
  <1> DEFINE blockOf(s) == s \div o.blockBytes
             owed == OwedStarts(o, file, c)
  <1>1. ASSUME NEW s \in owed
        PROVE  /\ blockOf(s) \in ShardBlocks(o, c) /\ blockOf(s) \in Words
               /\ s \in StartsIn(o, file, blockOf(s))
               /\ LinesIn(o, file, blockOf(s)) \in Nat \ {0}
               /\ IndexIn(o, file, blockOf(s), s) \in 0 .. LinesIn(o, file, blockOf(s)) - 1
    <2> DEFINE b == blockOf(s)
               n == LinesIn(o, file, b)
    <2>1. b \in ShardBlocks(o, c) /\ s \in StartsIn(o, file, b)
      BY DEF OwedStarts, StartsIn
    <2>2. b \in Words
      BY <2>1, ShardBlockIsWord
    <2> HIDE DEF b
    <2>3. n \in Nat /\ IndexIn(o, file, b, s) \in 0 .. n - 1
      BY <2>1, LinesAreNumbered
    <2> HIDE DEF n
    <2>4. n # 0
      BY <2>3, SMT
    <2> QED
      BY <2>1, <2>2, <2>3, <2>4 DEF b, n
  <1>2. ASSUME NEW s \in owed, LineBefore(o, file, c, s, s)
        PROVE  FALSE
    <2> DEFINE b == blockOf(s)
               n == LinesIn(o, file, b)
    <2>1. b \in ShardBlocks(o, c) /\ b \in Words /\ n \in Nat \ {0}
      BY <1>1
    <2>2. ~ BlockBefore(o, c, b, b)
      BY <2>1, BlocksAreOrdered
    <2>5. PICK k \in 0 .. n - 1 :
             \E j \in 0 .. k - 1 : KthIndex(o, c, b, n, k) = KthIndex(o, c, b, n, j)
      BY <1>2, <2>2 DEF LineBefore
    <2>3. PICK j \in 0 .. k - 1 : KthIndex(o, c, b, n, k) = KthIndex(o, c, b, n, j)
      BY <2>5
    <2> HIDE DEF b, n
    <2>4. j \in 0 .. n - 1 /\ j # k
      BY <2>1, <2>3, SMT
    <2> QED
      BY <2>1, <2>3, <2>4, KthIndexIsBijective
  <1>3. ASSUME NEW s \in owed, NEW t \in owed, s # t
        PROVE  LineBefore(o, file, c, s, t) \/ LineBefore(o, file, c, t, s)
    <2> DEFINE a == blockOf(s)
               b == blockOf(t)
               n == LinesIn(o, file, b)
    <2>1. CASE a # b
      <3>1. BlockBefore(o, c, a, b) \/ BlockBefore(o, c, b, a)
        BY <1>1, <2>1, BlocksAreOrdered
      <3> QED
        BY <3>1 DEF LineBefore
    <2>2. CASE a = b
      <3>1. /\ b \in Words /\ n \in Nat \ {0}
            /\ s \in StartsIn(o, file, b) /\ t \in StartsIn(o, file, b)
            /\ IndexIn(o, file, b, s) \in 0 .. n - 1 /\ IndexIn(o, file, b, t) \in 0 .. n - 1
        BY <1>1, <2>2
      <3>2. IndexIn(o, file, b, s) # IndexIn(o, file, b, t)
        BY <1>3, <3>1, LinesAreNumbered
      <3> HIDE DEF n, a, b
      <3>3. PICK k \in 0 .. n - 1 : KthIndex(o, c, b, n, k) = IndexIn(o, file, b, s)
        BY <3>1, KthIndexIsBijective
      <3>4. PICK j \in 0 .. n - 1 : KthIndex(o, c, b, n, j) = IndexIn(o, file, b, t)
        BY <3>1, KthIndexIsBijective
      <3>5. (k \in 0 .. j - 1) \/ (j \in 0 .. k - 1)
        <4>1. k # j
          BY <3>2, <3>3, <3>4
        <4> QED
          BY <3>1, <4>1, SMT
      <3>6. CASE k \in 0 .. j - 1
        <4>1. LineBefore(o, file, c, s, t)
          BY <2>2, <3>3, <3>4, <3>6 DEF LineBefore, a, b, n
        <4> QED
          BY <4>1
      <3>7. CASE j \in 0 .. k - 1
        <4>1. LineBefore(o, file, c, t, s)
          BY <2>2, <3>3, <3>4, <3>7 DEF LineBefore, a, b, n
        <4> QED
          BY <4>1
      <3> QED
        BY <3>5, <3>6, <3>7
    <2> QED
      BY <2>1, <2>2
  <1> QED
    BY <1>2, <1>3

-----------------------------------------------------------------------------
(* Sequences of lines in the order of the cycles.                          *)

\* How many lines a cycle returns, and the cycle of the i-th line returned.
CycleLength(o, file) == Cardinality(OwedStarts(o, file, 0))

CycleOf(o, file, i) == (i - 1) \div CycleLength(o, file)

\* The i-th line is owed in its cycle, and the lines of that cycle in front of
\* it are exactly those that come before it.
LineInOrder(o, file, lines, i) ==
    LET c == CycleOf(o, file, i)
    IN  /\ c \in Nat
        /\ lines[i] \in Lines(file)
        /\ lines[i].start \in OwedStarts(o, file, c)
        /\ LinesBefore(o, file, c, lines[i].start) =
               { lines[j].start : j \in c * CycleLength(o, file) + 1 .. i - 1 }

InCycleOrder(o, file, lines) == \A i \in 1 .. Len(lines) : LineInOrder(o, file, lines, i)

LEMMA CycleLengthIsNat ==
    ASSUME NEW o, NEW file \in Seq(Byte)
    PROVE  CycleLength(o, file) \in Nat
  <1>1. OwedStarts(o, file, 0) \in SUBSET LineStarts(file)
    BY DEF OwedStarts
  <1> QED
    BY <1>1, StartsAreFinite DEF CycleLength

\* What comes before a line tells it from the others.
LEMMA BeforeTells ==
    ASSUME NEW o \in ValidOptions, NEW file \in Seq(Byte), NEW c \in Nat,
           NEW s \in OwedStarts(o, file, c), NEW t \in OwedStarts(o, file, c),
           LinesBefore(o, file, c, s) = LinesBefore(o, file, c, t)
    PROVE  s = t
  <1> SUFFICES ASSUME s # t
               PROVE  FALSE
    OBVIOUS
  <1>1. LineBefore(o, file, c, s, t) \/ LineBefore(o, file, c, t, s)
    BY LinesAreOrdered
  <1>2. s \in LinesBefore(o, file, c, s) \/ t \in LinesBefore(o, file, c, t)
    BY <1>1 DEF LinesBefore
  <1> QED
    BY <1>2, LinesAreOrdered DEF LinesBefore

=============================================================================

---------------------------- MODULE BlockCursor ----------------------------
(***************************************************************************)
(* The walk of a Pool over the blocks of its file, the part of             *)
(* loadNextBlockLocked and startCycleLocked that decides which block is    *)
(* read next.  A cycle visits the regions of the pool's shard in a         *)
(* permuted order and the blocks of a region in a rotated order.  Blocks   *)
(* that the last line read runs through (the continuation) are skipped.    *)
(*                                                                         *)
(* Where a line ends is not known here: ContinueLine lets it end in any    *)
(* later block.  Module ProxyPool extends this one with the bytes.         *)
(***************************************************************************)
EXTENDS PoolLayout

CONSTANTS
    Opened,    \* the opened pools considered, see ValidOptions
    MaxCycle   \* bound on the automatic cycles of this module's specification

ASSUME OpenedAssumption == Opened \subseteq ValidOptions /\ MaxCycle \in Nat

VARIABLES
    options,            \* the fields of Pool that Open sets, never changed
    cycle,
    regionCursor,       \* regions entered in this cycle
    nextRegion,         \* region to enter next
    regionAdvance,
    regionBlockBase,    \* first block of the region entered last
    regionBlocks,       \* its number of blocks
    regionBlockNext,    \* blocks of it passed so far
    regionRotation,     \* where in it the walk begins
    continuationStart,  \* blocks from here
    continuationEnd,    \* up to here, exclusive, hold no line start
    block,              \* the block taken last, or NoBlock
    taken,              \* history: blocks taken in this cycle
    skipped             \* history: blocks skipped in this cycle

regionVars == <<regionCursor, nextRegion, regionAdvance, regionBlockBase,
                regionBlocks, regionRotation>>
continuationVars == <<continuationStart, continuationEnd>>
historyVars == <<taken, skipped>>
cursorVars == <<options, cycle, regionVars, regionBlockNext,
                continuationVars, block, historyVars>>

NoBlock == -1

-----------------------------------------------------------------------------
\* The block at the walk's position in the region.
CurrentBlock ==
    regionBlockBase + AddModulo(regionRotation, regionBlockNext, regionBlocks)

InContinuation(b) == continuationStart <= b /\ b < continuationEnd

RegionDone == regionBlockNext >= regionBlocks

\* Mutant: the walk ends one region early.
ExhaustedEarly == RegionDone /\ regionCursor + 1 >= RegionsForShard(options)

Exhausted == RegionDone /\ regionCursor = RegionsForShard(options)

\* startCycleLocked
StartCycle(c) ==
    /\ cycle' = c
    /\ regionCursor' = 0
    /\ regionBlockNext' = 0
    /\ regionBlocks' = 0
    /\ continuationStart' = 0
    /\ continuationEnd' = 0
    /\ nextRegion' = FirstRegion(options, c)
    /\ regionAdvance' = RegionAdvance(options, c)
    /\ block' = NoBlock
    /\ taken' = {}
    /\ skipped' = {}
    /\ UNCHANGED <<options, regionBlockBase, regionRotation>>

TakeBlock ==
    /\ ~ RegionDone
    /\ ~ InContinuation(CurrentBlock)
    /\ regionBlockNext' = regionBlockNext + 1
    /\ block' = CurrentBlock
    /\ taken' = taken \cup {CurrentBlock}
    /\ UNCHANGED <<options, cycle, regionVars, continuationVars, skipped>>

\* Mutant: a skipped block is not passed.
SkipBlockStays ==
    /\ ~ RegionDone
    /\ InContinuation(CurrentBlock)
    /\ skipped' = skipped \cup {CurrentBlock}
    /\ UNCHANGED <<options, cycle, regionVars, regionBlockNext, continuationVars, block, taken>>

SkipBlock ==
    /\ ~ RegionDone
    /\ InContinuation(CurrentBlock)
    /\ regionBlockNext' = regionBlockNext + 1
    /\ skipped' = skipped \cup {CurrentBlock}
    /\ UNCHANGED <<options, cycle, regionVars, continuationVars, block, taken>>

EnterRegion ==
    /\ RegionDone
    /\ regionCursor # RegionsForShard(options)
    /\ regionCursor' = regionCursor + 1
    /\ nextRegion' = AddModulo(nextRegion, regionAdvance, RegionCount(options))
    /\ regionBlockBase' = RegionBase(options, nextRegion)
    /\ regionBlocks' = RegionLength(options, nextRegion)
    /\ regionBlockNext' = 0
    /\ regionRotation' = Rotation(options, cycle, nextRegion)
    /\ UNCHANGED <<options, cycle, regionAdvance, continuationVars, block, historyVars>>

\* The last line of the block taken last ends in block end - 1, or right
\* before block end.
ContinueLine(end) ==
    /\ block # NoBlock
    /\ continuationStart' = block + 1
    /\ continuationEnd' = end
    /\ UNCHANGED <<options, cycle, regionVars, regionBlockNext, block, historyVars>>

NextCycle ==
    /\ Exhausted
    /\ options.reuse
    /\ cycle < MaxCycle
    /\ StartCycle(cycle + 1)

\* Reset
Rewind == StartCycle(0)

-----------------------------------------------------------------------------
CursorInit ==
    /\ options \in Opened
    /\ cycle = 0
    /\ regionCursor = 0
    /\ nextRegion = FirstRegion(options, 0)
    /\ regionAdvance = RegionAdvance(options, 0)
    /\ regionBlockBase = 0
    /\ regionBlocks = 0
    /\ regionBlockNext = 0
    /\ regionRotation = 0
    /\ continuationStart = 0
    /\ continuationEnd = 0
    /\ block = NoBlock
    /\ taken = {}
    /\ skipped = {}

CursorNext ==
    \/ TakeBlock
    \/ SkipBlock
    \/ EnterRegion
    \/ NextCycle
    \/ Rewind
    \/ \E end \in 0 .. BlockCount(options) : block + 1 <= end /\ ContinueLine(end)

CursorSpec == CursorInit /\ [][CursorNext]_cursorVars

-----------------------------------------------------------------------------
(* Properties. *)

\* The fields of Pool that place the walk stay within the file's layout.
CursorTypeOK ==
    /\ options \in ValidOptions
    /\ cycle \in Nat
    /\ regionCursor \in 0 .. RegionsForShard(options)
    /\ nextRegion \in 0 .. Greater(0, RegionCount(options) - 1)
    /\ regionAdvance \in 0 .. RegionCount(options)
    /\ regionBlockBase \in 0 .. BlockCount(options)
    /\ regionBlocks \in 0 .. BlocksPerRegion(options)
    /\ regionBlockNext \in 0 .. regionBlocks
    /\ regionRotation \in 0 .. BlocksPerRegion(options) - 1
    /\ continuationStart \in 0 .. BlockCount(options)
    /\ continuationEnd \in 0 .. BlockCount(options)
    /\ block \in {NoBlock} \cup 0 .. BlockCount(options) - 1
    /\ taken \subseteq 0 .. BlockCount(options) - 1
    /\ skipped \subseteq 0 .. BlockCount(options) - 1

\* The blocks of the region entered last that were passed.
PassedInRegion ==
    { regionBlockBase + AddModulo(regionRotation, j, regionBlocks) :
          j \in 0 .. regionBlockNext - 1 }

\* The walk keeps to the order that the seed, the cycle and the shard fix: the
\* fields that loadNextBlockLocked advances step by step always agree with the
\* position computed afresh from regionCursor and regionBlockNext, and what was
\* taken or skipped is what lies before that position.
OnSchedule ==
    /\ regionAdvance = RegionAdvance(options, cycle)
    /\ regionCursor < RegionsForShard(options) =>
           nextRegion = ShardRegion(options, cycle, regionCursor)
    /\ regionCursor = 0 => regionBlocks = 0 /\ taken \cup skipped = {}
    /\ regionCursor > 0 =>
           LET region == ShardRegion(options, cycle, regionCursor - 1)
           IN  /\ regionBlockBase = RegionBase(options, region)
               /\ regionBlocks = RegionLength(options, region)
               /\ regionRotation = Rotation(options, cycle, region)
               /\ taken \cup skipped =
                      FirstBlocks(options, cycle, regionCursor - 1) \cup PassedInRegion

\* The block that the walk comes to next (loadNextBlockLocked) has not been
\* loaded or skipped before in the cycle, and lies in the file.
NextBlockIsNew ==
    ~ RegionDone =>
        /\ CurrentBlock \notin taken \cup skipped
        /\ CurrentBlock < BlockCount(options)

\* When loadNextBlockLocked finds the shard exhausted, every block of the
\* shard's regions has been passed, and no block of another shard.
ExhaustedMeansAllPassed ==
    Exhausted => taken \cup skipped = ShardBlocks(options, cycle)

\* Options.ShardCount: pools opened alike, one for each shard, walk every block
\* of the file exactly once between them.
ShardsPartitionBlocks ==
    \A b \in 0 .. BlockCount(options) - 1 :
        \E shard \in 0 .. options.shardCount - 1 :
            { i \in 0 .. options.shardCount - 1 :
                b \in ShardBlocks([options EXCEPT !.shardIndex = i], cycle) } = {shard}
=============================================================================

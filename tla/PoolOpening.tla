---------------------------- MODULE PoolOpening ----------------------------
(***************************************************************************)
(* proxypool.Open: the checks it makes, in their order, and the options of *)
(* the pool it returns.  ValidOptions of module PoolLayout is what the     *)
(* other modules assume of an opened pool; this module says how Open gets  *)
(* there, with ints as wide as the platform's.                             *)
(***************************************************************************)
EXTENDS PoolStorage

CONSTANTS
    DefaultSequentialBufferBytes,  \* 1 MiB in the code
    DefaultBlockBytes,             \* 4 MiB in the code
    DefaultMaxLineBytes,           \* 64 KiB in the code
    Int64Max

ASSUME OpeningAssumption ==
    /\ Int64Max \in Words \ {0}
    /\ {DefaultSequentialBufferBytes, DefaultBlockBytes, DefaultMaxLineBytes,
        DefaultRegionBytes} \subseteq 1 .. Int64Max

\* What Options can hold; the integers of the code are signed.
AskedOptions ==
    [mode : STRING, reuse : BOOLEAN, seed : Words, sequentialBufferBytes : Int,
     blockBytes : Int, regionBytes : -(Int64Max + 1) .. Int64Max, maxLineBytes : Int,
     shardCount : -(Int64Max + 1) .. Int64Max, shardIndex : Int, prefetch : BOOLEAN]

AskedFiles == [status : STRING, size : 0 .. Int64Max]

PositiveOrDefault(value, fallback) == IF value > 0 THEN value ELSE fallback

AskedLine(a) == PositiveOrDefault(a.maxLineBytes, DefaultMaxLineBytes)

AskedShards(a) == Greater(a.shardCount, 1)

AskedBlock(a) ==
    IF a.mode = "ModeSequential"
    THEN PositiveOrDefault(a.sequentialBufferBytes, DefaultSequentialBufferBytes)
    ELSE PositiveOrDefault(a.blockBytes, DefaultBlockBytes)

AskedRegion(a) ==
    IF a.mode = "ModeSequential"
    THEN Greater(DefaultRegionBytes, AskedBlock(a))
    ELSE PositiveOrDefault(a.regionBytes, DefaultRegionBytes)

\* A file is opened, looked at and refused unless it is regular; its status
\* is "missing", "unknown" (Stat fails), "irregular" or "regular".
FileRefused(a, file) ==
    \/ a.mode \notin {"ModeSequential", "ModeShuffled"}
    \/ file.status # "regular"

ShardsRefused(a) ==
    \/ a.shardIndex < 0 \/ a.shardIndex >= AskedShards(a)
    \/ a.mode = "ModeSequential" /\ (AskedShards(a) # 1 \/ a.shardIndex # 0)
    \/ a.reuse /\ AskedShards(a) > 1

\* The sizes whose sum, whose offsets or whose aligned buffer would overflow;
\* each test may form its numbers because those before it passed.
SizesRefused(p, a) ==
    LET longest == AskedBlock(a) + AskedLine(a) + 3
    IN  \/ AskedLine(a) > p.intMax - 2
        \/ AskedBlock(a) > p.intMax - AskedLine(a) - 3
        \/ longest > p.offsetMax
        \/ BufferBytes(longest) > p.intMax

\* Mutant: a region may be smaller than a block.
RegionUnchecked(a) ==
    AskedRegion(a) \div AskedBlock(a) > Int64Max \div AskedBlock(a)

RegionRefused(a) ==
    \/ AskedRegion(a) < AskedBlock(a)
    \/ AskedRegion(a) \div AskedBlock(a) > Int64Max \div AskedBlock(a)

Refuses(p, a, file) ==
    FileRefused(a, file) \/ ShardsRefused(a) \/ SizesRefused(p, a) \/ RegionRefused(a)

\* The pool that is returned; a shuffled one without a seed draws one.
OpenedPools(a, file) ==
    { [mode |-> a.mode, reuse |-> a.reuse, seed |-> seed, fileSize |-> file.size,
       blockBytes |-> AskedBlock(a), regionBytes |-> AskedRegion(a),
       maxLineBytes |-> AskedLine(a),
       shardCount |-> AskedShards(a), shardIndex |-> a.shardIndex] :
          seed \in IF a.mode = "ModeSequential" THEN {0}
                   ELSE IF a.seed # 0 THEN {a.seed} ELSE Words \ {0} }
=============================================================================

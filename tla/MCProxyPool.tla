---------------------------- MODULE MCProxyPool ----------------------------
(* Small files and pools for TLC.                                           *)
EXTENDS ProxyPool

CONSTANTS
    MaxSize,       \* longest file
    Alphabet,      \* bytes the files are made of
    BlockSizes,    \* block sizes tried
    LineLimits,    \* line limits tried
    RegionSizes,   \* region sizes tried, in blocks
    Shards,        \* shard counts tried
    Seeds,         \* seeds tried; a sequential pool is tried too
    Reuses

MCMix(a, b) == (a * a * 7 + b * 29 + a * b * 3 + 11) % WordSize

SourcesUpTo(n) == UNION { [1 .. length -> Alphabet] : length \in 0 .. n }

MCSources == SourcesUpTo(MaxSize)

Shuffled ==
    { [mode |-> "ModeShuffled", reuse |-> reuse, seed |-> seed, fileSize |-> size,
       blockBytes |-> blockBytes, regionBytes |-> blocks * blockBytes,
       maxLineBytes |-> limit, shardCount |-> shards, shardIndex |-> shard] :
          reuse \in Reuses, seed \in Seeds, size \in 0 .. MaxSize,
          blockBytes \in BlockSizes, blocks \in RegionSizes, limit \in LineLimits,
          shards \in Shards, shard \in 0 .. Max(Shards) - 1 }

Sequential ==
    { [mode |-> "ModeSequential", reuse |-> reuse, seed |-> 0, fileSize |-> size,
       blockBytes |-> blockBytes,
       regionBytes |-> Greater(DefaultRegionBytes, blockBytes),
       maxLineBytes |-> limit, shardCount |-> 1, shardIndex |-> 0] :
          reuse \in Reuses, size \in 0 .. MaxSize,
          blockBytes \in BlockSizes, limit \in LineLimits }

MCOpened == { o \in Shuffled \cup Sequential : o \in ValidOptions }

Symmetry == Permutations(Callers)
=============================================================================

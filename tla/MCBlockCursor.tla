--------------------------- MODULE MCBlockCursor ---------------------------
(* Small pools for TLC: every file of up to MaxSize bytes, cut into blocks  *)
(* and regions of every small size, for each shard of up to MaxShards.      *)
EXTENDS BlockCursor

CONSTANTS MaxSize, MaxShards, MaxSeed

MCMix(a, b) == (a * a * 7 + b * 29 + a * b * 3 + 11) % WordSize

Shuffled ==
    { [mode |-> "ModeShuffled", reuse |-> reuse, seed |-> seed,
       fileSize |-> size, blockBytes |-> blockBytes, regionBytes |-> regionBytes,
       maxLineBytes |-> 1, shardCount |-> shards, shardIndex |-> shard] :
          reuse \in BOOLEAN, seed \in 1 .. MaxSeed, size \in 0 .. MaxSize,
          blockBytes \in 1 .. 2, regionBytes \in 1 .. 4,
          shards \in 1 .. MaxShards, shard \in 0 .. MaxShards - 1 }

Sequential ==
    { [mode |-> "ModeSequential", reuse |-> reuse, seed |-> 0,
       fileSize |-> size, blockBytes |-> blockBytes,
       regionBytes |-> Greater(DefaultRegionBytes, blockBytes),
       maxLineBytes |-> 1, shardCount |-> 1, shardIndex |-> 0] :
          reuse \in BOOLEAN, size \in 0 .. MaxSize, blockBytes \in 1 .. 3 }

MCOpened == { o \in Shuffled \cup Sequential : o \in ValidOptions }
=============================================================================

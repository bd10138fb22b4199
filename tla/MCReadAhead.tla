---------------------------- MODULE MCReadAhead ----------------------------
(* One sequential and one shuffled pool of a few blocks for TLC.            *)
EXTENDS ReadAhead

CONSTANTS FileSizes, BlockBytes, BlocksOfRegion, LineLimit, Reuses

MCMix(a, b) == (a * a * 7 + b * 29 + a * b * 3 + 11) % WordSize

Shuffled ==
    { [mode |-> "ModeShuffled", reuse |-> reuse, seed |-> 1, fileSize |-> size,
       blockBytes |-> BlockBytes, regionBytes |-> BlocksOfRegion * BlockBytes,
       maxLineBytes |-> LineLimit, shardCount |-> 1, shardIndex |-> 0] :
          reuse \in Reuses, size \in FileSizes }

Sequential ==
    { [mode |-> "ModeSequential", reuse |-> reuse, seed |-> 0, fileSize |-> size,
       blockBytes |-> BlockBytes, regionBytes |-> Greater(DefaultRegionBytes, BlockBytes),
       maxLineBytes |-> LineLimit, shardCount |-> 1, shardIndex |-> 0] :
          reuse \in Reuses, size \in FileSizes }

MCOpened == { o \in Shuffled \cup Sequential : o \in ValidOptions }
=============================================================================

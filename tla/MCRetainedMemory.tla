-------------------------- MODULE MCRetainedMemory --------------------------
(* Small pools for TLC, on a platform whose int is narrower than an offset, *)
(* as 32-bit ones are, and on one whose int is wider.                       *)
EXTENDS RetainedMemory

CONSTANTS
    FileSizes,
    AskedBlocks,   \* block sizes asked for; 0 asks for the default
    AskedLines

MCMix(a, b) == (a + b) % WordSize

Narrow == [intMax |-> 31, offsetMax |-> 63]
Wide   == [intMax |-> 255, offsetMax |-> 47]

MCPlatforms == { Narrow, Wide }

\* Pools whose every buffer is followed, without reading ahead.
Plain ==
    { [mode |-> "ModeSequential", reuse |-> FALSE, seed |-> 1,
       sequentialBufferBytes |-> blockBytes, blockBytes |-> 0, regionBytes |-> 0, maxLineBytes |-> line,
       shardCount |-> 0, shardIndex |-> 0, prefetch |-> FALSE] :
          blockBytes \in AskedBlocks, line \in AskedLines }

\* Pools that read ahead: direct reads are allowed of the larger file only.
Ahead ==
    { [options |->
         [mode |-> "ModeShuffled", reuse |-> FALSE, seed |-> 1, sequentialBufferBytes |-> 0,
          blockBytes |-> 6, regionBytes |-> 6, maxLineBytes |-> 1,
          shardCount |-> 0, shardIndex |-> 0, prefetch |-> TRUE],
       file |-> [status |-> "regular", size |-> size]] : size \in {8, 24} }

\* Options that differ from the rest in what is refused.
Odd ==
    { [mode |-> mode, reuse |-> reuse, seed |-> 3, sequentialBufferBytes |-> 2,
       blockBytes |-> 2, regionBytes |-> region, maxLineBytes |-> 1,
       shardCount |-> shards, shardIndex |-> shard, prefetch |-> FALSE] :
          mode \in {"ModeSequential", "ModeShuffled", "other"}, reuse \in BOOLEAN,
          region \in {1, 4}, shards \in {-1, 2}, shard \in -1 .. 2 }

Unseeded ==
    [mode |-> "ModeShuffled", reuse |-> FALSE, seed |-> 0, sequentialBufferBytes |-> 0,
     blockBytes |-> 2, regionBytes |-> 0, maxLineBytes |-> 1,
     shardCount |-> 0, shardIndex |-> 0, prefetch |-> FALSE]

Statuses == {"missing", "unknown", "irregular", "regular"}

Requested(askedFor, files) == { [options |-> a, file |-> f] : a \in askedFor, f \in files }

MCRequests ==
    Requested(Plain, [status : {"regular"}, size : FileSizes])
      \cup Requested(Odd, [status : Statuses, size : {3}])
      \cup Requested({Unseeded}, [status : {"regular"}, size : {0}])
      \cup Ahead

MCElsewhere == { [buffer |-> 3, offsets |-> 7], [buffer |-> 50, offsets |-> 50] }
=============================================================================

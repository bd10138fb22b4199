---------------------------- MODULE MCLineIndex ----------------------------
(* Short blocks for TLC: KernelBytes is 4, so a block of 8 bytes is two     *)
(* masks and one of 7 is a mask and a rest.                                 *)
EXTENDS LineIndex

CONSTANTS
    MaxBlock,     \* bytes of a full block
    Capacities    \* what the offsets' storage holds before the block is loaded

MCMix(a, b) == (a + b) % WordSize

\* A block of the pool's size, or a shorter one at the end of the file.  The
\* storage comes from an earlier block or with a Batch; NextBatch drops what
\* is larger than the bound.
MCBlocks ==
    { [buffer |-> <<before>> \o text, maximum |-> MaxBlock + 1, capacity |-> c] :
          before \in {LF, "Text"},
          text \in UNION { [1 .. n -> Byte] : n \in 1 .. MaxBlock },
          c \in Capacities }
=============================================================================

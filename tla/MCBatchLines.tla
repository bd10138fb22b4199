---------------------------- MODULE MCBatchLines ----------------------------
(* Small blocks for TLC: every order of up to MaxLines lines.               *)
EXTENDS BatchLines

\* The hash plays no part: PoolBlocks has every order there is.
MCMix(a, b) == (a + b) % WordSize
=============================================================================

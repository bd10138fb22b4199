---------------------------- MODULE PoolStorage ----------------------------
(***************************************************************************)
(* How large the storage of a Pool grows: the buffer that blocks are read  *)
(* into (resized, blockread.MakeBuffer) and the line offsets (growOffsets).*)
(* Pure operators over capacities.  int is as wide as the platform makes   *)
(* it; a platform is a record of its largest int and its largest offset.   *)
(***************************************************************************)
EXTENDS BlockLines

CONSTANTS
    PageBytes,      \* 4 KiB in the code
    AlignedBytes,   \* 64 KiB in the code
    FirstOffsets,   \* 1024 in the code
    OffsetsShare    \* 32 in the code

ASSUME StorageAssumption ==
    /\ PageBytes \in Nat \ {0}
    /\ AlignedBytes \in Nat \ {0}
    /\ FirstOffsets \in Nat \ {0}
    /\ OffsetsShare \in Nat \ {0}

\* The result of int arithmetic: two's complement.
AsInt(p, value) ==
    LET words == 2 * (p.intMax + 1)
    IN  IF value \in -(p.intMax + 1) .. p.intMax
        THEN value
        ELSE ((value + p.intMax + 1) % words) - (p.intMax + 1)

\* BufferBytes: what MakeBuffer retains for this capacity.
BufferBytes(capacity) ==
    IF capacity < AlignedBytes THEN capacity ELSE capacity + PageBytes - 1

\* The capacity of a buffer that must grow: by more than was asked, so that
\* neither a terminator nor another piece of a long line grows it again, and
\* never above bufferLimit.  The part behind the block doubles.
GrownCapacity(p, o, cap, length) ==
    LET maximum  == BufferLimit(o)
        base     == Lesser(AsInt(p, o.blockBytes + 2), maximum)
        tail     == Greater(0, cap - base)
        doubled  == Greater(AsInt(p, 2 * tail), TailReadBytes)
        nextTail == IF doubled < tail \/ doubled > maximum - base
                    THEN maximum - base
                    ELSE doubled
        first    == IF o.fileSize > o.blockBytes
                    THEN Lesser(maximum, AsInt(p, o.blockBytes + 2 + LookaheadBytes(o)))
                    ELSE 0
        capacity == Greater(AsInt(p, length + 2),
                            IF cap = 0 THEN first ELSE AsInt(p, base + nextTail))
    IN  IF capacity > maximum \/ capacity < cap THEN maximum ELSE capacity

\* resized: the capacity of the buffer that takes this buffer's place.
Resized(p, o, cap, length) ==
    IF cap >= length THEN cap ELSE GrownCapacity(p, o, cap, length)

PageCeiling(length) == CeilingQuotient(length, PageBytes) * PageBytes

\* lookaheadBytes and the other conditions of openPrefetch under which reads may
\* bypass the system cache.
DirectAllowed(o) ==
    /\ o.blockBytes % PageBytes = 0
    /\ o.blockBytes >= AlignedBytes
    /\ LookaheadBytes(o) = PageBytes
    /\ o.fileSize >= 4 * o.blockBytes

\* growOffsets allows the offsets of a block of single line feeds.
MaxOffsets(o) == Lesser(o.blockBytes, o.fileSize) + 1

\* Mutant: no room for the start of the first line.
GrownOffsetsTight(maximum, cap) ==
    IF cap >= maximum - 1 THEN cap
    ELSE IF cap = 0
    THEN Lesser(maximum - 1, Greater(FirstOffsets, maximum \div OffsetsShare))
    ELSE Lesser(Greater(2 * cap, FirstOffsets), maximum - 1)

\* growOffsets: the capacity that follows this one.
GrownOffsets(maximum, cap) ==
    IF cap >= maximum
    THEN cap
    ELSE IF cap = 0
    THEN Lesser(maximum, Greater(FirstOffsets, maximum \div OffsetsShare))
    ELSE LET doubled == Greater(2 * cap, FirstOffsets)
         IN  IF doubled >= maximum - 1 THEN maximum ELSE doubled
=============================================================================

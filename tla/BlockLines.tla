----------------------------- MODULE BlockLines -----------------------------
(***************************************************************************)
(* How a Pool reads a block and finds its lines: the bytes a block covers, *)
(* the lines it owns, the line limit and the terminator added to the last  *)
(* line of a file.  Pure operators over byte sequences; offsets count      *)
(* from 0 as in the code.                                                  *)
(*                                                                         *)
(* The buffer of a block starts one byte before it: buffer[0] is the byte  *)
(* in front of the block, buffer[1] its first byte.                        *)
(***************************************************************************)
EXTENDS PoolLayout, SequencesExt

CONSTANTS
    TailReadBytes,     \* 4 KiB in the code
    LineReadBytes,     \* 64 KiB in the code
    LookaheadDivisor   \* 8 in the code: a block looks ahead by 1/8 of its size

ASSUME ReadAssumption ==
    /\ TailReadBytes \in Nat \ {0}
    /\ LineReadBytes \in Nat \ {0}
    /\ LookaheadDivisor \in Nat \ {0}

LF == "LF"
CR == "CR"
Byte == {LF, CR, "Text"}

At(bytes, i) == bytes[i + 1]
Slice(bytes, from, to) == SubSeq(bytes, from + 1, to)

\* Positions of LF in bytes[from .. to-1].
LineFeeds(bytes, from, to) == { i \in from .. to - 1 : At(bytes, i) = LF }

-----------------------------------------------------------------------------
(* Reading. *)

LookaheadBytes(o) ==
    Lesser(Lesser(TailReadBytes, o.maxLineBytes + 2), o.blockBytes \div LookaheadDivisor)

\* Mutant: the byte carried from one block is used in front of any other.
BlockReadRangeStale(o, b, carriedBlock) ==
    LET blockStart == b * o.blockBytes
        baseBytes  == Lesser(o.blockBytes, o.fileSize - blockStart)
        remaining  == o.fileSize - blockStart - baseBytes
    IN  [readOffset   |-> blockStart - 1,
         skip         |-> IF b = 0 \/ carriedBlock > 0 THEN 1 ELSE 0,
         ownershipEnd |-> 1 + baseBytes,
         readBytes    |-> 1 + baseBytes + Lesser(LookaheadBytes(o), remaining)]

\* blockReadRange: where a block's read starts, whether its first byte is
\* already known, where the bytes it owns end and how many bytes to read.
BlockReadRange(o, b, carriedBlock) ==
    LET blockStart == b * o.blockBytes
        baseBytes  == Lesser(o.blockBytes, o.fileSize - blockStart)
        remaining  == o.fileSize - blockStart - baseBytes
    IN  [readOffset   |-> blockStart - 1,
         skip         |-> IF b = 0 \/ b = carriedBlock THEN 1 ELSE 0,
         ownershipEnd |-> 1 + baseBytes,
         readBytes    |-> 1 + baseBytes + Lesser(LookaheadBytes(o), remaining)]

\* How many bytes extendLineLocked reads next, for a buffer of this length
\* that ends at this offset of the file.
ExtendReadBytes(o, length, limit, absoluteEnd) ==
    Lesser(Lesser(Lesser(LineReadBytes, Greater(TailReadBytes, o.blockBytes)),
                  limit - length),
           o.fileSize - absoluteEnd)

\* Mutant: no room is left for the byte in front of the block.
BufferLimitTight(o) == Lesser(o.blockBytes + o.maxLineBytes, o.fileSize) + 2

\* bufferLimit: no buffer needs more than a block, the longest line, the byte
\* in front and a terminator of two bytes.
BufferLimit(o) == Lesser(o.blockBytes + o.maxLineBytes, o.fileSize) + 3

\* What ReadAt(p, offset) of a file returns when no error occurs.
ReadAt(bytes, offset, length) ==
    Slice(bytes, offset, Lesser(offset + length, Len(bytes)))

-----------------------------------------------------------------------------
(* Lines. *)

\* Mutant: the line terminator counts.
TerminatorCounts(line, limit) == Len(line) > limit

\* exceedsLineLimit: whether a line, with its LF if it has one, is too long.
\* Neither LF nor a CR before it counts.
ExceedsLineLimit(line, limit) ==
    LET length == Len(line)
    IN  /\ length > limit
        /\ \/ Last(line) # LF
           \/ /\ length - 1 > limit
              /\ length - 2 > limit \/ line[length - 1] # CR

NoLine == 0

\* Where the first line owned by the block starts: at 1 after a line feed,
\* else behind the first line feed of the block; NoLine when there is none.
FirstLineStart(buffer, ownershipEnd) ==
    LET feeds == LineFeeds(buffer, 0, ownershipEnd)
        first == IF feeds = {} THEN ownershipEnd ELSE Min(feeds) + 1
    IN  IF first >= ownershipEnd THEN NoLine ELSE first

\* lineindex.Ends: the offsets just past each line feed, ascending.
LineEnds(buffer, from, to) ==
    LET feeds == LineFeeds(buffer, from, to)
    IN  [k \in 1 .. Cardinality(feeds) |->
           1 + CHOOSE i \in feeds : Cardinality({ j \in feeds : j <= i }) = k]

\* The carriage-return hint of lineindex.Ends: certain when an LF follows a
\* CR or when there is no CR, else either value, depending on the backend.
ReturnHints(buffer, from, to) ==
    IF \E i \in LineFeeds(buffer, from, to) : At(buffer, i - 1) = CR
    THEN {TRUE}
    ELSE IF \E i \in from .. to - 1 : At(buffer, i) = CR
         THEN BOOLEAN
         ELSE {FALSE}

\* Mutant: the CR that ends a file is left in front of the LF added.
TerminatorPlain(buffer) == <<LF>>

\* terminateLocked: a line that ends with the file gets the LF it lacks, or
\* CR LF when its last byte is a CR, so that trimming keeps that CR.
Terminator(buffer) == IF Last(buffer) = CR THEN <<CR, LF>> ELSE <<LF>>

\* The bytes of a line that are returned: no LF and, if the block may hold a
\* CR LF, no CR before it.
Trimmed(line, cr) ==
    LET text == Front(line)
    IN  IF cr /\ text # <<>> /\ Last(text) = CR THEN Front(text) ELSE text

\* The same in a batch: trimReturn looks at the byte in front of the LF even
\* when the line is empty and that byte is not its own.
BatchTrimmed(buffer, start, next) ==
    Slice(buffer, start, IF At(buffer, next - 2) = CR THEN next - 2 ELSE next - 1)

-----------------------------------------------------------------------------
(* What a file's lines are, independent of blocks: the reference.          *)

LineStarts(bytes) ==
    { i \in 0 .. Len(bytes) - 1 : i = 0 \/ At(bytes, i - 1) = LF }

\* The text of the line that starts here: up to an LF, a CR before that LF
\* dropped, or to the end of the file, everything kept.
LineText(bytes, start) ==
    LET feeds == LineFeeds(bytes, start, Len(bytes))
        line  == Slice(bytes, start, Min(feeds))
    IN  IF feeds = {}
        THEN Slice(bytes, start, Len(bytes))
        ELSE IF line # <<>> /\ Last(line) = CR THEN Front(line) ELSE line

Lines(bytes) == { [start |-> s, text |-> LineText(bytes, s)] : s \in LineStarts(bytes) }
=============================================================================

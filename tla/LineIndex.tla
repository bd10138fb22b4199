----------------------------- MODULE LineIndex -----------------------------
(***************************************************************************)
(* How the lines of one block are found: indexBlockLocked of proxypool and *)
(* lineindex.Ends, with the portable scanner and the vector kernels.       *)
(* The offsets have a capacity.  Ends stops when room runs short, the pool *)
(* grows the offsets and calls it again where it stopped, all of it under  *)
(* the pool's mutex.                                                       *)
(*                                                                         *)
(* Module ProxyPool uses LineEnds and ReturnHints of BlockLines for the    *)
(* result; this module shows that the code arrives at it.                  *)
(***************************************************************************)
EXTENDS PoolStorage

CONSTANTS
    KernelBytes,      \* 64 in the code: bytes whose line feeds form one mask
    SearchLineBytes,  \* 44 in the code: a line this long keeps the search on
    WordLanes,        \* 4 in the code: gaps compared at a time
    VectorLanes,      \* 8 in the code, 4 with NEON
    Backends,         \* "scalar", "AVX" (a test of room per run), "NEON" (per block)
    Blocks            \* what a block may look like, see MCLineIndex

ASSUME IndexAssumption ==
    /\ KernelBytes \in Nat /\ KernelBytes >= 4   \* the kernels store four ends at a time
    /\ {SearchLineBytes, WordLanes, VectorLanes} \subseteq Nat \ {0}
    /\ FirstOffsets >= 2 * KernelBytes
    /\ Backends \subseteq {"scalar", "AVX", "NEON"}

\* A block has the byte in front of it and bytes of its own, no more than
\* growOffsets counts on; NextBatch drops storage above the bound.
ASSUME BlocksAssumption ==
    \A b \in Blocks :
        /\ b.maximum \in Nat
        /\ b.buffer \in Seq(Byte) /\ Len(b.buffer) \in 2 .. b.maximum
        /\ b.capacity \in 0 .. b.maximum

VARIABLES
    backend,
    buffer,     \* the block, the byte in front of it first
    maximum,    \* growOffsets allows this many offsets
    capacity,   \* cap(pool.offsets)
    offsets,
    cr,
    position,   \* up to here the block is indexed
    ends,       \* the call of Ends under way
    pc

indexVars == <<backend, buffer, maximum, capacity, offsets, cr, position, ends, pc>>
blockVars == <<backend, buffer, maximum>>

\* Results so far of a call of Ends, and what it keeps between its turns.
\* touched is the highest element of dst written, found ends or not.
EndsCall == [stored |-> <<>>, consumed |-> 0, cr |-> FALSE, touched |-> 0,
             search |-> FALSE, previous |-> 0, run |-> 0]

end == Len(buffer)
LineStart == FirstLineStart(buffer, end)

Room == capacity - Len(offsets)
RoomLeft == Room - Len(ends.stored)

\* src is buffer[position .. end-1].
SourceBytes == end - position
SourceLeft == SourceBytes - ends.consumed
Src(i) == At(buffer, position + i)
FeedsIn(from, to) == { i \in from .. to - 1 : Src(i) = LF }
EndsIn(from, to) == LineEnds(buffer, position + from, position + to)
HasReturn(from, to) == \E i \in from .. to - 1 : Src(i) = CR

IndexInit ==
    /\ backend \in Backends
    /\ \E b \in Blocks :
          /\ buffer = b.buffer
          /\ maximum = b.maximum
          /\ capacity = b.capacity
    /\ offsets = <<>>
    /\ cr = FALSE
    /\ position = 0
    /\ ends = EndsCall
    /\ pc = "load"

-----------------------------------------------------------------------------
(* The pool's side. *)

\* appendOffset.  Offsets that are full although growOffsets left them alone
\* would be reallocated by append.
AppendOffset(offset) ==
    LET grown == IF Len(offsets) = capacity THEN GrownOffsets(maximum, capacity) ELSE capacity
    IN  /\ capacity' = IF Len(offsets) = grown THEN 2 * grown + 1 ELSE grown
        /\ offsets' = Append(offsets, offset)

\* loadBlockLocked up to indexBlockLocked.
Load ==
    /\ pc = "load"
    /\ IF LineStart = NoLine
       THEN /\ pc' = "done"
            /\ UNCHANGED <<capacity, offsets, position>>
       ELSE /\ AppendOffset(LineStart)
            /\ position' = LineStart
            /\ pc' = "index"
    /\ UNCHANGED <<blockVars, cr, ends>>

\* indexBlockLocked before a call of Ends, and the choice Ends makes first.
CallEnds ==
    /\ pc = "index"
    /\ position < end
    /\ capacity' = IF Room < KernelBytes THEN GrownOffsets(maximum, capacity) ELSE capacity
    /\ ends' = EndsCall
    /\ pc' = IF backend = "scalar"
             THEN "scalar"
             ELSE IF SourceBytes >= KernelBytes /\ capacity' - Len(offsets) >= KernelBytes
             THEN "kernel"
             ELSE "tail"
    /\ UNCHANGED <<blockVars, offsets, cr, position>>

\* Mutant: the byte in front of what Ends was given is not looked at.
ReturnBefore == FALSE

\* Whether the byte in front of what Ends was given is a CR.
FollowsReturn == At(buffer, position - 1) = CR

\* indexBlockLocked after the call.
TakeEnds ==
    /\ pc = "return"
    /\ offsets' = offsets \o ends.stored
    /\ cr' = (cr \/ ends.cr \/ FollowsReturn)
    /\ position' = position + ends.consumed
    /\ pc' = "index"
    /\ UNCHANGED <<blockVars, capacity, ends>>

\* The end of a line that continues behind the block, or lacks its LF, is
\* appended; where it lies is the matter of module ProxyPool.
FinishBlock ==
    /\ pc = "index"
    /\ position >= end
    /\ IF Last(offsets) < end
       THEN AppendOffset(end + 1)
       ELSE UNCHANGED <<capacity, offsets>>
    /\ pc' = "done"
    /\ UNCHANGED <<blockVars, cr, position, ends>>

-----------------------------------------------------------------------------
(* endsScalar: masks of KernelBytes while lines are short, a search for    *)
(* each line feed while they are long and for the rest of the source.      *)

EndsReturns ==
    /\ pc' = "return"
    /\ UNCHANGED ends

Scalar == pc = "scalar" /\ UNCHANGED <<blockVars, capacity, offsets, cr, position>>

SearchLine ==
    /\ Scalar
    /\ SourceLeft > 0
    /\ ends.search
    /\ LET feeds == FeedsIn(ends.consumed, SourceBytes)
           first == Min(feeds)
       IN  IF RoomLeft = 0
           THEN EndsReturns
           ELSE IF feeds = {}
           THEN /\ ends' = [ends EXCEPT !.consumed = SourceBytes]
                /\ pc' = "return"
           ELSE /\ ends' = [ends EXCEPT
                      !.stored   = Append(@, position + first + 1),
                      !.touched  = Greater(@, Len(ends.stored) + 1),
                      !.cr       = @ \/ Src(Greater(first - 1, 0)) = CR,
                      !.search   = first - ends.previous >= SearchLineBytes,
                      !.consumed = first + 1,
                      !.previous = first + 1]
                /\ UNCHANGED pc

RoomForMask == RoomLeft >= KernelBytes

\* The first two ends are stored whether there are as many or not; an end
\* that is not there is taken to lie behind the mask's last byte.
MaskBlock ==
    /\ Scalar
    /\ SourceLeft > 0
    /\ ~ends.search
    /\ LET next  == ends.consumed + KernelBytes
           feeds == FeedsIn(ends.consumed, next)
           count == Cardinality(feeds)
           seen  == IF count < 2 THEN feeds \cup {next} ELSE feeds
       IN  IF SourceLeft < KernelBytes
           THEN /\ ends' = [ends EXCEPT !.search = TRUE]
                /\ UNCHANGED pc
           ELSE IF ~RoomForMask
           THEN EndsReturns
           ELSE /\ ends' = [ends EXCEPT
                      !.stored   = @ \o EndsIn(ends.consumed, next),
                      !.touched  = Greater(@, Len(ends.stored) + Greater(2, count)),
                      !.cr       = @ \/ \E i \in seen : Src(Greater(i - 1, 0)) = CR,
                      !.search   = count < 2,
                      !.consumed = next,
                      !.previous = IF feeds = {} THEN @ ELSE Max(feeds) + 1]
                /\ UNCHANGED pc

ScalarDone == Scalar /\ SourceLeft = 0 /\ EndsReturns

-----------------------------------------------------------------------------
(* The vector kernels take whole blocks; a shorter rest is copied into a   *)
(* block of its own.                                                       *)

WholeLeft == SourceLeft \div KernelBytes

Vector(stage) == pc = stage /\ UNCHANGED <<blockVars, capacity, offsets, cr, position>>

\* Mutant: a run may use one block more than there is room for.
RunLong == Lesser(RoomLeft \div KernelBytes + 1, WholeLeft)

\* Blocks the kernel takes before it tests the room again.
Run ==
    IF backend = "AVX"
    THEN Lesser(RoomLeft \div KernelBytes, WholeLeft)
    ELSE IF RoomLeft >= KernelBytes /\ WholeLeft > 0 THEN 1 ELSE 0

ArmRun ==
    /\ Vector("kernel")
    /\ ends.run = 0
    /\ ends' = [ends EXCEPT !.run = Run]
    /\ pc' = IF Run = 0 THEN "tail" ELSE "kernel"

\* Two ends are stored for any block and four for one with more than two.
KernelBlock ==
    /\ Vector("kernel")
    /\ ends.run > 0
    /\ LET next  == ends.consumed + KernelBytes
           feeds == FeedsIn(ends.consumed, next)
           count == Cardinality(feeds)
       IN  ends' = [ends EXCEPT
              !.stored   = @ \o EndsIn(ends.consumed, next),
              !.touched  = Greater(@, Len(ends.stored)
                                        + IF count > 2 THEN Greater(4, count) ELSE 2),
              !.cr       = @ \/ HasReturn(ends.consumed, next),
              !.consumed = next,
              !.run      = @ - 1]
    /\ UNCHANGED pc

TailFits == SourceLeft \in 1 .. KernelBytes - 1 /\ RoomLeft >= SourceLeft

TailBlock ==
    /\ Vector("tail")
    /\ LET feeds == FeedsIn(ends.consumed, SourceBytes)
       IN  ends' = IF TailFits
                   THEN [ends EXCEPT
                           !.stored   = @ \o EndsIn(ends.consumed, SourceBytes),
                           !.touched  = Greater(@, Len(ends.stored) + Cardinality(feeds)),
                           !.cr       = @ \/ HasReturn(ends.consumed, SourceBytes),
                           !.consumed = SourceBytes]
                   ELSE ends
    /\ pc' = "return"

-----------------------------------------------------------------------------
IndexNext ==
    \/ Load \/ CallEnds \/ TakeEnds \/ FinishBlock
    \/ SearchLine \/ MaskBlock \/ ScalarDone
    \/ ArmRun \/ KernelBlock \/ TailBlock

\* One goroutine runs the loop; nothing it waits for can keep it.
IndexSpec == IndexInit /\ [][IndexNext]_indexVars /\ WF_indexVars(IndexNext)

-----------------------------------------------------------------------------
(* MaxGap, the length of the longest line. *)

Gaps(from, to) == { offsets[i + 1] - offsets[i] : i \in from .. to }

\* Groups of lanes first, then what is left one by one.
MaxGap ==
    LET last  == Len(offsets) - 1
        lanes == IF backend = "scalar" \/ last < VectorLanes THEN WordLanes ELSE VectorLanes
        gaps  == lanes * (last \div lanes)
    IN  Max({0} \cup Gaps(1, gaps) \cup Gaps(gaps + 1, last))

-----------------------------------------------------------------------------
(* Properties. *)

\* Whichever backend found them, and however often it had to stop for room,
\* the offsets are the start of the first line and the end of every line, no
\* line that ends in CR LF goes unnoticed (cr is what BlockLines promises),
\* and MaxGap, which decides whether lines are tested against the limit, is
\* the length of the longest of them.
OffsetsAreLineEnds ==
    pc = "done" /\ LineStart # NoLine =>
        LET found == <<LineStart>> \o LineEnds(buffer, LineStart, end)
        IN  /\ offsets = IF Last(found) < end THEN Append(found, end + 1) ELSE found
            /\ cr \in ReturnHints(buffer, LineStart, end)
            /\ MaxGap = Max({0} \cup Gaps(1, Len(offsets) - 1))

\* Ends writes inside the unused part of the offsets, the ends it stores
\* without counting them included, and the offsets never outgrow the bound
\* that Stats.MaxRetainedBytes allows for: append never reallocates them.
RoomSuffices ==
    /\ pc \in {"scalar", "kernel", "tail", "return"} => ends.touched <= Room
    /\ Len(offsets) <= capacity
    /\ capacity <= maximum

\* The loop around Ends ends: it never makes a call that consumes nothing
\* and then makes the same call again, which would hold the pool's mutex for
\* good.
IndexingEnds == <>(pc = "done")
=============================================================================

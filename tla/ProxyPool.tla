----------------------------- MODULE ProxyPool -----------------------------
(***************************************************************************)
(* proxypool.Pool: callers take lines from one file through Next or        *)
(* NextBatch, rewind it with Reset and end it with Close.  A mutex         *)
(* serialises the calls and is held during file I/O, so what interleaves   *)
(* with a call in progress is the file itself: between two system calls it *)
(* may be truncated, extended, touched or rewritten, and a call may fail.  *)
(*                                                                         *)
(* Module BlockCursor decides which block is read; this module reads it,   *)
(* finds its lines and hands them out.  NextBytes is Next with another     *)
(* destination for the same bytes and is not told apart from it.           *)
(***************************************************************************)
EXTENDS BlockCursor, BlockLines

CONSTANTS
    Callers,     \* goroutines that use the pool
    Sources,     \* the files considered, sequences of Byte
    Operations,  \* the methods the callers use
    MaxCursor,   \* no new line is asked for once this many were returned
    MaxChanges,  \* bound on changes of the file
    MaxFaults    \* bound on failing system calls

NoCaller == "nobody"

ASSUME PoolAssumption ==
    /\ NoCaller \notin Callers
    /\ Sources \subseteq Seq(Byte)
    /\ Operations \subseteq {"Next", "NextBatch", "Reset", "Close"}
    /\ MaxCursor \in Nat
    /\ MaxChanges \in Nat
    /\ MaxFaults \in Nat

VARIABLES
    source,            \* the bytes of the file when it was opened
    disk,              \* its bytes now, and the changes made to it
    faults,            \* failed system calls so far
    closed,
    terminal,          \* the error that ended iteration, or NoError
    buffer,            \* bytes of the block read last, see BlockLines
    offsets,           \* where its lines start, and where the last one ends
    cr,                \* whether a line of it may end with CR LF
    lineCursor,        \* lines of it returned
    nextLine,          \* index of the line to return next
    lineStep,
    carriedBlock,      \* the block behind the one read last
    carried,           \* the byte in front of that block
    cursor,            \* lines returned since open or Reset
    cycleStartCursor,  \* cursor when the cycle began
    holder,            \* the caller that holds the mutex, or NoCaller
    pc,                \* what the holder does next
    call,              \* the method each caller is in, or NoCall
    history,           \* lines returned since open or Reset
    record             \* the longest history so far

fileVars  == <<source, disk>>
lineVars  == <<buffer, offsets, cr, lineCursor, nextLine, lineStep>>
carryVars == <<carriedBlock, carried>>
countVars == <<cursor, cycleStartCursor, history, record>>
callVars  == <<holder, pc, call>>
poolVars  == <<cursorVars, fileVars, faults, closed, terminal, lineVars,
               carryVars, countVars, callVars>>

NoError == "nil"
NoCall  == "none"

Errors == {"EOF", "ErrSourceChanged", "ErrLineTooLong", "ErrUnexpectedEOF",
           "ReadError", "StatError"}

LineCount == Len(offsets) - 1

ReadOffset == block * options.blockBytes - 1

-----------------------------------------------------------------------------
(* Calls and the mutex. *)

Call(c, operation) ==
    /\ call[c] = NoCall
    /\ operation \in {"Next", "NextBatch"} => cursor < MaxCursor
    /\ call' = [call EXCEPT ![c] = operation]
    /\ UNCHANGED <<cursorVars, fileVars, faults, closed, terminal, lineVars,
                   carryVars, countVars, holder, pc>>

\* The holder unlocks and returns.
Return(c) ==
    /\ holder' = NoCaller
    /\ pc' = "idle"
    /\ call' = [call EXCEPT ![c] = NoCall]

\* The holder goes on.
Goto(label) ==
    /\ pc' = label
    /\ UNCHANGED <<holder, call>>

Acquires(c, operations) == holder = NoCaller /\ call[c] \in operations

\* Mutant: a closed pool goes on.
OverByError == terminal # NoError

\* Mutant: iteration goes on after an error.
OverByClose == closed

Over == closed \/ terminal # NoError

\* nextLocked and nextBatchLocked up to their first look at the block.
EnterNext(c) ==
    /\ Acquires(c, {"Next", "NextBatch"})
    /\ IF Over
       THEN Return(c)
       ELSE /\ holder' = c
            /\ pc' = IF lineCursor >= LineCount THEN "walk" ELSE "serve"
            /\ UNCHANGED call
    /\ UNCHANGED <<cursorVars, fileVars, faults, closed, terminal, lineVars,
                   carryVars, countVars>>

-----------------------------------------------------------------------------
(* System calls. *)

\* Mutant: only the size is compared.
SizeChanged == Len(disk.bytes) # options.fileSize

\* The outcomes of validateSourceLocked at this moment: it compares size and
\* modification time.
SourceChanged == Len(disk.bytes) # options.fileSize \/ disk.visible > 0

ValidationErrors ==
    (IF SourceChanged THEN {"ErrSourceChanged"} ELSE {NoError})
        \cup (IF faults < MaxFaults THEN {"StatError"} ELSE {})

Validates(error) ==
    /\ error \in ValidationErrors
    /\ faults' = IF error = "StatError" THEN faults + 1 ELSE faults

\* The file holds these bytes now.  A change may leave the modification time
\* alone (it came too soon, or the time was set back); it is visible if not.
ChangesTo(bytes) ==
    \E visible \in 0 .. 1 :
        disk' = [bytes   |-> bytes,
                 changes |-> disk.changes + 1,
                 visible |-> disk.visible + visible,
                 intact  |-> disk.intact /\ (IsPrefix(bytes, source) \/ IsPrefix(source, bytes))]

\* The source's owner cuts, extends or rewrites it.
ChangeSource ==
    /\ disk.changes < MaxChanges
    /\ \/ \E n \in 0 .. Len(disk.bytes) : ChangesTo(Slice(disk.bytes, 0, n))
       \/ \E b \in Byte : ChangesTo(Append(disk.bytes, b))
       \/ \E i \in DOMAIN disk.bytes, b \in Byte : ChangesTo([disk.bytes EXCEPT ![i] = b])
    /\ UNCHANGED <<cursorVars, source, faults, closed, terminal, lineVars,
                   carryVars, countVars, callVars>>

-----------------------------------------------------------------------------
(* Looking for the next line: loadNextBlockLocked. *)

Fail(c, error) ==
    /\ terminal' = error
    /\ Return(c)

WalkTake(c) ==
    /\ holder = c /\ pc = "walk"
    /\ TakeBlock
    /\ Goto("read")
    /\ UNCHANGED <<fileVars, faults, closed, terminal, lineVars, carryVars, countVars>>

WalkSkip(c) ==
    /\ holder = c /\ pc = "walk"
    /\ SkipBlock
    /\ UNCHANGED <<fileVars, faults, closed, terminal, lineVars, carryVars,
                   countVars, callVars>>

\* Before a region is entered the source is checked, once in so many regions.
CheckDue == regionCursor > 0 /\ regionCursor % RegionsPerCheck(options) = 0

WalkEnterRegion(c) ==
    /\ holder = c /\ pc = "walk"
    /\ EnterRegion
    /\ IF CheckDue THEN Validates(NoError) ELSE UNCHANGED faults
    /\ UNCHANGED <<fileVars, closed, terminal, lineVars, carryVars, countVars, callVars>>

WalkCheckFails(c) ==
    /\ holder = c /\ pc = "walk"
    /\ RegionDone
    /\ regionCursor = RegionsForShard(options) \/ CheckDue
    /\ \E error \in Errors : Validates(error) /\ Fail(c, error)
    /\ UNCHANGED <<cursorVars, fileVars, closed, lineVars, carryVars, countVars>>

\* A pool that does not repeat, or repeated a cycle without any line, ends.
WalkEnds(c) ==
    /\ holder = c /\ pc = "walk"
    /\ Exhausted
    /\ ~ options.reuse \/ options.fileSize = 0 \/ cursor = cycleStartCursor
    /\ Validates(NoError)
    /\ Fail(c, "EOF")
    /\ UNCHANGED <<cursorVars, fileVars, closed, lineVars, carryVars, countVars>>

\* Mutant: the lines of the block read last stay.
ForgetNothing == UNCHANGED lineVars

\* startCycleLocked, for the fields BlockCursor does not know.
ForgetLines ==
    /\ lineCursor' = 0
    /\ nextLine' = 0
    /\ offsets' = <<>>
    /\ cr' = FALSE
    /\ UNCHANGED <<buffer, lineStep>>

WalkNextCycle(c) ==
    /\ holder = c /\ pc = "walk"
    /\ Exhausted
    /\ options.reuse /\ options.fileSize # 0 /\ cursor # cycleStartCursor
    /\ cycle < MaxCycle
    /\ Validates(NoError)
    /\ StartCycle(cycle + 1)
    /\ ForgetLines
    /\ cycleStartCursor' = cursor
    /\ UNCHANGED <<fileVars, closed, terminal, carryVars, cursor, history, record, callVars>>

-----------------------------------------------------------------------------
(* Reading the block: loadBlockLocked. *)

ReadRange == BlockReadRange(options, block, carriedBlock)

\* The buffer after a read that returns these bytes.
Filled(bytes) ==
    IF ReadRange.skip = 0
    THEN bytes
    ELSE <<IF block = 0 THEN LF ELSE carried>> \o bytes

ReadData ==
    ReadAt(disk.bytes, ReadRange.readOffset + ReadRange.skip, ReadRange.readBytes - ReadRange.skip)

ReadIsFull == Len(ReadData) = ReadRange.readBytes - ReadRange.skip

\* A read that returns fewer bytes, with an error or io.EOF; what it left in the
\* buffer is not used before a Reset.  The source is checked before the error is
\* told.  (No reader returns all bytes and an error other than io.EOF.)
ReadFails(c) ==
    /\ holder = c /\ pc = "read"
    /\ \/ ~ ReadIsFull /\ Goto("short") /\ UNCHANGED faults
       \/ faults < MaxFaults /\ Goto("failed") /\ faults' = faults + 1
    /\ buffer' = <<>>
    /\ UNCHANGED <<cursorVars, fileVars, closed, terminal, offsets, cr, lineCursor,
                   nextLine, lineStep, carryVars, countVars>>

ShortReadEnds(c) ==
    /\ holder = c /\ pc \in {"short", "failed"}
    /\ \E error \in ValidationErrors :
         /\ Validates(error)
         /\ Fail(c, IF error # NoError THEN error
                    ELSE IF pc = "short" THEN "ErrUnexpectedEOF" ELSE "ReadError")
    /\ UNCHANGED <<cursorVars, fileVars, closed, lineVars, carryVars, countVars>>

\* Mutant: the last byte read, behind the block's own.
LastByteRead(bytes) == Last(bytes)

\* The last byte the block owns, kept for the block behind it.
LastByteOwned(bytes) == At(bytes, ReadRange.ownershipEnd - 1)

\* A full read and its bookkeeping, up to the search for lines.
ReadsBlock(c, bytes) ==
    /\ holder = c /\ pc = "read"
    /\ ReadIsFull
    /\ bytes = Filled(ReadData)
    /\ carriedBlock' = block + 1
    /\ carried' = LastByteOwned(bytes)
    /\ lineCursor' = 0
    /\ UNCHANGED <<fileVars, faults, closed, countVars>>

ReadNoLine(c) ==
    LET bytes == Filled(ReadData)
    IN  /\ ReadsBlock(c, bytes)
        /\ FirstLineStart(bytes, ReadRange.ownershipEnd) = NoLine
        /\ buffer' = bytes
        /\ offsets' = <<>>
        /\ cr' = FALSE
        /\ nextLine' = 0
        /\ Goto("walk")
        /\ UNCHANGED <<cursorVars, terminal, lineStep>>

\* indexBlockLocked
BlockOffsets(bytes) ==
    LET first == FirstLineStart(bytes, ReadRange.ownershipEnd)
    IN  <<first>> \o LineEnds(bytes, first, ReadRange.ownershipEnd)

TooLong(bytes, from, to) == ExceedsLineLimit(Slice(bytes, from, to), options.maxLineBytes)

AnyTooLong(bytes, ends) ==
    \E i \in 1 .. Len(ends) - 1 : TooLong(bytes, ends[i], ends[i + 1])

\* A full read of a block that owns lines, none of the terminated ones too
\* long; ends are their offsets, so the line at Last(ends) is still open.
IndexesBlock(c, bytes, ends, hint) ==
    /\ ReadsBlock(c, bytes)
    /\ FirstLineStart(bytes, ReadRange.ownershipEnd) # NoLine
    /\ ends = BlockOffsets(bytes)
    /\ hint \in ReturnHints(bytes, Head(ends), ReadRange.ownershipEnd)
    /\ ~ AnyTooLong(bytes, ends)

\* The order in which the lines of the block are returned.
LineOrder(lines) ==
    LET seed == Mix(CycleSeed(options, cycle), block)
    IN  IF options.mode = "ModeSequential"
        THEN [step |-> 1, first |-> 0]
        ELSE [step |-> PermutationStep(lines, seed), first |-> PermutationFirst(lines, seed)]

\* The block is ready.
LinesReady(bytes, ends, mayReturn) ==
    LET order == LineOrder(Len(ends) - 1)
    IN  /\ buffer' = bytes
        /\ offsets' = ends
        /\ cr' = mayReturn
        /\ lineStep' = order.step
        /\ nextLine' = order.first
        /\ Goto("serve")
        /\ UNCHANGED terminal

LineTooLong(c, bytes, ends) ==
    /\ buffer' = bytes
    /\ offsets' = ends
    /\ nextLine' = 0
    /\ UNCHANGED <<cursorVars, cr, lineStep>>
    /\ Fail(c, "ErrLineTooLong")

ReadTooLong(c) ==
    LET bytes == Filled(ReadData)
        ends  == BlockOffsets(bytes)
    IN  /\ ReadsBlock(c, bytes)
        /\ FirstLineStart(bytes, ReadRange.ownershipEnd) # NoLine
        /\ AnyTooLong(bytes, ends)
        /\ LineTooLong(c, bytes, ends)

\* The last line of the block ends with the block.
ReadWholeLines(c) ==
    LET bytes == Filled(ReadData)
        ends  == BlockOffsets(bytes)
    IN  \E hint \in BOOLEAN :
          /\ IndexesBlock(c, bytes, ends, hint)
          /\ Last(ends) = ReadRange.ownershipEnd
          /\ LinesReady(bytes, ends, hint)
          /\ UNCHANGED cursorVars

\* The last line of the block ends with the file, without an LF.
ReadLastLine(c) ==
    LET range == ReadRange
        bytes == Filled(ReadData)
        ends  == BlockOffsets(bytes)
        all   == bytes \o Terminator(bytes)
    IN  \E hint \in BOOLEAN :
          /\ IndexesBlock(c, bytes, ends, hint)
          /\ Last(ends) < range.ownershipEnd
          /\ range.readOffset + range.ownershipEnd = options.fileSize
          /\ IF TooLong(bytes, Last(ends), Len(bytes))
             THEN LineTooLong(c, bytes, ends)
             ELSE /\ LinesReady(all, Append(ends, Len(all)), hint \/ Last(bytes) = CR)
                  /\ UNCHANGED cursorVars

\* Mutant: the block in which the next line starts is not read either.
BlockBehindNextLine(nextStart) ==
    IF nextStart >= options.fileSize
    THEN BlockCount(options)
    ELSE (nextStart \div options.blockBytes) + 1

\* Mutant: the terminator added at the end of the file counts as part of it.
BlockPastFile(nextStart) == CeilingQuotient(nextStart, options.blockBytes)

\* The block in which the next line starts, if there is one.
BlockOfNextLine(nextStart) ==
    IF nextStart >= options.fileSize
    THEN BlockCount(options)
    ELSE nextStart \div options.blockBytes

\* The last line ends at the end of these bytes, behind the block.
LineContinues(bytes, ends, mayReturn) ==
    /\ LinesReady(bytes, Append(ends, Len(bytes)), mayReturn)
    /\ ContinueLine(BlockOfNextLine(ReadOffset + Len(bytes)))

\* extendLineLocked found the line feed that ends these bytes.
LineFeedFound(c, bytes, ends, hint) ==
    IF TooLong(bytes, Last(ends), Len(bytes))
    THEN LineTooLong(c, bytes, ends)
    ELSE LineContinues(bytes, ends, hint \/ At(bytes, Len(bytes) - 2) = CR)

\* The last line runs on behind the block: it may end in the lookahead.
ReadOpenLine(c) ==
    LET range == ReadRange
        bytes == Filled(ReadData)
        ends  == BlockOffsets(bytes)
        feeds == LineFeeds(bytes, range.ownershipEnd, range.readBytes)
    IN  \E hint \in BOOLEAN :
          /\ IndexesBlock(c, bytes, ends, hint)
          /\ Last(ends) < range.ownershipEnd
          /\ range.readOffset + range.ownershipEnd < options.fileSize
          /\ IF feeds # {}
             THEN LineFeedFound(c, Slice(bytes, 0, Min(feeds) + 1), ends, hint)
             ELSE /\ buffer' = bytes
                  /\ offsets' = ends
                  /\ cr' = hint
                  /\ nextLine' = 0
                  /\ Goto("extend")
                  /\ UNCHANGED <<cursorVars, terminal, lineStep>>

-----------------------------------------------------------------------------
(* Reading on until the last line ends: extendLineLocked. *)

LineLimit == Last(offsets) + options.maxLineBytes + 2

BufferEnd == ReadOffset + Len(buffer)

ExtendLength == ExtendReadBytes(options, Len(buffer), LineLimit, BufferEnd)

Extending(c) ==
    /\ holder = c /\ pc = "extend"
    /\ UNCHANGED <<fileVars, closed, lineCursor, carryVars, countVars>>

\* The line has no end within the limit.
ExtendTooLong(c) ==
    /\ Extending(c)
    /\ Len(buffer) >= LineLimit
    /\ LineTooLong(c, buffer, offsets)
    /\ UNCHANGED faults

\* The line ends with the file.
ExtendToEnd(c) ==
    LET all == buffer \o Terminator(buffer)
    IN  /\ Extending(c)
        /\ Len(buffer) < LineLimit
        /\ BufferEnd = options.fileSize
        /\ IF TooLong(buffer, Last(offsets), Len(buffer))
           THEN LineTooLong(c, buffer, offsets)
           ELSE LineContinues(all, offsets, cr \/ Last(buffer) = CR)
        /\ UNCHANGED faults

\* One read.  A line feed among the bytes read settles the line, even when
\* fewer bytes than asked for came.
ExtendRead(c) ==
    LET read  == ReadAt(disk.bytes, BufferEnd, ExtendLength)
        bytes == buffer \o read
        feeds == LineFeeds(bytes, Len(buffer), Len(bytes))
    IN  /\ Extending(c)
        /\ Len(buffer) < LineLimit
        /\ BufferEnd < options.fileSize
        /\ IF feeds # {}
           THEN LineFeedFound(c, Slice(bytes, 0, Min(feeds) + 1), offsets, cr)
           ELSE /\ buffer' = bytes
                /\ Goto(IF Len(read) = ExtendLength THEN "extend" ELSE "short")
                /\ UNCHANGED <<cursorVars, terminal, offsets, cr, nextLine, lineStep>>
        /\ UNCHANGED faults

\* The read fails: no check of the source comes before this error.
ExtendFails(c) ==
    /\ Extending(c)
    /\ Len(buffer) < LineLimit
    /\ BufferEnd < options.fileSize
    /\ faults < MaxFaults
    /\ faults' = faults + 1
    /\ Fail(c, "ReadError")
    /\ UNCHANGED <<cursorVars, buffer, offsets, cr, nextLine, lineStep>>

-----------------------------------------------------------------------------
(* Handing lines out. *)

LineAt(index) ==
    [start |-> ReadOffset + offsets[index + 1],
     text  |-> Trimmed(Slice(buffer, offsets[index + 1], offsets[index + 2]), cr)]

\* The same line, taken from a batch.
BatchLineAt(index) ==
    IF cr
    THEN [start |-> ReadOffset + offsets[index + 1],
          text  |-> BatchTrimmed(buffer, offsets[index + 1], offsets[index + 2])]
    ELSE LineAt(index)

Longer(s, t) == IF Len(t) > Len(s) THEN t ELSE s

Returned(lines) ==
    /\ cursor' = cursor + Len(lines)
    /\ history' = history \o lines
    /\ record' = Longer(record, history')
    /\ UNCHANGED cycleStartCursor

\* Mutant: the walk over the lines wraps to the first line.
FollowingOrFirst ==
    IF nextLine < LineCount - lineStep THEN nextLine + lineStep ELSE 0

\* The index lineStep further on.
Following ==
    IF nextLine < LineCount - lineStep
    THEN nextLine + lineStep
    ELSE nextLine - (LineCount - lineStep)

\* nextLineLocked, once the block has a line left.
ServeNext(c) ==
    /\ holder = c /\ pc = "serve" /\ call[c] = "Next"
    /\ nextLine' = Following
    /\ lineCursor' = lineCursor + 1
    /\ Returned(<<LineAt(nextLine)>>)
    /\ Return(c)
    /\ UNCHANGED <<cursorVars, fileVars, faults, closed, terminal, buffer, offsets,
                   cr, lineStep, carryVars>>

\* Mutant: the pool keeps the lines it gave away.
KeepLines == UNCHANGED <<buffer, offsets, lineCursor, nextLine, cr>>

\* The pool parts with the block.
GiveLines ==
    /\ buffer' = <<>>
    /\ offsets' = <<>>
    /\ lineCursor' = 0
    /\ nextLine' = 0
    /\ cr' = FALSE

\* nextBatchLocked: the batch takes the block over with the lines left in it.
ServeBatch(c) ==
    /\ holder = c /\ pc = "serve" /\ call[c] = "NextBatch"
    /\ Returned([k \in 1 .. LineCount - lineCursor |->
                   BatchLineAt((nextLine + (k - 1) * lineStep) % LineCount)])
    /\ GiveLines
    /\ Return(c)
    /\ UNCHANGED <<cursorVars, fileVars, faults, closed, terminal, lineStep, carryVars>>

-----------------------------------------------------------------------------
(* Reset and Close. *)

Reset(c) ==
    /\ Acquires(c, {"Reset"})
    /\ ~ closed
    /\ Validates(NoError)
    /\ cursor' = 0
    /\ terminal' = NoError
    /\ StartCycle(0)
    /\ ForgetLines
    /\ cycleStartCursor' = 0
    /\ history' = <<>>
    /\ Return(c)
    /\ UNCHANGED <<fileVars, closed, carryVars, record>>

ResetFails(c) ==
    /\ Acquires(c, {"Reset"})
    /\ IF closed
       THEN UNCHANGED <<faults, terminal>>
       ELSE \E error \in Errors : Validates(error) /\ terminal' = error
    /\ Return(c)
    /\ UNCHANGED <<cursorVars, fileVars, closed, lineVars, carryVars, countVars>>

Close(c) ==
    /\ Acquires(c, {"Close"})
    /\ closed' = TRUE
    /\ terminal' = NoError
    /\ buffer' = <<>>
    /\ offsets' = <<>>
    /\ Return(c)
    /\ UNCHANGED <<cursorVars, fileVars, faults, cr, lineCursor, nextLine, lineStep,
                   carryVars, countVars>>

-----------------------------------------------------------------------------
Init ==
    /\ CursorInit
    /\ source \in Sources
    /\ options.fileSize = Len(source)
    /\ disk = [bytes |-> source, changes |-> 0, visible |-> 0, intact |-> TRUE]
    /\ faults = 0
    /\ closed = FALSE
    /\ terminal = NoError
    /\ buffer = <<>>
    /\ offsets = <<>>
    /\ cr = FALSE
    /\ lineCursor = 0
    /\ nextLine = 0
    /\ lineStep = 0
    /\ carriedBlock = 0
    /\ carried = "Text"
    /\ cursor = 0
    /\ cycleStartCursor = 0
    /\ holder = NoCaller
    /\ pc = "idle"
    /\ call = [c \in Callers |-> NoCall]
    /\ history = <<>>
    /\ record = <<>>

Enter(c) == EnterNext(c) \/ Reset(c) \/ ResetFails(c) \/ Close(c)

Walk(c) ==
    \/ WalkTake(c) \/ WalkSkip(c) \/ WalkEnterRegion(c)
    \/ WalkCheckFails(c) \/ WalkEnds(c) \/ WalkNextCycle(c)

Load(c) ==
    \/ ReadFails(c) \/ ShortReadEnds(c) \/ ReadNoLine(c) \/ ReadTooLong(c)
    \/ ReadWholeLines(c) \/ ReadLastLine(c) \/ ReadOpenLine(c)
    \/ ExtendTooLong(c) \/ ExtendToEnd(c) \/ ExtendRead(c) \/ ExtendFails(c)

Serve(c) == ServeNext(c) \/ ServeBatch(c)

\* The holder never waits: Go runs it to the end of the call.
Proceed(c) == Walk(c) \/ Load(c) \/ Serve(c)

Next ==
    \/ \E c \in Callers, operation \in Operations : Call(c, operation)
    \/ \E c \in Callers : Enter(c) \/ Proceed(c)
    \/ ChangeSource

Spec == Init /\ [][Next]_poolVars

\* A runnable goroutine runs, and sync.Mutex serves a waiter that keeps losing
\* the race for the lock.
FairSpec ==
    /\ Spec
    /\ WF_poolVars(\E c \in Callers : Proceed(c))
    /\ \A c \in Callers : SF_poolVars(Enter(c))

-----------------------------------------------------------------------------
(* Properties. *)

\* Every field of Pool keeps its type, and the fields that place the walk
\* stay within the file's layout.
TypeOK ==
    /\ CursorTypeOK
    /\ source \in Sources
    /\ disk \in [bytes : Seq(Byte), changes : 0 .. MaxChanges,
                 visible : 0 .. MaxChanges, intact : BOOLEAN]
    /\ faults \in 0 .. MaxFaults
    /\ closed \in BOOLEAN
    /\ terminal \in {NoError} \cup Errors
    /\ buffer \in Seq(Byte)
    /\ offsets \in Seq(Nat)
    /\ cr \in BOOLEAN
    /\ lineCursor \in Nat
    /\ nextLine \in Nat
    /\ lineStep \in Nat
    /\ carriedBlock \in 0 .. BlockCount(options)
    /\ carried \in Byte
    /\ cursor \in Nat
    /\ cycleStartCursor \in 0 .. cursor
    /\ holder \in {NoCaller} \cup Callers
    /\ pc \in {"idle", "walk", "read", "short", "failed", "extend", "serve"}
    /\ call \in [Callers -> {NoCall} \cup Operations]

\* The lines the pool owes its callers in one cycle: those that start in a
\* block of its shard.
OwedLines ==
    LET blocks == ShardBlocks(options, cycle)
    IN  { line \in Lines(source) : line.start \div options.blockBytes \in blocks }

CycleHistory == SubSeq(history, cycleStartCursor + 1, Len(history))

\* Next and NextBatch together return no line twice within a cycle, a
\* sequential pool returns them in the order of the file, and Stats.Cursor
\* counts the lines returned since open or Reset.
InOrderOnce ==
    LET lines == CycleHistory
    IN  /\ \A i, j \in DOMAIN lines : i < j =>
             /\ lines[i].start # lines[j].start
             /\ options.mode = "ModeSequential" => lines[i].start < lines[j].start
        /\ cursor = Len(history)

\* What is returned is a line of the file that was opened, with the bytes of
\* that line, unless those bytes were rewritten underneath the pool.
LinesIntact == disk.intact => ToSet(CycleHistory) \subseteq OwedLines

\* A change of the file can escape the pool only if it rewrites bytes and
\* leaves the modification time alone.
ChangesShow == disk.intact \/ disk.visible = disk.changes

\* io.EOF is returned only after every line of the shard was returned as it
\* stood in the file when it was opened, whatever happened to the file (if it
\* shows): the last check of the source comes after the last line.
EofMeansComplete ==
    (ChangesShow /\ terminal = "EOF") => ToSet(CycleHistory) = OwedLines

\* An automatic cycle begins only when the one before was complete.
CyclesComplete ==
    [][(ChangesShow /\ cycle' > cycle) => ToSet(CycleHistory) = OwedLines]_poolVars

\* "Reset rewinds to the original cycle and deterministic order": whatever
\* mixture of Next and NextBatch is used, and whatever error or Reset cut an
\* earlier pass short, passes over the file agree as far as both got.
Reproducible == disk.intact => IsPrefix(history, record) \/ IsPrefix(record, history)

\* "Every returned error remains terminal until a successful Reset": once
\* iteration failed, nothing is returned and no block is read before Reset
\* rewinds, and only Reset (or Close) replaces the error.
ErrorIsTerminal ==
    [][terminal # NoError =>
         /\ history' \in {history, <<>>}
         /\ carriedBlock' = carriedBlock
         /\ terminal' = NoError => closed' \/ (cursor' = 0 /\ history' = <<>>)]_poolVars

\* After Close nothing is returned, read or revived, though Close may come
\* while other callers wait for the mutex.
ClosedForGood ==
    [][closed => /\ closed'
                 /\ UNCHANGED <<history, terminal, regionCursor, regionBlockNext, offsets>>]_poolVars

\* ErrLineTooLong is returned only when a line of the shard is too long, and
\* no line that is too long is returned (file bytes not rewritten).
LimitEnforced ==
    disk.intact =>
        /\ terminal = "ErrLineTooLong" =>
               \E line \in OwedLines : Len(line.text) > options.maxLineBytes
        /\ \A i \in DOMAIN history : Len(history[i].text) <= options.maxLineBytes

\* What the pool keeps from one block for the next is true of the file: the
\* blocks loadNextBlockLocked will skip as a line's continuation hold no line
\* start, and the byte carried over is the one in front of the next block.
CarriedOverIsTrue ==
    disk.intact =>
        /\ \A start \in LineStarts(source) : ~ InContinuation(start \div options.blockBytes)
        /\ carriedBlock > 0 =>
               carried = At(source, Lesser(carriedBlock * options.blockBytes, Len(source)) - 1)

\* Every call returns: neither the walk over blocks nor the extension of a
\* line goes on forever, and a caller waiting for the mutex gets it.
EveryCallReturns == \A c \in Callers : call[c] # NoCall ~> call[c] = NoCall

\* The walk over blocks is the one specified in BlockCursor: reading, failing,
\* resetting and closing never disturb it.
WalkIsBlockCursor == CursorSpec

-----------------------------------------------------------------------------
(* The pool implements LineStream. *)

StreamStatus ==
    CASE closed              -> "closed"
      [] ~ closed /\ terminal = NoError -> "open"
      [] ~ closed /\ terminal = "EOF"   -> "ended"
      [] OTHER               -> "failed"

Stream == INSTANCE LineStream WITH
    lines    <- OwedLines,
    repeats  <- options.reuse,
    returned <- CycleHistory,
    status   <- StreamStatus

\* Every step of the pool, with read and stat failures, is a step of the
\* stream or leaves it alone (checked while the file is not changed).
ImplementsStream == Stream!StreamSpec
=============================================================================

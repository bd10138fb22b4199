-------------------------- MODULE ProxyPoolProofs --------------------------
(***************************************************************************)
(* What a pool is, for every file, every option, any number of callers and *)
(* any failures or changes of the file.  Every field keeps its type, and   *)
(* the walk inside the pool is the one of BlockCursor; errors and Close    *)
(* are final because the mutex is free whenever the pool is over.  And     *)
(* what it returns: only lines of its shard, with their text and within    *)
(* the limit, each once in a cycle, in order, and all of them before EOF   *)
(* or the next cycle.  Together: a pool implements LineStream.             *)
(***************************************************************************)
EXTENDS ProxyPool, BlockCursorProofs

-----------------------------------------------------------------------------
(* Reading a block. *)

\* A block's read starts in the file, gets at least the bytes the block owns,
\* and these fill the block or reach the end of the file.
LEMMA ReadRangeFacts ==
    ASSUME options \in ValidOptions, block \in 0 .. BlockCount(options) - 1
    PROVE  /\ block \in Nat
           /\ ReadRange.readOffset = ReadOffset
           /\ ReadOffset \in Int
           /\ ReadRange.skip \in {0, 1}
           /\ ReadRange.readOffset + ReadRange.skip \in Nat
           /\ ReadRange.ownershipEnd \in Nat \ {0, 1}
           /\ ReadRange.readBytes \in Nat
           /\ ReadRange.ownershipEnd <= ReadRange.readBytes
           /\ \/ ReadRange.ownershipEnd = options.blockBytes + 1
              \/ ReadOffset + ReadRange.ownershipEnd = options.fileSize
  <1> DEFINE start     == block * options.blockBytes
             base      == Lesser(options.blockBytes, options.fileSize - start)
             remaining == options.fileSize - start - base
             ahead     == Lesser(LookaheadBytes(options), remaining)
  <1>1. /\ options.blockBytes \in Nat \ {0}
        /\ options.fileSize \in Nat
        /\ options.maxLineBytes \in Nat \ {0}
        /\ block \in Nat
        /\ start < options.fileSize
    BY OpenedSizes, SMT
  <1>2. start \in Nat /\ (start = 0 => block = 0)
    BY <1>1, SMT
  <1>3. LookaheadBytes(options) \in Nat
    <2>1. options.blockBytes \div LookaheadDivisor \in Nat
      BY <1>1, ReadAssumption, SMT
    <2>2. TailReadBytes \in Nat /\ options.maxLineBytes + 2 \in Nat
      BY <1>1, ReadAssumption, SMT
    <2> QED
      BY <2>1, <2>2 DEF LookaheadBytes, Lesser
  <1>4. ReadRange = [readOffset   |-> start - 1,
                     skip         |-> IF block = 0 \/ block = carriedBlock THEN 1 ELSE 0,
                     ownershipEnd |-> 1 + base,
                     readBytes    |-> 1 + base + ahead]
    BY DEF ReadRange, BlockReadRange
  <1>5. ReadOffset = start - 1
    BY DEF ReadOffset
  <1> HIDE DEF start
  <1>6. /\ base \in Nat \ {0}
        /\ remaining \in Nat
        /\ base = options.blockBytes \/ start + base = options.fileSize
    BY <1>1, <1>2, SMT DEF Lesser
  <1> HIDE DEF base, remaining
  <1>7. ahead \in Nat
    BY <1>3, <1>6 DEF Lesser
  <1> HIDE DEF ahead
  <1>8. /\ ReadRange.readOffset = start - 1
        /\ ReadRange.skip = IF block = 0 \/ block = carriedBlock THEN 1 ELSE 0
        /\ ReadRange.ownershipEnd = 1 + base
        /\ ReadRange.readBytes = 1 + base + ahead
    BY <1>4
  <1> QED
    BY <1>1, <1>2, <1>5, <1>6, <1>7, <1>8, SMT

\* What a read returns is part of the file.
LEMMA ReadAtReturnsBytes ==
    ASSUME NEW bytes \in Seq(Byte), NEW offset \in Nat, NEW length \in Int
    PROVE  ReadAt(bytes, offset, length) \in Seq(Byte)
  <1>1. Lesser(offset + length, Len(bytes)) \in Int
        /\ Lesser(offset + length, Len(bytes)) <= Len(bytes)
    BY SMT DEF Lesser
  <1> HIDE DEF Byte
  <1> QED
    BY <1>1, SMT DEF ReadAt, Slice

\* The buffer after a full read.
LEMMA FullReadFillsBuffer ==
    ASSUME options \in ValidOptions, block \in 0 .. BlockCount(options) - 1,
           disk.bytes \in Seq(Byte), carried \in Byte, ReadIsFull
    PROVE  /\ Filled(ReadData) \in Seq(Byte)
           /\ Len(Filled(ReadData)) = ReadRange.readBytes
  <1> DEFINE data == ReadData
  <1>1. /\ ReadRange.skip \in {0, 1}
        /\ ReadRange.readOffset + ReadRange.skip \in Nat
        /\ ReadRange.readBytes \in Nat
    BY ReadRangeFacts
  <1>2. ReadRange.readBytes - ReadRange.skip \in Int
    BY <1>1, SMT
  <1>3. data \in Seq(Byte)
    BY <1>1, <1>2, ReadAtReturnsBytes DEF ReadData
  <1>4. Len(data) = ReadRange.readBytes - ReadRange.skip
    BY DEF ReadIsFull
  <1>5. LF \in Byte
    BY DEF Byte
  <1> HIDE DEF data, ReadRange, Byte
  <1>6. CASE ReadRange.skip = 0
    BY <1>1, <1>3, <1>4, <1>6, SMT DEF Filled, data
  <1>7. CASE ReadRange.skip = 1
    <2> DEFINE front == IF block = 0 THEN LF ELSE carried
    <2>1. front \in Byte
      BY <1>5
    <2>2. Filled(data) = <<front>> \o data
      BY <1>7 DEF Filled
    <2> HIDE DEF front
    <2>3. /\ <<front>> \o data \in Seq(Byte)
          /\ Len(<<front>> \o data) = 1 + Len(data)
      BY <1>3, <2>1
    <2> QED
      BY <1>1, <1>4, <1>7, <2>2, <2>3, SMT DEF data
  <1> QED
    BY <1>1, <1>6, <1>7

\* The offsets of a block's lines are numbers.
LEMMA BlockOffsetsAreOffsets ==
    ASSUME options \in ValidOptions, block \in 0 .. BlockCount(options) - 1, NEW bytes
    PROVE  /\ FirstLineStart(bytes, ReadRange.ownershipEnd) \in 0 .. ReadRange.ownershipEnd - 1
           /\ BlockOffsets(bytes) \in Seq(Nat)
           /\ Len(BlockOffsets(bytes)) >= 1
           /\ BlockOffsets(bytes)[1] < ReadRange.ownershipEnd
           /\ Last(BlockOffsets(bytes)) \in Nat
           /\ Last(BlockOffsets(bytes)) = ReadRange.ownershipEnd => Len(BlockOffsets(bytes)) >= 2
  <1> DEFINE end   == ReadRange.ownershipEnd
             first == FirstLineStart(bytes, end)
             ends  == LineEnds(bytes, first, end)
  <1>1. end \in Nat \ {0, 1}
    BY ReadRangeFacts
  <1> HIDE DEF end
  <1>2. first \in 0 .. end - 1
    <2>1. CASE LineFeeds(bytes, 0, end) = {}
      BY <1>1, <2>1, SMT DEF FirstLineStart, NoLine
    <2>2. CASE LineFeeds(bytes, 0, end) # {}
      <3>1. Min(LineFeeds(bytes, 0, end)) \in 0 .. end - 1
        BY <1>1, <2>2, LeastFeed
      <3> QED
        BY <1>1, <2>2, <3>1, SMT DEF FirstLineStart, NoLine
    <2> QED
      BY <2>1, <2>2
  <1>3. first \in Nat /\ first < end
    BY <1>1, <1>2, SMT
  <1> HIDE DEF first
  <1>4. ends \in Seq(Nat)
    BY <1>1, <1>3, LineEndsAreExact
  <1> HIDE DEF ends
  <1>5. BlockOffsets(bytes) = <<first>> \o ends
    BY DEF BlockOffsets, first, ends, end
  <1> DEFINE all == <<first>> \o ends
  <1>6. /\ all \in Seq(Nat)
        /\ Len(all) = 1 + Len(ends)
        /\ all[1] = first
    BY <1>3, <1>4
  <1>7. Len(ends) \in Nat
    BY <1>4
  <1> HIDE DEF all
  <1>8. Len(all) \in 1 .. Len(all) /\ Len(all) >= 1
    BY <1>6, <1>7, SMT
  <1>9. Last(all) = all[Len(all)] /\ Last(all) \in Nat
    BY <1>6, <1>8 DEF Last
  <1>10. Last(all) = end => Len(all) >= 2
    <2> SUFFICES ASSUME Last(all) = end, Len(all) = 1
                 PROVE  FALSE
      BY <1>6, <1>7, SMT
    <2> QED
      BY <1>1, <1>3, <1>6, <1>9, SMT
  <1> QED
    BY <1>2, <1>3, <1>5, <1>6, <1>8, <1>9, <1>10 DEF all, end, first

\* A line that ends behind its block ends in a later block, or with the file.
LEMMA NextLineIsBehind ==
    ASSUME options \in ValidOptions, block \in 0 .. BlockCount(options) - 1,
           NEW n \in Nat, n >= ReadRange.ownershipEnd
    PROVE  /\ BlockOfNextLine(ReadOffset + n) \in 0 .. BlockCount(options)
           /\ block + 1 <= BlockOfNextLine(ReadOffset + n)
  <1> DEFINE next == ReadOffset + n
             size == options.blockBytes
             q    == next \div size
  <1>1. /\ size \in Nat \ {0}
        /\ options.fileSize \in Nat
        /\ BlockCount(options) \in Nat
        /\ options.fileSize <= BlockCount(options) * size
        /\ block \in Nat /\ block <= BlockCount(options) - 1
    BY OpenedSizes, SMT
  <1>2. /\ ReadOffset = block * size - 1
        /\ ReadOffset \in Int
        /\ ReadRange.ownershipEnd \in Nat
        /\ \/ ReadRange.ownershipEnd = size + 1
           \/ ReadOffset + ReadRange.ownershipEnd = options.fileSize
    BY ReadRangeFacts DEF ReadOffset
  <1>3. CASE next >= options.fileSize
    BY <1>1, <1>3, SMT DEF BlockOfNextLine
  <1>4. CASE ~ (next >= options.fileSize)
    <2>1. ReadRange.ownershipEnd = size + 1
      BY <1>1, <1>2, <1>4, SMT
    <2>2. next >= block * size + size /\ next \in Int
      BY <1>1, <1>2, <2>1, SMT
    <2>3. BlockOfNextLine(next) = q
      BY <1>4 DEF BlockOfNextLine
    <2>4. q \in Int /\ next % size \in 0 .. size - 1 /\ next = size * q + (next % size)
      BY <1>1, <2>2, DivisionFacts
    <2>5. next < options.fileSize
      BY <1>1, <1>4, <2>2, SMT
    <2> DEFINE r == next % size
    <2> HIDE DEF next, q, r
    <2>6. r \in Int /\ 0 <= r /\ r < size
      BY <1>1, <2>4, SMT DEF r
    <2>7. next = size * q + r
      BY <2>4 DEF r
    <2>8. q >= block + 1
      <3> SUFFICES ASSUME q <= block
                   PROVE  FALSE
        BY <1>1, <2>4, SMT
      <3>1. size * q <= size * block
        BY <1>1, <2>4, SMT
      <3> QED
        BY <1>1, <2>2, <2>4, <2>6, <2>7, <3>1, SMT
    <2>9. q < BlockCount(options)
      <3> SUFFICES ASSUME BlockCount(options) <= q
                   PROVE  FALSE
        BY <1>1, <2>4, SMT
      <3>1. size * BlockCount(options) <= size * q
        BY <1>1, <2>4, ProductOrder, SMT
      <3> QED
        BY <1>1, <2>2, <2>4, <2>5, <2>6, <2>7, <3>1, SMT
    <2> QED
      BY <1>1, <2>3, <2>4, <2>8, <2>9, SMT DEF next
  <1> QED
    BY <1>3, <1>4

-----------------------------------------------------------------------------
(* The inductive invariant. *)

SourceKept ==
    /\ source \in Sources
    /\ disk \in [bytes : Seq(Byte), changes : 0 .. MaxChanges,
                 visible : 0 .. MaxChanges, intact : BOOLEAN]
    /\ disk.visible <= disk.changes
    /\ faults \in 0 .. MaxFaults

EndKept == closed \in BOOLEAN /\ terminal \in {NoError} \cup Errors

LinesKept ==
    /\ buffer \in Seq(Byte)
    /\ offsets \in Seq(Nat)
    /\ cr \in BOOLEAN
    /\ lineCursor \in Nat
    /\ nextLine \in Nat
    /\ lineStep \in Nat

CarryKept == carriedBlock \in 0 .. BlockCount(options) /\ carried \in Byte

CountsKept == cursor \in Nat /\ cycleStartCursor \in 0 .. cursor

CallsKept ==
    /\ holder \in {NoCaller} \cup Callers
    /\ pc \in {"idle", "walk", "read", "short", "failed", "extend", "serve"}
    /\ call \in [Callers -> {NoCall} \cup Operations]

\* What the code relies on from one step of a call to the next: nothing is under
\* way while the mutex is free or after an error; a block is taken before it is read; a line that is extended starts in the buffer, which
\* holds its block; and lines are handed out in an order that stays among them.
StageKept ==
    /\ pc # "idle" => holder # NoCaller /\ terminal = NoError
    /\ pc = "read" => block # NoBlock
    /\ pc = "extend" =>
         /\ block # NoBlock
         /\ Len(buffer) >= ReadRange.ownershipEnd
         /\ Len(offsets) >= 1
         /\ lineCursor = 0
    /\ pc = "serve" => lineCursor < LineCount
    /\ (pc \in {"idle", "walk", "serve"} /\ terminal = NoError /\ lineCursor < LineCount) =>
         lineStep \in 0 .. LineCount /\ nextLine \in 0 .. LineCount - 1

PoolInvariant ==
    /\ Invariant
    /\ SourceKept
    /\ EndKept
    /\ LinesKept
    /\ CarryKept
    /\ CountsKept
    /\ CallsKept
    /\ StageKept

\* The invariant contains the pool's type.
LEMMA InvariantGivesType == PoolInvariant => TypeOK
  BY DEF PoolInvariant, Invariant, SourceKept, EndKept, LinesKept, CarryKept, CountsKept,
         CallsKept, TypeOK

\* What the invariant says of the block at hand.
LEMMA BlockAtHand ==
    ASSUME PoolInvariant
    PROVE  /\ options \in ValidOptions
           /\ block # NoBlock => block \in 0 .. BlockCount(options) - 1
           /\ disk.bytes \in Seq(Byte)
           /\ carried \in Byte
           /\ BlockCount(options) \in Nat
  <1>1. options \in ValidOptions /\ BlockCount(options) \in Nat
    BY OpenedPool DEF PoolInvariant, Invariant
  <1>2. block # NoBlock => block \in 0 .. BlockCount(options) - 1
    BY DEF PoolInvariant, Invariant, CursorTypeOK
  <1>3. disk.bytes \in Seq(Byte) /\ carried \in Byte
    BY DEF PoolInvariant, SourceKept, CarryKept
  <1> QED
    BY <1>1, <1>2, <1>3

\* A pool just opened.
LEMMA InitPoolInvariant == Init => PoolInvariant
  <1> SUFFICES ASSUME Init
               PROVE  PoolInvariant
    OBVIOUS
  <1>1. Invariant
    BY InitInvariant DEF Init
  <1>2. SourceKept
    <2>1. source \in Seq(Byte)
      BY PoolAssumption DEF Init
    <2> QED
      BY <2>1, PoolAssumption, SMT DEF Init, SourceKept
  <1>3. LinesKept
    <2>1. << >> \in Seq(Byte) /\ << >> \in Seq(Nat)
      OBVIOUS
    <2> QED
      BY <2>1 DEF Init, LinesKept
  <1>4. BlockCount(options) \in Nat
    BY <1>1, OpenedPool DEF Invariant
  <1>5. CarryKept /\ CountsKept
    BY <1>4 DEF Init, CarryKept, CountsKept, Byte
  <1>6. EndKept /\ CallsKept
    BY DEF Init, EndKept, CallsKept
  <1>7. StageKept
    <2>1. Len(offsets) = 0
      BY DEF Init
    <2> QED
      BY <2>1, SMT DEF Init, StageKept, LineCount
  <1> QED
    BY <1>1, <1>2, <1>3, <1>5, <1>6, <1>7 DEF PoolInvariant

-----------------------------------------------------------------------------
(* Steps that do not read. *)

\* A call that ends leaves nothing under way.
LEMMA ReturnKeeps ==
    ASSUME PoolInvariant, NEW c \in Callers, Return(c)
    PROVE  CallsKept' /\ pc' = "idle"
  BY DEF PoolInvariant, CallsKept, Return

\* validateSourceLocked fails at most as often as the environment allows.
LEMMA ValidatesKeeps ==
    ASSUME SourceKept, NEW error, Validates(error), UNCHANGED fileVars
    PROVE  SourceKept'
  <1>1. faults' \in 0 .. MaxFaults
    BY PoolAssumption, SMT DEF SourceKept, Validates, ValidationErrors, NoError
  <1> QED
    BY <1>1 DEF SourceKept, fileVars

\* Fields that a step leaves alone keep their types.
LEMMA UnchangedKeeps ==
    ASSUME PoolInvariant, options' = options
    PROVE  /\ UNCHANGED <<fileVars, faults>> => SourceKept'
           /\ UNCHANGED <<closed, terminal>> => EndKept'
           /\ UNCHANGED lineVars => LinesKept'
           /\ UNCHANGED carryVars => CarryKept'
           /\ UNCHANGED countVars => CountsKept'
           /\ UNCHANGED callVars => CallsKept'
  BY DEF PoolInvariant, SourceKept, EndKept, LinesKept, CarryKept, CountsKept, CallsKept,
         fileVars, lineVars, carryVars, countVars, callVars

\* A step outside the walk leaves the walk's invariant alone.
LEMMA UnchangedCursorKeeps ==
    ASSUME PoolInvariant, UNCHANGED cursorVars
    PROVE  Invariant' /\ options' = options /\ block' = block
  <1>1. [CursorNext]_cursorVars
    OBVIOUS
  <1> QED
    BY <1>1, NextInvariant DEF PoolInvariant, cursorVars

\* Ending a call in failure keeps the invariant.
LEMMA FailKeeps ==
    ASSUME PoolInvariant, NEW c \in Callers, NEW error \in Errors, Fail(c, error)
    PROVE  /\ UNCHANGED closed => EndKept'
           /\ CallsKept'
           /\ StageKept'
  <1>1. CallsKept' /\ pc' = "idle" /\ terminal' = error
    BY ReturnKeeps DEF Fail
  <1>2. error # NoError
    BY DEF Errors, NoError
  <1>3. StageKept'
    BY <1>1, <1>2 DEF StageKept
  <1>4. UNCHANGED closed => EndKept'
    BY <1>1 DEF PoolInvariant, EndKept
  <1> QED
    BY <1>1, <1>3, <1>4

\* A caller calls.
LEMMA CallKeeps ==
    ASSUME PoolInvariant, NEW c \in Callers, NEW operation \in Operations, Call(c, operation)
    PROVE  PoolInvariant'
  <1>1. Invariant' /\ options' = options /\ block' = block
    BY UnchangedCursorKeeps DEF Call
  <1>2. SourceKept' /\ EndKept' /\ LinesKept' /\ CarryKept' /\ CountsKept'
    BY <1>1, UnchangedKeeps DEF Call
  <1>3. CallsKept'
    BY DEF PoolInvariant, CallsKept, Call
  <1>4. StageKept'
    BY <1>1 DEF PoolInvariant, StageKept, Call, lineVars, LineCount, ReadRange, carryVars, Return
  <1> QED
    BY <1>1, <1>2, <1>3, <1>4 DEF PoolInvariant

\* The source's owner changes it.
LEMMA ChangeSourceKeeps ==
    ASSUME PoolInvariant, ChangeSource
    PROVE  PoolInvariant'
  <1>1. Invariant' /\ options' = options /\ block' = block
    BY UnchangedCursorKeeps DEF ChangeSource
  <1>2. EndKept' /\ LinesKept' /\ CarryKept' /\ CountsKept' /\ CallsKept'
    BY <1>1, UnchangedKeeps DEF ChangeSource
  <1>3. SourceKept'
    <2>1. /\ disk.bytes \in Seq(Byte)
          /\ disk.changes \in 0 .. MaxChanges /\ disk.changes < MaxChanges
          /\ disk.visible \in 0 .. MaxChanges /\ disk.visible <= disk.changes
          /\ disk.intact \in BOOLEAN
      BY DEF PoolInvariant, SourceKept, ChangeSource
    <2>2. ASSUME NEW bytes \in Seq(Byte), ChangesTo(bytes)
          PROVE  /\ disk' \in [bytes : Seq(Byte), changes : 0 .. MaxChanges,
                               visible : 0 .. MaxChanges, intact : BOOLEAN]
                 /\ disk'.visible <= disk'.changes
      <3>1. PICK visible \in 0 .. 1 :
              disk' = [bytes   |-> bytes,
                       changes |-> disk.changes + 1,
                       visible |-> disk.visible + visible,
                       intact  |-> disk.intact /\ (IsPrefix(bytes, source) \/ IsPrefix(source, bytes))]
        BY <2>2 DEF ChangesTo
      <3>2. /\ disk.changes + 1 \in 0 .. MaxChanges
            /\ disk.visible + visible \in 0 .. MaxChanges
            /\ disk.visible + visible <= disk.changes + 1
        BY <2>1, PoolAssumption, SMT
      <3>3. (disk.intact /\ (IsPrefix(bytes, source) \/ IsPrefix(source, bytes))) \in BOOLEAN
        OBVIOUS
      <3> QED
        BY <2>2, <3>1, <3>2, <3>3
    <2>3. \E bytes \in Seq(Byte) : ChangesTo(bytes)
      <3> HIDE DEF Byte
      <3>1. ASSUME NEW n \in 0 .. Len(disk.bytes)
            PROVE  Slice(disk.bytes, 0, n) \in Seq(Byte)
        BY <2>1, <3>1, SMT DEF Slice
      <3>2. ASSUME NEW b \in Byte
            PROVE  Append(disk.bytes, b) \in Seq(Byte)
        BY <2>1
      <3>3. ASSUME NEW b \in Byte, NEW i \in DOMAIN disk.bytes
            PROVE  [disk.bytes EXCEPT ![i] = b] \in Seq(Byte)
        BY <2>1
      <3> QED
        BY <3>1, <3>2, <3>3 DEF ChangeSource
    <2> QED
      BY <2>2, <2>3 DEF PoolInvariant, SourceKept, ChangeSource
  <1>4. StageKept'
    BY <1>1 DEF PoolInvariant, StageKept, ChangeSource, lineVars, LineCount, ReadRange,
                carryVars, callVars
  <1> QED
    BY <1>1, <1>2, <1>3, <1>4 DEF PoolInvariant

\* Next and NextBatch begin.
LEMMA EnterNextKeeps ==
    ASSUME PoolInvariant, NEW c \in Callers, EnterNext(c)
    PROVE  PoolInvariant'
  <1>1. Invariant' /\ options' = options /\ block' = block
    BY UnchangedCursorKeeps DEF EnterNext
  <1>2. SourceKept' /\ EndKept' /\ LinesKept' /\ CarryKept' /\ CountsKept'
    BY <1>1, UnchangedKeeps DEF EnterNext
  <1>3. CallsKept'
    BY ReturnKeeps DEF PoolInvariant, CallsKept, EnterNext
  <1>4. UNCHANGED <<terminal, lineVars>>
    BY DEF EnterNext
  <1>5. StageKept'
    <2>1. CASE Over
      <3>1. pc' = "idle"
        BY <2>1 DEF EnterNext, Return
      <3> QED
        BY <1>4, <2>1, <3>1 DEF PoolInvariant, StageKept, LineCount, lineVars, EnterNext, Acquires
    <2>2. CASE ~ Over
      <3>1. terminal = NoError /\ pc' = IF lineCursor >= LineCount THEN "walk" ELSE "serve"
        BY <2>2 DEF EnterNext, Over
      <3> QED
        BY <1>4, <2>2, <3>1, PoolAssumption, SMT DEF PoolInvariant, StageKept, LineCount, lineVars,
           LinesKept, EnterNext, Acquires
    <2> QED
      BY <2>1, <2>2
  <1> QED
    BY <1>1, <1>2, <1>3, <1>5 DEF PoolInvariant

\* startCycleLocked forgets the lines at hand.
LEMMA ForgetLinesKeeps ==
    ASSUME PoolInvariant, ForgetLines
    PROVE  LinesKept'
  <1>1. << >> \in Seq(Nat)
    OBVIOUS
  <1>2. /\ buffer' = buffer /\ offsets' = << >> /\ cr' = FALSE
        /\ lineCursor' = 0 /\ nextLine' = 0 /\ lineStep' = lineStep
    BY DEF ForgetLines
  <1> QED
    BY <1>1, <1>2 DEF PoolInvariant, LinesKept

\* Reset, when the source has not changed.
LEMMA ResetKeeps ==
    ASSUME PoolInvariant, NEW c \in Callers, Reset(c)
    PROVE  PoolInvariant'
  <1>1. StartCycle(0) /\ options' = options
    BY DEF Reset, StartCycle
  <1>2. Invariant'
    BY <1>1, StartCyclePreserves, SMT DEF PoolInvariant
  <1>3. SourceKept'
    BY ValidatesKeeps DEF Reset, PoolInvariant
  <1>4. EndKept'
    BY DEF PoolInvariant, EndKept, Reset
  <1>5. LinesKept'
    BY ForgetLinesKeeps DEF Reset
  <1>6. CarryKept'
    BY <1>1, UnchangedKeeps DEF Reset
  <1>7. CountsKept'
    BY DEF CountsKept, Reset
  <1>8. CallsKept' /\ pc' = "idle"
    BY ReturnKeeps DEF Reset
  <1>9. StageKept'
    <2>1. lineCursor' = 0 /\ Len(offsets') = 0
      BY DEF Reset, ForgetLines
    <2> QED
      BY <1>8, <2>1, SMT DEF StageKept, LineCount
  <1> QED
    BY <1>2, <1>3, <1>4, <1>5, <1>6, <1>7, <1>8, <1>9 DEF PoolInvariant

\* Reset of a closed pool, or when the source has changed.
LEMMA ResetFailsKeeps ==
    ASSUME PoolInvariant, NEW c \in Callers, ResetFails(c)
    PROVE  PoolInvariant'
  <1>1. Invariant' /\ options' = options /\ block' = block
    BY UnchangedCursorKeeps DEF ResetFails
  <1>2. LinesKept' /\ CarryKept' /\ CountsKept'
    BY <1>1, UnchangedKeeps DEF ResetFails
  <1>3. CallsKept' /\ pc' = "idle"
    BY ReturnKeeps DEF ResetFails
  <1>4. SourceKept' /\ EndKept' /\ (terminal' = terminal \/ terminal' # NoError)
    <2>1. CASE closed
      BY <1>1, <2>1, UnchangedKeeps DEF ResetFails
    <2>2. CASE ~ closed
      <3>1. PICK error \in Errors : Validates(error) /\ terminal' = error
        BY <2>2 DEF ResetFails
      <3>2. SourceKept'
        BY <3>1, ValidatesKeeps DEF ResetFails, PoolInvariant
      <3>3. error # NoError
        BY DEF Errors, NoError
      <3>4. EndKept'
        BY <3>1 DEF PoolInvariant, EndKept, ResetFails
      <3> QED
        BY <3>1, <3>2, <3>3, <3>4
    <2> QED
      BY <2>1, <2>2
  <1>5. StageKept'
    <2>1. pc = "idle"
      BY DEF PoolInvariant, StageKept, ResetFails, Acquires
    <2> QED
      BY <1>3, <1>4, <2>1 DEF PoolInvariant, StageKept, LineCount, lineVars, ResetFails
  <1> QED
    BY <1>1, <1>2, <1>3, <1>4, <1>5 DEF PoolInvariant

\* Close.
LEMMA CloseKeeps ==
    ASSUME PoolInvariant, NEW c \in Callers, Close(c)
    PROVE  PoolInvariant'
  <1>1. Invariant' /\ options' = options /\ block' = block
    BY UnchangedCursorKeeps DEF Close
  <1>2. SourceKept' /\ CarryKept' /\ CountsKept'
    BY <1>1, UnchangedKeeps DEF Close
  <1>3. EndKept'
    BY DEF EndKept, Close
  <1>4. LinesKept'
    BY DEF PoolInvariant, LinesKept, Close
  <1>5. CallsKept' /\ pc' = "idle"
    BY ReturnKeeps DEF Close
  <1>6. StageKept'
    <2>1. lineCursor' \in Nat /\ Len(offsets') = 0
      BY DEF Close, PoolInvariant, LinesKept
    <2> QED
      BY <1>5, <2>1, SMT DEF StageKept, LineCount
  <1> QED
    BY <1>1, <1>2, <1>3, <1>4, <1>5, <1>6 DEF PoolInvariant

-----------------------------------------------------------------------------
(* Steps of the walk. *)

\* A step of the walk that leaves the block's lines alone.
LEMMA WalkStepKeeps ==
    ASSUME PoolInvariant, CursorNext, pc = "walk",
           UNCHANGED <<closed, terminal, lineVars, carryVars, countVars, callVars>>,
           options' = options, SourceKept'
    PROVE  PoolInvariant'
  <1>1. Invariant'
    BY NextInvariant DEF PoolInvariant
  <1>2. EndKept' /\ LinesKept' /\ CarryKept' /\ CountsKept' /\ CallsKept'
    BY UnchangedKeeps
  <1>3. StageKept'
    BY DEF PoolInvariant, StageKept, LineCount, lineVars, callVars
  <1> QED
    BY <1>1, <1>2, <1>3 DEF PoolInvariant

\* The walk takes a block.
LEMMA WalkTakeKeeps ==
    ASSUME PoolInvariant, NEW c \in Callers, WalkTake(c)
    PROVE  PoolInvariant'
  <1>1. TakeBlock /\ options' = options /\ block' = CurrentBlock
    BY DEF WalkTake, TakeBlock
  <1>2. Invariant'
    BY <1>1, TakeBlockPreserves DEF PoolInvariant
  <1>3. block' # NoBlock
    <2>1. CurrentBlock \in 0 .. BlockCount(options) - 1
      BY <1>1, PositionInRegion DEF TakeBlock, PoolInvariant
    <2> QED
      BY <1>1, <2>1, SMT DEF NoBlock
  <1>4. SourceKept' /\ EndKept' /\ LinesKept' /\ CarryKept' /\ CountsKept'
    BY <1>1, UnchangedKeeps DEF WalkTake
  <1>5. CallsKept' /\ pc' = "read" /\ holder' = holder
    BY DEF PoolInvariant, CallsKept, WalkTake, Goto
  <1>6. StageKept'
    BY <1>3, <1>5 DEF PoolInvariant, StageKept, WalkTake
  <1> QED
    BY <1>2, <1>4, <1>5, <1>6 DEF PoolInvariant

\* The walk skips a block.
LEMMA WalkSkipKeeps ==
    ASSUME PoolInvariant, NEW c \in Callers, WalkSkip(c)
    PROVE  PoolInvariant'
  <1>1. CursorNext /\ options' = options
    BY DEF WalkSkip, SkipBlock, CursorNext
  <1>2. SourceKept'
    BY <1>1, UnchangedKeeps DEF WalkSkip
  <1> QED
    BY <1>1, <1>2, WalkStepKeeps DEF WalkSkip

\* The walk enters a region.
LEMMA WalkEnterRegionKeeps ==
    ASSUME PoolInvariant, NEW c \in Callers, WalkEnterRegion(c)
    PROVE  PoolInvariant'
  <1>1. CursorNext /\ options' = options
    BY DEF WalkEnterRegion, EnterRegion, CursorNext
  <1>2. SourceKept'
    <2>1. CASE CheckDue
      BY <2>1, ValidatesKeeps DEF WalkEnterRegion, PoolInvariant
    <2>2. CASE ~ CheckDue
      BY <1>1, <2>2, UnchangedKeeps DEF WalkEnterRegion
    <2> QED
      BY <2>1, <2>2
  <1> QED
    BY <1>1, <1>2, WalkStepKeeps DEF WalkEnterRegion

\* A call that ends in an error while the walk and the lines stay.
LEMMA FailingKeeps ==
    ASSUME PoolInvariant, NEW c \in Callers, NEW error \in Errors, Fail(c, error),
           UNCHANGED <<cursorVars, closed, carryVars, countVars>>,
           SourceKept', LinesKept'
    PROVE  PoolInvariant'
  <1>1. Invariant' /\ options' = options
    BY UnchangedCursorKeeps
  <1>2. CarryKept' /\ CountsKept'
    BY <1>1, UnchangedKeeps
  <1>3. EndKept' /\ CallsKept' /\ StageKept'
    BY FailKeeps
  <1> QED
    BY <1>1, <1>2, <1>3 DEF PoolInvariant

\* The check of the source fails before a region is entered, or at the end.
LEMMA WalkCheckFailsKeeps ==
    ASSUME PoolInvariant, NEW c \in Callers, WalkCheckFails(c)
    PROVE  PoolInvariant'
  <1>1. PICK error \in Errors : Validates(error) /\ Fail(c, error)
    BY DEF WalkCheckFails
  <1>2. SourceKept'
    BY <1>1, ValidatesKeeps DEF WalkCheckFails, PoolInvariant
  <1>3. options' = options
    BY DEF WalkCheckFails, cursorVars
  <1>4. LinesKept'
    BY <1>3, UnchangedKeeps DEF WalkCheckFails
  <1> QED
    BY <1>1, <1>2, <1>4, FailingKeeps DEF WalkCheckFails

\* io.EOF.
LEMMA WalkEndsKeeps ==
    ASSUME PoolInvariant, NEW c \in Callers, WalkEnds(c)
    PROVE  PoolInvariant'
  <1>1. Fail(c, "EOF") /\ "EOF" \in Errors
    BY DEF WalkEnds, Errors
  <1>2. SourceKept'
    BY ValidatesKeeps DEF WalkEnds, PoolInvariant
  <1>3. options' = options
    BY DEF WalkEnds, cursorVars
  <1>4. LinesKept'
    BY <1>3, UnchangedKeeps DEF WalkEnds
  <1> QED
    BY <1>1, <1>2, <1>4, FailingKeeps DEF WalkEnds

\* An automatic cycle begins.
LEMMA WalkNextCycleKeeps ==
    ASSUME PoolInvariant, NEW c \in Callers, WalkNextCycle(c)
    PROVE  PoolInvariant'
  <1>1. CursorNext /\ options' = options
    BY DEF WalkNextCycle, StartCycle, NextCycle, CursorNext
  <1>2. Invariant'
    BY <1>1, NextInvariant DEF PoolInvariant
  <1>3. SourceKept'
    BY ValidatesKeeps DEF WalkNextCycle, PoolInvariant
  <1>4. EndKept' /\ CarryKept' /\ CallsKept'
    BY <1>1, UnchangedKeeps DEF WalkNextCycle
  <1>5. LinesKept'
    BY ForgetLinesKeeps DEF WalkNextCycle
  <1>6. CountsKept'
    BY SMT DEF PoolInvariant, CountsKept, WalkNextCycle
  <1>7. StageKept'
    <2>1. lineCursor' = 0 /\ Len(offsets') = 0
      BY DEF WalkNextCycle, ForgetLines
    <2>2. pc' = "walk" /\ holder' = holder /\ terminal' = terminal
      BY DEF WalkNextCycle, callVars
    <2> QED
      BY <2>1, <2>2, SMT DEF PoolInvariant, StageKept, LineCount, WalkNextCycle
  <1> QED
    BY <1>2, <1>3, <1>4, <1>5, <1>6, <1>7 DEF PoolInvariant

-----------------------------------------------------------------------------
(* Steps that read. *)

\* The order in which lines are handed out stays among them.
LEMMA LineOrderInRange ==
    ASSUME options \in ValidOptions, cycle \in Nat, block \in 0 .. BlockCount(options) - 1,
           NEW lines \in Nat \ {0}
    PROVE  LineOrder(lines).step \in 0 .. lines /\ LineOrder(lines).first \in 0 .. lines - 1
  <1> DEFINE seed == Mix(CycleSeed(options, cycle), block)
  <1>1. seed \in Words
    <2>1. CycleSeed(options, cycle) \in Words
      BY CycleSeedIsWord
    <2>2. BlockCount(options) \in Nat /\ BlockCount(options) < WordSize
      BY LayoutFacts
    <2>3. block \in Words
      BY <2>2, WordAssumption, SMT DEF Words
    <2> QED
      BY <2>1, <2>3, MixIsWord
  <1> HIDE DEF seed
  <1>2. PermutationFirst(lines, seed) \in 0 .. lines - 1
    BY <1>1, PermutationFirstInRange
  <1>3. PermutationStep(lines, seed) \in 0 .. lines
    <2>1. CASE lines = 1
      BY <2>1, SMT DEF PermutationStep
    <2>2. CASE lines # 1
      <3>1. PermutationStep(lines, seed) \in 1 .. lines - 1
        BY <1>1, <2>2, PermutationStepIsCoprime
      <3> QED
        BY <3>1, SMT
    <2> QED
      BY <2>1, <2>2
  <1>4. LineOrder(lines) =
          IF options.mode = "ModeSequential"
          THEN [step |-> 1, first |-> 0]
          ELSE [step |-> PermutationStep(lines, seed), first |-> PermutationFirst(lines, seed)]
    BY DEF LineOrder, seed
  <1>5. 1 \in 0 .. lines /\ 0 \in 0 .. lines - 1
    BY SMT
  <1> QED
    BY <1>2, <1>3, <1>4, <1>5

\* A block with its lines is ready.
LEMMA LinesReadyKeeps ==
    ASSUME PoolInvariant, NEW bytes \in Seq(Byte), NEW ends \in Seq(Nat), Len(ends) >= 2,
           NEW mayReturn \in BOOLEAN, LinesReady(bytes, ends, mayReturn),
           block # NoBlock, pc \in {"read", "extend"}, lineCursor' = 0, UNCHANGED closed
    PROVE  EndKept' /\ LinesKept' /\ CallsKept' /\ StageKept'
  <1> DEFINE lines == Len(ends) - 1
  <1>1. lines \in Nat \ {0}
    <2>1. Len(ends) \in Nat
      OBVIOUS
    <2>2. \A n \in Nat : n >= 2 => n - 1 \in Nat \ {0}
      BY SMT
    <2> QED
      BY <2>1, <2>2, Zenon
  <1>2. /\ buffer' = bytes /\ offsets' = ends /\ cr' = mayReturn
        /\ lineStep' = LineOrder(lines).step /\ nextLine' = LineOrder(lines).first
        /\ pc' = "serve" /\ UNCHANGED <<holder, call, terminal>>
    BY DEF LinesReady, Goto
  <1>3. LineOrder(lines).step \in 0 .. lines /\ LineOrder(lines).first \in 0 .. lines - 1
    BY <1>1, BlockAtHand, OpenedPool, LineOrderInRange DEF PoolInvariant, Invariant
  <1> HIDE DEF lines
  <1>4. lineStep' \in 0 .. lines /\ nextLine' \in 0 .. lines - 1
    BY <1>2, <1>3
  <1>5. lineStep' \in Nat /\ nextLine' \in Nat
    BY <1>1, <1>4, SMT
  <1>6. LinesKept'
    BY <1>2, <1>5 DEF LinesKept
  <1>7. EndKept' /\ CallsKept'
    BY <1>2 DEF PoolInvariant, EndKept, CallsKept
  <1>8. StageKept'
    <2>1. LineCount' = lines
      BY <1>2 DEF LineCount, lines
    <2>2. lineCursor' < lines
      BY <1>1, SMT
    <2>3. holder # NoCaller /\ terminal = NoError
      BY DEF PoolInvariant, StageKept
    <2> QED
      BY <1>2, <1>4, <2>1, <2>2, <2>3 DEF StageKept
  <1> QED
    BY <1>6, <1>7, <1>8

\* The last line of a block ends behind it.
LEMMA LineContinuesKeeps ==
    ASSUME PoolInvariant, NEW bytes \in Seq(Byte), NEW ends \in Seq(Nat), Len(ends) >= 1,
           NEW mayReturn \in BOOLEAN, LineContinues(bytes, ends, mayReturn),
           block # NoBlock, pc \in {"read", "extend"}, lineCursor' = 0, UNCHANGED closed,
           Len(bytes) >= ReadRange.ownershipEnd
    PROVE  /\ CursorNext
           /\ options' = options
           /\ Invariant' /\ EndKept' /\ LinesKept' /\ CallsKept' /\ StageKept'
  <1> DEFINE all == Append(ends, Len(bytes))
             end == BlockOfNextLine(ReadOffset + Len(bytes))
  <1>1. Len(bytes) \in Nat
    OBVIOUS
  <1>2. all \in Seq(Nat) /\ Len(all) >= 2
    BY <1>1, SMT
  <1>3. LinesReady(bytes, all, mayReturn) /\ ContinueLine(end)
    BY DEF LineContinues
  <1>4. end \in 0 .. BlockCount(options) /\ block + 1 <= end
    BY <1>1, BlockAtHand, NextLineIsBehind
  <1> HIDE DEF all, end
  <1>5. CursorNext
    BY <1>3, <1>4 DEF CursorNext
  <1>6. options' = options
    BY <1>3 DEF ContinueLine
  <1>7. Invariant'
    BY <1>5, NextInvariant DEF PoolInvariant
  <1> QED
    BY <1>2, <1>3, <1>5, <1>6, <1>7, LinesReadyKeeps

\* A line of the block is too long.
LEMMA LineTooLongKeeps ==
    ASSUME PoolInvariant, NEW c \in Callers, NEW bytes \in Seq(Byte), NEW ends \in Seq(Nat),
           LineTooLong(c, bytes, ends), lineCursor' = 0, UNCHANGED closed
    PROVE  /\ UNCHANGED cursorVars
           /\ options' = options
           /\ Invariant' /\ EndKept' /\ LinesKept' /\ CallsKept' /\ StageKept'
  <1>1. UNCHANGED cursorVars /\ Fail(c, "ErrLineTooLong") /\ "ErrLineTooLong" \in Errors
    BY DEF LineTooLong, Errors
  <1>2. Invariant' /\ options' = options
    BY <1>1, UnchangedCursorKeeps
  <1>3. EndKept' /\ CallsKept' /\ StageKept'
    BY <1>1, FailKeeps
  <1>4. LinesKept'
    BY DEF PoolInvariant, LinesKept, LineTooLong
  <1> QED
    BY <1>1, <1>2, <1>3, <1>4

\* The bytes up to a line feed behind the block.
LEMMA UpToFeed ==
    ASSUME NEW bytes \in Seq(Byte), NEW from \in Nat, NEW to \in Nat, to <= Len(bytes),
           LineFeeds(bytes, from, to) # {}
    PROVE  /\ Slice(bytes, 0, Min(LineFeeds(bytes, from, to)) + 1) \in Seq(Byte)
           /\ Len(Slice(bytes, 0, Min(LineFeeds(bytes, from, to)) + 1)) > from
  <1> DEFINE feed == Min(LineFeeds(bytes, from, to))
  <1>1. feed \in from .. to - 1
    BY LeastFeed
  <1> HIDE DEF feed, Byte
  <1>2. feed + 1 \in Nat /\ feed + 1 <= Len(bytes) /\ feed + 1 > from
    BY <1>1, SMT
  <1>3. Slice(bytes, 0, feed + 1) = SubSeq(bytes, 1, feed + 1)
    BY DEF Slice
  <1>4. SubSeq(bytes, 1, feed + 1) \in Seq(Byte) /\ Len(SubSeq(bytes, 1, feed + 1)) = feed + 1
    BY <1>2
  <1>5. Len(SubSeq(bytes, 1, feed + 1)) > from
    BY <1>2, <1>4, SMT
  <1> QED
    BY <1>3, <1>4, <1>5 DEF feed

\* extendLineLocked found the end of the line.
LEMMA LineFeedFoundKeeps ==
    ASSUME PoolInvariant, NEW c \in Callers, NEW bytes \in Seq(Byte),
           NEW ends \in Seq(Nat), Len(ends) >= 1,
           NEW hint \in BOOLEAN, LineFeedFound(c, bytes, ends, hint),
           block # NoBlock, pc \in {"read", "extend"}, lineCursor' = 0, UNCHANGED closed,
           Len(bytes) >= ReadRange.ownershipEnd
    PROVE  /\ [CursorNext]_cursorVars
           /\ options' = options
           /\ Invariant' /\ EndKept' /\ LinesKept' /\ CallsKept' /\ StageKept'
  <1>1. CASE TooLong(bytes, Last(ends), Len(bytes))
    <2>1. LineTooLong(c, bytes, ends)
      BY <1>1 DEF LineFeedFound
    <2> QED
      BY <2>1, LineTooLongKeeps
  <1>2. CASE ~ TooLong(bytes, Last(ends), Len(bytes))
    <2> DEFINE mayReturn == hint \/ At(bytes, Len(bytes) - 2) = CR
    <2>1. mayReturn \in BOOLEAN /\ LineContinues(bytes, ends, mayReturn)
      BY <1>2 DEF LineFeedFound
    <2> HIDE DEF mayReturn
    <2> QED
      BY <2>1, LineContinuesKeeps
  <1> QED
    BY <1>1, <1>2

\* What a full read does before lines are looked for.
LEMMA ReadsBlockKeeps ==
    ASSUME PoolInvariant, NEW c \in Callers, NEW bytes, ReadsBlock(c, bytes)
    PROVE  /\ pc = "read" /\ block # NoBlock
           /\ options \in ValidOptions /\ block \in 0 .. BlockCount(options) - 1
           /\ bytes \in Seq(Byte)
           /\ Len(bytes) = ReadRange.readBytes
           /\ Len(bytes) >= ReadRange.ownershipEnd
           /\ lineCursor' = 0 /\ UNCHANGED closed
           /\ options' = options => SourceKept' /\ CarryKept' /\ CountsKept'
  <1>1. pc = "read" /\ block # NoBlock
    BY DEF ReadsBlock, PoolInvariant, StageKept
  <1>2. /\ options \in ValidOptions /\ block \in 0 .. BlockCount(options) - 1
        /\ disk.bytes \in Seq(Byte) /\ carried \in Byte /\ BlockCount(options) \in Nat
    BY <1>1, BlockAtHand
  <1>3. bytes \in Seq(Byte) /\ Len(bytes) = ReadRange.readBytes
    BY <1>2, FullReadFillsBuffer DEF ReadsBlock
  <1>4. /\ ReadRange.ownershipEnd \in Nat \ {0, 1}
        /\ ReadRange.ownershipEnd <= Len(bytes)
    BY <1>2, <1>3, ReadRangeFacts
  <1>5. carried' \in Byte
    <2>1. carried' = bytes[(ReadRange.ownershipEnd - 1) + 1]
      BY DEF ReadsBlock, LastByteOwned, At
    <2> DEFINE end == ReadRange.ownershipEnd
    <2>2. (end - 1) + 1 \in 1 .. Len(bytes)
      BY <1>3, <1>4, SMT
    <2> HIDE DEF end, Byte
    <2>3. bytes[(end - 1) + 1] \in Byte
      BY <1>3, <2>2
    <2> QED
      BY <2>1, <2>3 DEF end
  <1>6. ASSUME options' = options
        PROVE  SourceKept' /\ CarryKept' /\ CountsKept'
    <2>1. SourceKept' /\ CountsKept'
      BY <1>6, UnchangedKeeps DEF ReadsBlock
    <2>2. carriedBlock' \in 0 .. BlockCount(options)
      BY <1>2, SMT DEF ReadsBlock
    <2> QED
      BY <1>5, <1>6, <2>1, <2>2 DEF CarryKept
  <1> QED
    BY <1>1, <1>2, <1>3, <1>4, <1>6, SMT DEF ReadsBlock

\* The read fails, or returns too little.
LEMMA ReadFailsKeeps ==
    ASSUME PoolInvariant, NEW c \in Callers, ReadFails(c)
    PROVE  PoolInvariant'
  <1>1. Invariant' /\ options' = options
    BY UnchangedCursorKeeps DEF ReadFails
  <1>2. EndKept' /\ CarryKept' /\ CountsKept'
    BY <1>1, UnchangedKeeps DEF ReadFails
  <1>3. faults' \in 0 .. MaxFaults
    <2>1. faults \in 0 .. MaxFaults
      BY DEF PoolInvariant, SourceKept
    <2> QED
      BY <2>1, PoolAssumption, SMT DEF ReadFails
  <1>4. SourceKept'
    BY <1>3 DEF PoolInvariant, SourceKept, ReadFails, fileVars
  <1>5. LinesKept'
    <2>1. << >> \in Seq(Byte)
      OBVIOUS
    <2> QED
      BY <2>1 DEF PoolInvariant, LinesKept, ReadFails
  <1>6. pc' \in {"short", "failed"} /\ pc = "read" /\ UNCHANGED <<holder, call, terminal>>
    BY DEF ReadFails, Goto
  <1>7. CallsKept' /\ StageKept'
    BY <1>6 DEF PoolInvariant, CallsKept, StageKept
  <1> QED
    BY <1>1, <1>2, <1>4, <1>5, <1>7 DEF PoolInvariant

\* A read that failed ends the call.
LEMMA ShortReadEndsKeeps ==
    ASSUME PoolInvariant, NEW c \in Callers, ShortReadEnds(c)
    PROVE  PoolInvariant'
  <1>1. PICK error \in ValidationErrors :
               /\ Validates(error)
               /\ Fail(c, IF error # NoError THEN error
                          ELSE IF pc = "short" THEN "ErrUnexpectedEOF" ELSE "ReadError")
    BY DEF ShortReadEnds
  <1> DEFINE told == IF error # NoError THEN error
                     ELSE IF pc = "short" THEN "ErrUnexpectedEOF" ELSE "ReadError"
  <1>2. told \in Errors
    BY <1>1 DEF ValidationErrors, Errors
  <1>3. Fail(c, told)
    BY <1>1
  <1> HIDE DEF told
  <1>4. SourceKept'
    BY <1>1, ValidatesKeeps DEF ShortReadEnds, PoolInvariant
  <1>5. options' = options
    BY DEF ShortReadEnds, cursorVars
  <1>6. LinesKept'
    BY <1>5, UnchangedKeeps DEF ShortReadEnds
  <1> QED
    BY <1>2, <1>3, <1>4, <1>6, FailingKeeps DEF ShortReadEnds

\* The block owns no line.
LEMMA ReadNoLineKeeps ==
    ASSUME PoolInvariant, NEW c \in Callers, ReadNoLine(c)
    PROVE  PoolInvariant'
  <1> DEFINE bytes == Filled(ReadData)
  <1>1. /\ ReadsBlock(c, bytes)
        /\ buffer' = bytes /\ offsets' = << >> /\ cr' = FALSE /\ nextLine' = 0
        /\ pc' = "walk" /\ UNCHANGED <<holder, call, cursorVars, terminal, lineStep>>
    BY DEF ReadNoLine, Goto
  <1>2. Invariant' /\ options' = options
    BY <1>1, UnchangedCursorKeeps
  <1>3. /\ bytes \in Seq(Byte) /\ pc = "read" /\ lineCursor' = 0 /\ UNCHANGED closed
        /\ SourceKept' /\ CarryKept' /\ CountsKept'
    BY <1>1, <1>2, ReadsBlockKeeps
  <1> HIDE DEF bytes
  <1>4. << >> \in Seq(Nat)
    OBVIOUS
  <1>5. LinesKept'
    BY <1>1, <1>3, <1>4 DEF PoolInvariant, LinesKept
  <1>6. EndKept' /\ CallsKept'
    BY <1>1, <1>3 DEF PoolInvariant, EndKept, CallsKept
  <1>7. StageKept'
    <2>1. Len(offsets') = 0
      BY <1>1
    <2> QED
      BY <1>1, <1>3, <2>1, SMT DEF PoolInvariant, StageKept, LineCount
  <1> QED
    BY <1>2, <1>3, <1>5, <1>6, <1>7 DEF PoolInvariant

\* A line that ends in the block is too long.
LEMMA ReadTooLongKeeps ==
    ASSUME PoolInvariant, NEW c \in Callers, ReadTooLong(c)
    PROVE  PoolInvariant' /\ UNCHANGED cursorVars
  <1> DEFINE bytes == Filled(ReadData)
             ends  == BlockOffsets(bytes)
  <1>1. ReadsBlock(c, bytes) /\ LineTooLong(c, bytes, ends)
    BY DEF ReadTooLong
  <1>2. ends \in Seq(Nat)
    BY <1>1, ReadsBlockKeeps, BlockOffsetsAreOffsets
  <1> HIDE DEF bytes, ends
  <1>3. bytes \in Seq(Byte) /\ lineCursor' = 0 /\ UNCHANGED closed
    BY <1>1, ReadsBlockKeeps
  <1>4. /\ UNCHANGED cursorVars /\ options' = options
        /\ Invariant' /\ EndKept' /\ LinesKept' /\ CallsKept' /\ StageKept'
    BY <1>1, <1>2, <1>3, LineTooLongKeeps
  <1>5. SourceKept' /\ CarryKept' /\ CountsKept'
    BY <1>1, <1>4, ReadsBlockKeeps
  <1> QED
    BY <1>4, <1>5 DEF PoolInvariant

\* The last line of the block ends with it.
LEMMA ReadWholeLinesKeeps ==
    ASSUME PoolInvariant, NEW c \in Callers, ReadWholeLines(c)
    PROVE  PoolInvariant' /\ UNCHANGED cursorVars
  <1> DEFINE bytes == Filled(ReadData)
             ends  == BlockOffsets(bytes)
  <1>1. PICK hint \in BOOLEAN :
               /\ IndexesBlock(c, bytes, ends, hint)
               /\ Last(ends) = ReadRange.ownershipEnd
               /\ LinesReady(bytes, ends, hint)
               /\ UNCHANGED cursorVars
    BY DEF ReadWholeLines
  <1>2. ReadsBlock(c, bytes)
    BY <1>1 DEF IndexesBlock
  <1>3. ends \in Seq(Nat) /\ Len(ends) >= 2
    BY <1>1, <1>2, ReadsBlockKeeps, BlockOffsetsAreOffsets
  <1> HIDE DEF bytes, ends
  <1>4. Invariant' /\ options' = options
    BY <1>1, UnchangedCursorKeeps
  <1>5. /\ bytes \in Seq(Byte) /\ lineCursor' = 0 /\ UNCHANGED closed
        /\ pc = "read" /\ block # NoBlock
        /\ SourceKept' /\ CarryKept' /\ CountsKept'
    BY <1>2, <1>4, ReadsBlockKeeps
  <1>6. EndKept' /\ LinesKept' /\ CallsKept' /\ StageKept'
    BY <1>1, <1>3, <1>5, LinesReadyKeeps
  <1> QED
    BY <1>1, <1>4, <1>5, <1>6 DEF PoolInvariant

\* Bytes with the terminator they lack.
LEMMA TerminatedBytes ==
    ASSUME NEW bytes \in Seq(Byte)
    PROVE  /\ bytes \o Terminator(bytes) \in Seq(Byte)
           /\ Len(bytes \o Terminator(bytes)) \in Nat
           /\ Len(bytes \o Terminator(bytes)) >= Len(bytes)
  <1> DEFINE t == Terminator(bytes)
  <1>1. t \in Seq(Byte)
    <2>1. LF \in Byte /\ CR \in Byte
      BY DEF Byte
    <2> HIDE DEF Byte
    <2>2. <<LF>> \in Seq(Byte) /\ <<CR, LF>> \in Seq(Byte)
      BY <2>1
    <2> QED
      BY <2>2 DEF Terminator
  <1> HIDE DEF t, Byte
  <1>2. bytes \o t \in Seq(Byte) /\ Len(bytes \o t) = Len(bytes) + Len(t)
    BY <1>1
  <1>3. Len(bytes) \in Nat /\ Len(t) \in Nat
    BY <1>1
  <1> QED
    BY <1>2, <1>3, SMT DEF t

\* The last line of the block ends with the file.
LEMMA ReadLastLineKeeps ==
    ASSUME PoolInvariant, NEW c \in Callers, ReadLastLine(c)
    PROVE  PoolInvariant' /\ UNCHANGED cursorVars
  <1> DEFINE bytes == Filled(ReadData)
             ends  == BlockOffsets(bytes)
             all   == bytes \o Terminator(bytes)
  <1>1. PICK hint \in BOOLEAN :
               /\ IndexesBlock(c, bytes, ends, hint)
               /\ IF TooLong(bytes, Last(ends), Len(bytes))
                  THEN LineTooLong(c, bytes, ends)
                  ELSE /\ LinesReady(all, Append(ends, Len(all)), hint \/ Last(bytes) = CR)
                       /\ UNCHANGED cursorVars
    BY DEF ReadLastLine
  <1>2. ReadsBlock(c, bytes)
    BY <1>1 DEF IndexesBlock
  <1>3. ends \in Seq(Nat) /\ Len(ends) >= 1
    BY <1>2, ReadsBlockKeeps, BlockOffsetsAreOffsets
  <1> HIDE DEF bytes, ends
  <1>4. /\ bytes \in Seq(Byte) /\ lineCursor' = 0 /\ UNCHANGED closed
        /\ pc = "read" /\ block # NoBlock
    BY <1>2, ReadsBlockKeeps
  <1>5. /\ UNCHANGED cursorVars /\ options' = options
        /\ Invariant' /\ EndKept' /\ LinesKept' /\ CallsKept' /\ StageKept'
    <2>1. CASE TooLong(bytes, Last(ends), Len(bytes))
      <3>1. LineTooLong(c, bytes, ends)
        BY <1>1, <2>1
      <3> QED
        BY <1>3, <1>4, <3>1, LineTooLongKeeps
    <2>2. CASE ~ TooLong(bytes, Last(ends), Len(bytes))
      <3> DEFINE mayReturn == hint \/ Last(bytes) = CR
                 more      == Append(ends, Len(all))
      <3>1. LinesReady(all, more, mayReturn) /\ UNCHANGED cursorVars /\ mayReturn \in BOOLEAN
        BY <1>1, <2>2
      <3>2. all \in Seq(Byte) /\ Len(all) \in Nat
        BY <1>4, TerminatedBytes
      <3> HIDE DEF all
      <3>3. more \in Seq(Nat) /\ Len(more) >= 2
        BY <1>3, <3>2, SMT
      <3> HIDE DEF more, mayReturn
      <3>4. EndKept' /\ LinesKept' /\ CallsKept' /\ StageKept'
        BY <1>4, <3>1, <3>2, <3>3, LinesReadyKeeps
      <3> QED
        BY <3>1, <3>4, UnchangedCursorKeeps
    <2> QED
      BY <2>1, <2>2
  <1>6. SourceKept' /\ CarryKept' /\ CountsKept'
    BY <1>2, <1>5, ReadsBlockKeeps
  <1> QED
    BY <1>5, <1>6 DEF PoolInvariant

\* The last line of the block runs on behind it.
LEMMA ReadOpenLineKeeps ==
    ASSUME PoolInvariant, NEW c \in Callers, ReadOpenLine(c)
    PROVE  PoolInvariant' /\ [CursorNext]_cursorVars
  <1> DEFINE range == ReadRange
             bytes == Filled(ReadData)
             ends  == BlockOffsets(bytes)
             feeds == LineFeeds(bytes, range.ownershipEnd, range.readBytes)
  <1>1. PICK hint \in BOOLEAN :
               /\ IndexesBlock(c, bytes, ends, hint)
               /\ IF feeds # {}
                  THEN LineFeedFound(c, Slice(bytes, 0, Min(feeds) + 1), ends, hint)
                  ELSE /\ buffer' = bytes
                       /\ offsets' = ends
                       /\ cr' = hint
                       /\ nextLine' = 0
                       /\ Goto("extend")
                       /\ UNCHANGED <<cursorVars, terminal, lineStep>>
    BY DEF ReadOpenLine
  <1>2. ReadsBlock(c, bytes)
    BY <1>1 DEF IndexesBlock
  <1>3. ends \in Seq(Nat) /\ Len(ends) >= 1
    BY <1>2, ReadsBlockKeeps, BlockOffsetsAreOffsets
  <1> HIDE DEF bytes, ends
  <1>4. /\ bytes \in Seq(Byte) /\ lineCursor' = 0 /\ UNCHANGED closed
        /\ pc = "read" /\ block # NoBlock
        /\ Len(bytes) = range.readBytes
        /\ Len(bytes) >= range.ownershipEnd
        /\ options \in ValidOptions /\ block \in 0 .. BlockCount(options) - 1
    BY <1>2, ReadsBlockKeeps
  <1>5. range.ownershipEnd \in Nat /\ range.readBytes \in Nat
    BY <1>4, ReadRangeFacts
  <1>6. /\ [CursorNext]_cursorVars /\ options' = options
        /\ Invariant' /\ EndKept' /\ LinesKept' /\ CallsKept' /\ StageKept'
    <2>1. CASE feeds # {}
      <3> DEFINE line == Slice(bytes, 0, Min(feeds) + 1)
      <3>1. LineFeedFound(c, line, ends, hint)
        BY <1>1, <2>1
      <3>2. line \in Seq(Byte) /\ Len(line) > range.ownershipEnd
        <4>1. range.readBytes <= Len(bytes)
          BY <1>4, <1>5, SMT
        <4> QED
          BY <1>4, <1>5, <2>1, <4>1, UpToFeed
      <3>3. Len(line) >= range.ownershipEnd
        <4> HIDE DEF line
        <4>1. Len(line) \in Nat
          BY <3>2
        <4> QED
          BY <1>5, <3>2, <4>1, SMT
      <3> HIDE DEF line
      <3> QED
        BY <1>3, <1>4, <3>1, <3>2, <3>3, LineFeedFoundKeeps
    <2>2. CASE feeds = {}
      <3>1. /\ buffer' = bytes /\ offsets' = ends /\ cr' = hint /\ nextLine' = 0
            /\ pc' = "extend" /\ UNCHANGED <<holder, call, cursorVars, terminal, lineStep>>
        BY <1>1, <2>2 DEF Goto
      <3>2. Invariant' /\ options' = options /\ block' = block
        BY <3>1, UnchangedCursorKeeps
      <3>3. LinesKept'
        BY <1>3, <1>4, <3>1 DEF PoolInvariant, LinesKept
      <3>4. EndKept' /\ CallsKept'
        BY <1>4, <3>1 DEF PoolInvariant, EndKept, CallsKept
      <3>5. ReadRange'.ownershipEnd = range.ownershipEnd
        BY <3>2 DEF ReadRange, BlockReadRange
      <3>6. StageKept'
        BY <1>3, <1>4, <3>1, <3>2, <3>5 DEF PoolInvariant, StageKept
      <3> QED
        BY <3>1, <3>2, <3>3, <3>4, <3>6
    <2> QED
      BY <2>1, <2>2
  <1>7. SourceKept' /\ CarryKept' /\ CountsKept'
    BY <1>2, <1>6, ReadsBlockKeeps
  <1> QED
    BY <1>6, <1>7 DEF PoolInvariant

-----------------------------------------------------------------------------
(* Steps that extend a line. *)

\* What is at hand while a line is extended.
LEMMA ExtendingKeeps ==
    ASSUME PoolInvariant, NEW c \in Callers, Extending(c)
    PROVE  /\ pc = "extend" /\ block # NoBlock
           /\ options \in ValidOptions /\ block \in 0 .. BlockCount(options) - 1
           /\ buffer \in Seq(Byte) /\ offsets \in Seq(Nat) /\ cr \in BOOLEAN
           /\ Len(buffer) >= ReadRange.ownershipEnd
           /\ ReadRange.ownershipEnd \in Nat \ {0, 1}
           /\ Len(offsets) >= 1
           /\ Last(offsets) \in Nat
           /\ lineCursor' = 0 /\ UNCHANGED closed
           /\ options' = options => CarryKept' /\ CountsKept'
           /\ options' = options /\ UNCHANGED faults => SourceKept'
  <1>1. /\ pc = "extend" /\ block # NoBlock
        /\ Len(buffer) >= ReadRange.ownershipEnd
        /\ Len(offsets) >= 1
        /\ lineCursor' = 0 /\ UNCHANGED closed
    BY DEF Extending, PoolInvariant, StageKept
  <1>2. options \in ValidOptions /\ block \in 0 .. BlockCount(options) - 1
    BY <1>1, BlockAtHand
  <1>3. buffer \in Seq(Byte) /\ offsets \in Seq(Nat) /\ cr \in BOOLEAN
    BY DEF PoolInvariant, LinesKept
  <1>4. Last(offsets) \in Nat
    <2>1. Len(offsets) \in Nat
      BY <1>3
    <2>2. Len(offsets) \in 1 .. Len(offsets)
      BY <1>1, <2>1, SMT
    <2> QED
      BY <1>3, <2>2 DEF Last
  <1>5. ReadRange.ownershipEnd \in Nat \ {0, 1}
    BY <1>2, ReadRangeFacts
  <1>6. options' = options => CarryKept' /\ CountsKept'
    BY UnchangedKeeps DEF Extending
  <1>7. options' = options /\ UNCHANGED faults => SourceKept'
    BY UnchangedKeeps DEF Extending
  <1> QED
    BY <1>1, <1>2, <1>3, <1>4, <1>5, <1>6, <1>7

\* The line has no end within the limit.
LEMMA ExtendTooLongKeeps ==
    ASSUME PoolInvariant, NEW c \in Callers, ExtendTooLong(c)
    PROVE  PoolInvariant' /\ UNCHANGED cursorVars
  <1>1. Extending(c) /\ LineTooLong(c, buffer, offsets) /\ UNCHANGED faults
    BY DEF ExtendTooLong
  <1>2. buffer \in Seq(Byte) /\ offsets \in Seq(Nat) /\ lineCursor' = 0 /\ UNCHANGED closed
    BY <1>1, ExtendingKeeps
  <1>3. /\ UNCHANGED cursorVars /\ options' = options
        /\ Invariant' /\ EndKept' /\ LinesKept' /\ CallsKept' /\ StageKept'
    BY <1>1, <1>2, LineTooLongKeeps
  <1>4. SourceKept' /\ CarryKept' /\ CountsKept'
    BY <1>1, <1>3, ExtendingKeeps
  <1> QED
    BY <1>3, <1>4 DEF PoolInvariant

\* The line ends with the file.
LEMMA ExtendToEndKeeps ==
    ASSUME PoolInvariant, NEW c \in Callers, ExtendToEnd(c)
    PROVE  PoolInvariant' /\ [CursorNext]_cursorVars
  <1> DEFINE all == buffer \o Terminator(buffer)
  <1>1. /\ Extending(c)
        /\ IF TooLong(buffer, Last(offsets), Len(buffer))
           THEN LineTooLong(c, buffer, offsets)
           ELSE LineContinues(all, offsets, cr \/ Last(buffer) = CR)
        /\ UNCHANGED faults
    BY DEF ExtendToEnd
  <1>2. /\ pc = "extend" /\ block # NoBlock
        /\ buffer \in Seq(Byte) /\ offsets \in Seq(Nat) /\ cr \in BOOLEAN
        /\ lineCursor' = 0 /\ UNCHANGED closed
        /\ Len(offsets) >= 1
        /\ Len(buffer) >= ReadRange.ownershipEnd
        /\ ReadRange.ownershipEnd \in Nat \ {0, 1}
    BY <1>1, ExtendingKeeps
  <1>3. /\ [CursorNext]_cursorVars /\ options' = options
        /\ Invariant' /\ EndKept' /\ LinesKept' /\ CallsKept' /\ StageKept'
    <2>1. CASE TooLong(buffer, Last(offsets), Len(buffer))
      <3>1. LineTooLong(c, buffer, offsets)
        BY <1>1, <2>1
      <3> QED
        BY <1>2, <3>1, LineTooLongKeeps
    <2>2. CASE ~ TooLong(buffer, Last(offsets), Len(buffer))
      <3> DEFINE mayReturn == cr \/ Last(buffer) = CR
      <3>1. LineContinues(all, offsets, mayReturn) /\ mayReturn \in BOOLEAN
        BY <1>1, <2>2
      <3>2. all \in Seq(Byte) /\ Len(all) \in Nat /\ Len(all) >= Len(buffer)
        BY <1>2, TerminatedBytes
      <3> HIDE DEF all, mayReturn
      <3>3. Len(all) >= ReadRange.ownershipEnd
        <4>1. Len(buffer) \in Nat
          BY <1>2
        <4> QED
          BY <1>2, <3>2, <4>1, SMT
      <3> QED
        BY <1>2, <3>1, <3>2, <3>3, LineContinuesKeeps
    <2> QED
      BY <2>1, <2>2
  <1>4. SourceKept' /\ CarryKept' /\ CountsKept'
    BY <1>1, <1>3, ExtendingKeeps
  <1> QED
    BY <1>3, <1>4 DEF PoolInvariant

\* What is read behind the buffer is part of the file.
LEMMA ExtensionIsBytes ==
    ASSUME PoolInvariant, NEW c \in Callers, Extending(c)
    PROVE  ReadAt(disk.bytes, BufferEnd, ExtendLength) \in Seq(Byte)
  <1>1. /\ options \in ValidOptions /\ block \in 0 .. BlockCount(options) - 1
        /\ buffer \in Seq(Byte)
        /\ Len(buffer) >= ReadRange.ownershipEnd
        /\ Last(offsets) \in Nat
    BY ExtendingKeeps
  <1>2. Len(buffer) \in Nat
    BY <1>1
  <1>3. BufferEnd \in Nat
    <2>1. /\ ReadOffset \in Int
          /\ ReadRange.readOffset = ReadOffset
          /\ ReadRange.skip \in {0, 1}
          /\ ReadRange.readOffset + ReadRange.skip \in Nat
          /\ ReadRange.ownershipEnd \in Nat \ {0, 1}
      BY <1>1, ReadRangeFacts
    <2>2. ReadOffset >= -1
      BY <2>1, SMT
    <2> QED
      BY <1>1, <1>2, <2>1, <2>2, SMT DEF BufferEnd
  <1>4. ExtendLength \in Int
    <2>1. /\ options.blockBytes \in Nat \ {0}
          /\ options.fileSize \in Nat
          /\ options.maxLineBytes \in Nat \ {0}
      BY <1>1, OpenedSizes
    <2>2. LineLimit \in Int
      BY <1>1, <2>1, SMT DEF LineLimit
    <2>3. LineLimit - Len(buffer) \in Int /\ options.fileSize - BufferEnd \in Int
      BY <1>2, <1>3, <2>1, <2>2, SMT
    <2> QED
      BY <2>1, <2>3, ReadAssumption DEF ExtendLength, ExtendReadBytes, Lesser, Greater
  <1>5. disk.bytes \in Seq(Byte)
    BY BlockAtHand
  <1> QED
    BY <1>3, <1>4, <1>5, ReadAtReturnsBytes

\* One read behind the buffer.
LEMMA ExtendReadKeeps ==
    ASSUME PoolInvariant, NEW c \in Callers, ExtendRead(c)
    PROVE  PoolInvariant' /\ [CursorNext]_cursorVars
  <1> DEFINE read  == ReadAt(disk.bytes, BufferEnd, ExtendLength)
             bytes == buffer \o read
             feeds == LineFeeds(bytes, Len(buffer), Len(bytes))
  <1>1. /\ Extending(c)
        /\ IF feeds # {}
           THEN LineFeedFound(c, Slice(bytes, 0, Min(feeds) + 1), offsets, cr)
           ELSE /\ buffer' = bytes
                /\ Goto(IF Len(read) = ExtendLength THEN "extend" ELSE "short")
                /\ UNCHANGED <<cursorVars, terminal, offsets, cr, nextLine, lineStep>>
        /\ UNCHANGED faults
    BY DEF ExtendRead
  <1>2. /\ pc = "extend" /\ block # NoBlock
        /\ buffer \in Seq(Byte) /\ offsets \in Seq(Nat) /\ cr \in BOOLEAN
        /\ lineCursor' = 0 /\ UNCHANGED closed
        /\ Len(offsets) >= 1
        /\ Len(buffer) >= ReadRange.ownershipEnd
        /\ ReadRange.ownershipEnd \in Nat \ {0, 1}
    BY <1>1, ExtendingKeeps
  <1>3. read \in Seq(Byte)
    BY <1>1, ExtensionIsBytes
  <1> HIDE DEF read
  <1>4. /\ bytes \in Seq(Byte) /\ Len(bytes) = Len(buffer) + Len(read)
        /\ Len(buffer) \in Nat /\ Len(read) \in Nat
    <2> HIDE DEF Byte
    <2> QED
      BY <1>2, <1>3
  <1>5. Len(bytes) \in Nat /\ Len(bytes) >= Len(buffer)
    BY <1>4, SMT
  <1> HIDE DEF bytes
  <1>6. /\ [CursorNext]_cursorVars /\ options' = options
        /\ Invariant' /\ EndKept' /\ LinesKept' /\ CallsKept' /\ StageKept'
    <2>1. CASE feeds # {}
      <3> DEFINE line == Slice(bytes, 0, Min(feeds) + 1)
      <3>1. LineFeedFound(c, line, offsets, cr)
        BY <1>1, <2>1
      <3>2. line \in Seq(Byte) /\ Len(line) > Len(buffer)
        <4>1. Len(bytes) <= Len(bytes)
          BY <1>5, SMT
        <4> QED
          BY <1>4, <1>5, <2>1, <4>1, UpToFeed
      <3> HIDE DEF line
      <3>3. Len(line) >= ReadRange.ownershipEnd
        <4>1. Len(line) \in Nat
          BY <3>2
        <4> QED
          BY <1>2, <1>4, <3>2, <4>1, SMT
      <3> QED
        BY <1>2, <3>1, <3>2, <3>3, LineFeedFoundKeeps
    <2>2. CASE feeds = {}
      <3>1. /\ buffer' = bytes
            /\ pc' \in {"extend", "short"}
            /\ UNCHANGED <<holder, call, cursorVars, terminal, offsets, cr, nextLine, lineStep>>
        BY <1>1, <2>2 DEF Goto
      <3>2. Invariant' /\ options' = options /\ block' = block
        BY <3>1, UnchangedCursorKeeps
      <3>3. LinesKept'
        BY <1>2, <1>4, <3>1 DEF PoolInvariant, LinesKept
      <3>4. EndKept' /\ CallsKept'
        BY <1>2, <3>1 DEF PoolInvariant, EndKept, CallsKept
      <3>5. ReadRange'.ownershipEnd = ReadRange.ownershipEnd
        BY <3>2 DEF ReadRange, BlockReadRange
      <3>6. Len(bytes) >= ReadRange.ownershipEnd
        BY <1>2, <1>4, <1>5, SMT
      <3>7. StageKept'
        BY <1>2, <3>1, <3>2, <3>5, <3>6 DEF PoolInvariant, StageKept
      <3> QED
        BY <3>1, <3>2, <3>3, <3>4, <3>7
    <2> QED
      BY <2>1, <2>2
  <1>7. SourceKept' /\ CarryKept' /\ CountsKept'
    BY <1>1, <1>6, ExtendingKeeps
  <1> QED
    BY <1>6, <1>7 DEF PoolInvariant

\* The read behind the buffer fails.
LEMMA ExtendFailsKeeps ==
    ASSUME PoolInvariant, NEW c \in Callers, ExtendFails(c)
    PROVE  PoolInvariant'
  <1>1. /\ Extending(c) /\ Fail(c, "ReadError") /\ "ReadError" \in Errors
        /\ UNCHANGED <<cursorVars, buffer, offsets, cr, nextLine, lineStep>>
        /\ faults < MaxFaults /\ faults' = faults + 1
    BY DEF ExtendFails, Errors
  <1>2. UNCHANGED <<fileVars, closed, lineCursor, carryVars, countVars>>
    BY <1>1 DEF Extending
  <1>3. faults' \in 0 .. MaxFaults
    BY <1>1, PoolAssumption, SMT DEF PoolInvariant, SourceKept
  <1>4. SourceKept'
    BY <1>2, <1>3 DEF PoolInvariant, SourceKept, fileVars
  <1>5. LinesKept'
    BY <1>1, <1>2 DEF PoolInvariant, LinesKept
  <1> QED
    BY <1>1, <1>2, <1>4, <1>5, FailingKeeps

-----------------------------------------------------------------------------
(* Steps that hand lines out. *)

\* What is at hand when lines are handed out.
LEMMA ServingKeeps ==
    ASSUME PoolInvariant, pc = "serve"
    PROVE  /\ LineCount \in Nat \ {0}
           /\ lineCursor \in Nat /\ lineCursor < LineCount
           /\ lineStep \in 0 .. LineCount
           /\ nextLine \in 0 .. LineCount - 1
           /\ terminal = NoError
           /\ cursor \in Nat /\ cycleStartCursor \in 0 .. cursor
  <1>1. /\ lineCursor < LineCount
        /\ terminal = NoError
        /\ lineStep \in 0 .. LineCount
        /\ nextLine \in 0 .. LineCount - 1
    BY DEF PoolInvariant, StageKept
  <1>2. lineCursor \in Nat /\ Len(offsets) \in Nat
    BY DEF PoolInvariant, LinesKept
  <1>3. LineCount \in Nat \ {0}
    BY <1>1, <1>2, SMT DEF LineCount
  <1>4. cursor \in Nat /\ cycleStartCursor \in 0 .. cursor
    BY DEF PoolInvariant, CountsKept
  <1> QED
    BY <1>1, <1>2, <1>3, <1>4

\* Next returns a line.
LEMMA ServeNextKeeps ==
    ASSUME PoolInvariant, NEW c \in Callers, ServeNext(c)
    PROVE  PoolInvariant'
  <1>1. Invariant' /\ options' = options
    BY UnchangedCursorKeeps DEF ServeNext
  <1>2. SourceKept' /\ EndKept' /\ CarryKept'
    BY <1>1, UnchangedKeeps DEF ServeNext
  <1>3. CallsKept' /\ pc' = "idle"
    BY ReturnKeeps DEF ServeNext
  <1>4. /\ LineCount \in Nat \ {0}
        /\ lineCursor \in Nat
        /\ lineStep \in 0 .. LineCount
        /\ nextLine \in 0 .. LineCount - 1
        /\ cursor \in Nat /\ cycleStartCursor \in 0 .. cursor
    BY ServingKeeps DEF ServeNext
  <1>5. Following \in 0 .. LineCount - 1
    BY <1>4, SMT DEF Following
  <1>6. /\ nextLine' = Following /\ lineCursor' = lineCursor + 1
        /\ UNCHANGED <<buffer, offsets, cr, lineStep, terminal>>
    BY DEF ServeNext
  <1>7. LinesKept'
    <2>1. nextLine' \in Nat /\ lineCursor' \in Nat
      BY <1>4, <1>5, <1>6, SMT
    <2> QED
      BY <1>6, <2>1 DEF PoolInvariant, LinesKept
  <1>8. CountsKept'
    <2> DEFINE lines == <<LineAt(nextLine)>>
    <2>1. Len(lines) = 1
      OBVIOUS
    <2>2. cursor' = cursor + Len(lines) /\ UNCHANGED cycleStartCursor
      BY DEF ServeNext, Returned
    <2> HIDE DEF lines
    <2> QED
      BY <1>4, <2>1, <2>2, SMT DEF CountsKept
  <1>9. StageKept'
    BY <1>3, <1>4, <1>5, <1>6 DEF StageKept, LineCount
  <1> QED
    BY <1>1, <1>2, <1>3, <1>7, <1>8, <1>9 DEF PoolInvariant

\* NextBatch returns the lines that are left.
LEMMA ServeBatchKeeps ==
    ASSUME PoolInvariant, NEW c \in Callers, ServeBatch(c)
    PROVE  PoolInvariant'
  <1>1. Invariant' /\ options' = options
    BY UnchangedCursorKeeps DEF ServeBatch
  <1>2. SourceKept' /\ EndKept' /\ CarryKept'
    BY <1>1, UnchangedKeeps DEF ServeBatch
  <1>3. CallsKept' /\ pc' = "idle"
    BY ReturnKeeps DEF ServeBatch
  <1>4. /\ LineCount \in Nat \ {0}
        /\ lineCursor \in Nat /\ lineCursor < LineCount
        /\ cursor \in Nat /\ cycleStartCursor \in 0 .. cursor
    BY ServingKeeps DEF ServeBatch
  <1>5. /\ buffer' = << >> /\ offsets' = << >> /\ lineCursor' = 0 /\ nextLine' = 0
        /\ cr' = FALSE /\ lineStep' = lineStep
    BY DEF ServeBatch, GiveLines
  <1>6. LinesKept'
    <2>1. << >> \in Seq(Byte) /\ << >> \in Seq(Nat)
      OBVIOUS
    <2> QED
      BY <1>5, <2>1 DEF PoolInvariant, LinesKept
  <1>7. CountsKept'
    <2> DEFINE left     == LineCount - lineCursor
               lines(n) == [k \in 1 .. n |-> BatchLineAt((nextLine + (k - 1) * lineStep) % LineCount)]
    <2>1. left \in Nat
      BY <1>4, SMT
    <2>2. \A n \in Nat : Len(lines(n)) = n
      OBVIOUS
    <2>3. cursor' = cursor + Len(lines(left)) /\ UNCHANGED cycleStartCursor
      BY DEF ServeBatch, Returned
    <2> HIDE DEF left, lines
    <2> QED
      BY <1>4, <2>1, <2>2, <2>3, SMT DEF CountsKept
  <1>8. StageKept'
    <2>1. lineCursor' = 0 /\ Len(offsets') = 0
      BY <1>5
    <2> QED
      BY <1>3, <2>1, SMT DEF StageKept, LineCount
  <1> QED
    BY <1>1, <1>2, <1>3, <1>6, <1>7, <1>8 DEF PoolInvariant

-----------------------------------------------------------------------------
(* The theorems. *)

\* Every step of the pool keeps the invariant, and is a step of the walk or
\* leaves the walk alone.
LEMMA EveryStepKeeps ==
    ASSUME PoolInvariant, [Next]_poolVars
    PROVE  PoolInvariant' /\ [CursorNext]_cursorVars
  <1>1. ASSUME NEW c \in Callers, NEW operation \in Operations, Call(c, operation)
        PROVE  PoolInvariant' /\ [CursorNext]_cursorVars
    BY <1>1, CallKeeps DEF Call
  <1>2. ASSUME NEW c \in Callers, Enter(c)
        PROVE  PoolInvariant' /\ [CursorNext]_cursorVars
    <2>1. CASE EnterNext(c)
      BY <2>1, EnterNextKeeps DEF EnterNext
    <2>2. CASE Reset(c)
      BY <2>2, ResetKeeps DEF Reset, CursorNext, Rewind
    <2>3. CASE ResetFails(c)
      BY <2>3, ResetFailsKeeps DEF ResetFails
    <2>4. CASE Close(c)
      BY <2>4, CloseKeeps DEF Close
    <2> QED
      BY <1>2, <2>1, <2>2, <2>3, <2>4 DEF Enter
  <1>3. ASSUME NEW c \in Callers, Walk(c)
        PROVE  PoolInvariant' /\ [CursorNext]_cursorVars
    <2>1. CASE WalkTake(c)
      BY <2>1, WalkTakeKeeps DEF WalkTake, CursorNext
    <2>2. CASE WalkSkip(c)
      BY <2>2, WalkSkipKeeps DEF WalkSkip, CursorNext
    <2>3. CASE WalkEnterRegion(c)
      BY <2>3, WalkEnterRegionKeeps DEF WalkEnterRegion, CursorNext
    <2>4. CASE WalkCheckFails(c)
      BY <2>4, WalkCheckFailsKeeps DEF WalkCheckFails
    <2>5. CASE WalkEnds(c)
      BY <2>5, WalkEndsKeeps DEF WalkEnds
    <2>6. CASE WalkNextCycle(c)
      BY <2>6, WalkNextCycleKeeps DEF WalkNextCycle, NextCycle, CursorNext
    <2> QED
      BY <1>3, <2>1, <2>2, <2>3, <2>4, <2>5, <2>6 DEF Walk
  <1>4. ASSUME NEW c \in Callers, Load(c)
        PROVE  PoolInvariant' /\ [CursorNext]_cursorVars
    <2>1. CASE ReadFails(c)
      BY <2>1, ReadFailsKeeps DEF ReadFails
    <2>2. CASE ShortReadEnds(c)
      BY <2>2, ShortReadEndsKeeps DEF ShortReadEnds
    <2>3. CASE ReadNoLine(c)
      BY <2>3, ReadNoLineKeeps DEF ReadNoLine
    <2>4. CASE ReadTooLong(c)
      BY <2>4, ReadTooLongKeeps
    <2>5. CASE ReadWholeLines(c)
      BY <2>5, ReadWholeLinesKeeps
    <2>6. CASE ReadLastLine(c)
      BY <2>6, ReadLastLineKeeps
    <2>7. CASE ReadOpenLine(c)
      BY <2>7, ReadOpenLineKeeps
    <2>8. CASE ExtendTooLong(c)
      BY <2>8, ExtendTooLongKeeps
    <2>9. CASE ExtendToEnd(c)
      BY <2>9, ExtendToEndKeeps
    <2>10. CASE ExtendRead(c)
      BY <2>10, ExtendReadKeeps
    <2>11. CASE ExtendFails(c)
      BY <2>11, ExtendFailsKeeps DEF ExtendFails
    <2> QED
      BY <1>4, <2>1, <2>2, <2>3, <2>4, <2>5, <2>6, <2>7, <2>8, <2>9, <2>10, <2>11 DEF Load
  <1>5. ASSUME NEW c \in Callers, Serve(c)
        PROVE  PoolInvariant' /\ [CursorNext]_cursorVars
    <2>1. CASE ServeNext(c)
      BY <2>1, ServeNextKeeps DEF ServeNext
    <2>2. CASE ServeBatch(c)
      BY <2>2, ServeBatchKeeps DEF ServeBatch
    <2> QED
      BY <1>5, <2>1, <2>2 DEF Serve
  <1>6. CASE ChangeSource
    BY <1>6, ChangeSourceKeeps DEF ChangeSource
  <1>7. CASE UNCHANGED poolVars
    <2>1. /\ UNCHANGED cursorVars
          /\ UNCHANGED <<fileVars, faults, closed, terminal, lineVars, carryVars, countVars, callVars>>
      BY <1>7 DEF poolVars
    <2>2. Invariant' /\ options' = options /\ block' = block
      BY <2>1, UnchangedCursorKeeps
    <2>3. SourceKept' /\ EndKept' /\ LinesKept' /\ CarryKept' /\ CountsKept' /\ CallsKept'
      BY <2>1, <2>2, UnchangedKeeps
    <2>4. StageKept'
      BY <2>1, <2>2 DEF PoolInvariant, StageKept, lineVars, LineCount, ReadRange, carryVars, callVars
    <2> QED
      BY <2>1, <2>2, <2>3, <2>4 DEF PoolInvariant
  <1> QED
    BY <1>1, <1>2, <1>3, <1>4, <1>5, <1>6, <1>7 DEF Next, Proceed

\* Every field of Pool keeps its type, whatever is called, changed or fails.
THEOREM PoolKeepsItsType == Spec => []TypeOK
  <1>1. PoolInvariant /\ [Next]_poolVars => PoolInvariant'
    BY EveryStepKeeps
  <1> QED
    BY <1>1, InitPoolInvariant, InvariantGivesType, PTL DEF Spec

\* The pool's walk is the walk of BlockCursor: reading, failing, extending a
\* line, resetting and closing never disturb it.
THEOREM PoolImplementsCursor == Spec => WalkIsBlockCursor
  <1>1. Init => CursorInit
    BY DEF Init
  <1>2. PoolInvariant /\ [Next]_poolVars => PoolInvariant' /\ [CursorNext]_cursorVars
    BY EveryStepKeeps
  <1> QED
    BY <1>1, <1>2, InitPoolInvariant, PTL DEF Spec, WalkIsBlockCursor, CursorSpec

\* So a pool reads no block twice in a cycle, and its shard is exhausted only
\* when every block of it, and no other, was passed.
THEOREM PoolReadsNoBlockTwice == Spec => [](NextBlockIsNew /\ ExhaustedMeansAllPassed)
  <1>1. Spec => CursorSpec
    BY PoolImplementsCursor DEF WalkIsBlockCursor
  <1> QED
    BY <1>1, NoBlockTwice, ExhaustedIsComplete, PTL

-----------------------------------------------------------------------------
(* Errors and Close.                                                       *)

\* The inductive invariant: no call is in progress in a pool that is closed or
\* failed, and a closed pool holds neither an error nor lines.
OverIsIdle ==
    /\ closed \/ terminal # NoError => holder = NoCaller
    /\ closed => terminal = NoError /\ offsets = <<>>

-----------------------------------------------------------------------------
\* Steps of the walk: the mutex is held, and an error gives it back.
LEMMA WalkGivesBack ==
    ASSUME NEW c \in Callers, Walk(c)
    PROVE  holder = c /\ closed' = closed /\ (terminal' = terminal \/ holder' = NoCaller)
  <1>1. CASE WalkTake(c)
    BY <1>1 DEF WalkTake
  <1>2. CASE WalkSkip(c)
    BY <1>2 DEF WalkSkip
  <1>3. CASE WalkEnterRegion(c)
    BY <1>3 DEF WalkEnterRegion
  <1>4. CASE WalkCheckFails(c)
    BY <1>4 DEF WalkCheckFails, Fail, Return
  <1>5. CASE WalkEnds(c)
    BY <1>5 DEF WalkEnds, Fail, Return
  <1>6. CASE WalkNextCycle(c)
    BY <1>6 DEF WalkNextCycle
  <1> QED
    BY <1>1, <1>2, <1>3, <1>4, <1>5, <1>6 DEF Walk

\* Ending a call with "line too long" gives the mutex back; a block that is
\* ready leaves the error alone.
LEMMA LineOutcomes ==
    ASSUME NEW c, NEW bytes, NEW ends, NEW hint
    PROVE  /\ LineTooLong(c, bytes, ends) => holder' = NoCaller
           /\ LinesReady(bytes, ends, hint) => terminal' = terminal
           /\ LineContinues(bytes, ends, hint) => terminal' = terminal
           /\ LineFeedFound(c, bytes, ends, hint) => terminal' = terminal \/ holder' = NoCaller
  <1>1. LineTooLong(c, bytes, ends) => holder' = NoCaller
    BY DEF LineTooLong, Fail, Return
  <1>2. \A b, e, h : LinesReady(b, e, h) => terminal' = terminal
    BY DEF LinesReady
  <1>3. \A h : LineContinues(bytes, ends, h) => terminal' = terminal
    BY <1>2 DEF LineContinues
  <1> QED
    BY <1>1, <1>2, <1>3 DEF LineFeedFound

\* Steps of reading: the same.
LEMMA LoadGivesBack ==
    ASSUME NEW c \in Callers, Load(c)
    PROVE  holder = c /\ closed' = closed /\ (terminal' = terminal \/ holder' = NoCaller)
  <1>1. CASE ReadFails(c)
    BY <1>1 DEF ReadFails
  <1>2. CASE ShortReadEnds(c)
    BY <1>2 DEF ShortReadEnds, Fail, Return
  <1>3. CASE ReadNoLine(c)
    BY <1>3 DEF ReadNoLine, ReadsBlock
  <1>4. CASE ReadTooLong(c)
    BY <1>4, LineOutcomes DEF ReadTooLong, ReadsBlock
  <1>5. CASE ReadWholeLines(c)
    BY <1>5, LineOutcomes DEF ReadWholeLines, IndexesBlock, ReadsBlock
  <1>6. CASE ReadLastLine(c)
    BY <1>6, LineOutcomes DEF ReadLastLine, IndexesBlock, ReadsBlock
  <1>7. CASE ReadOpenLine(c)
    BY <1>7, LineOutcomes DEF ReadOpenLine, IndexesBlock, ReadsBlock
  <1>8. CASE ExtendTooLong(c)
    BY <1>8, LineOutcomes DEF ExtendTooLong, Extending
  <1>9. CASE ExtendToEnd(c)
    BY <1>9, LineOutcomes DEF ExtendToEnd, Extending
  <1>10. CASE ExtendRead(c)
    BY <1>10, LineOutcomes DEF ExtendRead, Extending
  <1>11. CASE ExtendFails(c)
    BY <1>11 DEF ExtendFails, Extending, Fail, Return
  <1> QED
    BY <1>1, <1>2, <1>3, <1>4, <1>5, <1>6, <1>7, <1>8, <1>9, <1>10, <1>11 DEF Load

\* Every step of a call in progress: the same.
LEMMA ProceedGivesBack ==
    ASSUME NEW c \in Callers, Proceed(c)
    PROVE  holder = c /\ closed' = closed /\ (terminal' = terminal \/ holder' = NoCaller)
  <1>1. CASE Serve(c)
    BY <1>1 DEF Serve, ServeNext, ServeBatch
  <1> QED
    BY <1>1, WalkGivesBack, LoadGivesBack DEF Proceed

\* When the pool is over, no call is in progress.
LEMMA OverNeverProceeds ==
    ASSUME OverIsIdle, closed \/ terminal # NoError, NEW c \in Callers
    PROVE  ~ Proceed(c)
  BY ProceedGivesBack, PoolAssumption DEF OverIsIdle

-----------------------------------------------------------------------------
\* A pool just opened is not over.
LEMMA InitOverIsIdle == Init => OverIsIdle
  BY DEF Init, OverIsIdle

\* Every step keeps the invariant.
LEMMA NextOverIsIdle == OverIsIdle /\ [Next]_poolVars => OverIsIdle'
  <1> SUFFICES ASSUME OverIsIdle, [Next]_poolVars
               PROVE  OverIsIdle'
    OBVIOUS
  <1>1. ASSUME NEW c \in Callers, NEW operation \in Operations, Call(c, operation)
        PROVE  OverIsIdle'
    BY <1>1 DEF OverIsIdle, Call, lineVars
  <1>2. ASSUME NEW c \in Callers, EnterNext(c)
        PROVE  OverIsIdle'
    BY <1>2 DEF OverIsIdle, EnterNext, Over, Acquires, Return, lineVars
  <1>3. ASSUME NEW c \in Callers, Reset(c)
        PROVE  OverIsIdle'
    BY <1>3 DEF OverIsIdle, Reset, Return, fileVars
  <1>4. ASSUME NEW c \in Callers, ResetFails(c)
        PROVE  OverIsIdle'
    BY <1>4 DEF OverIsIdle, ResetFails, Return, lineVars
  <1>5. ASSUME NEW c \in Callers, Close(c)
        PROVE  OverIsIdle'
    BY <1>5 DEF OverIsIdle, Close, Return
  <1>6. ASSUME NEW c \in Callers, Proceed(c)
        PROVE  OverIsIdle'
    <2>1. ~ closed /\ terminal = NoError
      BY <1>6, OverNeverProceeds
    <2> QED
      BY <1>6, <2>1, ProceedGivesBack DEF OverIsIdle
  <1>7. CASE ChangeSource
    BY <1>7 DEF OverIsIdle, ChangeSource, lineVars, callVars
  <1>8. CASE UNCHANGED poolVars
    BY <1>8 DEF OverIsIdle, poolVars, lineVars, callVars
  <1> QED
    BY <1>1, <1>2, <1>3, <1>4, <1>5, <1>6, <1>7, <1>8 DEF Next, Enter

-----------------------------------------------------------------------------
\* What a step may do to a pool whose iteration failed.
LEMMA FailedStep ==
    ASSUME OverIsIdle, [Next]_poolVars, terminal # NoError
    PROVE  /\ history' \in {history, <<>>}
           /\ carriedBlock' = carriedBlock
           /\ terminal' = NoError => closed' \/ (cursor' = 0 /\ history' = <<>>)
  <1> DEFINE Goal ==
               /\ history' \in {history, <<>>}
               /\ carriedBlock' = carriedBlock
               /\ terminal' = NoError => closed' \/ (cursor' = 0 /\ history' = <<>>)
  <1>1. ASSUME NEW c \in Callers, NEW operation \in Operations, Call(c, operation)
        PROVE  Goal
    BY <1>1 DEF Call, countVars, carryVars
  <1>2. ASSUME NEW c \in Callers, EnterNext(c)
        PROVE  Goal
    BY <1>2 DEF EnterNext, countVars, carryVars
  <1>3. ASSUME NEW c \in Callers, Reset(c)
        PROVE  Goal
    BY <1>3 DEF Reset, carryVars
  <1>4. ASSUME NEW c \in Callers, ResetFails(c)
        PROVE  Goal
    BY <1>4 DEF ResetFails, Errors, NoError, countVars, carryVars
  <1>5. ASSUME NEW c \in Callers, Close(c)
        PROVE  Goal
    BY <1>5 DEF Close, countVars, carryVars
  <1>6. ASSUME NEW c \in Callers, Proceed(c)
        PROVE  Goal
    BY <1>6, OverNeverProceeds
  <1>7. CASE ChangeSource
    BY <1>7 DEF ChangeSource, countVars, carryVars
  <1>8. CASE UNCHANGED poolVars
    BY <1>8 DEF poolVars, countVars, carryVars
  <1> QED
    BY <1>1, <1>2, <1>3, <1>4, <1>5, <1>6, <1>7, <1>8 DEF Next, Enter

\* After an error nothing is returned and no block is read before a Reset, and
\* only Reset or Close replaces the error by none.
THEOREM ErrorsAreTerminal == Spec => ErrorIsTerminal
  <1>1. OverIsIdle /\ [Next]_poolVars =>
          [terminal # NoError =>
             /\ history' \in {history, <<>>}
             /\ carriedBlock' = carriedBlock
             /\ terminal' = NoError => closed' \/ (cursor' = 0 /\ history' = <<>>)]_poolVars
    BY FailedStep
  <1> QED
    BY <1>1, InitOverIsIdle, NextOverIsIdle, PTL DEF Spec, ErrorIsTerminal

\* What a step may do to a closed pool.
LEMMA ClosedStep ==
    ASSUME OverIsIdle, [Next]_poolVars, closed
    PROVE  /\ closed'
           /\ UNCHANGED <<history, terminal, regionCursor, regionBlockNext, offsets>>
  <1> DEFINE Goal ==
               /\ closed'
               /\ UNCHANGED <<history, terminal, regionCursor, regionBlockNext, offsets>>
  <1>1. ASSUME NEW c \in Callers, NEW operation \in Operations, Call(c, operation)
        PROVE  Goal
    BY <1>1 DEF Call, countVars, lineVars, cursorVars, regionVars
  <1>2. ASSUME NEW c \in Callers, EnterNext(c)
        PROVE  Goal
    BY <1>2 DEF EnterNext, countVars, lineVars, cursorVars, regionVars
  <1>3. ASSUME NEW c \in Callers, Reset(c)
        PROVE  Goal
    BY <1>3 DEF Reset
  <1>4. ASSUME NEW c \in Callers, ResetFails(c)
        PROVE  Goal
    BY <1>4 DEF ResetFails, countVars, lineVars, cursorVars, regionVars
  <1>5. ASSUME NEW c \in Callers, Close(c)
        PROVE  Goal
    BY <1>5 DEF Close, OverIsIdle, countVars, cursorVars, regionVars
  <1>6. ASSUME NEW c \in Callers, Proceed(c)
        PROVE  Goal
    BY <1>6, OverNeverProceeds
  <1>7. CASE ChangeSource
    BY <1>7 DEF ChangeSource, countVars, lineVars, cursorVars, regionVars
  <1>8. CASE UNCHANGED poolVars
    BY <1>8 DEF poolVars, countVars, lineVars, cursorVars, regionVars
  <1> QED
    BY <1>1, <1>2, <1>3, <1>4, <1>5, <1>6, <1>7, <1>8 DEF Next, Enter

\* After Close nothing is returned, read or revived.
THEOREM ClosedIsForGood == Spec => ClosedForGood
  <1>1. OverIsIdle /\ [Next]_poolVars =>
          [closed => /\ closed'
                     /\ UNCHANGED <<history, terminal, regionCursor, regionBlockNext, offsets>>]_poolVars
    BY ClosedStep
  <1> QED
    BY <1>1, InitOverIsIdle, NextOverIsIdle, PTL DEF Spec, ClosedForGood

-----------------------------------------------------------------------------
(* The inductive invariant: what the pool holds of the block at hand.      *)

\* Where the bytes end that the block owns, counted from the byte before it.
OwnedEnd == 1 + Lesser(options.blockBytes, options.fileSize - block * options.blockBytes)

\* The block at hand has lines that were not returned.
LinesLeft == pc \in {"idle", "serve"} /\ terminal = NoError /\ lineCursor < LineCount

\* No text of these lines is longer than the limit.
TextsFit(bytes, ends) ==
    \A i \in 1 .. Len(ends) - 1 : TextEnd(bytes, ends[i + 1]) - ends[i] <= options.maxLineBytes

\* These offsets cut the buffer into lines that are not too long.
LinesCut(bytes, ends, hint) ==
    /\ CutsLines(bytes, ends)
    /\ HintCovers(bytes, ends, hint)
    /\ TextsFit(bytes, ends)

\* The line that is extended begins in the block and has no end yet.
LineOpen ==
    /\ LinesCut(buffer, offsets, cr)
    /\ Last(offsets) < OwnedEnd
    /\ Feedless(buffer, Last(offsets), Len(buffer))
    /\ BufferEnd <= options.fileSize

\* Every line handed out begins in the block; the last one ends there, or behind
\* it, or with the file and a terminator.
LinesWhole ==
    /\ block # NoBlock
    /\ LinesCut(buffer, offsets, cr)
    /\ offsets[LineCount] < OwnedEnd
    /\ OwnedEnd <= offsets[LineCount + 1]
    /\ Terminated(buffer, source, ReadOffset, offsets[LineCount + 1])

LinesFormed ==
    /\ Len(source) = options.fileSize
    /\ pc \in {"walk", "read"} => lineCursor >= LineCount
    /\ pc = "extend" => LineOpen
    /\ LinesLeft => LinesWhole

\* The file still holds the bytes it was opened with, as far as both reach.
SameBytes == \A k \in 1 .. Len(disk.bytes) : k <= Len(source) => disk.bytes[k] = source[k]

\* No line begins in a block that will be skipped.
ContinuationIsTrue ==
    \A start \in LineStarts(source) : ~ InContinuation(start \div options.blockBytes)

\* The byte carried over is the one in front of the next block.
CarryIsTrue ==
    carriedBlock > 0 =>
        carried = At(source, Lesser(carriedBlock * options.blockBytes, Len(source)) - 1)

\* What was read is what the file held when it was opened.
BufferIsTrue == (pc = "extend" \/ LinesLeft) => HoldsFile(buffer, source, ReadOffset)

FileIsTrue ==
    disk.intact => SameBytes /\ ContinuationIsTrue /\ CarryIsTrue /\ BufferIsTrue

\* What this module's invariant relies on.
LinesInvariant == PoolInvariant /\ LinesFormed /\ FileIsTrue

\* No line begins before block 0.
LEMMA NoStartBelowZero ==
    ASSUME options \in ValidOptions
    PROVE  \A start \in LineStarts(source) :
              ~ (0 <= start \div options.blockBytes /\ start \div options.blockBytes < 0)
  <1> SUFFICES ASSUME NEW start \in LineStarts(source)
               PROVE  ~ (0 <= start \div options.blockBytes /\ start \div options.blockBytes < 0)
    OBVIOUS
  <1>1. start \in Int
    BY SMT DEF LineStarts
  <1>2. options.blockBytes \in Nat \ {0}
    BY OpenedSizes
  <1>3. start \div options.blockBytes \in Int
    BY <1>1, <1>2, DivisionFacts
  <1> QED
    BY <1>3, SMT

\* A pool just opened.
LEMMA InitLines == Init => LinesFormed /\ FileIsTrue
  <1> SUFFICES ASSUME Init
               PROVE  LinesFormed /\ FileIsTrue
    OBVIOUS
  <1>1. LineCount = -1 /\ lineCursor = 0 /\ pc = "idle"
    BY SMT DEF Init, LineCount
  <1>2. ~ LinesLeft
    BY <1>1, SMT DEF LinesLeft
  <1>3. LinesFormed
    BY <1>1, <1>2 DEF LinesFormed, Init
  <1>4. SameBytes /\ CarryIsTrue
    BY SMT DEF Init, SameBytes, CarryIsTrue
  <1>5. ContinuationIsTrue
    <2>1. continuationStart = 0 /\ continuationEnd = 0
      BY DEF Init, CursorInit
    <2> QED
      BY <2>1, InitPoolInvariant, BlockAtHand, NoStartBelowZero
         DEF ContinuationIsTrue, InContinuation
  <1> QED
    BY <1>1, <1>2, <1>3, <1>4, <1>5 DEF FileIsTrue, BufferIsTrue

-----------------------------------------------------------------------------
(* Steps that find no lines. *)

\* Numbers the invariant gives for the block at hand.
LEMMA OwnedBytes ==
    ASSUME PoolInvariant, block # NoBlock
    PROVE  /\ ReadRange.ownershipEnd = OwnedEnd
           /\ options.blockBytes \in Nat \ {0}
           /\ options.fileSize \in Nat
           /\ options.maxLineBytes \in Nat \ {0}
           /\ block \in Nat
           /\ ReadOffset \in Int /\ -1 <= ReadOffset
           /\ ReadOffset = block * options.blockBytes - 1
           /\ OwnedEnd \in Nat \ {0, 1}
           /\ ReadOffset + OwnedEnd = Lesser((block + 1) * options.blockBytes, options.fileSize)
           /\ block * options.blockBytes < options.fileSize
  <1>1. options \in ValidOptions /\ block \in 0 .. BlockCount(options) - 1
    BY BlockAtHand
  <1>2. /\ options.blockBytes \in Nat \ {0}
        /\ options.fileSize \in Nat
        /\ options.maxLineBytes \in Nat \ {0}
        /\ block \in Nat
        /\ block * options.blockBytes < options.fileSize
    BY <1>1, OpenedSizes, SMT
  <1>3. ReadRange.ownershipEnd = OwnedEnd
    BY DEF ReadRange, BlockReadRange, OwnedEnd
  <1>4. ReadOffset = block * options.blockBytes - 1
    BY DEF ReadOffset
  <1>5. OwnedEnd \in Nat \ {0, 1}
    BY <1>1, <1>3, ReadRangeFacts
  <1> DEFINE start == block * options.blockBytes
  <1>6. start \in Nat
    BY <1>2, SMT
  <1>7. (block + 1) * options.blockBytes = start + options.blockBytes
    BY <1>2, SMTT(30)
  <1> HIDE DEF start
  <1>8. OwnedEnd = 1 + Lesser(options.blockBytes, options.fileSize - start)
    BY DEF OwnedEnd, start
  <1>9. (start - 1) + OwnedEnd = Lesser(start + options.blockBytes, options.fileSize)
    BY <1>2, <1>6, <1>8, SMT DEF Lesser
  <1>10. start - 1 \in Int /\ -1 <= start - 1
    BY <1>6, SMT
  <1> QED
    BY <1>2, <1>3, <1>4, <1>5, <1>7, <1>9, <1>10 DEF start

\* A step that leaves nothing at hand.
LEMMA NothingAtHand ==
    ASSUME LinesFormed, FileIsTrue, UNCHANGED <<options, source, disk>>,
           pc' # "extend", ~ LinesLeft', pc' \in {"walk", "read"} => (lineCursor >= LineCount)',
           disk.intact => ContinuationIsTrue' /\ CarryIsTrue'
    PROVE  LinesFormed' /\ FileIsTrue'
  <1>1. LinesFormed'
    BY DEF LinesFormed
  <1>2. SameBytes' <=> SameBytes
    BY DEF SameBytes
  <1> QED
    BY <1>1, <1>2 DEF FileIsTrue, BufferIsTrue

\* What is carried from one block to the next stays true when it is left alone.
LEMMA CarriedStays ==
    ASSUME PoolInvariant, FileIsTrue, UNCHANGED <<options, source>>, disk.intact
    PROVE  /\ UNCHANGED continuationVars => ContinuationIsTrue'
           /\ UNCHANGED carryVars => CarryIsTrue'
           /\ (continuationStart' = 0 /\ continuationEnd' = 0) => ContinuationIsTrue'
  <1>1. ContinuationIsTrue /\ CarryIsTrue
    BY DEF FileIsTrue
  <1>2. ASSUME UNCHANGED continuationVars
        PROVE  ContinuationIsTrue'
    BY <1>1, <1>2 DEF ContinuationIsTrue, InContinuation, continuationVars
  <1>3. ASSUME UNCHANGED carryVars
        PROVE  CarryIsTrue'
    BY <1>1, <1>3 DEF CarryIsTrue, carryVars
  <1>4. ASSUME continuationStart' = 0, continuationEnd' = 0
        PROVE  ContinuationIsTrue'
    <2> QED
      BY <1>4, BlockAtHand, NoStartBelowZero DEF ContinuationIsTrue, InContinuation
  <1> QED
    BY <1>2, <1>3, <1>4

\* A step that leaves the block at hand alone.
LEMMA BlockStays ==
    ASSUME LinesInvariant,
           UNCHANGED <<options, fileVars, buffer, offsets, cr, block, continuationVars, carryVars>>,
           pc' = "extend" => pc = "extend",
           LinesLeft' => LinesLeft,
           pc' \in {"walk", "read"} => (lineCursor >= LineCount)'
    PROVE  LinesFormed' /\ FileIsTrue'
  <1>0. PoolInvariant /\ LinesFormed /\ FileIsTrue
    BY DEF LinesInvariant
  <1>1. LineCount' = LineCount /\ ReadOffset' = ReadOffset /\ OwnedEnd' = OwnedEnd
    BY DEF LineCount, ReadOffset, OwnedEnd
  <1>2. LineOpen' <=> LineOpen
    BY <1>1 DEF LineOpen, LinesCut, TextsFit, BufferEnd, fileVars
  <1>3. LinesWhole' <=> LinesWhole
    BY <1>1 DEF LinesWhole, LinesCut, TextsFit, fileVars
  <1>4. LinesFormed'
    BY <1>0, <1>1, <1>2, <1>3 DEF LinesFormed, fileVars
  <1>5. (SameBytes' <=> SameBytes) /\ disk' = disk
    BY DEF SameBytes, fileVars
  <1>6. disk.intact => ContinuationIsTrue' /\ CarryIsTrue'
    BY <1>0, CarriedStays DEF fileVars
  <1>7. BufferIsTrue => BufferIsTrue'
    BY <1>1 DEF BufferIsTrue, fileVars
  <1> QED
    BY <1>0, <1>4, <1>5, <1>6, <1>7 DEF FileIsTrue

\* Errors are not "no error".
LEMMA ErrorsAreErrors == NoError \notin Errors
  BY DEF NoError, Errors

\* Calls, and steps of the walk that take no block and end no cycle.
LEMMA WalkLeavesLines ==
    ASSUME LinesInvariant, NEW c \in Callers,
           \/ \E operation \in Operations : Call(c, operation)
           \/ EnterNext(c) \/ WalkSkip(c) \/ WalkEnterRegion(c)
           \/ WalkCheckFails(c) \/ WalkEnds(c)
    PROVE  LinesFormed' /\ FileIsTrue'
  <1>1. PoolInvariant /\ LinesFormed /\ FileIsTrue
    BY DEF LinesInvariant
  <1>2. ASSUME NEW operation \in Operations, Call(c, operation)
        PROVE  LinesFormed' /\ FileIsTrue'
    <2>1. UNCHANGED <<options, fileVars, lineVars, block, continuationVars, carryVars, pc, terminal>>
      BY <1>2 DEF Call, cursorVars, callVars
    <2>2. /\ LinesLeft' => LinesLeft
          /\ pc' \in {"walk", "read"} => (lineCursor >= LineCount)'
      BY <1>1, <2>1 DEF LinesLeft, LineCount, LinesFormed, lineVars
    <2> QED
      BY <2>1, <2>2, BlockStays DEF lineVars
  <1>3. CASE EnterNext(c)
    <2>1. UNCHANGED <<options, fileVars, lineVars, block, continuationVars, carryVars, terminal>>
      BY <1>3 DEF EnterNext, cursorVars
    <2>2. holder = NoCaller /\ pc = "idle"
      BY <1>1, <1>3 DEF EnterNext, Acquires, PoolInvariant, StageKept
    <2>3. \/ pc' = "idle"
          \/ pc' = "walk" /\ lineCursor >= LineCount
          \/ pc' = "serve"
      BY <1>3 DEF EnterNext, Return
    <2>4. /\ LinesLeft' => LinesLeft
          /\ pc' \in {"walk", "read"} => (lineCursor >= LineCount)'
      BY <2>1, <2>2, <2>3 DEF LinesLeft, LineCount, lineVars
    <2> QED
      BY <2>1, <2>3, <2>4, BlockStays DEF lineVars
  <1>4. CASE WalkSkip(c) \/ WalkEnterRegion(c)
    <2>1. /\ UNCHANGED <<options, fileVars, lineVars, block, continuationVars, carryVars, terminal, pc>>
          /\ pc = "walk"
      <3>1. CASE WalkSkip(c)
        BY <3>1 DEF WalkSkip, SkipBlock, callVars
      <3>2. CASE WalkEnterRegion(c)
        BY <3>2 DEF WalkEnterRegion, EnterRegion, callVars
      <3> QED
        BY <1>4, <3>1, <3>2
    <2>2. /\ ~ LinesLeft'
          /\ pc' \in {"walk", "read"} => (lineCursor >= LineCount)'
      BY <1>1, <2>1 DEF LinesLeft, LineCount, LinesFormed, lineVars
    <2> QED
      BY <2>1, <2>2, BlockStays DEF lineVars
  <1>5. CASE WalkCheckFails(c) \/ WalkEnds(c)
    <2>1. /\ UNCHANGED <<options, fileVars, lineVars, block, continuationVars, carryVars>>
          /\ pc' = "idle"
          /\ terminal' \in Errors
      <3>1. CASE WalkCheckFails(c)
        BY <3>1 DEF WalkCheckFails, Fail, Return, cursorVars
      <3>2. CASE WalkEnds(c)
        BY <3>2 DEF WalkEnds, Fail, Return, cursorVars, Errors
      <3> QED
        BY <1>5, <3>1, <3>2
    <2>2. ~ LinesLeft'
      BY <2>1, ErrorsAreErrors DEF LinesLeft
    <2> QED
      BY <2>1, <2>2, BlockStays DEF lineVars
  <1> QED
    BY <1>2, <1>3, <1>4, <1>5

\* A block is taken, a cycle or a pass starts over, the pool is closed.
LEMMA StartingLeavesNoLines ==
    ASSUME LinesInvariant, NEW c \in Callers,
           WalkTake(c) \/ WalkNextCycle(c) \/ Reset(c) \/ Close(c)
    PROVE  LinesFormed' /\ FileIsTrue'
  <1>1. PoolInvariant /\ LinesFormed /\ FileIsTrue
    BY DEF LinesInvariant
  <1>2. lineCursor \in Nat
    BY <1>1 DEF PoolInvariant, LinesKept
  <1>3. CASE WalkTake(c)
    <2>1. /\ UNCHANGED <<options, source, disk, lineVars, continuationVars, carryVars>>
          /\ pc = "walk" /\ pc' = "read"
      BY <1>3 DEF WalkTake, TakeBlock, Goto, fileVars
    <2>2. ~ LinesLeft' /\ (lineCursor >= LineCount)'
      BY <1>1, <2>1 DEF LinesLeft, LineCount, LinesFormed, lineVars
    <2> QED
      BY <1>1, <2>1, <2>2, CarriedStays, NothingAtHand
  <1>4. CASE WalkNextCycle(c) \/ Reset(c)
    <2>1. /\ UNCHANGED <<options, source, disk, carryVars>>
          /\ continuationStart' = 0 /\ continuationEnd' = 0
          /\ offsets' = <<>> /\ lineCursor' = 0
          /\ pc' # "extend"
      <3>1. CASE WalkNextCycle(c)
        <4>1. pc' = "walk"
          BY <3>1 DEF WalkNextCycle, callVars
        <4> QED
          BY <3>1, <4>1 DEF WalkNextCycle, StartCycle, ForgetLines, fileVars
      <3>2. CASE Reset(c)
        BY <3>2 DEF Reset, StartCycle, ForgetLines, fileVars, Return
      <3> QED
        BY <1>4, <3>1, <3>2
    <2>2. LineCount' = -1
      <3>1. Len(offsets') = 0
        BY <2>1
      <3> QED
        BY <3>1, SMT DEF LineCount
    <2>3. ~ LinesLeft' /\ (lineCursor >= LineCount)'
      BY <2>1, <2>2, SMT DEF LinesLeft
    <2> QED
      BY <1>1, <2>1, <2>3, CarriedStays, NothingAtHand
  <1>5. CASE Close(c)
    <2>1. /\ UNCHANGED <<options, source, disk, carryVars, continuationVars, lineCursor>>
          /\ offsets' = <<>>
          /\ pc' = "idle"
      BY <1>5 DEF Close, fileVars, Return, cursorVars
    <2>2. LineCount' = -1
      <3>1. Len(offsets') = 0
        BY <2>1
      <3> QED
        BY <3>1, SMT DEF LineCount
    <2>3. ~ LinesLeft'
      BY <1>2, <2>1, <2>2, SMT DEF LinesLeft
    <2> QED
      BY <1>1, <2>1, <2>3, CarriedStays, NothingAtHand
  <1> QED
    BY <1>3, <1>4, <1>5

\* Reads that fail, and a Reset that does.
LEMMA FailingLeavesNoLines ==
    ASSUME LinesInvariant, NEW c \in Callers,
           ReadFails(c) \/ ShortReadEnds(c) \/ ExtendFails(c) \/ ResetFails(c)
    PROVE  LinesFormed' /\ FileIsTrue'
  <1>1. PoolInvariant /\ LinesFormed /\ FileIsTrue
    BY DEF LinesInvariant
  <1>2. CASE ReadFails(c)
    <2>1. /\ UNCHANGED <<options, source, disk, carryVars, continuationVars>>
          /\ pc' \in {"short", "failed"}
      BY <1>2 DEF ReadFails, fileVars, Goto, cursorVars
    <2>2. ~ LinesLeft'
      BY <2>1 DEF LinesLeft
    <2> QED
      BY <1>1, <2>1, <2>2, CarriedStays, NothingAtHand
  <1>3. CASE ShortReadEnds(c) \/ ExtendFails(c)
    <2>1. /\ UNCHANGED <<options, source, disk, carryVars, continuationVars>>
          /\ pc' = "idle"
          /\ terminal' \in Errors
      <3>1. CASE ShortReadEnds(c)
        <4>1. \A error \in ValidationErrors : error # NoError => error \in Errors
          BY DEF ValidationErrors, Errors
        <4> QED
          BY <3>1, <4>1 DEF ShortReadEnds, fileVars, Fail, Return, cursorVars, Errors
      <3>2. CASE ExtendFails(c)
        BY <3>2 DEF ExtendFails, Extending, fileVars, Fail, Return, cursorVars, Errors
      <3> QED
        BY <1>3, <3>1, <3>2
    <2>2. ~ LinesLeft'
      BY <2>1, ErrorsAreErrors DEF LinesLeft
    <2> QED
      BY <1>1, <2>1, <2>2, CarriedStays, NothingAtHand
  <1>4. CASE ResetFails(c)
    <2>1. /\ UNCHANGED <<options, fileVars, lineVars, block, continuationVars, carryVars>>
          /\ pc' = "idle"
          /\ terminal' = terminal \/ terminal' \in Errors
          /\ holder = NoCaller
      BY <1>4 DEF ResetFails, Return, cursorVars, Acquires
    <2>2. pc = "idle"
      BY <1>1, <2>1 DEF PoolInvariant, StageKept
    <2>3. LinesLeft' => LinesLeft
      BY <2>1, <2>2, ErrorsAreErrors DEF LinesLeft, LineCount, lineVars
    <2> QED
      BY <2>1, <2>3, BlockStays DEF lineVars
  <1> QED
    BY <1>2, <1>3, <1>4

\* Returning lines.
LEMMA ServingLeavesLines ==
    ASSUME LinesInvariant, NEW c \in Callers, ServeNext(c) \/ ServeBatch(c)
    PROVE  LinesFormed' /\ FileIsTrue'
  <1>1. PoolInvariant /\ LinesFormed /\ FileIsTrue
    BY DEF LinesInvariant
  <1>2. pc = "serve"
    BY DEF ServeNext, ServeBatch
  <1>3. LinesLeft
    BY <1>1, <1>2 DEF PoolInvariant, StageKept, LinesLeft
  <1>4. CASE ServeNext(c)
    <2>1. /\ UNCHANGED <<options, fileVars, buffer, offsets, cr, block, continuationVars, carryVars>>
          /\ pc' = "idle"
      BY <1>4 DEF ServeNext, Return, cursorVars
    <2> QED
      BY <1>3, <2>1, BlockStays
  <1>5. CASE ServeBatch(c)
    <2>1. /\ UNCHANGED <<options, source, disk, continuationVars, carryVars>>
          /\ pc' = "idle"
          /\ offsets' = <<>> /\ lineCursor' = 0
      BY <1>5 DEF ServeBatch, Return, cursorVars, fileVars, GiveLines
    <2>2. LineCount' = -1
      <3>1. Len(offsets') = 0
        BY <2>1
      <3> QED
        BY <3>1, SMT DEF LineCount
    <2>3. ~ LinesLeft'
      BY <2>1, <2>2, SMT DEF LinesLeft
    <2> QED
      BY <1>1, <2>1, <2>3, CarriedStays, NothingAtHand
  <1> QED
    BY <1>4, <1>5

\* Changes of the file that the pool is told are its own bytes leave it true.
LEMMA ChangeLeavesLines ==
    ASSUME LinesInvariant, ChangeSource, PoolInvariant'
    PROVE  LinesFormed' /\ FileIsTrue'
  <1>1. PoolInvariant /\ LinesFormed /\ FileIsTrue
    BY DEF LinesInvariant
  <1>2. UNCHANGED <<options, source, lineVars, block, continuationVars, carryVars, pc, terminal>>
    BY DEF ChangeSource, cursorVars, callVars
  <1>3. PICK bytes : ChangesTo(bytes)
    BY DEF ChangeSource
  <1>4. /\ disk'.bytes = bytes
        /\ disk'.intact <=> disk.intact /\ (IsPrefix(bytes, source) \/ IsPrefix(source, bytes))
    <2>1. PICK visible \in 0 .. 1 :
             disk' = [bytes   |-> bytes,
                      changes |-> disk.changes + 1,
                      visible |-> disk.visible + visible,
                      intact  |-> disk.intact /\ (IsPrefix(bytes, source) \/ IsPrefix(source, bytes))]
      BY <1>3 DEF ChangesTo
    <2> QED
      BY <2>1
  <1>5. LineCount' = LineCount /\ ReadOffset' = ReadOffset /\ OwnedEnd' = OwnedEnd
    BY <1>2 DEF LineCount, ReadOffset, OwnedEnd, lineVars
  <1>6. (LinesLeft' <=> LinesLeft) /\ (LineOpen' <=> LineOpen) /\ (LinesWhole' <=> LinesWhole)
    BY <1>2, <1>5 DEF LinesLeft, LineOpen, LinesWhole, LinesCut, TextsFit, BufferEnd, lineVars
  <1>7. LinesFormed'
    BY <1>1, <1>2, <1>5, <1>6 DEF LinesFormed, lineVars
  <1>8. disk'.intact => SameBytes'
    <2> SUFFICES ASSUME disk'.intact,
                        NEW k \in 1 .. Len(bytes), k <= Len(source)
                 PROVE  bytes[k] = source[k]
      BY <1>2, <1>4 DEF SameBytes
    <2>0. source \in Seq(Byte) /\ bytes \in Seq(Byte)
      BY <1>1, <1>4, PoolAssumption DEF PoolInvariant, SourceKept
    <2>1. CASE IsPrefix(bytes, source)
      BY <2>0, <2>1, PrefixAgrees
    <2>2. CASE IsPrefix(source, bytes)
      <3>1. k \in 1 .. Len(source)
        BY <2>0, SMT
      <3> QED
        BY <2>0, <2>2, <3>1, PrefixAgrees
    <2> QED
      BY <1>4, <2>1, <2>2
  <1>9. disk'.intact => ContinuationIsTrue' /\ CarryIsTrue'
    BY <1>1, <1>2, <1>4, CarriedStays
  <1>10. BufferIsTrue => BufferIsTrue'
    BY <1>2, <1>5, <1>6 DEF BufferIsTrue, lineVars
  <1> QED
    BY <1>1, <1>4, <1>7, <1>8, <1>9, <1>10 DEF FileIsTrue

-----------------------------------------------------------------------------
(* Reading a block. *)

\* A full read fills the buffer with the bytes of the file from the one in
\* front of the block on.
LEMMA ReadIsTrue ==
    ASSUME LinesInvariant, block # NoBlock, ReadIsFull
    PROVE  /\ Filled(ReadData) \in Seq(Byte)
           /\ OwnedEnd <= Len(Filled(ReadData))
           /\ Len(Filled(ReadData)) = ReadRange.readBytes
           /\ ReadOffset + Len(Filled(ReadData)) <= options.fileSize
           /\ disk.intact => HoldsFile(Filled(ReadData), source, ReadOffset)
  <1> DEFINE bytes == Filled(ReadData)
             from  == ReadRange.readOffset + ReadRange.skip
             need  == ReadRange.readBytes - ReadRange.skip
             end   == Lesser(from + need, Len(disk.bytes))
  <1> HIDE DEF Byte
  <1>1. PoolInvariant /\ LinesFormed /\ FileIsTrue
    BY DEF LinesInvariant
  <1>2. /\ options \in ValidOptions
        /\ block \in 0 .. BlockCount(options) - 1
        /\ disk.bytes \in Seq(Byte)
        /\ carried \in Byte
    BY <1>1, BlockAtHand
  <1>3. /\ bytes \in Seq(Byte)
        /\ Len(bytes) = ReadRange.readBytes
    BY <1>2, FullReadFillsBuffer
  <1>4. /\ ReadRange.readOffset = ReadOffset
        /\ ReadRange.skip \in {0, 1}
        /\ from \in Nat
        /\ ReadRange.readBytes \in Nat
        /\ ReadRange.ownershipEnd <= ReadRange.readBytes
        /\ ReadRange.ownershipEnd \in Nat \ {0, 1}
    BY <1>2, ReadRangeFacts
  <1>5. /\ ReadRange.ownershipEnd = OwnedEnd
        /\ options.blockBytes \in Nat \ {0}
        /\ options.fileSize \in Nat
        /\ block \in Nat
        /\ ReadOffset \in Int /\ -1 <= ReadOffset
        /\ ReadOffset = block * options.blockBytes - 1
        /\ block * options.blockBytes < options.fileSize
    BY <1>1, OwnedBytes
  <1>6. ReadOffset + ReadRange.readBytes <= options.fileSize
    <2> DEFINE start     == block * options.blockBytes
               base      == Lesser(options.blockBytes, options.fileSize - start)
               remaining == options.fileSize - start - base
               ahead     == Lesser(LookaheadBytes(options), remaining)
    <2>1. ReadRange.readBytes = 1 + base + ahead
      BY DEF ReadRange, BlockReadRange
    <2>2. start \in Nat /\ start < options.fileSize
      BY <1>5, SMT
    <2>3. LookaheadBytes(options) \in Int
      <3>1. options.blockBytes \div LookaheadDivisor \in Nat
        BY <1>5, ReadAssumption, SMT
      <3>2. TailReadBytes \in Nat /\ options.maxLineBytes + 2 \in Nat
        BY <1>2, OpenedSizes, ReadAssumption, SMT
      <3> QED
        BY <3>1, <3>2 DEF LookaheadBytes, Lesser
    <2> HIDE DEF start
    <2>4. base \in Int
      BY <1>5, <2>2 DEF Lesser
    <2> HIDE DEF base
    <2>5. remaining \in Int
      BY <1>5, <2>2, <2>4, SMT
    <2> HIDE DEF remaining
    <2>6. ahead \in Int /\ ahead <= remaining
      BY <2>3, <2>5, SMT DEF Lesser
    <2> HIDE DEF ahead
    <2>7. (start - 1) + (1 + base + ahead) <= options.fileSize
      BY <1>5, <2>2, <2>4, <2>5, <2>6, SMT DEF remaining
    <2> QED
      BY <1>5, <2>1, <2>7 DEF start
  <1>7. options.fileSize = Len(source) /\ source \in Seq(Byte)
    BY <1>1, PoolAssumption DEF LinesFormed, PoolInvariant, SourceKept
  <1>8. /\ Len(ReadData) = need
        /\ ReadData = Slice(disk.bytes, from, end)
        /\ need \in Nat /\ need >= 1
    BY <1>4, SMT DEF ReadIsFull, ReadData, ReadAt
  <1>9. /\ from + need <= Len(disk.bytes)
        /\ \A k \in 1 .. need : ReadData[k] = disk.bytes[from + k]
    <2>1. end \in Nat /\ end <= Len(disk.bytes) /\ end <= from + need
          /\ (end = from + need \/ end = Len(disk.bytes))
      <3>1. Len(disk.bytes) \in Nat
        BY <1>2
      <3> HIDE DEF from, need
      <3> QED
        BY <1>4, <1>8, <3>1, SMT DEF Lesser
    <2> HIDE DEF end
    <2>2. /\ Len(Slice(disk.bytes, from, end)) = IF from <= end THEN end - from ELSE 0
          /\ \A k \in 1 .. end - from : Slice(disk.bytes, from, end)[k] = disk.bytes[from + k]
      <3> DEFINE file == disk.bytes
      <3>1. file \in Seq(Byte) /\ end <= Len(file)
        BY <1>2, <2>1
      <3> HIDE DEF from, file
      <3>2. /\ Len(Slice(file, from, end)) = IF from <= end THEN end - from ELSE 0
            /\ \A k \in 1 .. end - from : Slice(file, from, end)[k] = file[from + k]
        BY <1>4, <2>1, <3>1, SliceOfBytes
      <3> QED
        BY <3>2 DEF file
    <2>3. end - from = need /\ end = from + need
      <3> HIDE DEF from, need
      <3> QED
        BY <1>4, <1>8, <2>1, <2>2, SMT
    <2> QED
      BY <1>8, <2>1, <2>2, <2>3
  <1>10. from + need = ReadOffset + ReadRange.readBytes
    BY <1>4, <1>5, SMT
  <1>12. from = ReadOffset + ReadRange.skip /\ ReadOffset \in Int
    BY <1>4, <1>5
  <1>11. disk.intact => HoldsFile(bytes, source, ReadOffset)
    <2> SUFFICES ASSUME disk.intact,
                        NEW k \in 0 .. Len(bytes) - 1, ReadOffset + k < Len(source)
                 PROVE  At(bytes, k) = IF ReadOffset + k < 0 THEN LF ELSE At(source, ReadOffset + k)
      BY DEF HoldsFile
    <2>1. SameBytes /\ CarryIsTrue
      BY <1>1 DEF FileIsTrue
    <2>2. \A j \in 1 .. need : ReadData[j] = source[from + j]
      <3> TAKE j \in 1 .. need
      <3>1. from + j \in 1 .. Len(disk.bytes) /\ from + j <= Len(source)
        <4>1. from + j <= from + need
          BY <1>4, <1>8, SMT
        <4>2. Len(disk.bytes) \in Nat /\ Len(source) \in Nat /\ from + need <= Len(source)
          BY <1>2, <1>6, <1>7, <1>10
        <4> HIDE DEF from, need
        <4> QED
          BY <1>4, <1>8, <1>9, <4>1, <4>2, SMT
      <3> QED
        BY <1>9, <2>1, <3>1 DEF SameBytes
    <2>3. CASE ReadRange.skip = 0
      <3>1. bytes = ReadData
        BY <2>3 DEF Filled
      <3>2. k + 1 \in 1 .. need /\ from + (k + 1) = (ReadOffset + k) + 1 /\ ~ (ReadOffset + k < 0)
        <4> HIDE DEF bytes, from
        <4> QED
          BY <1>3, <1>4, <1>12, <2>3, SMT
      <3>3. ReadData[k + 1] = source[(ReadOffset + k) + 1]
        BY <2>2, <3>2
      <3> QED
        BY <3>1, <3>2, <3>3 DEF At
    <2>4. CASE ReadRange.skip = 1
      <3> DEFINE front == IF block = 0 THEN LF ELSE carried
      <3>1. bytes = <<front>> \o ReadData
        BY <2>4 DEF Filled
      <3>2. ReadData \in Seq(Byte) /\ front \in Byte
        <4>1. Slice(disk.bytes, from, end) \in Seq(Byte)
          <5>1. end \in Nat /\ end <= Len(disk.bytes)
            <6>1. Len(disk.bytes) \in Nat
              BY <1>2
            <6> HIDE DEF from, need
            <6> QED
              BY <1>4, <1>8, <6>1, SMT DEF Lesser
          <5> HIDE DEF from, end
          <5> QED
            BY <1>2, <1>4, <5>1, SliceOfBytes
        <4> QED
          BY <1>2, <1>8, <4>1 DEF Byte
      <3> HIDE DEF front
      <3>3. (<<front>> \o ReadData)[1] = front /\ \A j \in 1 .. Len(ReadData) : (<<front>> \o ReadData)[j + 1] = ReadData[j]
        BY <3>2, SMT
      <3>4. CASE k = 0
        <4>1. At(bytes, k) = front
          BY <3>1, <3>3, <3>4 DEF At
        <4>2. CASE block = 0
          <5>1. ReadOffset + k < 0
            BY <1>5, <3>4, <4>2, SMT
          <5> QED
            BY <4>1, <4>2, <5>1 DEF front
        <4>3. CASE block # 0
          <5>1. block = carriedBlock
            BY <2>4, <4>3 DEF ReadRange, BlockReadRange
          <5>2. carriedBlock > 0
            BY <1>5, <4>3, <5>1, SMT
          <5>3. Lesser(carriedBlock * options.blockBytes, Len(source)) - 1 = ReadOffset + k
            <6> DEFINE start == block * options.blockBytes
            <6>1. start \in Nat /\ start < Len(source) /\ ReadOffset = start - 1
              BY <1>5, <1>7, SMTT(30)
            <6> HIDE DEF start
            <6>2. Lesser(start, Len(source)) - 1 = ReadOffset + k
              BY <1>7, <3>4, <6>1, SMT DEF Lesser
            <6> QED
              BY <5>1, <6>2 DEF start
          <5>4. ~ (ReadOffset + k < 0)
            <6> DEFINE start == block * options.blockBytes
            <6>1. start >= 1 /\ start \in Nat
              BY <1>5, <4>3, SMTT(30)
            <6> HIDE DEF start
            <6> QED
              BY <1>5, <3>4, <6>1, SMT DEF start
          <5> QED
            BY <2>1, <4>1, <4>3, <5>2, <5>3, <5>4 DEF front, CarryIsTrue
        <4> QED
          BY <4>2, <4>3
      <3>5. CASE k # 0
        <4>1. k \in 1 .. need /\ from + k = (ReadOffset + k) + 1 /\ ~ (ReadOffset + k < 0)
          <5> HIDE DEF bytes, from
          <5> QED
            BY <1>3, <1>4, <1>12, <2>4, <3>5, SMT
        <4>2. bytes[k + 1] = ReadData[k]
          BY <1>8, <3>1, <3>3, <4>1
        <4>3. ReadData[k] = source[(ReadOffset + k) + 1]
          BY <2>2, <4>1
        <4> QED
          BY <4>1, <4>2, <4>3 DEF At
      <3> QED
        BY <3>4, <3>5
    <2> QED
      BY <1>4, <2>3, <2>4
  <1> QED
    BY <1>3, <1>4, <1>5, <1>6, <1>11

\* The byte kept for the next block is the one in front of it.
LEMMA CarriedByteIsTrue ==
    ASSUME LinesInvariant, NEW c, block # NoBlock, ReadsBlock(c, Filled(ReadData)),
           UNCHANGED options, disk.intact
    PROVE  CarryIsTrue'
  <1> DEFINE bytes == Filled(ReadData)
  <1>1. PoolInvariant /\ LinesFormed /\ FileIsTrue
    BY DEF LinesInvariant
  <1>2. /\ ReadIsFull
        /\ carriedBlock' = block + 1
        /\ carried' = At(bytes, ReadRange.ownershipEnd - 1)
        /\ source' = source
    BY DEF ReadsBlock, LastByteOwned, fileVars
  <1>3. /\ OwnedEnd <= Len(bytes)
        /\ HoldsFile(bytes, source, ReadOffset)
        /\ bytes \in Seq(Byte)
    BY <1>2, ReadIsTrue
  <1>4. /\ ReadRange.ownershipEnd = OwnedEnd
        /\ options.fileSize \in Nat
        /\ ReadOffset \in Int
        /\ OwnedEnd \in Nat \ {0, 1}
        /\ -1 <= ReadOffset
        /\ ReadOffset + OwnedEnd = Lesser((block + 1) * options.blockBytes, options.fileSize)
    BY <1>1, OwnedBytes
  <1>5. options.fileSize = Len(source)
    BY <1>1 DEF LinesFormed
  <1>6. ReadOffset + OwnedEnd <= options.fileSize
    <2>1. ReadOffset + Len(bytes) <= options.fileSize /\ Len(bytes) \in Nat
      BY <1>2, <1>3, ReadIsTrue
    <2> HIDE DEF bytes
    <2> QED
      BY <1>3, <1>4, <2>1, SMT
  <1> HIDE DEF bytes
  <1>7. /\ OwnedEnd - 1 \in 0 .. Len(bytes) - 1
        /\ ReadOffset + (OwnedEnd - 1) < Len(source)
        /\ ~ (ReadOffset + (OwnedEnd - 1) < 0)
        /\ ReadOffset + (OwnedEnd - 1) = (ReadOffset + OwnedEnd) - 1
    <2>1. Len(bytes) \in Nat
      BY <1>3
    <2> QED
      BY <1>3, <1>4, <1>5, <1>6, <2>1, SMT
  <1>8. At(bytes, OwnedEnd - 1) = At(source, (ReadOffset + OwnedEnd) - 1)
    BY <1>3, <1>7 DEF HoldsFile
  <1> QED
    BY <1>2, <1>4, <1>5, <1>8 DEF CarryIsTrue, bytes

\* The limit on lines is a limit on their texts.
LEMMA FitsWithinLimit ==
    ASSUME options \in ValidOptions, NEW bytes \in Seq(Byte), NEW ends, CutsLines(bytes, ends)
    PROVE  /\ \A i \in 1 .. Len(ends) - 1 :
                /\ ends[i] \in Nat \ {0} /\ ends[i + 1] \in Nat
                /\ ends[i] < ends[i + 1] /\ ends[i + 1] <= Len(bytes)
                /\ At(bytes, ends[i] - 1) = LF /\ At(bytes, ends[i + 1] - 1) = LF
                /\ Feedless(bytes, ends[i], ends[i + 1] - 1)
                /\ TooLong(bytes, ends[i], ends[i + 1])
                     <=> TextEnd(bytes, ends[i + 1]) - ends[i] > options.maxLineBytes
           /\ ~ AnyTooLong(bytes, ends) => TextsFit(bytes, ends)
  <1> DEFINE n == Len(ends)
  <1>1. /\ ends \in Seq(Nat) /\ n \in Nat /\ n >= 1
        /\ ends[n] <= Len(bytes)
        /\ \A i \in 1 .. n : ends[i] \in Nat /\ ends[i] >= 1 /\ At(bytes, ends[i] - 1) = LF
        /\ \A i, j \in 1 .. n : i < j => ends[i] < ends[j]
        /\ \A k \in 0 .. ends[n] - 1 : At(bytes, k) = LF => \E i \in 1 .. n : ends[i] = k + 1
    BY DEF CutsLines
  <1>2. options.maxLineBytes \in Nat /\ Len(bytes) \in Nat
    BY OpenedSizes
  <1> HIDE DEF n
  <1>3. ASSUME NEW i \in 1 .. n - 1
        PROVE  /\ ends[i] \in Nat \ {0} /\ ends[i + 1] \in Nat
               /\ ends[i] < ends[i + 1] /\ ends[i + 1] <= Len(bytes)
               /\ At(bytes, ends[i] - 1) = LF /\ At(bytes, ends[i + 1] - 1) = LF
               /\ Feedless(bytes, ends[i], ends[i + 1] - 1)
               /\ TooLong(bytes, ends[i], ends[i + 1])
                    <=> TextEnd(bytes, ends[i + 1]) - ends[i] > options.maxLineBytes
               /\ TextEnd(bytes, ends[i + 1]) \in Int
    <2>1. i \in 1 .. n /\ i + 1 \in 1 .. n /\ n \in 1 .. n /\ i < i + 1
      BY <1>1, SMT
    <2>2. /\ ends[i] \in Nat \ {0} /\ ends[i + 1] \in Nat /\ ends[n] \in Nat
          /\ ends[i] < ends[i + 1]
          /\ At(bytes, ends[i] - 1) = LF /\ At(bytes, ends[i + 1] - 1) = LF
      BY <1>1, <2>1, SMTT(30)
    <2>3. ends[i + 1] <= ends[n]
      <3>1. i + 1 = n \/ i + 1 < n
        BY <1>1, <2>1, SMT
      <3>2. i + 1 < n => ends[i + 1] < ends[n]
        BY <1>1, <2>1
      <3>3. i + 1 = n => ends[i + 1] = ends[n]
        OBVIOUS
      <3> QED
        BY <2>2, <3>1, <3>2, <3>3, SMT
    <2>4. ends[i + 1] <= Len(bytes)
      BY <1>1, <1>2, <2>2, <2>3, SMT
    <2>5. Feedless(bytes, ends[i], ends[i + 1] - 1)
      <3> SUFFICES ASSUME NEW k \in ends[i] .. (ends[i + 1] - 1) - 1, At(bytes, k) = LF
                   PROVE  FALSE
        BY DEF Feedless
      <3>1. k \in 0 .. ends[n] - 1 /\ k \in Int /\ ends[i] < k + 1 /\ k + 1 < ends[i + 1]
        BY <2>2, <2>3, SMTT(30)
      <3>2. PICK j \in 1 .. n : ends[j] = k + 1
        BY <1>1, <3>1
      <3>3. ~ (j <= i) /\ ~ (i + 1 <= j)
        <4>1. j < i => ends[j] < ends[i]
          BY <1>1, <2>1
        <4>2. i + 1 < j => ends[i + 1] < ends[j]
          BY <1>1, <2>1
        <4>3. ends[j] \in Nat
          BY <1>1
        <4>4. j # i /\ j # i + 1
          <5>1. ends[j] # ends[i] /\ ends[j] # ends[i + 1]
            BY <2>2, <3>1, <3>2, SMT
          <5> QED
            BY <5>1
        <4>5. ~ (j < i) /\ ~ (i + 1 < j)
          BY <2>2, <3>1, <3>2, <4>1, <4>2, <4>3, SMT
        <4> QED
          BY <2>1, <4>4, <4>5, SMT
      <3> QED
        BY <2>1, <3>3, SMT
    <2>6. TooLong(bytes, ends[i], ends[i + 1])
            <=> TextEnd(bytes, ends[i + 1]) - ends[i] > options.maxLineBytes
      <3> DEFINE from == ends[i]
                 to   == ends[i + 1]
                 limit == options.maxLineBytes
      <3>1. from \in Nat \ {0} /\ to \in Nat /\ from < to /\ from <= to /\ to <= Len(bytes)
        BY <2>2, <2>4, SMT
      <3>2. At(bytes, from - 1) = LF /\ At(bytes, to - 1) = LF /\ limit \in Nat
        BY <1>2, <2>2
      <3> HIDE DEF from, to, limit
      <3>3. ExceedsLineLimit(Slice(bytes, from, to), limit) <=> TextEnd(bytes, to) - from > limit
        BY <3>1, <3>2, LimitMeasuresText
      <3> QED
        BY <3>3 DEF TooLong, from, to, limit
    <2>7. TextEnd(bytes, ends[i + 1]) \in Int
      BY <2>2, SMT DEF TextEnd
    <2> QED
      BY <2>2, <2>4, <2>5, <2>6, <2>7
  <1>4. ~ AnyTooLong(bytes, ends) => TextsFit(bytes, ends)
    <2> SUFFICES ASSUME ~ AnyTooLong(bytes, ends), NEW i \in 1 .. n - 1
                 PROVE  TextEnd(bytes, ends[i + 1]) - ends[i] <= options.maxLineBytes
      BY DEF TextsFit, n
    <2>1. ~ TooLong(bytes, ends[i], ends[i + 1])
      BY DEF AnyTooLong, n
    <2>2. ~ (TextEnd(bytes, ends[i + 1]) - ends[i] > options.maxLineBytes)
      BY <1>3, <2>1
    <2>3. TextEnd(bytes, ends[i + 1]) \in Int /\ ends[i] \in Nat
      BY <1>3
    <2> QED
      BY <1>2, <2>2, <2>3, SMT
  <1> QED
    BY <1>3, <1>4 DEF n

\* The lines that indexBlockLocked finds.
LEMMA IndexedLines ==
    ASSUME LinesInvariant, block # NoBlock, ReadIsFull,
           FirstLineStart(Filled(ReadData), ReadRange.ownershipEnd) # NoLine
    PROVE  LET bytes == Filled(ReadData)
               ends  == BlockOffsets(bytes)
           IN  /\ CutsLines(bytes, ends)
               /\ Len(ends) >= 1
               /\ Last(ends) = ends[Len(ends)]
               /\ Last(ends) \in Nat \ {0}
               /\ Last(ends) <= OwnedEnd
               /\ At(bytes, Last(ends) - 1) = LF
               /\ Feedless(bytes, Last(ends), OwnedEnd)
               /\ Last(ends) = OwnedEnd => Len(ends) >= 2
               /\ \A hint \in ReturnHints(bytes, Head(ends), ReadRange.ownershipEnd) :
                    ~ AnyTooLong(bytes, ends) => LinesCut(bytes, ends, hint)
  <1> DEFINE bytes == Filled(ReadData)
             ends  == BlockOffsets(bytes)
             end   == ReadRange.ownershipEnd
  <1>1. PoolInvariant /\ LinesFormed /\ FileIsTrue
    BY DEF LinesInvariant
  <1>2. options \in ValidOptions /\ block \in 0 .. BlockCount(options) - 1
    BY <1>1, BlockAtHand
  <1>3. end = OwnedEnd /\ end \in Nat \ {0}
    BY <1>1, OwnedBytes
  <1>4. bytes \in Seq(Byte) /\ end <= Len(bytes)
    BY <1>3, ReadIsTrue
  <1>5. Last(ends) = end => Len(ends) >= 2
    BY <1>2, BlockOffsetsAreOffsets
  <1>6. ends = <<FirstLineStart(bytes, end)>> \o LineEnds(bytes, FirstLineStart(bytes, end), end)
    BY DEF BlockOffsets
  <1>7. FirstLineStart(bytes, end) # NoLine
    OBVIOUS
  <1> HIDE DEF ends, bytes, end
  <1>8. /\ CutsLines(bytes, ends)
        /\ ends[Len(ends)] <= end
        /\ Feedless(bytes, ends[Len(ends)], end)
        /\ \A hint \in ReturnHints(bytes, Head(ends), end) : HintCovers(bytes, ends, hint)
    BY <1>3, <1>4, <1>6, <1>7, IndexCutsLines
  <1>9. /\ Len(ends) \in Nat /\ Len(ends) >= 1
        /\ \A i \in 1 .. Len(ends) : ends[i] \in Nat /\ ends[i] >= 1 /\ At(bytes, ends[i] - 1) = LF
    BY <1>8 DEF CutsLines
  <1>10. Len(ends) \in 1 .. Len(ends)
    BY <1>9, SMT
  <1>11. /\ Last(ends) = ends[Len(ends)]
         /\ ends[Len(ends)] \in Nat \ {0}
         /\ At(bytes, ends[Len(ends)] - 1) = LF
    BY <1>9, <1>10, SMT DEF Last
  <1>12. ~ AnyTooLong(bytes, ends) => TextsFit(bytes, ends)
    BY <1>2, <1>4, <1>8, FitsWithinLimit
  <1> QED
    BY <1>3, <1>5, <1>8, <1>9, <1>11, <1>12 DEF LinesCut, ends, bytes, end

\* A block whose lines are ready.
LEMMA LinesReadyAreWhole ==
    ASSUME LinesInvariant, NEW bytes, NEW ends, NEW hint, LinesReady(bytes, ends, hint),
           LinesCut(bytes, ends, hint), Len(ends) >= 2,
           ends[Len(ends) - 1] < OwnedEnd, OwnedEnd <= ends[Len(ends)],
           Terminated(bytes, source, ReadOffset, ends[Len(ends)]),
           block # NoBlock, UNCHANGED <<options, source, disk, block>>,
           disk.intact => /\ HoldsFile(bytes, source, ReadOffset)
                          /\ ContinuationIsTrue' /\ CarryIsTrue'
    PROVE  LinesFormed' /\ FileIsTrue'
  <1>1. LinesFormed /\ FileIsTrue
    BY DEF LinesInvariant
  <1>2. buffer' = bytes /\ offsets' = ends /\ cr' = hint /\ pc' = "serve"
    BY DEF LinesReady, Goto
  <1>3. Len(ends) \in Nat
    BY DEF LinesCut, CutsLines
  <1>4. LineCount' = Len(ends) - 1 /\ Len(ends) - 1 + 1 = Len(ends)
    BY <1>2, <1>3, SMT DEF LineCount
  <1>5. ReadOffset' = ReadOffset /\ OwnedEnd' = OwnedEnd
    BY DEF ReadOffset, OwnedEnd
  <1>6. LinesWhole'
    BY <1>2, <1>4, <1>5 DEF LinesWhole, LinesCut, TextsFit
  <1>7. LinesFormed'
    BY <1>1, <1>2, <1>6 DEF LinesFormed
  <1>8. SameBytes' <=> SameBytes
    BY DEF SameBytes
  <1> QED
    BY <1>1, <1>2, <1>5, <1>7, <1>8 DEF FileIsTrue, BufferIsTrue

\* When the last line ends behind the block, no line begins in the blocks that
\* lie before the next line's.
LEMMA ContinuationOfLine ==
    ASSUME LinesInvariant, disk.intact, block # NoBlock,
           NEW bytes \in Seq(Byte), NEW from \in Nat \ {0},
           from < OwnedEnd, OwnedEnd <= Len(bytes), Feedless(bytes, from, Len(bytes) - 1),
           HoldsFile(bytes, source, ReadOffset),
           ContinueLine(BlockOfNextLine(ReadOffset + Len(bytes))), UNCHANGED source
    PROVE  ContinuationIsTrue'
  <1> DEFINE size  == options.blockBytes
             first == block * size
             next  == ReadOffset + Len(bytes)
  <1>1. PoolInvariant /\ LinesFormed
    BY DEF LinesInvariant
  <1>2. /\ size \in Nat \ {0} /\ block \in Nat
        /\ ReadOffset \in Int /\ ReadOffset = first - 1
        /\ OwnedEnd \in Nat
        /\ ReadOffset + OwnedEnd = Lesser((block + 1) * size, options.fileSize)
        /\ options.fileSize \in Nat
    BY <1>1, OwnedBytes
  <1>3. first \in Nat /\ (block + 1) * size = first + size
    <2> HIDE DEF LinesInvariant
    <2>1. block \in Nat /\ size \in Nat
      BY <1>2
    <2> QED
      BY <2>1, BlockProduct
  <1> HIDE DEF first
  <1>4. OwnedEnd - 1 <= size
    BY <1>2, <1>3, SMT DEF Lesser
  <1>5. options.fileSize = Len(source) /\ Len(bytes) \in Nat
    BY <1>1 DEF LinesFormed
  <1>6. /\ options' = options
        /\ continuationStart' = block + 1
        /\ continuationEnd' = BlockOfNextLine(next)
    BY DEF ContinueLine
  <1> SUFFICES ASSUME NEW start \in LineStarts(source),
                      block + 1 <= start \div size, start \div size < BlockOfNextLine(next)
               PROVE  FALSE
    BY <1>6 DEF ContinuationIsTrue, InContinuation
  <1>7. start \in 0 .. Len(source) - 1 /\ (start = 0 \/ At(source, start - 1) = LF)
    BY DEF LineStarts
  <1>8. start \in Nat /\ next \in Nat
    <2>1. Len(bytes) >= 1
      BY <1>2, <1>5, SMT
    <2> QED
      BY <1>2, <1>3, <1>5, <1>7, <2>1, SMT
  <1>9. next = ReadOffset + Len(bytes)
    OBVIOUS
  <1> HIDE DEF next
  <1>10. start >= first + size
    <2>1. size \in Nat \ {0} /\ block \in Nat /\ start \in Int
      BY <1>2, <1>8, SMT
    <2> QED
      BY <2>1, LaterBlockIsBehind DEF first
  <1>11. start < next
    <2>1. CASE next >= options.fileSize
      BY <1>2, <1>5, <1>7, <1>8, <2>1, SMT
    <2>2. CASE ~ (next >= options.fileSize)
      <3>1. start \div size < next \div size
        BY <2>2 DEF BlockOfNextLine
      <3> QED
        BY <1>2, <1>8, <3>1, EarlierBlockIsEarlier
    <2> QED
      BY <2>1, <2>2
  <1> DEFINE k == (start - 1) - ReadOffset
             n == Len(bytes)
             end == OwnedEnd
             top == Len(source)
  <1>12. /\ k \in from .. (n - 1) - 1
         /\ k \in 0 .. n - 1
         /\ ReadOffset + k = start - 1
         /\ ~ (start - 1 < 0) /\ start - 1 < top /\ start # 0
    <2>1. /\ from < end /\ end - 1 <= size /\ end \in Nat /\ n \in Nat
          /\ ReadOffset = first - 1 /\ next = ReadOffset + n
          /\ start < next /\ start >= first + size
          /\ size \in Nat /\ size >= 1 /\ first \in Nat /\ start \in Nat /\ next \in Nat
          /\ start \in 0 .. top - 1 /\ top \in Nat /\ from \in Nat /\ from >= 1
      BY <1>2, <1>3, <1>4, <1>5, <1>7, <1>8, <1>9, <1>10, <1>11, SMTT(30)
    <2> HIDE DEF size, n, end, top
    <2> QED
      BY <2>1, SMT
  <1> HIDE DEF k
  <1>13. At(bytes, k) = At(source, start - 1)
    BY <1>12 DEF HoldsFile
  <1>14. At(bytes, k) # LF
    BY <1>12 DEF Feedless
  <1> QED
    BY <1>7, <1>12, <1>13, <1>14

\* The last line's end joins the offsets.
LEMMA LastLineCut ==
    ASSUME options \in ValidOptions, NEW bytes \in Seq(Byte), NEW ends, NEW hint \in BOOLEAN,
           LinesCut(bytes, ends, hint), ends[Len(ends)] < Len(bytes),
           At(bytes, Len(bytes) - 1) = LF, Feedless(bytes, ends[Len(ends)], Len(bytes) - 1),
           TextEnd(bytes, Len(bytes)) - ends[Len(ends)] <= options.maxLineBytes,
           NEW more \in BOOLEAN, At(bytes, Len(bytes) - 2) = CR => more
    PROVE  LET all == Append(ends, Len(bytes))
           IN  /\ LinesCut(bytes, all, hint \/ more)
               /\ all \in Seq(Nat)
               /\ Len(all) >= 2
               /\ all[Len(all) - 1] = ends[Len(ends)]
               /\ all[Len(all)] = Len(bytes)
  <1> DEFINE next == Len(bytes)
             all  == Append(ends, next)
             n    == Len(ends)
  <1>1. CutsLines(bytes, ends) /\ HintCovers(bytes, ends, hint) /\ TextsFit(bytes, ends)
    BY DEF LinesCut
  <1>2. next \in Nat /\ next <= Len(bytes)
    BY SMT
  <1>3. n \in Nat /\ n >= 1
    BY <1>1 DEF CutsLines
  <1> HIDE DEF next
  <1>4. /\ CutsLines(bytes, all)
        /\ Len(all) = n + 1
        /\ all[Len(all)] = next
        /\ \A i \in 1 .. n : all[i] = ends[i]
        /\ \A h, m \in BOOLEAN :
             (HintCovers(bytes, ends, h) /\ (At(bytes, next - 2) = CR => m)) =>
                 HintCovers(bytes, all, h \/ m)
    BY <1>1, <1>2, OneMoreLine DEF next
  <1>5. HintCovers(bytes, all, hint \/ more)
    BY <1>1, <1>4 DEF next
  <1> HIDE DEF all, n
  <1>6. TextsFit(bytes, all)
    <2> SUFFICES ASSUME NEW i \in 1 .. Len(all) - 1
                 PROVE  TextEnd(bytes, all[i + 1]) - all[i] <= options.maxLineBytes
      BY DEF TextsFit
    <2>1. i \in 1 .. n
      BY <1>3, <1>4, SMT
    <2>2. CASE i = n
      BY <1>4, <2>1, <2>2 DEF n, next
    <2>3. CASE i # n
      <3>1. i \in 1 .. n - 1 /\ i + 1 \in 1 .. n
        BY <1>3, <2>1, <2>3, SMT
      <3> QED
        BY <1>1, <1>4, <2>1, <3>1 DEF TextsFit, n
    <2> QED
      BY <2>2, <2>3
  <1>7. Len(all) >= 2 /\ Len(all) - 1 = n /\ n \in 1 .. n
    BY <1>3, <1>4, SMT
  <1>8. all[Len(all) - 1] = ends[n]
    BY <1>4, <1>7
  <1>9. all \in Seq(Nat)
    BY <1>4 DEF CutsLines
  <1> QED
    BY <1>4, <1>5, <1>6, <1>7, <1>8, <1>9 DEF LinesCut, all, next, n

\* Only the bytes up to the last offset matter for the texts' lengths.
LEMMA TextsOfPrefix ==
    ASSUME NEW bytes, NEW other, NEW ends, CutsLines(bytes, ends), TextsFit(bytes, ends),
           \A k \in 1 .. ends[Len(ends)] : other[k] = bytes[k]
    PROVE  TextsFit(other, ends)
  <1> DEFINE n == Len(ends)
  <1>1. /\ n \in Nat /\ n >= 1
        /\ \A i \in 1 .. n : ends[i] \in Nat /\ ends[i] >= 1
        /\ \A i, j \in 1 .. n : i < j => ends[i] < ends[j]
    <2>1. /\ ends \in Seq(Nat) /\ n >= 1
          /\ \A i \in 1 .. n : ends[i] >= 1
          /\ \A i, j \in 1 .. n : i < j => ends[i] < ends[j]
      BY DEF CutsLines
    <2>2. n \in Nat /\ \A i \in 1 .. n : ends[i] \in Nat
      BY <2>1
    <2> QED
      BY <2>1, <2>2
  <1> HIDE DEF n
  <1> SUFFICES ASSUME NEW i \in 1 .. n - 1
               PROVE  TextEnd(other, ends[i + 1]) - ends[i] <= options.maxLineBytes
    BY DEF TextsFit, n
  <1>2. i \in 1 .. n /\ i + 1 \in 1 .. n /\ 1 \in 1 .. n /\ i < i + 1 /\ n \in 1 .. n
    BY <1>1, SMT
  <1>3. ends[i + 1] \in Nat /\ ends[i + 1] >= 2
    <2>1. ends[i] < ends[i + 1] /\ ends[i] \in Nat /\ ends[i] >= 1 /\ ends[i + 1] \in Nat
      BY <1>1, <1>2
    <2> QED
      BY <2>1, SMT
  <1>4. ends[i + 1] <= ends[n] /\ ends[n] \in Nat
    <2>1. i + 1 = n \/ i + 1 < n
      BY <1>1, <1>2, SMT
    <2>2. i + 1 < n => ends[i + 1] < ends[n]
      BY <1>1, <1>2
    <2>3. i + 1 = n => ends[i + 1] = ends[n]
      OBVIOUS
    <2>4. ends[n] \in Nat
      BY <1>1, <1>2
    <2> QED
      BY <1>3, <2>1, <2>2, <2>3, <2>4, SMT
  <1>5. At(other, ends[i + 1] - 2) = At(bytes, ends[i + 1] - 2)
    <2>1. (ends[i + 1] - 2) + 1 \in 1 .. ends[n]
      BY <1>3, <1>4, SMT
    <2> QED
      BY <2>1 DEF At, n
  <1>6. TextEnd(other, ends[i + 1]) = TextEnd(bytes, ends[i + 1])
    BY <1>5 DEF TextEnd
  <1>7. TextEnd(bytes, ends[i + 1]) - ends[i] <= options.maxLineBytes
    BY DEF TextsFit, n
  <1> QED
    BY <1>6, <1>7

\* A line that is too long leaves nothing at hand.
LEMMA TooLongLeavesNoLines ==
    ASSUME LinesInvariant, NEW c, NEW bytes, NEW ends, LineTooLong(c, bytes, ends),
           UNCHANGED <<source, disk>>,
           (disk.intact /\ UNCHANGED options) => CarryIsTrue'
    PROVE  LinesFormed' /\ FileIsTrue'
  <1>1. PoolInvariant /\ LinesFormed /\ FileIsTrue
    BY DEF LinesInvariant
  <1>2. /\ UNCHANGED <<options, continuationVars>>
        /\ pc' = "idle"
        /\ terminal' = "ErrLineTooLong"
    BY DEF LineTooLong, Fail, Return, cursorVars
  <1>3. ~ LinesLeft'
    BY <1>2 DEF LinesLeft, NoError
  <1> QED
    BY <1>1, <1>2, <1>3, CarriedStays, NothingAtHand

\* The line feed that ends the block's last line was found behind the block.
LEMMA FoundLineIsWhole ==
    ASSUME LinesInvariant, NEW c, NEW bytes \in Seq(Byte), NEW ends,
           NEW hint \in BOOLEAN, LineFeedFound(c, bytes, ends, hint),
           LinesCut(bytes, ends, hint),
           ends[Len(ends)] < OwnedEnd, OwnedEnd <= Len(bytes), ends[Len(ends)] < Len(bytes),
           ReadOffset + Len(bytes) <= options.fileSize,
           At(bytes, Len(bytes) - 1) = LF, Feedless(bytes, ends[Len(ends)], Len(bytes) - 1),
           block # NoBlock, UNCHANGED <<source, disk>>,
           disk.intact => HoldsFile(bytes, source, ReadOffset),
           (disk.intact /\ UNCHANGED options) => CarryIsTrue'
    PROVE  LinesFormed' /\ FileIsTrue'
  <1> DEFINE from == ends[Len(ends)]
             next == Len(bytes)
             more == At(bytes, next - 2) = CR
             all  == Append(ends, next)
  <1>1. PoolInvariant /\ LinesFormed
    BY DEF LinesInvariant
  <1>2. options \in ValidOptions /\ options.maxLineBytes \in Nat
    BY <1>1, BlockAtHand, OpenedSizes
  <1>3. Last(ends) = from
    BY DEF Last
  <1>4. CASE TooLong(bytes, Last(ends), next)
    BY <1>4, TooLongLeavesNoLines DEF LineFeedFound
  <1>5. CASE ~ TooLong(bytes, Last(ends), next)
    <2>1. LinesReady(bytes, all, hint \/ more) /\ ContinueLine(BlockOfNextLine(ReadOffset + next))
      <3>1. LineContinues(bytes, ends, hint \/ more)
        BY <1>5 DEF LineFeedFound
      <3> QED
        BY <1>3, <3>1 DEF LineContinues
    <2>2. from \in Nat \ {0} /\ At(bytes, from - 1) = LF
      <3>1. Len(ends) \in 1 .. Len(ends)
        BY SMT DEF LinesCut, CutsLines
      <3> QED
        BY <3>1, SMT DEF LinesCut, CutsLines
    <2>3. TextEnd(bytes, next) - from <= options.maxLineBytes
      <3> DEFINE limit == options.maxLineBytes
                 text  == TextEnd(bytes, next)
      <3>1. next \in Nat /\ from <= next /\ from < next
        BY <2>2, SMT
      <3>2. text \in Int
        BY <3>1, SMT DEF TextEnd
      <3> HIDE DEF limit, from, next, text
      <3>3. ~ ExceedsLineLimit(Slice(bytes, from, next), limit)
        BY <1>3, <1>5 DEF TooLong, limit
      <3>4. limit \in Nat /\ At(bytes, next - 1) = LF /\ next <= Len(bytes)
        BY <1>2, <3>1, SMT DEF limit, next
      <3>5. ~ (text - from > limit)
        BY <2>2, <3>1, <3>3, <3>4, LimitMeasuresText DEF text
      <3> QED
        BY <1>2, <2>2, <3>2, <3>5, SMT DEF limit, text
    <2>4. more \in BOOLEAN /\ (At(bytes, next - 2) = CR => more)
      OBVIOUS
    <2> HIDE DEF more
    <2>5. /\ LinesCut(bytes, all, hint \/ more)
          /\ Len(all) >= 2
          /\ all[Len(all) - 1] = from
          /\ all[Len(all)] = next
      BY <1>2, <2>3, <2>4, LastLineCut
    <2>6. Terminated(bytes, source, ReadOffset, next)
      <3>1. options.fileSize = Len(source) /\ Len(source) \in Nat /\ ReadOffset \in Int /\ next \in Nat
        BY <1>1, OwnedBytes DEF LinesFormed
      <3> QED
        BY <3>1, SMT DEF Terminated
    <2>7. UNCHANGED <<options, block>>
      BY <2>1 DEF ContinueLine
    <2>8. disk.intact => ContinuationIsTrue'
      BY <1>1, <2>1, <2>2, ContinuationOfLine
    <2> HIDE DEF all
    <2> QED
      BY <2>1, <2>5, <2>6, <2>7, <2>8, LinesReadyAreWhole
  <1> QED
    BY <1>4, <1>5

\* The block's last line ends with the file: it gets a terminator.
LEMMA TerminatedLineIsWhole ==
    ASSUME LinesInvariant, NEW bytes \in Seq(Byte), NEW ends, NEW hint \in BOOLEAN,
           LinesCut(bytes, ends, hint),
           ends[Len(ends)] < OwnedEnd, OwnedEnd <= Len(bytes),
           ReadOffset + Len(bytes) = options.fileSize,
           Feedless(bytes, ends[Len(ends)], Len(bytes)),
           ~ TooLong(bytes, ends[Len(ends)], Len(bytes)),
           LinesReady(bytes \o Terminator(bytes), Append(ends, Len(bytes \o Terminator(bytes))),
                      hint \/ Last(bytes) = CR),
           \/ UNCHANGED cursorVars
           \/ ContinueLine(BlockOfNextLine(ReadOffset + Len(bytes \o Terminator(bytes)))),
           block # NoBlock, UNCHANGED <<source, disk>>,
           disk.intact => HoldsFile(bytes, source, ReadOffset),
           (disk.intact /\ UNCHANGED options) => CarryIsTrue'
    PROVE  LinesFormed' /\ FileIsTrue'
  <1> DEFINE from == ends[Len(ends)]
             all  == bytes \o Terminator(bytes)
             more == Last(bytes) = CR
             next == Append(ends, Len(all))
  <1>1. PoolInvariant /\ LinesFormed
    BY DEF LinesInvariant
  <1>2. options \in ValidOptions /\ options.maxLineBytes \in Nat
    BY <1>1, BlockAtHand, OpenedSizes
  <1>3. /\ OwnedEnd \in Nat \ {0, 1} /\ ReadOffset \in Int
        /\ options.fileSize = Len(source) /\ source \in Seq(Byte)
    BY <1>1, OwnedBytes, PoolAssumption DEF LinesFormed, PoolInvariant, SourceKept
  <1>4. from \in Nat \ {0} /\ At(bytes, from - 1) = LF
    <2>1. Len(ends) \in 1 .. Len(ends)
      BY SMT DEF LinesCut, CutsLines
    <2> QED
      BY <2>1, SMT DEF LinesCut, CutsLines
  <1>5. from < Len(bytes) /\ Len(bytes) \in Nat /\ bytes # <<>>
    <2>1. Len(bytes) \in Nat
      OBVIOUS
    <2>2. from < Len(bytes) /\ Len(bytes) # 0
      BY <1>3, <1>4, <2>1, SMT
    <2> QED
      BY <2>1, <2>2
  <1>6. /\ all \in Seq(Byte)
        /\ Len(all) = IF Last(bytes) = CR THEN Len(bytes) + 2 ELSE Len(bytes) + 1
        /\ \A k \in 1 .. Len(bytes) : all[k] = bytes[k]
        /\ At(all, Len(all) - 1) = LF
        /\ Feedless(all, from, Len(all) - 1)
        /\ TextEnd(all, Len(all)) = Len(bytes)
        /\ At(all, Len(all) - 2) = CR => Last(bytes) = CR
        /\ At(all, Len(bytes) - 1) = Last(bytes)
        /\ Last(bytes) = CR => At(all, Len(bytes)) = CR
    BY <1>4, <1>5, TerminatorEndsLine
  <1> HIDE DEF all
  <1>7. Len(all) \in Nat /\ Len(all) > Len(bytes) /\ from < Len(all) /\ from <= Len(all)
        /\ OwnedEnd <= Len(all)
    BY <1>3, <1>4, <1>5, <1>6, SMTT(30)
  <1>8. LinesCut(all, ends, hint)
    <2>1. CutsLines(bytes, ends) /\ HintCovers(bytes, ends, hint) /\ TextsFit(bytes, ends)
      BY DEF LinesCut
    <2>2. \A k \in 1 .. from : all[k] = bytes[k]
      <3>1. \A k \in 1 .. from : k \in 1 .. Len(bytes)
        BY <1>4, <1>5, SMT
      <3> QED
        BY <1>6, <3>1
    <2>3. CutsLines(all, ends) /\ HintCovers(all, ends, hint)
      BY <1>7, <2>1, <2>2, CutsOtherBytes
    <2> QED
      BY <1>2, <1>4, <1>5, <2>1, <2>2, <2>3, TextsOfPrefix DEF LinesCut
  <1>9. TextEnd(all, Len(all)) - from <= options.maxLineBytes
    <2>1. At(bytes, Len(bytes) - 1) # LF
      <3>1. Len(bytes) - 1 \in from .. Len(bytes) - 1
        BY <1>4, <1>5, SMT
      <3> QED
        BY <3>1 DEF Feedless
    <2> DEFINE limit == options.maxLineBytes
               to == Len(bytes)
    <2>2. ~ ExceedsLineLimit(Slice(bytes, from, to), limit)
      BY DEF TooLong
    <2>3. to \in Nat /\ from < to /\ from <= to /\ to <= Len(bytes) /\ limit \in Nat /\ At(bytes, to - 1) # LF
      BY <1>2, <1>4, <1>5, <2>1, SMT
    <2> HIDE DEF limit, to, from
    <2>4. ~ (to - from > limit)
      BY <1>4, <2>2, <2>3, LimitMeasuresText
    <2>5. to - from <= limit
      BY <1>4, <2>3, <2>4, SMT
    <2> QED
      BY <1>6, <2>5 DEF limit, to
  <1>10. more \in BOOLEAN /\ (At(all, Len(all) - 2) = CR => more)
    BY <1>6
  <1> HIDE DEF more
  <1>11. /\ LinesCut(all, next, hint \/ more)
         /\ Len(next) >= 2
         /\ next[Len(next) - 1] = from
         /\ next[Len(next)] = Len(all)
    BY <1>2, <1>6, <1>7, <1>8, <1>9, <1>10, LastLineCut
  <1>12. /\ Terminated(all, source, ReadOffset, Len(all))
         /\ HoldsFile(bytes, source, ReadOffset) => HoldsFile(all, source, ReadOffset)
    BY <1>3, <1>5, <1>6, TerminatorFillsFile
  <1>13. LinesReady(all, next, hint \/ more)
    BY DEF all, more
  <1>14. UNCHANGED <<options, block>>
    BY DEF ContinueLine, cursorVars
  <1>15. disk.intact => ContinuationIsTrue'
    <2>1. CASE UNCHANGED cursorVars
      <3>1. UNCHANGED <<options, continuationVars>>
        BY <2>1 DEF cursorVars
      <3> QED
        BY <1>1, <3>1, CarriedStays DEF LinesInvariant
    <2>2. CASE ContinueLine(BlockOfNextLine(ReadOffset + Len(all)))
      BY <1>4, <1>6, <1>7, <1>12, <2>2, ContinuationOfLine
    <2> QED
      BY <2>1, <2>2 DEF all
  <1> HIDE DEF next
  <1> QED
    BY <1>7, <1>11, <1>12, <1>13, <1>14, <1>15, LinesReadyAreWhole

\* What a full read gives.
LEMMA BlockRead ==
    ASSUME LinesInvariant, NEW c \in Callers, NEW bytes, ReadsBlock(c, bytes)
    PROVE  /\ bytes = Filled(ReadData) /\ bytes \in Seq(Byte) /\ ReadIsFull
           /\ block # NoBlock
           /\ OwnedEnd \in Nat \ {0, 1} /\ OwnedEnd <= Len(bytes)
           /\ ReadOffset \in Int
           /\ options.fileSize = Len(source) /\ Len(source) \in Nat
           /\ ReadOffset + Len(bytes) <= options.fileSize
           /\ ReadOffset + OwnedEnd <= options.fileSize
           /\ ReadRange.ownershipEnd = OwnedEnd
           /\ ReadRange.readBytes = Len(bytes)
           /\ ReadRange.readOffset = ReadOffset
           /\ UNCHANGED <<source, disk>> /\ lineCursor' = 0
           /\ disk.intact => HoldsFile(bytes, source, ReadOffset)
           /\ (disk.intact /\ UNCHANGED options) => CarryIsTrue'
  <1>1. PoolInvariant /\ LinesFormed
    BY DEF LinesInvariant
  <1>2. /\ ReadIsFull /\ bytes = Filled(ReadData) /\ lineCursor' = 0
        /\ UNCHANGED <<source, disk>>
    BY DEF ReadsBlock, fileVars
  <1>3. pc = "read" /\ block # NoBlock
        /\ options \in ValidOptions /\ block \in 0 .. BlockCount(options) - 1
    BY <1>1, ReadsBlockKeeps
  <1>4. /\ bytes \in Seq(Byte)
        /\ OwnedEnd <= Len(bytes)
        /\ Len(bytes) = ReadRange.readBytes
        /\ ReadOffset + Len(bytes) <= options.fileSize
        /\ disk.intact => HoldsFile(bytes, source, ReadOffset)
    BY <1>2, <1>3, ReadIsTrue
  <1>5. /\ ReadRange.ownershipEnd = OwnedEnd
        /\ options.fileSize \in Nat
        /\ ReadOffset \in Int
        /\ OwnedEnd \in Nat \ {0, 1}
    BY <1>1, <1>3, OwnedBytes
  <1>6. ReadRange.readOffset = ReadOffset
    BY <1>3, ReadRangeFacts
  <1>7. options.fileSize = Len(source)
    BY <1>1 DEF LinesFormed
  <1>8. ReadOffset + OwnedEnd <= options.fileSize
    <2>1. Len(bytes) \in Nat
      BY <1>4
    <2> QED
      BY <1>4, <1>5, <2>1, SMT
  <1>9. (disk.intact /\ UNCHANGED options) => CarryIsTrue'
    BY <1>2, <1>3, CarriedByteIsTrue
  <1> QED
    BY <1>2, <1>3, <1>4, <1>5, <1>6, <1>7, <1>8, <1>9

\* What the search for its lines gives.
LEMMA LinesRead ==
    ASSUME LinesInvariant, NEW c \in Callers, NEW bytes, NEW ends, NEW hint \in BOOLEAN,
           IndexesBlock(c, bytes, ends, hint)
    PROVE  /\ LinesCut(bytes, ends, hint)
           /\ ends \in Seq(Nat) /\ Len(ends) >= 1 /\ Len(ends) \in Nat
           /\ Last(ends) = ends[Len(ends)]
           /\ ends[Len(ends)] \in Nat \ {0}
           /\ ends[Len(ends)] <= OwnedEnd
           /\ Feedless(bytes, ends[Len(ends)], OwnedEnd)
           /\ ends[Len(ends)] = OwnedEnd => Len(ends) >= 2
  <1>1. /\ ReadsBlock(c, bytes)
        /\ FirstLineStart(bytes, ReadRange.ownershipEnd) # NoLine
        /\ ends = BlockOffsets(bytes)
        /\ hint \in ReturnHints(bytes, Head(ends), ReadRange.ownershipEnd)
        /\ ~ AnyTooLong(bytes, ends)
    BY DEF IndexesBlock
  <1>2. bytes = Filled(ReadData) /\ block # NoBlock /\ ReadIsFull
    BY <1>1, BlockRead
  <1>3. /\ CutsLines(bytes, ends)
        /\ Last(ends) = ends[Len(ends)]
        /\ Last(ends) \in Nat \ {0}
        /\ Last(ends) <= OwnedEnd
        /\ Feedless(bytes, Last(ends), OwnedEnd)
        /\ Last(ends) = OwnedEnd => Len(ends) >= 2
        /\ LinesCut(bytes, ends, hint)
    BY <1>1, <1>2, IndexedLines
  <1>4. ends \in Seq(Nat) /\ Len(ends) >= 1
    BY <1>3 DEF CutsLines
  <1> QED
    BY <1>3, <1>4

\* The block owns no line, or one that is too long.
LEMMA ReadLeavesNoLines ==
    ASSUME LinesInvariant, NEW c \in Callers, ReadNoLine(c) \/ ReadTooLong(c)
    PROVE  LinesFormed' /\ FileIsTrue'
  <1>1. PoolInvariant /\ LinesFormed /\ FileIsTrue
    BY DEF LinesInvariant
  <1>2. CASE ReadNoLine(c)
    <2>1. /\ ReadsBlock(c, Filled(ReadData))
          /\ offsets' = <<>> /\ pc' = "walk"
          /\ UNCHANGED <<options, continuationVars>>
      BY <1>2 DEF ReadNoLine, Goto, cursorVars
    <2>2. UNCHANGED <<source, disk>> /\ lineCursor' = 0 /\ (disk.intact => CarryIsTrue')
      BY <2>1, BlockRead
    <2>3. LineCount' = -1
      <3>1. Len(offsets') = 0
        BY <2>1
      <3> QED
        BY <3>1, SMT DEF LineCount
    <2>4. ~ LinesLeft' /\ (lineCursor >= LineCount)'
      BY <2>1, <2>2, <2>3, SMT DEF LinesLeft
    <2> QED
      BY <1>1, <2>1, <2>2, <2>4, CarriedStays, NothingAtHand
  <1>3. CASE ReadTooLong(c)
    <2>1. ReadsBlock(c, Filled(ReadData))
          /\ LineTooLong(c, Filled(ReadData), BlockOffsets(Filled(ReadData)))
      BY <1>3 DEF ReadTooLong
    <2> QED
      BY <2>1, BlockRead, TooLongLeavesNoLines
  <1> QED
    BY <1>2, <1>3

\* The last line of the block ends with the block.
LEMMA ReadWholeLinesIsTrue ==
    ASSUME LinesInvariant, NEW c \in Callers, ReadWholeLines(c)
    PROVE  LinesFormed' /\ FileIsTrue'
  <1> DEFINE bytes == Filled(ReadData)
             ends  == BlockOffsets(bytes)
  <1>1. PoolInvariant /\ LinesFormed /\ FileIsTrue
    BY DEF LinesInvariant
  <1>2. PICK hint \in BOOLEAN :
          /\ IndexesBlock(c, bytes, ends, hint)
          /\ Last(ends) = ReadRange.ownershipEnd
          /\ LinesReady(bytes, ends, hint)
          /\ UNCHANGED cursorVars
    BY DEF ReadWholeLines
  <1>3. ReadsBlock(c, bytes)
    BY <1>2 DEF IndexesBlock
  <1> HIDE DEF bytes, ends
  <1>4. /\ bytes \in Seq(Byte) /\ block # NoBlock
        /\ OwnedEnd \in Nat \ {0, 1} /\ ReadOffset \in Int
        /\ options.fileSize = Len(source) /\ Len(source) \in Nat
        /\ ReadOffset + OwnedEnd <= options.fileSize
        /\ ReadRange.ownershipEnd = OwnedEnd
        /\ UNCHANGED <<source, disk>>
        /\ disk.intact => HoldsFile(bytes, source, ReadOffset)
        /\ (disk.intact /\ UNCHANGED options) => CarryIsTrue'
    BY <1>3, BlockRead
  <1>5. /\ LinesCut(bytes, ends, hint)
        /\ Len(ends) \in Nat
        /\ Last(ends) = ends[Len(ends)]
        /\ ends[Len(ends)] = OwnedEnd => Len(ends) >= 2
    BY <1>2, LinesRead
  <1>6. Len(ends) >= 2 /\ ends[Len(ends)] = OwnedEnd
    BY <1>2, <1>4, <1>5
  <1>7. ends[Len(ends) - 1] < OwnedEnd
    <2>1. Len(ends) - 1 \in 1 .. Len(ends) /\ Len(ends) \in 1 .. Len(ends) /\ Len(ends) - 1 < Len(ends)
      BY <1>5, <1>6, SMT
    <2>2. \A i, j \in 1 .. Len(ends) : i < j => ends[i] < ends[j]
      BY <1>5 DEF LinesCut, CutsLines
    <2> QED
      BY <1>6, <2>1, <2>2
  <1>8. OwnedEnd <= ends[Len(ends)]
    BY <1>4, <1>6, SMT
  <1>9. Terminated(bytes, source, ReadOffset, ends[Len(ends)])
    BY <1>4, <1>6, SMT DEF Terminated
  <1>10. UNCHANGED <<options, block, continuationVars>>
    BY <1>2 DEF cursorVars
  <1>11. disk.intact => ContinuationIsTrue'
    BY <1>1, <1>4, <1>10, CarriedStays
  <1> QED
    BY <1>2, <1>4, <1>5, <1>6, <1>7, <1>8, <1>9, <1>10, <1>11, LinesReadyAreWhole

\* The last line of the block ends with the file.
LEMMA ReadLastLineIsTrue ==
    ASSUME LinesInvariant, NEW c \in Callers, ReadLastLine(c)
    PROVE  LinesFormed' /\ FileIsTrue'
  <1> DEFINE bytes == Filled(ReadData)
             ends  == BlockOffsets(bytes)
             all   == bytes \o Terminator(bytes)
  <1>1. PICK hint \in BOOLEAN :
          /\ IndexesBlock(c, bytes, ends, hint)
          /\ Last(ends) < ReadRange.ownershipEnd
          /\ ReadRange.readOffset + ReadRange.ownershipEnd = options.fileSize
          /\ IF TooLong(bytes, Last(ends), Len(bytes))
             THEN LineTooLong(c, bytes, ends)
             ELSE /\ LinesReady(all, Append(ends, Len(all)), hint \/ Last(bytes) = CR)
                  /\ UNCHANGED cursorVars
    BY DEF ReadLastLine
  <1>2. ReadsBlock(c, bytes)
    BY <1>1 DEF IndexesBlock
  <1> HIDE DEF bytes, ends
  <1>3. /\ bytes \in Seq(Byte) /\ block # NoBlock
        /\ OwnedEnd \in Nat \ {0, 1} /\ OwnedEnd <= Len(bytes) /\ ReadOffset \in Int
        /\ options.fileSize = Len(source) /\ Len(source) \in Nat
        /\ ReadOffset + Len(bytes) <= options.fileSize
        /\ ReadRange.ownershipEnd = OwnedEnd
        /\ ReadRange.readOffset = ReadOffset
        /\ UNCHANGED <<source, disk>>
        /\ disk.intact => HoldsFile(bytes, source, ReadOffset)
        /\ (disk.intact /\ UNCHANGED options) => CarryIsTrue'
    BY <1>2, BlockRead
  <1>4. /\ LinesCut(bytes, ends, hint)
        /\ Last(ends) = ends[Len(ends)]
        /\ Feedless(bytes, ends[Len(ends)], OwnedEnd)
    BY <1>1, LinesRead
  <1>5. CASE TooLong(bytes, Last(ends), Len(bytes))
    BY <1>1, <1>3, <1>5, TooLongLeavesNoLines
  <1>6. CASE ~ TooLong(bytes, Last(ends), Len(bytes))
    <2>1. Len(bytes) = OwnedEnd
      <3>1. Len(bytes) \in Nat
        BY <1>3
      <3> QED
        BY <1>1, <1>3, <3>1, SMT
    <2>2. ends[Len(ends)] < OwnedEnd /\ ReadOffset + Len(bytes) = options.fileSize
      BY <1>1, <1>3, <1>4, <2>1
    <2> QED
      BY <1>1, <1>3, <1>4, <1>6, <2>1, <2>2, TerminatedLineIsWhole
  <1> QED
    BY <1>5, <1>6

\* The bytes up to the line feed that ends the last line.
LEMMA LineUpToFeed ==
    ASSUME NEW bytes \in Seq(Byte), NEW ends, NEW hint, LinesCut(bytes, ends, hint),
           NEW m \in Nat, m < Len(bytes), ends[Len(ends)] <= m,
           At(bytes, m) = LF, Feedless(bytes, ends[Len(ends)], m)
    PROVE  LET line == Slice(bytes, 0, m + 1)
           IN  /\ line \in Seq(Byte) /\ Len(line) = m + 1
               /\ LinesCut(line, ends, hint)
               /\ At(line, Len(line) - 1) = LF
               /\ Feedless(line, ends[Len(ends)], Len(line) - 1)
               /\ \A file, offset : HoldsFile(bytes, file, offset) => HoldsFile(line, file, offset)
  <1> DEFINE to   == m + 1
             line == Slice(bytes, 0, to)
             from == ends[Len(ends)]
  <1> HIDE DEF Byte
  <1>1. to \in Nat /\ to <= Len(bytes) /\ 0 \in Nat /\ to - 0 = to /\ Len(bytes) \in Nat
    BY SMT
  <1>2. \A k \in 1 .. to : 0 + k = k
    BY SMT
  <1> HIDE DEF to
  <1>3. /\ line \in Seq(Byte) /\ Len(line) = to
        /\ \A k \in 1 .. to : line[k] = bytes[k]
    <2>1. /\ line \in Seq(Byte)
          /\ Len(line) = (IF 0 <= to THEN to - 0 ELSE 0)
          /\ \A k \in 1 .. to - 0 : line[k] = bytes[0 + k]
      BY <1>1, SliceOfBytes
    <2>2. 0 <= to
      BY <1>1, SMT
    <2> QED
      BY <1>1, <1>2, <2>1, <2>2
  <1> HIDE DEF line
  <1>4. \A k \in 0 .. to - 1 : At(line, k) = At(bytes, k)
    <2> TAKE k \in 0 .. to - 1
    <2>1. k + 1 \in 1 .. to
      BY <1>1, SMT
    <2> QED
      BY <1>3, <2>1 DEF At
  <1>5. from \in Nat /\ CutsLines(bytes, ends) /\ HintCovers(bytes, ends, hint) /\ TextsFit(bytes, ends)
    <2>1. Len(ends) \in 1 .. Len(ends)
      BY SMT DEF LinesCut, CutsLines
    <2> QED
      BY <2>1 DEF LinesCut, CutsLines
  <1>6. from <= to - 1 /\ from <= to /\ to - 1 = m
    BY <1>1, <1>5, SMT DEF to
  <1>7. \A k \in 1 .. from : line[k] = bytes[k]
    <2>1. \A k \in 1 .. from : k \in 1 .. to
      BY <1>1, <1>5, <1>6, SMT
    <2> QED
      BY <1>3, <2>1
  <1>8. LinesCut(line, ends, hint)
    BY <1>3, <1>5, <1>6, <1>7, CutsOtherBytes, TextsOfPrefix DEF LinesCut
  <1>9. At(line, to - 1) = LF /\ Feedless(line, from, to - 1)
    <2>1. to - 1 \in 0 .. to - 1 /\ \A k \in from .. (to - 1) - 1 : k \in 0 .. to - 1
      BY <1>1, <1>5, <1>6, SMT
    <2> QED
      BY <1>4, <1>6, <2>1 DEF Feedless
  <1>10. ASSUME NEW file, NEW offset, HoldsFile(bytes, file, offset)
         PROVE  HoldsFile(line, file, offset)
    <2> SUFFICES ASSUME NEW k \in 0 .. Len(line) - 1, offset + k < Len(file)
                 PROVE  At(line, k) = IF offset + k < 0 THEN LF ELSE At(file, offset + k)
      BY DEF HoldsFile
    <2>1. k \in 0 .. to - 1 /\ k \in 0 .. Len(bytes) - 1
      BY <1>1, <1>3, SMT
    <2> QED
      BY <1>4, <1>10, <2>1 DEF HoldsFile
  <1> QED
    BY <1>3, <1>8, <1>9, <1>10 DEF line, to

\* The last line is still open: it will be extended.
LEMMA LineStaysOpen ==
    ASSUME LinesInvariant, NEW bytes, NEW ends, NEW hint,
           buffer' = bytes, offsets' = ends, cr' = hint, pc' = "extend",
           LinesCut(bytes, ends, hint), ends[Len(ends)] < OwnedEnd,
           Feedless(bytes, ends[Len(ends)], Len(bytes)),
           ReadOffset + Len(bytes) <= options.fileSize,
           UNCHANGED <<cursorVars, source, disk>>,
           disk.intact => HoldsFile(bytes, source, ReadOffset) /\ CarryIsTrue'
    PROVE  LinesFormed' /\ FileIsTrue'
  <1>1. PoolInvariant /\ LinesFormed /\ FileIsTrue
    BY DEF LinesInvariant
  <1>2. UNCHANGED <<options, block, continuationVars>>
    BY DEF cursorVars
  <1>3. ReadOffset' = ReadOffset /\ OwnedEnd' = OwnedEnd
    BY <1>2 DEF ReadOffset, OwnedEnd
  <1>4. LineOpen'
    BY <1>2, <1>3 DEF LineOpen, LinesCut, TextsFit, BufferEnd, Last
  <1>5. ~ LinesLeft'
    BY DEF LinesLeft
  <1>6. LinesFormed'
    BY <1>1, <1>2, <1>4, <1>5 DEF LinesFormed
  <1>7. SameBytes' <=> SameBytes
    BY DEF SameBytes
  <1>8. disk.intact => ContinuationIsTrue'
    BY <1>1, <1>2, CarriedStays
  <1> QED
    BY <1>1, <1>3, <1>6, <1>7, <1>8 DEF FileIsTrue, BufferIsTrue

\* The last line of the block runs on behind it.
LEMMA ReadOpenLineIsTrue ==
    ASSUME LinesInvariant, NEW c \in Callers, ReadOpenLine(c)
    PROVE  LinesFormed' /\ FileIsTrue'
  <1> DEFINE bytes == Filled(ReadData)
             ends  == BlockOffsets(bytes)
             feeds == LineFeeds(bytes, ReadRange.ownershipEnd, ReadRange.readBytes)
  <1>1. PICK hint \in BOOLEAN :
          /\ IndexesBlock(c, bytes, ends, hint)
          /\ Last(ends) < ReadRange.ownershipEnd
          /\ IF feeds # {}
             THEN LineFeedFound(c, Slice(bytes, 0, Min(feeds) + 1), ends, hint)
             ELSE /\ buffer' = bytes
                  /\ offsets' = ends
                  /\ cr' = hint
                  /\ Goto("extend")
                  /\ UNCHANGED cursorVars
    BY DEF ReadOpenLine
  <1>2. ReadsBlock(c, bytes)
    BY <1>1 DEF IndexesBlock
  <1> HIDE DEF bytes, ends
  <1>3. /\ bytes \in Seq(Byte) /\ block # NoBlock
        /\ OwnedEnd \in Nat \ {0, 1} /\ OwnedEnd <= Len(bytes) /\ ReadOffset \in Int
        /\ ReadOffset + Len(bytes) <= options.fileSize
        /\ options.fileSize = Len(source) /\ Len(source) \in Nat
        /\ ReadRange.ownershipEnd = OwnedEnd
        /\ ReadRange.readBytes = Len(bytes)
        /\ UNCHANGED <<source, disk>>
        /\ disk.intact => HoldsFile(bytes, source, ReadOffset)
        /\ (disk.intact /\ UNCHANGED options) => CarryIsTrue'
    BY <1>2, BlockRead
  <1> DEFINE from == ends[Len(ends)]
  <1>4. /\ LinesCut(bytes, ends, hint)
        /\ Last(ends) = from
        /\ from \in Nat \ {0}
        /\ Feedless(bytes, from, OwnedEnd)
    BY <1>1, LinesRead
  <1>5. from < OwnedEnd
    BY <1>1, <1>3, <1>4
  <1>6. feeds = LineFeeds(bytes, OwnedEnd, Len(bytes)) /\ Len(bytes) \in Nat
    BY <1>3
  <1>7. CASE feeds # {}
    <2> DEFINE m    == Min(feeds)
               line == Slice(bytes, 0, m + 1)
    <2>1. m \in OwnedEnd .. Len(bytes) - 1 /\ At(bytes, m) = LF
          /\ \A k \in OwnedEnd .. m - 1 : At(bytes, k) # LF
      BY <1>3, <1>6, <1>7, LeastFeed
    <2>2. LineFeedFound(c, line, ends, hint)
      BY <1>1, <1>7
    <2> HIDE DEF m, feeds
    <2>3. m \in Nat /\ m < Len(bytes) /\ from <= m /\ OwnedEnd <= m + 1 /\ from < m + 1
          /\ ReadOffset + (m + 1) <= options.fileSize
      BY <1>3, <1>4, <1>5, <1>6, <2>1, SMT
    <2>4. Feedless(bytes, from, m)
      <3> SUFFICES ASSUME NEW k \in from .. m - 1
                   PROVE  At(bytes, k) # LF
        BY DEF Feedless
      <3>1. k \in from .. OwnedEnd - 1 \/ k \in OwnedEnd .. m - 1
        BY <1>3, <1>4, <2>3, SMT
      <3> QED
        BY <1>4, <2>1, <3>1 DEF Feedless
    <2>5. /\ line \in Seq(Byte) /\ Len(line) = m + 1
          /\ LinesCut(line, ends, hint)
          /\ At(line, Len(line) - 1) = LF
          /\ Feedless(line, from, Len(line) - 1)
          /\ \A file, offset : HoldsFile(bytes, file, offset) => HoldsFile(line, file, offset)
      BY <1>3, <1>4, <2>1, <2>3, <2>4, LineUpToFeed
    <2> HIDE DEF line
    <2> QED
      BY <1>3, <1>5, <2>2, <2>3, <2>5, FoundLineIsWhole
  <1>8. CASE feeds = {}
    <2>1. Feedless(bytes, from, Len(bytes))
      <3> SUFFICES ASSUME NEW k \in from .. Len(bytes) - 1
                   PROVE  At(bytes, k) # LF
        BY DEF Feedless
      <3>1. k \in from .. OwnedEnd - 1 \/ k \in OwnedEnd .. Len(bytes) - 1
        BY <1>3, <1>4, <1>6, SMT
      <3>2. CASE k \in from .. OwnedEnd - 1
        BY <1>4, <3>2 DEF Feedless
      <3>3. CASE k \in OwnedEnd .. Len(bytes) - 1
        BY <1>6, <1>8, <3>3 DEF LineFeeds
      <3> QED
        BY <3>1, <3>2, <3>3
    <2>2. /\ buffer' = bytes /\ offsets' = ends /\ cr' = hint /\ pc' = "extend"
          /\ UNCHANGED cursorVars
      BY <1>1, <1>8 DEF Goto
    <2>3. options' = options
      BY <2>2 DEF cursorVars
    <2> QED
      BY <1>3, <1>4, <1>5, <2>1, <2>2, <2>3, LineStaysOpen
  <1> QED
    BY <1>7, <1>8

-----------------------------------------------------------------------------
(* Extending a line. *)

\* What is at hand.
LEMMA LineAtHand ==
    ASSUME LinesInvariant, NEW c \in Callers, Extending(c)
    PROVE  /\ block # NoBlock
           /\ buffer \in Seq(Byte) /\ Len(buffer) \in Nat /\ cr \in BOOLEAN
           /\ LinesCut(buffer, offsets, cr)
           /\ Last(offsets) = offsets[Len(offsets)]
           /\ offsets[Len(offsets)] \in Nat \ {0}
           /\ offsets[Len(offsets)] < OwnedEnd
           /\ OwnedEnd \in Nat \ {0, 1} /\ OwnedEnd <= Len(buffer)
           /\ Feedless(buffer, offsets[Len(offsets)], Len(buffer))
           /\ BufferEnd = ReadOffset + Len(buffer)
           /\ ReadOffset \in Int /\ -1 <= ReadOffset
           /\ BufferEnd <= options.fileSize
           /\ options.fileSize = Len(source) /\ Len(source) \in Nat
           /\ UNCHANGED <<source, disk>> /\ lineCursor' = 0
           /\ disk.intact => HoldsFile(buffer, source, ReadOffset)
           /\ (disk.intact /\ UNCHANGED options) => CarryIsTrue'
  <1>1. PoolInvariant /\ LinesFormed /\ FileIsTrue
    BY DEF LinesInvariant
  <1>2. /\ pc = "extend" /\ block # NoBlock
        /\ buffer \in Seq(Byte) /\ cr \in BOOLEAN
        /\ Len(buffer) >= ReadRange.ownershipEnd
        /\ lineCursor' = 0
    BY <1>1, ExtendingKeeps
  <1>3. UNCHANGED <<source, disk, carryVars>>
    BY DEF Extending, fileVars
  <1>4. LineOpen /\ options.fileSize = Len(source)
    BY <1>1, <1>2 DEF LinesFormed
  <1>5. /\ ReadRange.ownershipEnd = OwnedEnd
        /\ options.fileSize \in Nat
        /\ ReadOffset \in Int /\ -1 <= ReadOffset
        /\ OwnedEnd \in Nat \ {0, 1}
    BY <1>1, <1>2, OwnedBytes
  <1>6. Last(offsets) = offsets[Len(offsets)]
    BY DEF Last
  <1>7. offsets[Len(offsets)] \in Nat \ {0}
    <2>1. Len(offsets) \in 1 .. Len(offsets)
      BY <1>4, SMT DEF LineOpen, LinesCut, CutsLines
    <2> QED
      BY <1>4, <2>1, SMT DEF LineOpen, LinesCut, CutsLines
  <1>8. OwnedEnd <= Len(buffer) /\ Len(buffer) \in Nat
    BY <1>2, <1>5, SMT
  <1>9. disk.intact => HoldsFile(buffer, source, ReadOffset)
    BY <1>1, <1>2 DEF FileIsTrue, BufferIsTrue
  <1>10. (disk.intact /\ UNCHANGED options) => CarryIsTrue'
    BY <1>1, <1>3, CarriedStays
  <1> QED
    BY <1>2, <1>3, <1>4, <1>5, <1>6, <1>7, <1>8, <1>9, <1>10 DEF LineOpen, BufferEnd

\* The line has no end within the limit, or ends with the file.
LEMMA ExtendEndsIsTrue ==
    ASSUME LinesInvariant, NEW c \in Callers, ExtendTooLong(c) \/ ExtendToEnd(c)
    PROVE  LinesFormed' /\ FileIsTrue'
  <1>1. CASE ExtendTooLong(c)
    BY <1>1, LineAtHand, TooLongLeavesNoLines DEF ExtendTooLong
  <1>2. CASE ExtendToEnd(c)
    <2> DEFINE all == buffer \o Terminator(buffer)
    <2>1. /\ Extending(c)
          /\ BufferEnd = options.fileSize
          /\ IF TooLong(buffer, Last(offsets), Len(buffer))
             THEN LineTooLong(c, buffer, offsets)
             ELSE LineContinues(all, offsets, cr \/ Last(buffer) = CR)
      BY <1>2 DEF ExtendToEnd
    <2>2. CASE TooLong(buffer, Last(offsets), Len(buffer))
      BY <2>1, <2>2, LineAtHand, TooLongLeavesNoLines
    <2>3. CASE ~ TooLong(buffer, Last(offsets), Len(buffer))
      <3>1. /\ LinesReady(all, Append(offsets, Len(all)), cr \/ Last(buffer) = CR)
            /\ ContinueLine(BlockOfNextLine(ReadOffset + Len(all)))
        BY <2>1, <2>3 DEF LineContinues
      <3> QED
        BY <2>1, <2>3, <3>1, LineAtHand, TerminatedLineIsWhole
    <2> QED
      BY <2>2, <2>3
  <1> QED
    BY <1>1, <1>2

\* What one read behind the buffer brings.
LEMMA ExtensionIsTrue ==
    ASSUME LinesInvariant, NEW c \in Callers, Extending(c)
    PROVE  LET read  == ReadAt(disk.bytes, BufferEnd, ExtendLength)
               bytes == buffer \o read
           IN  /\ bytes \in Seq(Byte) /\ Len(bytes) = Len(buffer) + Len(read) /\ Len(read) \in Nat
               /\ \A k \in 1 .. Len(buffer) : bytes[k] = buffer[k]
               /\ BufferEnd < options.fileSize => ReadOffset + Len(bytes) <= options.fileSize
               /\ disk.intact => HoldsFile(bytes, source, ReadOffset)
  <1> DEFINE read  == ReadAt(disk.bytes, BufferEnd, ExtendLength)
             bytes == buffer \o read
             known == Len(buffer)
             size  == Len(disk.bytes)
             end   == Lesser(BufferEnd + ExtendLength, size)
  <1> HIDE DEF Byte
  <1>1. PoolInvariant /\ LinesFormed /\ FileIsTrue
    BY DEF LinesInvariant
  <1>2. /\ buffer \in Seq(Byte) /\ known \in Nat
        /\ OwnedEnd \in Nat \ {0, 1} /\ OwnedEnd <= known
        /\ BufferEnd = ReadOffset + known
        /\ ReadOffset \in Int /\ -1 <= ReadOffset
        /\ options.fileSize = Len(source) /\ Len(source) \in Nat
        /\ disk.intact => HoldsFile(buffer, source, ReadOffset)
    BY LineAtHand
  <1>3. BufferEnd \in Nat
    BY <1>2, SMT
  <1>4. disk.bytes \in Seq(Byte) /\ size \in Nat /\ options \in ValidOptions
    BY <1>1, BlockAtHand
  <1>5. read \in Seq(Byte)
    BY <1>1, ExtensionIsBytes
  <1>6. ExtendLength \in Int /\ ExtendLength <= options.fileSize - BufferEnd
    <2>1. LineLimit \in Int
      <3>1. Last(offsets) \in Nat /\ options.maxLineBytes \in Nat
        BY <1>1, <1>4, ExtendingKeeps, OpenedSizes
      <3> QED
        BY <3>1, SMT DEF LineLimit
    <2>2. options.blockBytes \in Nat /\ options.fileSize \in Int
      BY <1>2, <1>4, OpenedSizes
    <2>3. LineReadBytes \in Nat /\ TailReadBytes \in Nat
      BY ReadAssumption
    <2> DEFINE a == Lesser(LineReadBytes, Greater(TailReadBytes, options.blockBytes))
               b == LineLimit - known
               d == options.fileSize - BufferEnd
    <2>4. a \in Int
      BY <2>2, <2>3, SMT DEF Lesser, Greater
    <2>5. b \in Int /\ d \in Int
      BY <1>2, <1>3, <2>1, <2>2, SMT
    <2>6. ExtendLength = Lesser(Lesser(a, b), d)
      BY DEF ExtendLength, ExtendReadBytes
    <2> HIDE DEF a, b
    <2>7. Lesser(Lesser(a, b), d) \in Int /\ Lesser(Lesser(a, b), d) <= d
      <3> HIDE DEF d
      <3> QED
        BY <2>4, <2>5, SMT DEF Lesser
    <2> QED
      BY <2>6, <2>7
  <1>7. read = Slice(disk.bytes, BufferEnd, end)
    BY DEF ReadAt
  <1>8. end \in Int /\ end <= size /\ end <= BufferEnd + ExtendLength
    <2> HIDE DEF size
    <2> QED
      BY <1>3, <1>4, <1>6, SMT DEF Lesser
  <1>9. /\ Len(read) \in Nat
        /\ \A j \in 1 .. Len(read) : /\ BufferEnd + j <= size
                                     /\ BufferEnd + j <= BufferEnd + ExtendLength
                                     /\ read[j] = disk.bytes[BufferEnd + j]
        /\ BufferEnd < options.fileSize => BufferEnd + Len(read) <= options.fileSize
    <2>1. CASE end \in Nat /\ BufferEnd <= end
      <3> DEFINE file == disk.bytes
      <3>1. file \in Seq(Byte) /\ end \in Nat /\ end <= Len(file)
        BY <1>4, <1>8, <2>1
      <3> HIDE DEF file, end
      <3>2. /\ Len(Slice(file, BufferEnd, end)) = IF BufferEnd <= end THEN end - BufferEnd ELSE 0
            /\ \A k \in 1 .. end - BufferEnd : Slice(file, BufferEnd, end)[k] = file[BufferEnd + k]
        BY <1>3, <3>1, SliceOfBytes
      <3>3. Len(read) = end - BufferEnd /\ \A k \in 1 .. end - BufferEnd : read[k] = file[BufferEnd + k]
        BY <1>7, <2>1, <3>2 DEF file
      <3>4. \A j \in 1 .. end - BufferEnd : BufferEnd + j <= size /\ BufferEnd + j <= BufferEnd + ExtendLength
        <4> HIDE DEF size
        <4> QED
          BY <1>3, <1>4, <1>6, <1>8, <3>1, SMT
      <3>5. BufferEnd + (end - BufferEnd) <= options.fileSize
        BY <1>2, <1>3, <1>6, <1>8, <3>1, SMT
      <3> HIDE DEF read
      <3> QED
        BY <1>3, <2>1, <3>1, <3>3, <3>4, <3>5, SMT DEF file
    <2>2. CASE ~ (end \in Nat /\ BufferEnd <= end)
      <3>1. end < BufferEnd + 1 /\ BufferEnd + 1 \in Int
        <4> HIDE DEF end
        <4> QED
          BY <1>3, <1>8, <2>2, SMT
      <3>2. read = <<>>
        <4> HIDE DEF end
        <4> QED
          BY <1>7, <1>8, <3>1, SubSeqEmpty DEF Slice
      <3>3. Len(read) = 0
        BY <3>2
      <3> HIDE DEF read
      <3> QED
        BY <1>2, <1>3, <3>3, SMT
    <2> QED
      BY <2>1, <2>2
  <1> HIDE DEF read
  <1>10. /\ bytes \in Seq(Byte)
         /\ Len(bytes) = known + Len(read)
         /\ \A k \in 1 .. known + Len(read) :
              bytes[k] = IF k <= known THEN buffer[k] ELSE read[k - known]
    BY <1>2, <1>5, ConcatProperties
  <1>11. \A k \in 1 .. known : bytes[k] = buffer[k]
    <2>1. \A k \in 1 .. known : k \in 1 .. known + Len(read) /\ k <= known
      <3> HIDE DEF known
      <3> QED
        BY <1>2, <1>9, SMT
    <2> QED
      BY <1>10, <2>1
  <1> HIDE DEF bytes, known, end, size
  <1>12. BufferEnd < options.fileSize => ReadOffset + Len(bytes) <= options.fileSize
    BY <1>2, <1>9, <1>10, SMT
  <1>13. ASSUME disk.intact
         PROVE  HoldsFile(bytes, source, ReadOffset)
    <2> SUFFICES ASSUME NEW k \in 0 .. Len(bytes) - 1, ReadOffset + k < Len(source)
                 PROVE  At(bytes, k) = IF ReadOffset + k < 0 THEN LF ELSE At(source, ReadOffset + k)
      BY DEF HoldsFile
    <2>1. CASE k < known
      <3>1. k + 1 \in 1 .. known /\ k \in 0 .. known - 1
        BY <1>2, <1>9, <1>10, <2>1, SMT
      <3>2. At(bytes, k) = At(buffer, k)
        BY <1>11, <3>1 DEF At
      <3> QED
        BY <1>2, <1>13, <3>1, <3>2 DEF HoldsFile, known
    <2>2. CASE ~ (k < known)
      <3> DEFINE j == (k + 1) - known
      <3>1. /\ j \in 1 .. Len(read) /\ k + 1 \in 1 .. known + Len(read) /\ ~ (k + 1 <= known)
            /\ BufferEnd + j = (ReadOffset + k) + 1 /\ ~ (ReadOffset + k < 0)
            /\ BufferEnd + j >= 1 /\ BufferEnd + j \in Int
        BY <1>2, <1>3, <1>9, <1>10, <2>2, SMT
      <3>2. bytes[k + 1] = read[j]
        BY <1>10, <3>1
      <3> HIDE DEF j
      <3>3. read[j] = disk.bytes[BufferEnd + j] /\ BufferEnd + j <= size
        BY <1>9, <3>1
      <3>4. BufferEnd + j \in 1 .. Len(disk.bytes) /\ BufferEnd + j <= Len(source)
        <4>1. BufferEnd + j <= Len(source) /\ BufferEnd + j \in 1 .. size
          BY <1>2, <1>4, <3>1, <3>3, SMT
        <4> QED
          BY <4>1 DEF size
      <3>5. disk.bytes[BufferEnd + j] = source[BufferEnd + j]
        BY <1>1, <1>13, <3>4 DEF FileIsTrue, SameBytes
      <3> QED
        BY <3>1, <3>2, <3>3, <3>5 DEF At
    <2> QED
      BY <2>1, <2>2
  <1> QED
    BY <1>9, <1>10, <1>11, <1>12, <1>13 DEF read, bytes, known

\* One read behind the buffer.
LEMMA ExtendReadIsTrue ==
    ASSUME LinesInvariant, NEW c \in Callers, ExtendRead(c)
    PROVE  LinesFormed' /\ FileIsTrue'
  <1> DEFINE read  == ReadAt(disk.bytes, BufferEnd, ExtendLength)
             bytes == buffer \o read
             feeds == LineFeeds(bytes, Len(buffer), Len(bytes))
             from  == offsets[Len(offsets)]
             known == Len(buffer)
  <1>1. PoolInvariant /\ LinesFormed /\ FileIsTrue
    BY DEF LinesInvariant
  <1>2. /\ Extending(c)
        /\ BufferEnd < options.fileSize
        /\ IF feeds # {}
           THEN LineFeedFound(c, Slice(bytes, 0, Min(feeds) + 1), offsets, cr)
           ELSE /\ buffer' = bytes
                /\ Goto(IF Len(read) = ExtendLength THEN "extend" ELSE "short")
                /\ UNCHANGED <<cursorVars, terminal, offsets, cr, nextLine, lineStep>>
    BY DEF ExtendRead
  <1>3. /\ block # NoBlock
        /\ buffer \in Seq(Byte) /\ known \in Nat /\ cr \in BOOLEAN
        /\ LinesCut(buffer, offsets, cr)
        /\ from \in Nat \ {0} /\ from < OwnedEnd
        /\ OwnedEnd \in Nat \ {0, 1} /\ OwnedEnd <= known
        /\ Feedless(buffer, from, known)
        /\ UNCHANGED <<source, disk>>
        /\ ReadOffset \in Int
        /\ options.fileSize = Len(source) /\ Len(source) \in Nat
        /\ (disk.intact /\ UNCHANGED options) => CarryIsTrue'
    BY <1>2, LineAtHand
  <1>4. /\ bytes \in Seq(Byte) /\ Len(bytes) = known + Len(read) /\ Len(read) \in Nat
        /\ \A k \in 1 .. known : bytes[k] = buffer[k]
        /\ ReadOffset + Len(bytes) <= options.fileSize
        /\ disk.intact => HoldsFile(bytes, source, ReadOffset)
    BY <1>2, ExtensionIsTrue
  <1> HIDE DEF bytes, read, known
  <1>5. Len(bytes) \in Nat /\ known <= Len(bytes) /\ from < known /\ from <= Len(bytes)
    BY <1>3, <1>4, SMT
  <1>6. LinesCut(bytes, offsets, cr)
    <2>1. \A k \in 1 .. from : bytes[k] = buffer[k]
      <3>1. \A k \in 1 .. from : k \in 1 .. known
        BY <1>3, <1>5, SMT
      <3> QED
        BY <1>4, <3>1
    <2> QED
      BY <1>3, <1>5, <2>1, CutsOtherBytes, TextsOfPrefix DEF LinesCut
  <1>7. \A k \in from .. known - 1 : At(bytes, k) # LF
    <2> TAKE k \in from .. known - 1
    <2>1. k + 1 \in 1 .. known
      BY <1>3, SMT
    <2> QED
      BY <1>3, <1>4, <2>1 DEF At, Feedless
  <1>8. feeds = LineFeeds(bytes, known, Len(bytes))
    BY DEF known
  <1>9. CASE feeds # {}
    <2> DEFINE m    == Min(feeds)
               line == Slice(bytes, 0, m + 1)
    <2>1. m \in known .. Len(bytes) - 1 /\ At(bytes, m) = LF
          /\ \A k \in known .. m - 1 : At(bytes, k) # LF
      BY <1>3, <1>5, <1>8, <1>9, LeastFeed
    <2>2. LineFeedFound(c, line, offsets, cr)
      BY <1>2, <1>9
    <2> HIDE DEF m, feeds
    <2>3. m \in Nat /\ m < Len(bytes) /\ from <= m /\ OwnedEnd <= m + 1 /\ from < m + 1
          /\ ReadOffset + (m + 1) <= options.fileSize
      <3> DEFINE top == options.fileSize
                 n   == Len(bytes)
      <3>1. m \in known .. n - 1 /\ n \in Nat /\ known \in Nat /\ top \in Nat
            /\ ReadOffset + n <= top /\ ReadOffset \in Int /\ from < known /\ from \in Nat
            /\ OwnedEnd <= known /\ OwnedEnd \in Nat
        BY <1>3, <1>4, <1>5, <2>1
      <3> HIDE DEF top, n, from
      <3>2. m \in Nat /\ m < n /\ from <= m /\ OwnedEnd <= m + 1 /\ from < m + 1
            /\ ReadOffset + (m + 1) <= top
        BY <3>1, SMT
      <3> QED
        BY <3>2 DEF top, n, from
    <2>4. Feedless(bytes, from, m)
      <3> SUFFICES ASSUME NEW k \in from .. m - 1
                   PROVE  At(bytes, k) # LF
        BY DEF Feedless
      <3>1. k \in from .. known - 1 \/ k \in known .. m - 1
        BY <1>3, <2>3, SMT
      <3> QED
        BY <1>7, <2>1, <3>1
    <2>5. /\ line \in Seq(Byte) /\ Len(line) = m + 1
          /\ LinesCut(line, offsets, cr)
          /\ At(line, Len(line) - 1) = LF
          /\ Feedless(line, from, Len(line) - 1)
          /\ \A file, offset : HoldsFile(bytes, file, offset) => HoldsFile(line, file, offset)
      BY <1>4, <1>6, <2>1, <2>3, <2>4, LineUpToFeed
    <2> HIDE DEF line
    <2> QED
      BY <1>3, <1>4, <2>2, <2>3, <2>5, FoundLineIsWhole
  <1>10. CASE feeds = {}
    <2>1. /\ buffer' = bytes
          /\ UNCHANGED <<cursorVars, offsets, cr>>
          /\ pc' = "extend" \/ pc' = "short"
      BY <1>2, <1>10 DEF Goto
    <2>2. UNCHANGED <<options, continuationVars>>
      BY <2>1 DEF cursorVars
    <2>3. CASE pc' = "extend"
      <3>1. Feedless(bytes, from, Len(bytes))
        <4> SUFFICES ASSUME NEW k \in from .. Len(bytes) - 1
                     PROVE  At(bytes, k) # LF
          BY DEF Feedless
        <4>1. k \in from .. known - 1 \/ k \in known .. Len(bytes) - 1
          BY <1>3, <1>5, SMT
        <4>2. CASE k \in known .. Len(bytes) - 1
          BY <1>8, <1>10, <4>2 DEF LineFeeds
        <4> QED
          BY <1>7, <4>1, <4>2
      <3> QED
        BY <1>3, <1>4, <1>6, <2>1, <2>2, <2>3, <3>1, LineStaysOpen
    <2>4. CASE pc' = "short"
      <3>1. ~ LinesLeft'
        BY <2>4 DEF LinesLeft
      <3> QED
        BY <1>1, <1>3, <2>2, <2>4, <3>1, CarriedStays, NothingAtHand
    <2> QED
      BY <2>1, <2>3, <2>4
  <1> QED
    BY <1>9, <1>10

-----------------------------------------------------------------------------
(* The invariant. *)

\* Every step keeps what the pool holds of the file.
LEMMA EveryStepIsTrue ==
    ASSUME LinesInvariant, [Next]_poolVars
    PROVE  LinesInvariant'
  <1>1. PoolInvariant /\ LinesFormed /\ FileIsTrue
    BY DEF LinesInvariant
  <1>2. PoolInvariant'
    BY <1>1, EveryStepKeeps
  <1> SUFFICES LinesFormed' /\ FileIsTrue'
    BY <1>2 DEF LinesInvariant
  <1>3. ASSUME NEW c \in Callers, NEW operation \in Operations, Call(c, operation)
        PROVE  LinesFormed' /\ FileIsTrue'
    BY <1>3, WalkLeavesLines
  <1>4. ASSUME NEW c \in Callers, Enter(c)
        PROVE  LinesFormed' /\ FileIsTrue'
    BY <1>4, WalkLeavesLines, StartingLeavesNoLines, FailingLeavesNoLines DEF Enter
  <1>5. ASSUME NEW c \in Callers, Walk(c)
        PROVE  LinesFormed' /\ FileIsTrue'
    BY <1>5, WalkLeavesLines, StartingLeavesNoLines DEF Walk
  <1>6. ASSUME NEW c \in Callers, Load(c)
        PROVE  LinesFormed' /\ FileIsTrue'
    BY <1>6, FailingLeavesNoLines, ReadLeavesNoLines, ReadWholeLinesIsTrue, ReadLastLineIsTrue,
       ReadOpenLineIsTrue, ExtendEndsIsTrue, ExtendReadIsTrue DEF Load
  <1>7. ASSUME NEW c \in Callers, Serve(c)
        PROVE  LinesFormed' /\ FileIsTrue'
    BY <1>7, ServingLeavesLines DEF Serve
  <1>8. CASE ChangeSource
    BY <1>2, <1>8, ChangeLeavesLines
  <1>9. CASE UNCHANGED poolVars
    <2>1. UNCHANGED <<options, fileVars, buffer, offsets, cr, block, continuationVars, carryVars,
                      pc, terminal, lineCursor>>
      BY <1>9 DEF poolVars, cursorVars, lineVars, callVars
    <2>2. /\ LinesLeft' => LinesLeft
          /\ pc' \in {"walk", "read"} => (lineCursor >= LineCount)'
      BY <1>1, <2>1 DEF LinesLeft, LineCount, LinesFormed
    <2> QED
      BY <2>1, <2>2, BlockStays
  <1> QED
    BY <1>3, <1>4, <1>5, <1>6, <1>7, <1>8, <1>9 DEF Next, Proceed

\* The blocks that a pool skips as a line's continuation hold no line start, and
\* the byte it carries from one block to the next is the one in front of it,
\* however long the lines, whatever fails and however the file is cut or grown.
THEOREM CarriedOverStaysTrue == Spec => []CarriedOverIsTrue
  <1>1. Init => LinesInvariant
    BY InitPoolInvariant, InitLines DEF LinesInvariant
  <1>2. LinesInvariant /\ [Next]_poolVars => LinesInvariant'
    BY EveryStepIsTrue
  <1>3. LinesInvariant => CarriedOverIsTrue
    BY DEF LinesInvariant, FileIsTrue, ContinuationIsTrue, CarryIsTrue, CarriedOverIsTrue
  <1> QED
    BY <1>1, <1>2, <1>3, PTL DEF Spec

-----------------------------------------------------------------------------
(* The lines of the block at hand.                                         *)

\* A position belongs to the block whose bytes it lies among.
LEMMA BlockOfPosition ==
    ASSUME NEW size \in Nat \ {0}, NEW b \in Nat, NEW position \in Int,
           b * size <= position, position < b * size + size
    PROVE  position \div size = b
  <1> DEFINE q == position \div size
  <1>1. q \in Int /\ position = size * q + (position % size) /\ position % size \in 0 .. size - 1
    BY DivisionFacts
  <1>2. b * size \in Nat /\ position \in Nat
    BY BlockProduct, SMT
  <1>3. ~ (b + 1 <= q)
    <2> SUFFICES ASSUME b + 1 <= q
                 PROVE  FALSE
      OBVIOUS
    <2>1. position >= b * size + size
      BY LaterBlockIsBehind
    <2> DEFINE s == b * size
    <2> HIDE DEF s
    <2>2. s \in Nat /\ position < s + size /\ position >= s + size /\ position \in Nat
      BY <1>2, <2>1 DEF s
    <2> QED
      BY <2>2, SMT
  <1>4. CASE q < b
    <2> HIDE DEF q
    <2>1. q \in Nat
      BY <1>1, <1>2, SMT
    <2>2. q + 1 \in Nat /\ q + 1 <= b
      BY <1>4, <2>1, SMT
    <2>3. size * (q + 1) <= size * b /\ size * b = b * size
      BY <2>2, ProductOrder, SMT
    <2>4. size * (q + 1) = size * q + size
      BY <2>1, SMT
    <2> DEFINE p == size * q
               s == size * b
               r == position % size
    <2>5. /\ p \in Int /\ s \in Int /\ r \in 0 .. size - 1
          /\ p + size <= s /\ s <= position /\ position = p + r
      BY <1>1, <1>2, <2>1, <2>3, <2>4, SMT DEF q
    <2> HIDE DEF p, s, r
    <2>6. FALSE
      BY <2>5, SMT
    <2> QED
      BY <2>6
  <1>5. CASE q = b
    BY <1>5
  <1> QED
    BY <1>1, <1>3, <1>4, <1>5, SMT

\* What the pool has left of a block is well-formed.
LEMMA LinesAtHand ==
    ASSUME LinesInvariant, LinesLeft
    PROVE  /\ LinesWhole
           /\ block # NoBlock /\ options \in ValidOptions
           /\ buffer \in Seq(Byte) /\ offsets \in Seq(Nat) /\ cr \in BOOLEAN
           /\ LineCount \in Nat \ {0} /\ Len(offsets) = LineCount + 1
           /\ lineCursor \in 0 .. LineCount - 1
           /\ source \in Seq(Byte) /\ Len(source) = options.fileSize
           /\ disk.intact => HoldsFile(buffer, source, ReadOffset)
  <1>1. PoolInvariant /\ LinesFormed /\ FileIsTrue
    BY DEF LinesInvariant
  <1>2. LinesWhole
    BY <1>1 DEF LinesFormed
  <1>3. /\ buffer \in Seq(Byte) /\ offsets \in Seq(Nat) /\ cr \in BOOLEAN
        /\ lineCursor \in Nat
    BY <1>1 DEF PoolInvariant, LinesKept
  <1>4. /\ LineCount \in Nat \ {0} /\ Len(offsets) = LineCount + 1
        /\ lineCursor \in 0 .. LineCount - 1
    <2> DEFINE n == Len(offsets)
    <2>1. n \in Nat /\ lineCursor \in Nat /\ lineCursor < n - 1 /\ LineCount = n - 1
      BY <1>3 DEF LinesLeft, LineCount
    <2> HIDE DEF n
    <2>2. n - 1 \in Nat \ {0} /\ n = (n - 1) + 1 /\ lineCursor \in 0 .. (n - 1) - 1
      BY <2>1, SMT
    <2> QED
      BY <2>1, <2>2 DEF n
  <1>5. source \in Seq(Byte) /\ Len(source) = options.fileSize
    BY <1>1, PoolAssumption DEF PoolInvariant, SourceKept, LinesFormed
  <1> QED
    BY <1>1, <1>2, <1>3, <1>4, <1>5, BlockAtHand DEF LinesWhole, FileIsTrue, BufferIsTrue

\* Where a line of the block at hand begins and ends in the buffer.
LEMMA LineInBuffer ==
    ASSUME LinesInvariant, LinesLeft, NEW index \in 0 .. LineCount - 1
    PROVE  LET from == offsets[index + 1]
               to   == offsets[index + 2]
           IN  /\ from \in Nat \ {0} /\ to \in Nat /\ from < to /\ to <= Len(buffer)
               /\ from < OwnedEnd
               /\ At(buffer, from - 1) = LF /\ At(buffer, to - 1) = LF
               /\ Feedless(buffer, from, to - 1)
               /\ TextEnd(buffer, to) - from <= options.maxLineBytes
               /\ At(buffer, to - 2) = CR => cr = TRUE
               /\ Terminated(buffer, source, ReadOffset, to)
  <1>1. /\ LinesWhole /\ options \in ValidOptions
        /\ buffer \in Seq(Byte) /\ offsets \in Seq(Nat)
        /\ LineCount \in Nat \ {0} /\ Len(offsets) = LineCount + 1
        /\ Len(source) = options.fileSize /\ block # NoBlock
    BY LinesAtHand
  <1>2. /\ CutsLines(buffer, offsets) /\ HintCovers(buffer, offsets, cr) /\ TextsFit(buffer, offsets)
        /\ offsets[LineCount] < OwnedEnd
        /\ OwnedEnd <= offsets[LineCount + 1]
        /\ Terminated(buffer, source, ReadOffset, offsets[LineCount + 1])
    BY <1>1 DEF LinesWhole, LinesCut
  <1> DEFINE n    == LineCount
             size == Len(offsets)
             i    == index + 1
             from == offsets[i]
             to   == offsets[i + 1]
  <1>3. n \in Nat \ {0} /\ size = n + 1 /\ i \in 1 .. n /\ i + 1 = index + 2
    BY <1>1, SMT
  <1>4. i \in 1 .. size - 1
    BY <1>3, SMT
  <1>5. /\ from \in Nat \ {0} /\ to \in Nat /\ from < to /\ to <= Len(buffer)
        /\ At(buffer, from - 1) = LF /\ At(buffer, to - 1) = LF
        /\ Feedless(buffer, from, to - 1)
    BY <1>1, <1>2, <1>4, FitsWithinLimit
  <1>6. TextEnd(buffer, to) - from <= options.maxLineBytes
    BY <1>2, <1>4 DEF TextsFit
  <1>7. At(buffer, to - 2) = CR => cr = TRUE
    <2>1. i + 1 \in 2 .. size
      BY <1>3, SMT
    <2> QED
      BY <1>2, <2>1 DEF HintCovers
  <1>8. offsets[n] \in Nat /\ from <= offsets[n]
    <2>1. i \in 1 .. size /\ n \in 1 .. size /\ n \in DOMAIN offsets
      BY <1>1, <1>3, SMT
    <2>2. offsets[n] \in Nat
      BY <1>1, <2>1
    <2>3. CASE i = n
      BY <2>2, <2>3, <1>5, SMT
    <2>4. CASE i < n
      <3>1. from < offsets[n]
        BY <1>2, <2>1, <2>4 DEF CutsLines
      <3> QED
        BY <1>5, <2>2, <3>1, SMT
    <2> QED
      BY <1>3, <2>3, <2>4, SMT
  <1>9. from < OwnedEnd
    <2>1. OwnedEnd \in Nat
      BY <1>1, OwnedBytes DEF LinesInvariant
    <2> QED
      BY <1>2, <1>5, <1>8, <2>1, SMT
  <1>10. Terminated(buffer, source, ReadOffset, to)
    <2>1. CASE i = n
      BY <1>2, <2>1
    <2>2. CASE i < n
      <3>1. i + 1 \in 1 .. size /\ n \in 1 .. size
        BY <1>3, <2>2, SMT
      <3>2. to <= offsets[n]
        <4>1. CASE i + 1 = n
          BY <1>8, <4>1, SMT
        <4>2. CASE i + 1 < n
          <5>1. to < offsets[n]
            BY <1>2, <3>1, <4>2 DEF CutsLines
          <5> QED
            BY <1>5, <1>8, <5>1, SMT
        <4> QED
          BY <1>3, <2>2, <4>1, <4>2, SMT
      <3>3. /\ OwnedEnd \in Nat /\ ReadOffset \in Int
            /\ ReadOffset + OwnedEnd = Lesser((block + 1) * options.blockBytes, options.fileSize)
            /\ block \in Nat /\ options.blockBytes \in Nat /\ options.fileSize \in Nat
        BY <1>1, OwnedBytes, SMT DEF LinesInvariant
      <3>4. ReadOffset + OwnedEnd <= options.fileSize
        <4> DEFINE p == (block + 1) * options.blockBytes
        <4>1. block + 1 \in Nat
          BY <3>3, SMT
        <4>2. p \in Nat
          BY <3>3, <4>1, BlockProduct
        <4> HIDE DEF p
        <4>3. Lesser(p, options.fileSize) <= options.fileSize
          BY <3>3, <4>2, SMT DEF Lesser
        <4> QED
          BY <3>3, <4>3 DEF p
      <3> DEFINE r == ReadOffset
                 t == to
                 l == offsets[n]
                 f == options.fileSize
      <3>5. /\ r \in Int /\ t \in Nat /\ l \in Nat /\ f \in Nat /\ OwnedEnd \in Nat
            /\ t <= l /\ l < OwnedEnd /\ r + OwnedEnd <= f
        BY <1>2, <1>5, <1>8, <3>2, <3>3, <3>4
      <3> HIDE DEF r, t, l, f
      <3>6. ~ (r + t > f)
        BY <3>5, SMT
      <3>7. ~ (ReadOffset + to > Len(source))
        BY <1>1, <3>6 DEF r, t, f
      <3> QED
        BY <3>7 DEF Terminated
    <2> QED
      BY <1>3, <2>1, <2>2, SMT
  <1> QED
    BY <1>3, <1>5, <1>6, <1>7, <1>9, <1>10

-----------------------------------------------------------------------------
(* The lines returned.                                                     *)

Line == [start : Nat, text : Seq(Byte)]

BlockOf(line) == line.start \div options.blockBytes

\* A line the pool returns begins in the block at hand, is not too long, is the
\* same in a batch and, while the bytes of the file are its own, is one of them.
LEMMA ServedLine ==
    ASSUME LinesInvariant, LinesLeft, NEW index \in 0 .. LineCount - 1
    PROVE  /\ LineAt(index) \in Line
           /\ LineAt(index).start = ReadOffset + offsets[index + 1]
           /\ Len(LineAt(index).text) <= options.maxLineBytes
           /\ BatchLineAt(index) = LineAt(index)
           /\ BlockOf(LineAt(index)) = block
           /\ disk.intact => LineAt(index) \in Lines(source)
  <1> DEFINE from == offsets[index + 1]
             to   == offsets[index + 2]
             text == Slice(buffer, from, TextEnd(buffer, to))
             line == LineAt(index)
  <1>1. /\ options \in ValidOptions /\ block # NoBlock /\ PoolInvariant
        /\ buffer \in Seq(Byte) /\ cr \in BOOLEAN
        /\ source \in Seq(Byte) /\ Len(source) = options.fileSize
        /\ disk.intact => HoldsFile(buffer, source, ReadOffset)
    BY LinesAtHand DEF LinesInvariant
  <1>2. /\ from \in Nat \ {0} /\ to \in Nat /\ from < to /\ to <= Len(buffer)
        /\ from < OwnedEnd
        /\ At(buffer, from - 1) = LF /\ At(buffer, to - 1) = LF
        /\ Feedless(buffer, from, to - 1)
        /\ TextEnd(buffer, to) - from <= options.maxLineBytes
        /\ At(buffer, to - 2) = CR => cr = TRUE
        /\ Terminated(buffer, source, ReadOffset, to)
    BY LineInBuffer
  <1> HIDE DEF from, to
  <1>3. /\ TextEnd(buffer, to) \in from .. to - 1
        /\ Trimmed(Slice(buffer, from, to), cr) = text
        /\ BatchTrimmed(buffer, from, to) = text
    BY <1>1, <1>2, TextOfLine
  <1>4. line = [start |-> ReadOffset + from, text |-> text]
    BY <1>3 DEF LineAt, from, to
  <1>5. BatchLineAt(index) = line
    BY <1>3, <1>4 DEF BatchLineAt, from, to
  <1>6. text \in Seq(Byte) /\ Len(text) = TextEnd(buffer, to) - from
    <2>1. TextEnd(buffer, to) \in Nat /\ from \in Nat /\ from <= TextEnd(buffer, to)
      BY <1>2, <1>3, SMT
    <2>2. TextEnd(buffer, to) <= Len(buffer)
      <3> DEFINE e == TextEnd(buffer, to)
                 n == Len(buffer)
      <3>1. e \in from .. to - 1 /\ to <= n /\ n \in Nat
        BY <1>1, <1>2, <1>3
      <3> HIDE DEF e, n
      <3>2. e <= n
        BY <1>2, <3>1, SMT
      <3> QED
        BY <3>2 DEF e, n
    <2> QED
      BY <1>1, <2>1, <2>2, PartOfBytes
  <1> DEFINE size  == options.blockBytes
             begin == block * size
             start == ReadOffset + from
  <1>7. /\ size \in Nat \ {0} /\ options.fileSize \in Nat /\ block \in Nat
        /\ ReadOffset = begin - 1 /\ OwnedEnd \in Nat
        /\ ReadOffset + OwnedEnd = Lesser((block + 1) * size, options.fileSize)
    BY <1>1, OwnedBytes, SMT
  <1>8. begin \in Nat /\ (block + 1) * size = begin + size
    BY <1>7, BlockProduct
  <1> HIDE DEF begin, size
  <1>9. start \in Nat /\ begin <= start /\ start < begin + size /\ start < options.fileSize
    BY <1>2, <1>7, <1>8, SMT DEF Lesser
  <1>10. start \div size = block
    BY <1>7, <1>9, BlockOfPosition DEF begin
  <1>11. disk.intact => line \in Lines(source)
    <2> SUFFICES ASSUME disk.intact
                 PROVE  line \in Lines(source)
      OBVIOUS
    <2>1. ReadOffset \in Int /\ -1 <= ReadOffset /\ ReadOffset + from < Len(source)
      BY <1>1, <1>7, <1>8, <1>9, SMT
    <2>2. /\ ReadOffset + from \in LineStarts(source)
          /\ LineText(source, ReadOffset + from) = Slice(buffer, from, TextEnd(buffer, to))
      BY <1>1, <1>2, <2>1, LineInFile
    <2> QED
      BY <1>4, <2>2 DEF Lines
  <1> QED
    BY <1>2, <1>4, <1>5, <1>6, <1>9, <1>10, <1>11 DEF BlockOf, Line, size, from

-----------------------------------------------------------------------------
(* The order in which the lines of a block are returned.                   *)

\* The line of the block at hand that is returned as the k-th, from 0.
Ordered(k) ==
    LET order == LineOrder(LineCount)
    IN  (order.first + k * order.step) % LineCount

\* The k-th line is one of the block.
LEMMA OrderedInRange ==
    ASSUME LinesInvariant, LinesLeft
    PROVE  /\ LineOrder(LineCount).step \in 0 .. LineCount
           /\ LineOrder(LineCount).first \in 0 .. LineCount - 1
           /\ \A k \in Nat : Ordered(k) \in 0 .. LineCount - 1
           /\ \A k, m \in Nat :
                (Ordered(k) + m * LineOrder(LineCount).step) % LineCount = Ordered(k + m)
  <1> DEFINE n     == LineCount
             step  == LineOrder(n).step
             first == LineOrder(n).first
  <1>1. options \in ValidOptions /\ n \in Nat \ {0} /\ block # NoBlock /\ PoolInvariant
    BY LinesAtHand DEF LinesInvariant
  <1>2. cycle \in Nat /\ block \in 0 .. BlockCount(options) - 1
    BY <1>1, BlockAtHand, OpenedPool DEF PoolInvariant, Invariant
  <1>3. step \in 0 .. n /\ first \in 0 .. n - 1
    BY <1>1, <1>2, LineOrderInRange
  <1>4. \A k : Ordered(k) = (first + k * step) % n
    BY DEF Ordered
  <1> HIDE DEF n, step, first
  <1>5. ASSUME NEW k \in Nat
        PROVE  first + k * step \in Int /\ Ordered(k) \in 0 .. n - 1
    <2>1. step \in Nat /\ first \in Nat
      BY <1>1, <1>3, SMT
    <2>2. k * step \in Nat
      BY <2>1, BlockProduct
    <2>3. first + k * step \in Int
      BY <2>1, <2>2, SMT
    <2> QED
      BY <1>1, <1>4, <2>3, DivisionFacts
  <1>6. ASSUME NEW k \in Nat, NEW m \in Nat
        PROVE  (Ordered(k) + m * step) % n = Ordered(k + m)
    <2>1. step \in Nat /\ first \in Nat
      BY <1>1, <1>3, SMT
    <2> DEFINE p == k * step
               q == m * step
    <2>2. p \in Nat /\ q \in Nat /\ k + m \in Nat
      BY <2>1, BlockProduct, SMT
    <2>3. (k + m) * step = p + q
      BY <2>1, SMT
    <2>4. Ordered(k) = (first + p) % n /\ Ordered(k + m) = (first + (k + m) * step) % n
      BY <1>4
    <2> HIDE DEF p, q
    <2>5. first + p \in Int /\ q \in Int /\ (first + p) + q = first + (p + q)
      BY <2>1, <2>2, SMT
    <2>6. (((first + p) % n) + (q % n)) % n = ((first + p) + q) % n
      BY <1>1, <2>5, SumRemainder
    <2>7. ((((first + p) % n) % n) + (q % n)) % n = (((first + p) % n) + q) % n
      <3>1. (first + p) % n \in Int
        BY <1>1, <2>5, DivisionFacts
      <3> QED
        BY <1>1, <2>5, <3>1, SumRemainder
    <2>8. ((first + p) % n) % n = (first + p) % n
      <3> DEFINE r == (first + p) % n
      <3>1. r \in 0 .. n - 1
        BY <1>1, <2>5, DivisionFacts
      <3> HIDE DEF r
      <3>2. r \in Nat /\ r < n /\ n \in Nat
        BY <1>1, <3>1, SMT
      <3>3. r % n = r
        BY <3>2, SmallRemainder
      <3> QED
        BY <3>3 DEF r
    <2> QED
      BY <2>3, <2>4, <2>5, <2>6, <2>7, <2>8 DEF q
  <1> QED
    BY <1>3, <1>5, <1>6 DEF n, step, first

\* Every line of the block is the k-th for exactly one k, and in a sequential
\* pool for its own index.
LEMMA OrderIsPermutation ==
    ASSUME LinesInvariant, LinesLeft
    PROVE  /\ \A i, j \in 0 .. LineCount - 1 : Ordered(i) = Ordered(j) => i = j
           /\ \A r \in 0 .. LineCount - 1 : \E k \in 0 .. LineCount - 1 : Ordered(k) = r
           /\ options.mode = "ModeSequential" => \A k \in 0 .. LineCount - 1 : Ordered(k) = k
  <1> DEFINE n    == LineCount
             seed == Mix(CycleSeed(options, cycle), block)
  <1>1. options \in ValidOptions /\ n \in Nat \ {0} /\ block # NoBlock /\ PoolInvariant
    BY LinesAtHand DEF LinesInvariant
  <1>2. cycle \in Nat /\ block \in 0 .. BlockCount(options) - 1
    BY <1>1, BlockAtHand, OpenedPool DEF PoolInvariant, Invariant
  <1>3. CASE options.mode = "ModeSequential"
    <2>1. \A k \in 0 .. n - 1 : Ordered(k) = k
      <3> SUFFICES ASSUME NEW k \in 0 .. n - 1
                   PROVE  Ordered(k) = k
        OBVIOUS
      <3>1. Ordered(k) = (0 + k * 1) % n
        BY <1>3 DEF Ordered, LineOrder
      <3> HIDE DEF n
      <3>2. 0 + k * 1 = k /\ k \in Nat /\ n \in Nat /\ k < n
        BY <1>1, SMT
      <3> QED
        BY <3>1, <3>2, SmallRemainder
    <2> HIDE DEF n
    <2> QED
      BY <2>1 DEF n
  <1>4. CASE options.mode # "ModeSequential" /\ n = 1
    <2>1. \A k \in 0 .. n - 1 : k = 0
      <3> HIDE DEF n
      <3> QED
        BY <1>4, SMT
    <2>2. 0 \in 0 .. n - 1 /\ Ordered(0) \in 0 .. n - 1
      <3>1. 0 \in 0 .. n - 1
        <4> HIDE DEF n
        <4> QED
          BY <1>1, SMT
      <3> QED
        BY <3>1, OrderedInRange
    <2> QED
      BY <1>4, <2>1, <2>2
  <1>5. CASE options.mode # "ModeSequential" /\ n # 1
    <2>1. n \in Nat \ {0, 1}
      BY <1>1, <1>5
    <2>2. seed \in Words
      <3>1. CycleSeed(options, cycle) \in Words
        BY <1>1, <1>2, CycleSeedIsWord
      <3>2. block \in Words
        <4>1. BlockCount(options) \in Nat /\ BlockCount(options) < WordSize
          BY <1>1, LayoutFacts
        <4> QED
          BY <1>2, <4>1, WordAssumption, SMT DEF Words
      <3> QED
        BY <3>1, <3>2, MixAssumption
    <2>3. PermutationStep(n, seed) \in Nat
      BY <2>1, <2>2, PermutationStepIsCoprime, SMT
    <2>4. \A k \in 0 .. n - 1 :
             Ordered(k) = (PermutationFirst(n, seed) + PermutationStep(n, seed) * k) % n
      <3> SUFFICES ASSUME NEW k \in 0 .. n - 1
                   PROVE  Ordered(k) = (PermutationFirst(n, seed) + PermutationStep(n, seed) * k) % n
        OBVIOUS
      <3>1. Ordered(k) = (PermutationFirst(n, seed) + k * PermutationStep(n, seed)) % n
        BY <1>5 DEF Ordered, LineOrder
      <3>2. k * PermutationStep(n, seed) = PermutationStep(n, seed) * k
        <4> DEFINE s == PermutationStep(n, seed)
        <4> HIDE DEF s, n
        <4> QED
          BY <2>1, <2>3, SMT DEF s
      <3> QED
        BY <3>1, <3>2
    <2> HIDE DEF n, seed
    <2>5. \A i, j \in 0 .. n - 1 : Ordered(i) = Ordered(j) => i = j
      BY <2>1, <2>2, <2>4, PermutationIsInjective
    <2>6. \A r \in 0 .. n - 1 : \E k \in 0 .. n - 1 : Ordered(k) = r
      BY <2>1, <2>2, <2>4, PermutationIsSurjective
    <2> QED
      BY <1>5, <2>5, <2>6 DEF n
  <1> QED
    BY <1>3, <1>4, <1>5

-----------------------------------------------------------------------------
(* The inductive invariant: what was returned.                             *)

\* The lines returned in this cycle, as indices of history.
InCycle == cycleStartCursor + 1 .. Len(history)

Reading == pc \in {"read", "extend"}

HistoryTyped == history \in Seq(Line) /\ cursor = Len(history)

\* What was returned comes from blocks that were taken.
TakenKept ==
    /\ block # NoBlock => block \in taken
    /\ \A i \in InCycle : BlockOf(history[i]) \in taken

\* Nothing was returned of a block that is being read.
FreshBlock == Reading => \A i \in InCycle : BlockOf(history[i]) # block

\* The place among the lines of the block at hand agrees with how many of them
\* were returned, and so do the lines returned.
OrderKept ==
    LinesLeft =>
        /\ lineStep = LineOrder(LineCount).step
        /\ nextLine = Ordered(lineCursor)
        /\ \A i \in InCycle : BlockOf(history[i]) = block =>
             \E k \in 0 .. lineCursor - 1 : history[i].start = ReadOffset + offsets[Ordered(k) + 1]

StartsDiffer ==
    \A i, j \in InCycle : i < j => history[i].start # history[j].start

InFileOrder ==
    options.mode = "ModeSequential" =>
        /\ \A i, j \in InCycle : i < j => history[i].start < history[j].start
        /\ Reading \/ LinesLeft => \A i \in InCycle : BlockOf(history[i]) <= block

TextsKept == \A i \in DOMAIN history : Len(history[i].text) <= options.maxLineBytes

OwnLines == disk.intact => \A i \in InCycle : history[i] \in Lines(source)

HistoryKept ==
    /\ HistoryTyped
    /\ TakenKept
    /\ FreshBlock
    /\ OrderKept
    /\ StartsDiffer
    /\ InFileOrder
    /\ TextsKept
    /\ OwnLines

HistoryInvariant == LinesInvariant /\ OverIsIdle /\ HistoryKept

-----------------------------------------------------------------------------
(* What a step does to the lines returned and to those left.               *)

\* The file stays the one that was opened.
SameFile == UNCHANGED <<options, source>> /\ (disk'.intact => disk.intact)

\* Nothing is returned and no block is taken.
StandsStill ==
    /\ SameFile
    /\ UNCHANGED <<cursor, cycleStartCursor, history, cycle, block, taken>>
    /\ LinesLeft' => LinesLeft /\ UNCHANGED lineVars
    /\ Reading' => Reading

\* The lines of the block being read are found.
FindsLines ==
    /\ Reading
    /\ SameFile
    /\ UNCHANGED <<cursor, cycleStartCursor, history, cycle, block, taken>>
    /\ pc' = "serve"
    /\ lineCursor' = 0
    /\ lineStep' = LineOrder(LineCount').step
    /\ nextLine' = LineOrder(LineCount').first

TakesBlock ==
    /\ pc = "walk" /\ pc' = "read"
    /\ SameFile
    /\ UNCHANGED <<cursor, cycleStartCursor, history, cycle>>
    /\ TakeBlock

\* A cycle begins, or iteration does.
StartsOver ==
    /\ SameFile
    /\ \/ UNCHANGED <<cursor, history>> /\ cycleStartCursor' = cursor
       \/ cursor' = 0 /\ history' = <<>> /\ cycleStartCursor' = 0
    /\ block' = NoBlock /\ taken' = {}
    /\ ~ LinesLeft' /\ ~ Reading'

\* So many lines of the block at hand, from the one to return next on.
LinesFrom(first, n) == [k \in 1 .. n |-> LineAt(Ordered(first + k - 1))]

ServesLines(n) ==
    /\ LinesLeft
    /\ n \in 1 .. LineCount - lineCursor
    /\ history' = history \o LinesFrom(lineCursor, n)
    /\ cursor' = cursor + n
    /\ UNCHANGED <<options, source, disk, cycleStartCursor, cycle, block, taken>>
    /\ ~ Reading'
    /\ LinesLeft' => /\ UNCHANGED <<buffer, offsets, cr, lineStep>>
                     /\ lineCursor' = lineCursor + n
                     /\ nextLine' = Ordered(lineCursor + n)
    /\ ~ LinesLeft' => n = LineCount - lineCursor

ReturnsLines == \E n \in Nat : ServesLines(n)

\* Calls, and steps of the walk that neither take a block nor start a cycle.
LEMMA WalkStandsStill ==
    ASSUME HistoryInvariant, NEW c \in Callers,
           \/ \E operation \in Operations : Call(c, operation)
           \/ EnterNext(c) \/ WalkSkip(c) \/ WalkEnterRegion(c)
           \/ WalkCheckFails(c) \/ WalkEnds(c)
    PROVE  StandsStill
  <1>1. PoolInvariant /\ LinesFormed
    BY DEF HistoryInvariant, LinesInvariant
  <1>2. ASSUME NEW operation \in Operations, Call(c, operation)
        PROVE  StandsStill
    <2>1. UNCHANGED <<cursorVars, source, disk, lineVars, countVars, pc, terminal>>
      BY <1>2 DEF Call, fileVars
    <2>2. LinesLeft' <=> LinesLeft
      BY <2>1 DEF LinesLeft, LineCount, lineVars
    <2> QED
      BY <2>1, <2>2 DEF StandsStill, SameFile, Reading, cursorVars, countVars, historyVars
  <1>3. CASE EnterNext(c)
    <2>1. /\ UNCHANGED <<cursorVars, source, disk, lineVars, countVars, terminal>>
          /\ pc' \in {"idle", "walk", "serve"}
          /\ pc = "idle"
      BY <1>1, <1>3 DEF EnterNext, fileVars, Return, Acquires, PoolInvariant, StageKept
    <2>2. LinesLeft' => LinesLeft
      BY <2>1 DEF LinesLeft, LineCount, lineVars
    <2> QED
      BY <2>1, <2>2 DEF StandsStill, SameFile, Reading, cursorVars, countVars, historyVars
  <1>4. CASE WalkSkip(c) \/ WalkEnterRegion(c)
    <2>1. /\ UNCHANGED <<options, cycle, block, taken, source, disk, lineVars, countVars, terminal, pc>>
          /\ pc = "walk"
      <3>1. CASE WalkSkip(c)
        BY <3>1 DEF WalkSkip, SkipBlock, callVars, fileVars
      <3>2. CASE WalkEnterRegion(c)
        BY <3>2 DEF WalkEnterRegion, EnterRegion, callVars, historyVars, fileVars
      <3> QED
        BY <1>4, <3>1, <3>2
    <2>2. LinesLeft' => LinesLeft
      BY <2>1 DEF LinesLeft, LineCount, lineVars
    <2> QED
      BY <2>1, <2>2 DEF StandsStill, SameFile, Reading, countVars
  <1>5. CASE WalkCheckFails(c) \/ WalkEnds(c)
    <2>1. /\ UNCHANGED <<cursorVars, source, disk, lineVars, countVars>>
          /\ pc' = "idle"
          /\ terminal' \in Errors
      <3>1. CASE WalkCheckFails(c)
        BY <3>1 DEF WalkCheckFails, Fail, Return, fileVars
      <3>2. CASE WalkEnds(c)
        BY <3>2 DEF WalkEnds, Fail, Return, fileVars, Errors
      <3> QED
        BY <1>5, <3>1, <3>2
    <2>2. ~ LinesLeft'
      BY <2>1, ErrorsAreErrors DEF LinesLeft
    <2> QED
      BY <2>1, <2>2 DEF StandsStill, SameFile, Reading, cursorVars, countVars, historyVars
  <1> QED
    BY <1>2, <1>3, <1>4, <1>5

\* A block is taken, a cycle or iteration starts over.
LEMMA StartsAreStarts ==
    ASSUME HistoryInvariant, NEW c \in Callers
    PROVE  /\ WalkTake(c) => TakesBlock
           /\ WalkNextCycle(c) \/ Reset(c) => StartsOver
  <1>1. PoolInvariant /\ LinesFormed
    BY DEF HistoryInvariant, LinesInvariant
  <1>2. ASSUME WalkTake(c)
        PROVE  TakesBlock
    BY <1>2 DEF WalkTake, Goto, TakesBlock, SameFile, fileVars, countVars, TakeBlock
  <1>3. ASSUME WalkNextCycle(c) \/ Reset(c)
        PROVE  StartsOver
    <2>1. /\ UNCHANGED <<options, source, disk>>
          /\ block' = NoBlock /\ taken' = {}
          /\ offsets' = <<>> /\ lineCursor' = 0
          /\ pc' \in {"walk", "idle"}
          /\ \/ UNCHANGED <<cursor, history>> /\ cycleStartCursor' = cursor
             \/ cursor' = 0 /\ history' = <<>> /\ cycleStartCursor' = 0
      <3>1. CASE WalkNextCycle(c)
        <4>1. pc' = "walk"
          BY <3>1 DEF WalkNextCycle, callVars
        <4> QED
          BY <3>1, <4>1 DEF WalkNextCycle, StartCycle, ForgetLines, fileVars
      <3>2. CASE Reset(c)
        <4>1. pc' = "idle"
          BY <3>2 DEF Reset, Return
        <4> QED
          BY <3>2, <4>1 DEF Reset, StartCycle, ForgetLines, fileVars
      <3> QED
        BY <1>3, <3>1, <3>2
    <2>2. LineCount' = -1
      <3>1. Len(offsets') = 0
        BY <2>1
      <3> QED
        BY <3>1, SMT DEF LineCount
    <2>3. ~ LinesLeft'
      BY <2>1, <2>2, SMT DEF LinesLeft
    <2> QED
      BY <2>1, <2>3 DEF StartsOver, SameFile, Reading
  <1> QED
    BY <1>2, <1>3

\* Failures, Close and changes of the file.
LEMMA FailingStandsStill ==
    ASSUME HistoryInvariant, NEW c,
           \/ ReadFails(c) \/ ShortReadEnds(c) \/ ExtendFails(c) \/ ResetFails(c)
           \/ Close(c) \/ ChangeSource \/ UNCHANGED poolVars
    PROVE  StandsStill
  <1>1. PoolInvariant /\ LinesFormed
    BY DEF HistoryInvariant, LinesInvariant
  <1>2. CASE ReadFails(c)
    <2>1. /\ UNCHANGED <<cursorVars, source, disk, countVars>>
          /\ pc = "read" /\ pc' \in {"short", "failed"}
      BY <1>2 DEF ReadFails, fileVars, Goto
    <2> QED
      BY <2>1 DEF StandsStill, SameFile, Reading, cursorVars, countVars, historyVars, LinesLeft
  <1>3. CASE ShortReadEnds(c) \/ ExtendFails(c) \/ ResetFails(c)
    <2>1. UNCHANGED <<cursorVars, source, disk, countVars>> /\ pc' = "idle"
      BY <1>3 DEF ShortReadEnds, ExtendFails, ResetFails, Extending, fileVars, Fail, Return
    <2>2. LinesLeft' => LinesLeft /\ UNCHANGED lineVars
      <3>1. CASE ShortReadEnds(c)
        <4>1. terminal' # NoError
          BY <3>1 DEF ShortReadEnds, Fail, NoError
        <4> QED
          BY <4>1 DEF LinesLeft
      <3>2. CASE ExtendFails(c)
        <4>1. terminal' # NoError
          BY <3>2 DEF ExtendFails, Fail, NoError
        <4> QED
          BY <4>1 DEF LinesLeft
      <3>3. CASE ResetFails(c)
        <4>1. UNCHANGED lineVars
          BY <3>3 DEF ResetFails
        <4>2. pc = "idle"
          BY <1>1, <3>3 DEF ResetFails, Acquires, PoolInvariant, StageKept
        <4>3. terminal' = terminal \/ terminal' \in Errors
          BY <3>3 DEF ResetFails
        <4> QED
          BY <4>1, <4>2, <4>3, ErrorsAreErrors DEF LinesLeft, LineCount, lineVars
      <3> QED
        BY <1>3, <3>1, <3>2, <3>3
    <2> QED
      BY <2>1, <2>2 DEF StandsStill, SameFile, Reading, cursorVars, countVars, historyVars
  <1>4. CASE Close(c)
    <2>1. /\ UNCHANGED <<cursorVars, source, disk, countVars, lineCursor>>
          /\ offsets' = <<>> /\ pc' = "idle"
      BY <1>4 DEF Close, fileVars, Return
    <2>2. LineCount' = -1
      <3>1. Len(offsets') = 0
        BY <2>1
      <3> QED
        BY <3>1, SMT DEF LineCount
    <2>3. ~ LinesLeft'
      <3>1. lineCursor' \in Nat
        BY <1>1, <2>1 DEF PoolInvariant, LinesKept
      <3> QED
        BY <2>2, <3>1, SMT DEF LinesLeft
    <2> QED
      BY <2>1, <2>3 DEF StandsStill, SameFile, Reading, cursorVars, countVars, historyVars
  <1>5. CASE ChangeSource
    <2>1. UNCHANGED <<cursorVars, source, lineVars, countVars, pc, terminal>>
      BY <1>5 DEF ChangeSource, callVars
    <2>2. disk'.intact => disk.intact
      <3>1. PICK bytes : ChangesTo(bytes)
        BY <1>5 DEF ChangeSource
      <3>2. PICK visible \in 0 .. 1 :
              disk' = [bytes   |-> bytes,
                       changes |-> disk.changes + 1,
                       visible |-> disk.visible + visible,
                       intact  |-> disk.intact /\ (IsPrefix(bytes, source) \/ IsPrefix(source, bytes))]
        BY <3>1 DEF ChangesTo
      <3> QED
        BY <3>2
    <2>3. LinesLeft' <=> LinesLeft
      BY <2>1 DEF LinesLeft, LineCount, lineVars
    <2> QED
      BY <2>1, <2>2, <2>3 DEF StandsStill, SameFile, Reading, cursorVars, countVars, historyVars
  <1>6. CASE UNCHANGED poolVars
    <2>1. UNCHANGED <<cursorVars, source, disk, lineVars, countVars, pc, terminal>>
      BY <1>6 DEF poolVars, fileVars, callVars
    <2>2. LinesLeft' <=> LinesLeft
      BY <2>1 DEF LinesLeft, LineCount, lineVars
    <2> QED
      BY <2>1, <2>2 DEF StandsStill, SameFile, Reading, cursorVars, countVars, historyVars
  <1> QED
    BY <1>2, <1>3, <1>4, <1>5, <1>6

\* A block is ready, or a line of it is too long.
LEMMA LinesFoundOrNot ==
    ASSUME NEW c, NEW bytes, NEW ends, Reading,
           UNCHANGED <<source, disk, countVars>>
    PROVE  /\ LineTooLong(c, bytes, ends) => StandsStill
           /\ \A hint : (LinesReady(bytes, ends, hint) /\ lineCursor' = 0
                           /\ UNCHANGED <<options, cycle, block, taken>>) => FindsLines
           /\ \A hint : (LineContinues(bytes, ends, hint) /\ lineCursor' = 0) => FindsLines
           /\ \A hint : (LineFeedFound(c, bytes, ends, hint) /\ lineCursor' = 0) =>
                            StandsStill \/ FindsLines
  <1>1. ASSUME LineTooLong(c, bytes, ends)
        PROVE  StandsStill
    <2>1. UNCHANGED cursorVars /\ pc' = "idle" /\ terminal' # NoError
      BY <1>1 DEF LineTooLong, Fail, Return, NoError
    <2>2. ~ LinesLeft'
      BY <2>1 DEF LinesLeft
    <2> QED
      BY <2>1, <2>2 DEF StandsStill, SameFile, Reading, cursorVars, countVars, historyVars
  <1>2. ASSUME NEW other, NEW hint, LinesReady(bytes, other, hint), lineCursor' = 0,
               UNCHANGED <<options, cycle, block, taken>>
        PROVE  FindsLines
    <2>1. offsets' = other /\ pc' = "serve"
          /\ lineStep' = LineOrder(Len(other) - 1).step
          /\ nextLine' = LineOrder(Len(other) - 1).first
      BY <1>2 DEF LinesReady, Goto
    <2>2. LineCount' = Len(other) - 1
      BY <2>1 DEF LineCount
    <2> QED
      BY <1>2, <2>1, <2>2 DEF FindsLines, SameFile, countVars
  <1>3. ASSUME NEW hint, LineContinues(bytes, ends, hint), lineCursor' = 0
        PROVE  FindsLines
    <2>1. /\ LinesReady(bytes, Append(ends, Len(bytes)), hint)
          /\ UNCHANGED <<options, cycle, block, taken>>
      BY <1>3 DEF LineContinues, ContinueLine, historyVars
    <2> QED
      BY <1>2, <1>3, <2>1
  <1>4. ASSUME NEW hint, LineFeedFound(c, bytes, ends, hint), lineCursor' = 0
        PROVE  StandsStill \/ FindsLines
    BY <1>1, <1>3, <1>4 DEF LineFeedFound
  <1> QED
    BY <1>1, <1>2, <1>3, <1>4

\* Reading a block finds its lines, an error or none.
LEMMA LoadingFindsOrNot ==
    ASSUME HistoryInvariant, NEW c \in Callers, Load(c)
    PROVE  StandsStill \/ FindsLines
  <1>1. CASE ReadFails(c) \/ ShortReadEnds(c) \/ ExtendFails(c)
    BY <1>1, FailingStandsStill
  <1>2. CASE ReadNoLine(c)
    <2>1. /\ UNCHANGED <<cursorVars, source, disk, countVars>>
          /\ offsets' = <<>> /\ pc' = "walk"
      BY <1>2 DEF ReadNoLine, ReadsBlock, fileVars, Goto
    <2>2. ~ LinesLeft' /\ ~ Reading'
      BY <2>1 DEF LinesLeft, Reading
    <2> QED
      BY <2>1, <2>2 DEF StandsStill, SameFile, cursorVars, countVars, historyVars
  <1>3. CASE ReadTooLong(c)
    <2> DEFINE bytes == Filled(ReadData)
    <2>1. /\ LineTooLong(c, bytes, BlockOffsets(bytes))
          /\ UNCHANGED <<source, disk, countVars>> /\ Reading
      BY <1>3 DEF ReadTooLong, ReadsBlock, fileVars, Reading
    <2> HIDE DEF bytes
    <2> QED
      BY <2>1, LinesFoundOrNot
  <1>4. CASE ReadWholeLines(c)
    <2> DEFINE bytes == Filled(ReadData)
               ends  == BlockOffsets(bytes)
    <2>1. PICK hint \in BOOLEAN :
            /\ IndexesBlock(c, bytes, ends, hint)
            /\ LinesReady(bytes, ends, hint)
            /\ UNCHANGED cursorVars
      BY <1>4 DEF ReadWholeLines
    <2> HIDE DEF bytes, ends
    <2>2. UNCHANGED <<source, disk, countVars>> /\ Reading /\ lineCursor' = 0
      BY <2>1 DEF IndexesBlock, ReadsBlock, fileVars, Reading
    <2>3. UNCHANGED <<options, cycle, block, taken>>
      BY <2>1 DEF cursorVars, historyVars
    <2> QED
      BY <2>1, <2>2, <2>3, LinesFoundOrNot
  <1>5. CASE ReadLastLine(c)
    <2> DEFINE bytes == Filled(ReadData)
               ends  == BlockOffsets(bytes)
               all   == bytes \o Terminator(bytes)
    <2>1. PICK hint \in BOOLEAN :
            /\ IndexesBlock(c, bytes, ends, hint)
            /\ IF TooLong(bytes, Last(ends), Len(bytes))
               THEN LineTooLong(c, bytes, ends)
               ELSE /\ LinesReady(all, Append(ends, Len(all)), hint \/ Last(bytes) = CR)
                    /\ UNCHANGED cursorVars
      BY <1>5 DEF ReadLastLine
    <2> DEFINE more == Append(ends, Len(all))
    <2> HIDE DEF bytes, ends, all, more
    <2>2. UNCHANGED <<source, disk, countVars>> /\ Reading /\ lineCursor' = 0
      BY <2>1 DEF IndexesBlock, ReadsBlock, fileVars, Reading
    <2>3. CASE LineTooLong(c, bytes, ends)
      BY <2>2, <2>3, LinesFoundOrNot
    <2>4. CASE LinesReady(all, more, hint \/ Last(bytes) = CR) /\ UNCHANGED cursorVars
      <3>1. UNCHANGED <<options, cycle, block, taken>>
        BY <2>4 DEF cursorVars, historyVars
      <3> QED
        BY <2>2, <2>4, <3>1, LinesFoundOrNot
    <2> QED
      BY <2>1, <2>3, <2>4 DEF more
  <1>6. CASE ReadOpenLine(c)
    <2> DEFINE bytes == Filled(ReadData)
               ends  == BlockOffsets(bytes)
               feeds == LineFeeds(bytes, ReadRange.ownershipEnd, ReadRange.readBytes)
               line  == Slice(bytes, 0, Min(feeds) + 1)
    <2>1. PICK hint \in BOOLEAN :
            /\ IndexesBlock(c, bytes, ends, hint)
            /\ \/ LineFeedFound(c, line, ends, hint)
               \/ pc' = "extend" /\ UNCHANGED cursorVars
      BY <1>6 DEF ReadOpenLine, Goto
    <2> HIDE DEF bytes, ends, line
    <2>2. UNCHANGED <<source, disk, countVars>> /\ Reading /\ lineCursor' = 0
      BY <2>1 DEF IndexesBlock, ReadsBlock, fileVars, Reading
    <2>3. CASE LineFeedFound(c, line, ends, hint)
      BY <2>2, <2>3, LinesFoundOrNot
    <2>4. CASE pc' = "extend" /\ UNCHANGED cursorVars
      <3>1. ~ LinesLeft'
        BY <2>4 DEF LinesLeft
      <3> QED
        BY <2>2, <2>4, <3>1 DEF StandsStill, SameFile, cursorVars, countVars, historyVars
    <2> QED
      BY <2>1, <2>3, <2>4
  <1>7. ASSUME Extending(c)
        PROVE  UNCHANGED <<source, disk, countVars>> /\ Reading /\ lineCursor' = 0
    <2>1. lineCursor = 0
      BY <1>7 DEF Extending, HistoryInvariant, LinesInvariant, PoolInvariant, StageKept
    <2> QED
      BY <1>7, <2>1 DEF Extending, fileVars, Reading
  <1>8. CASE ExtendTooLong(c)
    <2>1. LineTooLong(c, buffer, offsets) /\ Extending(c)
      BY <1>8 DEF ExtendTooLong
    <2> QED
      BY <1>7, <2>1, LinesFoundOrNot
  <1>9. CASE ExtendToEnd(c)
    <2> DEFINE all == buffer \o Terminator(buffer)
    <2>1. /\ Extending(c)
          /\ \/ LineTooLong(c, buffer, offsets)
             \/ LineContinues(all, offsets, cr \/ Last(buffer) = CR)
      BY <1>9 DEF ExtendToEnd
    <2> HIDE DEF all
    <2> QED
      BY <1>7, <2>1, LinesFoundOrNot
  <1>10. CASE ExtendRead(c)
    <2> DEFINE bytes == buffer \o ReadAt(disk.bytes, BufferEnd, ExtendLength)
               feeds == LineFeeds(bytes, Len(buffer), Len(bytes))
               line  == Slice(bytes, 0, Min(feeds) + 1)
    <2>1. /\ Extending(c)
          /\ \/ LineFeedFound(c, line, offsets, cr)
             \/ pc' \in {"extend", "short"} /\ UNCHANGED cursorVars
      BY <1>10 DEF ExtendRead, Goto
    <2> HIDE DEF line
    <2>2. CASE LineFeedFound(c, line, offsets, cr)
      BY <1>7, <2>1, <2>2, LinesFoundOrNot
    <2>3. CASE pc' \in {"extend", "short"} /\ UNCHANGED cursorVars
      <3>1. ~ LinesLeft'
        BY <2>3 DEF LinesLeft
      <3>2. UNCHANGED <<source, disk, countVars>> /\ Reading
        BY <1>7, <2>1
      <3> QED
        BY <2>3, <3>1, <3>2 DEF StandsStill, SameFile, cursorVars, countVars, historyVars
    <2> QED
      BY <2>1, <2>2, <2>3
  <1> QED
    BY <1>1, <1>2, <1>3, <1>4, <1>5, <1>6, <1>8, <1>9, <1>10 DEF Load

\* The index that nextLineLocked goes on to is that of the line after.
LEMMA FollowingIsOrdered ==
    ASSUME LinesInvariant, LinesLeft, OrderKept
    PROVE  Following = Ordered(lineCursor + 1)
  <1> DEFINE n    == LineCount
             step == lineStep
             sum  == nextLine + step
  <1>1. /\ n \in Nat \ {0} /\ lineCursor \in Nat
    BY LinesAtHand, SMT
  <1>2. step = LineOrder(n).step /\ nextLine = Ordered(lineCursor)
    BY DEF OrderKept
  <1>3. step \in 0 .. n /\ nextLine \in 0 .. n - 1
    BY <1>1, <1>2, OrderedInRange
  <1>4. Ordered(lineCursor + 1) = (nextLine + 1 * step) % n
    <2>1. 1 \in Nat
      BY SMT
    <2> QED
      BY <1>1, <1>2, <2>1, OrderedInRange
  <1>5. Following = IF nextLine < n - step THEN nextLine + step ELSE nextLine - (n - step)
    BY DEF Following
  <1> HIDE DEF n, step
  <1>6. 1 * step = step /\ sum \in Nat /\ n \in Nat
    BY <1>1, <1>3, SMT
  <1>7. CASE nextLine < n - step
    <2>1. sum < n
      BY <1>1, <1>3, <1>7, SMT
    <2>2. sum % n = sum
      BY <1>6, <2>1, SmallRemainder
    <2> QED
      BY <1>4, <1>5, <1>6, <1>7, <2>2
  <1>8. CASE ~ (nextLine < n - step)
    <2> DEFINE r == nextLine - (n - step)
    <2>1. r \in 0 .. n - 1 /\ sum \in Int /\ sum = n * 1 + r
      BY <1>1, <1>3, <1>8, SMT
    <2> HIDE DEF r, sum
    <2>2. 1 \in Int
      BY SMT
    <2>3. sum % n = r
      BY <1>1, <2>1, <2>2, RemainderUnique
    <2> QED
      BY <1>4, <1>5, <1>6, <1>8, <2>3 DEF r, sum
  <1> QED
    BY <1>7, <1>8

\* Next returns the line to return next, NextBatch all that are left.
LEMMA ServingReturnsLines ==
    ASSUME HistoryInvariant, NEW c \in Callers, ServeNext(c) \/ ServeBatch(c)
    PROVE  ReturnsLines
  <1>1. LinesInvariant /\ PoolInvariant /\ OrderKept
    BY DEF HistoryInvariant, LinesInvariant, HistoryKept
  <1>2. pc = "serve"
    BY DEF ServeNext, ServeBatch
  <1>3. LinesLeft
    BY <1>1, <1>2 DEF PoolInvariant, StageKept, LinesLeft
  <1>4. /\ LineCount \in Nat \ {0}
        /\ lineCursor \in 0 .. LineCount - 1
    BY <1>1, <1>3, LinesAtHand
  <1>5. lineStep = LineOrder(LineCount).step /\ nextLine = Ordered(lineCursor)
    BY <1>1, <1>3 DEF OrderKept
  <1>6. CASE ServeNext(c)
    <2>1. /\ UNCHANGED <<options, source, disk, cycleStartCursor, cycle, block, taken>>
          /\ UNCHANGED <<buffer, offsets, cr, lineStep, terminal>>
          /\ pc' = "idle" /\ lineCursor' = lineCursor + 1 /\ nextLine' = Following
          /\ history' = history \o <<LineAt(nextLine)>>
          /\ cursor' = cursor + Len(<<LineAt(nextLine)>>)
      BY <1>6 DEF ServeNext, Return, Returned, cursorVars, historyVars, fileVars
    <2>2. LinesFrom(lineCursor, 1) = <<LineAt(nextLine)>>
      <3>1. LinesFrom(lineCursor, 1) = [k \in 1 .. 1 |-> LineAt(nextLine)]
        <4>1. \A k \in 1 .. 1 : lineCursor + k - 1 = lineCursor
          BY <1>4, SMT
        <4> QED
          BY <1>5, <4>1 DEF LinesFrom
      <3> DEFINE line == LineAt(nextLine)
      <3> HIDE DEF line
      <3>2. [k \in 1 .. 1 |-> line] = <<line>>
        BY SMT
      <3> QED
        BY <3>1, <3>2 DEF line
    <2>3. Len(<<LineAt(nextLine)>>) = 1
      OBVIOUS
    <2>4. LineCount' = LineCount
      BY <2>1 DEF LineCount
    <2>5. 1 \in 1 .. LineCount - lineCursor /\ (~ LinesLeft' => 1 = LineCount - lineCursor)
      <3>1. LinesLeft' <=> lineCursor + 1 < LineCount
        BY <1>3, <2>1, <2>4 DEF LinesLeft
      <3> DEFINE n == LineCount
      <3> HIDE DEF n
      <3>2. 1 \in 1 .. n - lineCursor /\ (~ (lineCursor + 1 < n) => 1 = n - lineCursor)
        BY <1>4, SMT DEF n
      <3> QED
        BY <3>1, <3>2 DEF n
    <2>6. nextLine' = Ordered(lineCursor + 1)
      BY <1>1, <1>3, <2>1, FollowingIsOrdered
    <2>7. ServesLines(1)
      BY <1>3, <2>1, <2>2, <2>3, <2>5, <2>6 DEF ServesLines, Reading
    <2>8. 1 \in Nat
      BY SMT
    <2> QED
      BY <2>7, <2>8 DEF ReturnsLines
  <1>7. CASE ServeBatch(c)
    <2> DEFINE n == LineCount - lineCursor
               batch == [k \in 1 .. n |-> BatchLineAt((nextLine + (k - 1) * lineStep) % LineCount)]
    <2>1. /\ UNCHANGED <<options, source, disk, cycleStartCursor, cycle, block, taken>>
          /\ pc' = "idle" /\ offsets' = <<>> /\ lineCursor' = 0
          /\ history' = history \o batch
          /\ cursor' = cursor + Len(batch)
      BY <1>7 DEF ServeBatch, Return, Returned, GiveLines, cursorVars, historyVars, fileVars
    <2>2. n \in Nat /\ n \in 1 .. n
      BY <1>4, SMT
    <2>3. ASSUME NEW k \in 1 .. n
          PROVE  BatchLineAt((nextLine + (k - 1) * lineStep) % LineCount)
                   = LineAt(Ordered(lineCursor + k - 1))
      <3>1. k - 1 \in Nat /\ lineCursor \in Nat /\ lineCursor + (k - 1) = lineCursor + k - 1
        BY <1>4, <2>2, SMT
      <3>2. (nextLine + (k - 1) * lineStep) % LineCount = Ordered(lineCursor + (k - 1))
        BY <1>1, <1>3, <1>5, <3>1, OrderedInRange
      <3>3. lineCursor + (k - 1) \in Nat
        BY <3>1, SMT
      <3>4. Ordered(lineCursor + (k - 1)) \in 0 .. LineCount - 1
        BY <1>1, <1>3, <3>3, OrderedInRange
      <3>5. BatchLineAt(Ordered(lineCursor + (k - 1))) = LineAt(Ordered(lineCursor + (k - 1)))
        BY <1>1, <1>3, <3>4, ServedLine
      <3> QED
        BY <3>1, <3>2, <3>5
    <2>4. batch = LinesFrom(lineCursor, n)
      BY <2>3 DEF LinesFrom
    <2>5. Len(batch) = n
      <3> HIDE DEF n
      <3> QED
        BY <2>2
    <2>6. ~ LinesLeft'
      <3>1. Len(offsets') = 0
        BY <2>1
      <3>2. LineCount' = -1
        BY <3>1, SMT DEF LineCount
      <3> QED
        BY <2>1, <3>2, SMT DEF LinesLeft
    <2>7. ServesLines(n)
      BY <1>3, <2>1, <2>2, <2>4, <2>5, <2>6 DEF ServesLines, Reading
    <2> QED
      BY <2>2, <2>7 DEF ReturnsLines
  <1> QED
    BY <1>6, <1>7

\* So every step is of one of these kinds.
LEMMA StepKinds ==
    ASSUME HistoryInvariant, [Next]_poolVars
    PROVE  StandsStill \/ FindsLines \/ TakesBlock \/ StartsOver \/ ReturnsLines
  <1>1. ASSUME NEW c \in Callers, NEW operation \in Operations, Call(c, operation)
        PROVE  StandsStill
    BY <1>1, WalkStandsStill
  <1>2. ASSUME NEW c \in Callers, Enter(c)
        PROVE  StandsStill \/ StartsOver
    BY <1>2, WalkStandsStill, StartsAreStarts, FailingStandsStill DEF Enter
  <1>3. ASSUME NEW c \in Callers, Walk(c)
        PROVE  StandsStill \/ StartsOver \/ TakesBlock
    BY <1>3, WalkStandsStill, StartsAreStarts DEF Walk
  <1>4. ASSUME NEW c \in Callers, Load(c)
        PROVE  StandsStill \/ FindsLines
    BY <1>4, LoadingFindsOrNot
  <1>5. ASSUME NEW c \in Callers, Serve(c)
        PROVE  ReturnsLines
    BY <1>5, ServingReturnsLines DEF Serve
  <1>6. ASSUME ChangeSource \/ UNCHANGED poolVars
        PROVE  StandsStill
    BY <1>6, FailingStandsStill
  <1> QED
    BY <1>1, <1>2, <1>3, <1>4, <1>5, <1>6 DEF Next, Proceed

-----------------------------------------------------------------------------
(* Every step keeps what was returned in order.                            *)

\* The indices of a cycle are indices of history.
LEMMA CycleInHistory ==
    ASSUME PoolInvariant, HistoryTyped
    PROVE  /\ Len(history) \in Nat /\ cycleStartCursor \in 0 .. Len(history)
           /\ InCycle \subseteq 1 .. Len(history)
           /\ \A i \in InCycle : history[i] \in Line /\ i \in Nat
           /\ \A i \in 1 .. Len(history) : history[i] \in Line
  <1> DEFINE n == Len(history)
  <1>1. n \in Nat /\ history \in Seq(Line) /\ cursor = n
    BY DEF HistoryTyped
  <1>2. cycleStartCursor \in 0 .. n
    BY <1>1 DEF PoolInvariant, CountsKept
  <1>3. \A i \in 1 .. n : history[i] \in Line
    BY <1>1
  <1> HIDE DEF n
  <1>4. cycleStartCursor + 1 .. n \subseteq 1 .. n /\ 1 .. n \subseteq Nat
    BY <1>1, <1>2, SMT
  <1> QED
    BY <1>1, <1>2, <1>3, <1>4 DEF n, InCycle

LEMMA InitHistory == Init => HistoryKept
  <1> SUFFICES ASSUME Init
               PROVE  HistoryKept
    OBVIOUS
  <1>1. history = <<>> /\ cursor = 0 /\ cycleStartCursor = 0 /\ pc = "idle" /\ block = NoBlock
    BY DEF Init, CursorInit
  <1>2. Len(history) = 0 /\ history \in Seq(Line) /\ DOMAIN history = {}
    BY <1>1
  <1>3. InCycle = {}
    BY <1>1, <1>2, SMT DEF InCycle
  <1>4. ~ LinesLeft /\ ~ Reading
    <2>1. LineCount = -1 /\ lineCursor = 0
      BY SMT DEF Init, LineCount
    <2> QED
      BY <1>1, <2>1, SMT DEF LinesLeft, Reading
  <1> QED
    BY <1>1, <1>2, <1>3, <1>4
       DEF HistoryKept, HistoryTyped, TakenKept, FreshBlock, OrderKept, StartsDiffer, InFileOrder,
           TextsKept, OwnLines

\* A step that returns nothing and takes nothing.
LEMMA StandingKeeps ==
    ASSUME HistoryInvariant, StandsStill
    PROVE  HistoryKept'
  <1>1. /\ UNCHANGED <<options, source, cursor, cycleStartCursor, history, cycle, block, taken>>
        /\ disk'.intact => disk.intact
        /\ LinesLeft' => LinesLeft /\ UNCHANGED lineVars
        /\ Reading' => Reading
    BY DEF StandsStill, SameFile
  <1>2. InCycle' = InCycle /\ \A line : BlockOf(line)' = BlockOf(line)
    BY <1>1 DEF InCycle, BlockOf
  <1>3. HistoryTyped' /\ TakenKept' /\ FreshBlock' /\ StartsDiffer' /\ InFileOrder' /\ TextsKept' /\ OwnLines'
    BY <1>1, <1>2 DEF HistoryInvariant, HistoryKept, HistoryTyped, TakenKept, FreshBlock,
                      StartsDiffer, InFileOrder, TextsKept, OwnLines, BlockOf
  <1>4. OrderKept'
    <2> SUFFICES ASSUME LinesLeft'
                 PROVE  OrderKept'
      BY DEF OrderKept
    <2>1. LinesLeft /\ UNCHANGED lineVars
      BY <1>1
    <2>2. LineCount' = LineCount /\ ReadOffset' = ReadOffset
      BY <1>1, <2>1 DEF LineCount, ReadOffset, lineVars
    <2>3. \A n : LineOrder(n)' = LineOrder(n)
      BY <1>1 DEF LineOrder
    <2>4. \A k : Ordered(k)' = Ordered(k)
      BY <2>2, <2>3 DEF Ordered
    <2>5. LineOrder(LineCount)' = LineOrder(LineCount)
      BY <1>1, <2>2 DEF LineOrder
    <2>6. Ordered(lineCursor)' = Ordered(lineCursor)
      BY <1>1, <2>1, <2>2, <2>5 DEF Ordered, lineVars
    <2> QED
      BY <1>1, <1>2, <2>1, <2>2, <2>4, <2>5, <2>6
         DEF OrderKept, HistoryInvariant, HistoryKept, lineVars, BlockOf
  <1> QED
    BY <1>3, <1>4 DEF HistoryKept

OrderInRange ==
    /\ LineOrder(LineCount).first \in 0 .. LineCount - 1
    /\ LineOrder(LineCount).step \in 0 .. LineCount
    /\ LineCount \in Nat \ {0}

LEMMA OrderOfLines == LinesInvariant /\ LinesLeft => OrderInRange
  BY OrderedInRange, LinesAtHand DEF OrderInRange

\* The lines of a block are found: none of them was returned yet.
LEMMA FindingKeeps ==
    ASSUME HistoryInvariant, LinesInvariant', FindsLines
    PROVE  HistoryKept'
  <1>1. /\ UNCHANGED <<options, source, cursor, cycleStartCursor, history, cycle, block, taken>>
        /\ disk'.intact => disk.intact
        /\ Reading /\ pc' = "serve" /\ lineCursor' = 0
        /\ lineStep' = LineOrder(LineCount').step
        /\ nextLine' = LineOrder(LineCount').first
    BY DEF FindsLines, SameFile
  <1>2. InCycle' = InCycle /\ \A line : BlockOf(line)' = BlockOf(line)
    BY <1>1 DEF InCycle, BlockOf
  <1>3. HistoryTyped' /\ TakenKept' /\ FreshBlock' /\ StartsDiffer' /\ TextsKept' /\ OwnLines'
    BY <1>1, <1>2 DEF HistoryInvariant, HistoryKept, HistoryTyped, TakenKept, FreshBlock, Reading,
                      StartsDiffer, TextsKept, OwnLines, BlockOf
  <1>4. InFileOrder'
    BY <1>1, <1>2 DEF HistoryInvariant, HistoryKept, InFileOrder, BlockOf
  <1>5. OrderKept'
    <2> SUFFICES ASSUME LinesLeft'
                 PROVE  OrderKept'
      BY DEF OrderKept
    <2>1. LineOrder(LineCount)' = LineOrder(LineCount')
      BY <1>1 DEF LineOrder
    <2>3. OrderInRange'
      BY OrderOfLines, PTL
    <2> DEFINE n     == LineCount'
               first == LineOrder(LineCount)'.first
               step  == LineOrder(LineCount)'.step
    <2>4. Ordered(lineCursor)' = (first + lineCursor' * step) % n
      BY DEF Ordered
    <2> HIDE DEF n, first, step
    <2>5. first \in 0 .. n - 1 /\ step \in 0 .. n /\ n \in Nat \ {0}
      BY <2>3 DEF n, first, step, OrderInRange
    <2>6. first + 0 * step = first /\ first \in Nat /\ n \in Nat /\ first < n
      BY <2>5, SMT
    <2>7. Ordered(lineCursor)' = first
      BY <1>1, <2>4, <2>6, SmallRemainder
    <2>8. \A i \in InCycle' : BlockOf(history[i])' # block'
      BY <1>1, <1>2 DEF HistoryInvariant, HistoryKept, FreshBlock, BlockOf
    <2> QED
      BY <1>1, <2>1, <2>7, <2>8 DEF OrderKept, first
  <1> QED
    BY <1>3, <1>4, <1>5 DEF HistoryKept

\* A cycle starts with no line returned.
LEMMA StartingKeeps ==
    ASSUME HistoryInvariant, StartsOver
    PROVE  HistoryKept'
  <1>1. /\ UNCHANGED <<options, source>>
        /\ block' = NoBlock /\ ~ LinesLeft' /\ ~ Reading'
    BY DEF StartsOver, SameFile
  <1>2. history \in Seq(Line) /\ cursor = Len(history)
        /\ \A i \in DOMAIN history : Len(history[i].text) <= options.maxLineBytes
    BY DEF HistoryInvariant, HistoryKept, HistoryTyped, TextsKept
  <1>3. /\ history' \in Seq(Line) /\ cursor' = Len(history') /\ cycleStartCursor' = Len(history')
        /\ \A i \in DOMAIN history' : Len(history'[i].text) <= options.maxLineBytes
    <2>1. CASE UNCHANGED <<cursor, history>> /\ cycleStartCursor' = cursor
      BY <1>2, <2>1
    <2>2. CASE cursor' = 0 /\ history' = <<>> /\ cycleStartCursor' = 0
      <3>1. Len(history') = 0 /\ history' \in Seq(Line) /\ DOMAIN history' = {}
        BY <2>2
      <3> QED
        BY <2>2, <3>1
    <2> QED
      BY <2>1, <2>2 DEF StartsOver
  <1>4. InCycle' = {}
    <2>1. Len(history') \in Nat
      BY <1>3
    <2> DEFINE n == Len(history')
    <2>2. InCycle' = n + 1 .. n
      BY <1>3 DEF InCycle
    <2> HIDE DEF n
    <2>3. n \in Nat
      BY <2>1 DEF n
    <2> QED
      BY <2>2, <2>3, SMT
  <1> QED
    BY <1>1, <1>3, <1>4
       DEF HistoryKept, HistoryTyped, TakenKept, FreshBlock, OrderKept, StartsDiffer, InFileOrder,
           TextsKept, OwnLines

\* A sequential walk has passed only blocks in front of the one it comes to.
LEMMA SequentialWalk ==
    ASSUME Invariant, ~ RegionDone, options.mode = "ModeSequential"
    PROVE  \A b \in taken \cup skipped : b \in Nat /\ b < CurrentBlock
  <1>1. /\ regionCursor > 0
        /\ regionBlockNext \in 0 .. regionBlocks - 1
    BY PositionInRegion
  <1>2. /\ regionCursor - 1 \in 0 .. RegionsForShard(options) - 1
        /\ Entered \in 0 .. RegionCount(options) - 1
        /\ regionBlockBase = RegionBase(options, Entered)
        /\ taken \cup skipped = FirstBlocks(options, cycle, regionCursor - 1) \cup PassedInRegion
        /\ regionBlockBase \in Nat /\ regionBlocks \in Nat \ {0} /\ regionBlocks < WordSize
    BY <1>1, InRegion
  <1>3. \A k : ShardRegion(options, cycle, k) = k
    BY DEF ShardRegion
  <1>4. Entered = regionCursor - 1
    BY <1>3 DEF Entered
  <1>5. regionRotation = 0
    BY <1>1 DEF Invariant, OnSchedule, Rotation
  <1>6. options \in ValidOptions
    BY DEF Invariant, CursorTypeOK
  <1> DEFINE next == regionBlockNext
             size == regionBlocks
             base == regionBlockBase
  <1>7. ASSUME NEW j \in 0 .. size - 1
        PROVE  AddModulo(0, j, size) = j
    <2>1. 0 \in 0 .. size - 1 /\ j \in 0 .. size /\ j \in Nat /\ j < size /\ size \in Nat
      BY <1>2, <1>7, SMT
    <2>2. AddModulo(0, j, size) = (0 + j) % size
      BY <1>2, <2>1, AddModuloExact
    <2>3. 0 + j = j
      BY <2>1, SMT
    <2>4. j % size = j
      BY <2>1, SmallRemainder
    <2> QED
      BY <2>2, <2>3, <2>4
  <1>8. CurrentBlock = base + next
    BY <1>1, <1>5, <1>7 DEF CurrentBlock
  <1>9. \A b \in PassedInRegion : b \in Nat /\ b < base + next
    <2> SUFFICES ASSUME NEW j \in 0 .. next - 1
                 PROVE  base + AddModulo(0, j, size) \in Nat
                          /\ base + AddModulo(0, j, size) < base + next
      BY <1>5 DEF PassedInRegion
    <2>1. j \in 0 .. size - 1
      BY <1>1, <1>2, SMT
    <2>2. AddModulo(0, j, size) = j
      BY <1>7, <2>1
    <2> HIDE DEF base, next
    <2>3. base \in Nat /\ next \in Nat
      BY <1>1, <1>2, SMT DEF base, next
    <2> QED
      BY <2>2, <2>3, SMT
  <1>10. \A b \in FirstBlocks(options, cycle, regionCursor - 1) : b \in Nat /\ b < base + next
    <2> SUFFICES ASSUME NEW k \in 0 .. (regionCursor - 1) - 1,
                        NEW b \in RegionBlocksOf(options, k)
                 PROVE  b \in Nat /\ b < base + next
      BY <1>3 DEF FirstBlocks
    <2> DEFINE each   == BlocksPerRegion(options)
               first  == RegionBase(options, k)
               length == RegionLength(options, k)
               last   == regionCursor - 1
    <2>1. k \in 0 .. RegionCount(options) - 1
      <3>1. regionCursor - 1 \in 0 .. RegionCount(options) - 1 /\ RegionCount(options) \in Nat
        BY <1>2, <1>4, <1>6, LayoutFacts, SMT
      <3> QED
        BY <3>1, SMT
    <2>2. first \in Nat /\ length \in 1 .. each
      BY <1>6, <2>1, RegionLiesInFile
    <2>3. each \in Nat \ {0}
      BY <1>6, LayoutFacts
    <2>4. base = last * each /\ first = k * each
      BY <1>2, <1>4 DEF RegionBase
    <2>5. b \in first .. first + length - 1
      BY DEF RegionBlocksOf
    <2>6. last \in Nat /\ k + 1 \in Nat /\ k + 1 <= last /\ k \in Nat
      BY <1>2, SMT
    <2>7. each * (k + 1) <= each * last
      BY <2>3, <2>6, ProductOrder
    <2>8. each * (k + 1) = k * each + each /\ each * last = last * each
      <3> HIDE DEF each, last
      <3>1. each \in Nat /\ last \in Nat /\ k \in Nat
        BY <2>3, <2>6
      <3>2. each * last = last * each
        BY <3>1, SMT
      <3>3. each * (k + 1) = (k + 1) * each
        BY <3>1, SMT
      <3>4. (k + 1) * each = k * each + each
        BY <3>1, BlockProduct
      <3> QED
        BY <3>2, <3>3, <3>4
    <2>9. base \in Nat /\ next \in Nat
      BY <1>1, <1>2, SMT
    <2> HIDE DEF each, first, length, last, base, next
    <2>10. first + each <= base
      <3> DEFINE p == each * (k + 1)
                 q == each * last
      <3>1. p <= q /\ p = first + each /\ q = base
        BY <2>4, <2>7, <2>8
      <3> HIDE DEF p, q
      <3> QED
        BY <3>1
    <2> QED
      BY <2>2, <2>3, <2>5, <2>9, <2>10, SMT
  <1> QED
    BY <1>2, <1>8, <1>9, <1>10

\* The block taken is a new one.
LEMMA TakingKeeps ==
    ASSUME HistoryInvariant, TakesBlock
    PROVE  HistoryKept'
  <1>1. /\ UNCHANGED <<options, source, cursor, cycleStartCursor, history, cycle>>
        /\ disk'.intact => disk.intact
        /\ pc' = "read"
        /\ ~ RegionDone
        /\ block' = CurrentBlock /\ taken' = taken \cup {CurrentBlock}
    BY DEF TakesBlock, SameFile, TakeBlock
  <1>2. InCycle' = InCycle /\ \A line : BlockOf(line)' = BlockOf(line)
    BY <1>1 DEF InCycle, BlockOf
  <1>3. Invariant /\ \A i \in InCycle : BlockOf(history[i]) \in taken
    BY DEF HistoryInvariant, HistoryKept, LinesInvariant, PoolInvariant, TakenKept
  <1>4. CurrentBlock \notin taken
    BY <1>1, <1>3, InvariantGivesNewBlock DEF NextBlockIsNew
  <1>5. ~ LinesLeft'
    BY <1>1 DEF LinesLeft
  <1>6. HistoryTyped' /\ TakenKept' /\ StartsDiffer' /\ TextsKept' /\ OwnLines' /\ OrderKept'
    BY <1>1, <1>2, <1>5 DEF HistoryInvariant, HistoryKept, HistoryTyped, TakenKept,
                      StartsDiffer, TextsKept, OwnLines, BlockOf, OrderKept
  <1>7. FreshBlock'
    BY <1>1, <1>2, <1>3, <1>4 DEF FreshBlock, BlockOf
  <1>8. InFileOrder'
    <2> SUFFICES ASSUME options.mode = "ModeSequential"
                 PROVE  /\ \A i, j \in InCycle : i < j => history[i].start < history[j].start
                        /\ \A i \in InCycle : BlockOf(history[i]) <= CurrentBlock
      BY <1>1, <1>2 DEF InFileOrder, BlockOf
    <2>1. \A i, j \in InCycle : i < j => history[i].start < history[j].start
      BY DEF HistoryInvariant, HistoryKept, InFileOrder
    <2>2. \A i \in InCycle : BlockOf(history[i]) <= CurrentBlock
      <3>1. \A b \in taken : b \in Nat /\ b < CurrentBlock
        BY <1>1, <1>3, SequentialWalk
      <3>2. CurrentBlock \in Nat
        <4>1. CurrentBlock \in 0 .. BlockCount(options) - 1
          BY <1>1, <1>3, PositionInRegion
        <4> QED
          BY <4>1, SMT
      <3>3. \A b \in taken : b <= CurrentBlock
        BY <3>1, <3>2, SMT
      <3> QED
        BY <1>3, <3>3
    <2> QED
      BY <2>1, <2>2
  <1> QED
    BY <1>6, <1>7, <1>8 DEF HistoryKept

\* Where the k-th line of the block at hand starts.
StartOf(k) == ReadOffset + offsets[Ordered(k) + 1]

\* No two lines of a block start at one place; in a sequential pool they ascend.
LEMMA StartsOfBlock ==
    ASSUME LinesInvariant, LinesLeft
    PROVE  /\ \A k \in 0 .. LineCount - 1 : StartOf(k) \in Nat
           /\ \A k, m \in 0 .. LineCount - 1 : StartOf(k) = StartOf(m) => k = m
           /\ options.mode = "ModeSequential" =>
                \A k, m \in 0 .. LineCount - 1 : k < m => StartOf(k) < StartOf(m)
  <1> DEFINE n == LineCount
             o(r) == offsets[r + 1]
  <1>1. n \in Nat \ {0} /\ Len(offsets) = n + 1 /\ offsets \in Seq(Nat) /\ block # NoBlock
        /\ LinesWhole
    BY LinesAtHand
  <1>2. CutsLines(buffer, offsets)
    BY <1>1 DEF LinesWhole, LinesCut
  <1>3. ReadOffset \in Int
    BY <1>1, OwnedBytes DEF LinesInvariant
  <1> HIDE DEF n
  <1>4. \A r \in 0 .. n - 1 : r + 1 \in 1 .. Len(offsets)
    BY <1>1, SMT
  <1>5. \A r \in 0 .. n - 1 : o(r) \in Nat
    BY <1>1, <1>4
  <1>6. \A r, s \in 0 .. n - 1 : r < s => o(r) < o(s)
    <2> SUFFICES ASSUME NEW r \in 0 .. n - 1, NEW s \in 0 .. n - 1, r < s
                 PROVE  offsets[r + 1] < offsets[s + 1]
      OBVIOUS
    <2>1. r + 1 < s + 1
      BY <1>1, SMT
    <2> QED
      BY <1>2, <1>4, <2>1 DEF CutsLines
  <1> HIDE DEF o
  <1>7. \A k \in 0 .. n - 1 : k \in Nat /\ Ordered(k) \in 0 .. n - 1 /\ StartOf(k) = ReadOffset + o(Ordered(k))
    <2>1. \A k \in 0 .. n - 1 : k \in Nat
      BY <1>1, SMT
    <2> QED
      BY <2>1, OrderedInRange DEF StartOf, o, n
  <1>8. ASSUME NEW k \in 0 .. n - 1
        PROVE  StartOf(k) \in Nat
    <2>1. Ordered(k) \in 0 .. LineCount - 1
      BY <1>7 DEF n
    <2>2. LineAt(Ordered(k)) \in Line /\ LineAt(Ordered(k)).start = StartOf(k)
      BY <2>1, ServedLine DEF StartOf
    <2> QED
      BY <2>2 DEF Line
  <1>9. ASSUME NEW k \in 0 .. n - 1, NEW m \in 0 .. n - 1, StartOf(k) = StartOf(m)
        PROVE  k = m
    <2>1. o(Ordered(k)) = o(Ordered(m))
      <3> DEFINE a == o(Ordered(k))
                 b == o(Ordered(m))
      <3>1. a \in Nat /\ b \in Nat /\ ReadOffset + a = ReadOffset + b
        BY <1>5, <1>7, <1>9
      <3> HIDE DEF a, b
      <3>2. a = b
        BY <1>3, <3>1, SMT
      <3> QED
        BY <3>2 DEF a, b
    <2>2. Ordered(k) = Ordered(m)
      <3> DEFINE a == Ordered(k)
                 b == Ordered(m)
      <3>1. a \in 0 .. n - 1 /\ b \in 0 .. n - 1 /\ o(a) = o(b)
        BY <1>7, <2>1
      <3> HIDE DEF a, b
      <3>2. ~ (a < b) /\ ~ (b < a)
        <4>1. o(a) \in Nat /\ o(b) \in Nat
          BY <1>5, <3>1
        <4>2. ~ (o(a) < o(b)) /\ ~ (o(b) < o(a))
          BY <3>1, <4>1, SMT
        <4> QED
          BY <1>6, <3>1, <4>2
      <3>3. a = b
        BY <1>1, <3>1, <3>2, SMT
      <3> QED
        BY <3>3 DEF a, b
    <2> QED
      BY <2>2, OrderIsPermutation DEF n
  <1>10. ASSUME options.mode = "ModeSequential",
                NEW k \in 0 .. n - 1, NEW m \in 0 .. n - 1, k < m
         PROVE  StartOf(k) < StartOf(m)
    <2>1. Ordered(k) = k /\ Ordered(m) = m
      BY <1>10, OrderIsPermutation DEF n
    <2>2. StartOf(k) = ReadOffset + o(k) /\ StartOf(m) = ReadOffset + o(m)
      BY <1>7, <2>1
    <2> DEFINE a == o(k)
               b == o(m)
    <2>3. a \in Nat /\ b \in Nat /\ a < b
      BY <1>5, <1>6, <1>10
    <2> HIDE DEF a, b
    <2>4. ReadOffset + a < ReadOffset + b
      BY <1>3, <2>3, SMT
    <2> QED
      BY <2>2, <2>4 DEF a, b
  <1> QED
    BY <1>8, <1>9, <1>10 DEF n

\* What the history is after lines were returned.
LEMMA HistoryGrows ==
    ASSUME HistoryInvariant, NEW n \in Nat, ServesLines(n)
    PROVE  /\ history' \in Seq(Line) /\ Len(history') = Len(history) + n
           /\ \A i \in 1 .. Len(history) : history'[i] = history[i]
           /\ \A k \in 1 .. n :
                /\ lineCursor + k - 1 \in 0 .. LineCount - 1
                /\ history'[Len(history) + k] = LineAt(Ordered(lineCursor + k - 1))
                /\ LineAt(Ordered(lineCursor + k - 1)).start = StartOf(lineCursor + k - 1)
  <1>1. LinesInvariant /\ HistoryTyped /\ LinesLeft
    BY DEF HistoryInvariant, HistoryKept, ServesLines
  <1>2. LineCount \in Nat \ {0} /\ lineCursor \in 0 .. LineCount - 1
    BY <1>1, LinesAtHand
  <1>3. n \in 1 .. LineCount - lineCursor
    BY DEF ServesLines
  <1> DEFINE new == LinesFrom(lineCursor, n)
  <1>4. ASSUME NEW k \in 1 .. n
        PROVE  /\ lineCursor + k - 1 \in 0 .. LineCount - 1
               /\ Ordered(lineCursor + k - 1) \in 0 .. LineCount - 1
               /\ LineAt(Ordered(lineCursor + k - 1)) \in Line
               /\ LineAt(Ordered(lineCursor + k - 1)).start = StartOf(lineCursor + k - 1)
    <2> DEFINE m == lineCursor + k - 1
    <2>1. m \in 0 .. LineCount - 1 /\ m \in Nat
      BY <1>2, <1>3, <1>4, SMT
    <2> HIDE DEF m
    <2>2. Ordered(m) \in 0 .. LineCount - 1
      BY <1>1, <2>1, OrderedInRange
    <2>3. LineAt(Ordered(m)) \in Line /\ LineAt(Ordered(m)).start = StartOf(m)
      BY <1>1, <2>2, ServedLine DEF StartOf
    <2> QED
      BY <2>1, <2>2, <2>3 DEF m
  <1>5. new \in Seq(Line) /\ Len(new) = n
        /\ \A k \in 1 .. n : new[k] = LineAt(Ordered(lineCursor + k - 1))
    <2>1. new = [k \in 1 .. n |-> LineAt(Ordered(lineCursor + k - 1))]
      BY DEF LinesFrom
    <2>2. new \in [1 .. n -> Line]
      BY <1>4, <2>1
    <2> HIDE DEF new
    <2>3. new \in Seq(Line)
      BY <2>2, SeqDef
    <2>4. DOMAIN new = 1 .. n
      BY <2>2
    <2>5. Len(new) = n
      BY <2>3, <2>4, LenProperties
    <2> QED
      BY <2>1, <2>3, <2>5
  <1>6. history' = history \o new /\ history \in Seq(Line)
    BY <1>1 DEF ServesLines, HistoryTyped
  <1> HIDE DEF new
  <1>7. /\ history \o new \in Seq(Line)
        /\ Len(history \o new) = Len(history) + Len(new)
        /\ \A i \in 1 .. Len(history) + Len(new) :
              (history \o new)[i] = IF i <= Len(history) THEN history[i] ELSE new[i - Len(history)]
    BY <1>5, <1>6, ConcatProperties
  <1> DEFINE h == Len(history)
  <1>8. h \in Nat
    BY <1>6
  <1> HIDE DEF h
  <1>9. \A i \in 1 .. h : i \in 1 .. h + n /\ i <= h
    BY <1>8, SMT
  <1>10. \A k \in 1 .. n : h + k \in 1 .. h + n /\ ~ (h + k <= h) /\ (h + k) - h = k
    BY <1>8, SMT
  <1> QED
    BY <1>4, <1>5, <1>6, <1>7, <1>9, <1>10 DEF h

\* A line of the cycle after the step was returned before it or by it.
LEMMA OldOrNew ==
    ASSUME HistoryInvariant, NEW n \in Nat, ServesLines(n)
    PROVE  /\ \A i \in InCycle' :
                \/ i \in InCycle /\ history'[i] = history[i]
                \/ \E m \in lineCursor .. LineCount - 1 :
                     /\ i = Len(history) + m - lineCursor + 1
                     /\ m < lineCursor + n
                     /\ Ordered(m) \in 0 .. LineCount - 1
                     /\ history'[i] = LineAt(Ordered(m))
                     /\ history'[i].start = StartOf(m)
           /\ \A i \in InCycle : i \in InCycle' /\ i <= Len(history) /\ history'[i] = history[i]
           /\ \A m \in lineCursor .. lineCursor + n - 1 :
                \E i \in InCycle' : history'[i] = LineAt(Ordered(m))
  <1> DEFINE h == Len(history)
             s == cycleStartCursor
  <1>1. LinesInvariant /\ PoolInvariant /\ HistoryTyped /\ LinesLeft /\ UNCHANGED cycleStartCursor
    BY DEF HistoryInvariant, HistoryKept, LinesInvariant, ServesLines
  <1>2. h \in Nat /\ s \in 0 .. h
    BY <1>1, CycleInHistory
  <1>3. /\ Len(history') = h + n
        /\ \A i \in 1 .. h : history'[i] = history[i]
        /\ \A k \in 1 .. n :
                /\ lineCursor + k - 1 \in 0 .. LineCount - 1
                /\ history'[h + k] = LineAt(Ordered(lineCursor + k - 1))
                /\ LineAt(Ordered(lineCursor + k - 1)).start = StartOf(lineCursor + k - 1)
    BY HistoryGrows
  <1>4. LineCount \in Nat \ {0} /\ lineCursor \in 0 .. LineCount - 1
    BY <1>1, LinesAtHand
  <1>5. InCycle' = s + 1 .. h + n /\ InCycle = s + 1 .. h
    BY <1>1, <1>3 DEF InCycle
  <1> HIDE DEF h, s
  <1>6. ASSUME NEW i \in s + 1 .. h + n
        PROVE  \/ i \in s + 1 .. h /\ history'[i] = history[i]
               \/ \E m \in lineCursor .. LineCount - 1 :
                     /\ i = h + m - lineCursor + 1
                     /\ m < lineCursor + n
                     /\ Ordered(m) \in 0 .. LineCount - 1
                     /\ history'[i] = LineAt(Ordered(m))
                     /\ history'[i].start = StartOf(m)
    <2>1. CASE i <= h
      <3>1. i \in s + 1 .. h /\ i \in 1 .. h
        BY <1>2, <2>1, SMT
      <3> QED
        BY <1>3, <3>1
    <2>2. CASE ~ (i <= h)
      <3> DEFINE k == i - h
                 m == lineCursor + k - 1
      <3>1. k \in 1 .. n /\ h + k = i
        BY <1>2, <2>2, SMT
      <3>2. m \in 0 .. LineCount - 1
        BY <1>3, <3>1
      <3>3. /\ m \in lineCursor .. LineCount - 1
            /\ i = h + m - lineCursor + 1
            /\ m < lineCursor + n /\ m \in Nat
        BY <1>2, <1>4, <3>1, <3>2, SMT
      <3>4. history'[i] = LineAt(Ordered(m)) /\ history'[i].start = StartOf(m)
        BY <1>3, <3>1
      <3> HIDE DEF m
      <3>5. Ordered(m) \in 0 .. LineCount - 1
        BY <1>1, <3>3, OrderedInRange
      <3> QED
        BY <3>3, <3>4, <3>5
    <2> QED
      BY <2>1, <2>2
  <1>7. ASSUME NEW i \in s + 1 .. h
        PROVE  i \in s + 1 .. h + n /\ i <= h /\ history'[i] = history[i]
    <2>1. i \in s + 1 .. h + n /\ i <= h /\ i \in 1 .. h
      BY <1>2, SMT
    <2> QED
      BY <1>3, <2>1
  <1>8. ASSUME NEW m \in lineCursor .. lineCursor + n - 1
        PROVE  \E i \in s + 1 .. h + n : history'[i] = LineAt(Ordered(m))
    <2> DEFINE k == m - lineCursor + 1
    <2>1. k \in 1 .. n /\ lineCursor + k - 1 = m /\ h + k \in s + 1 .. h + n
      BY <1>2, <1>4, SMT
    <2> HIDE DEF k
    <2>2. history'[h + k] = LineAt(Ordered(m))
      BY <1>3, <2>1
    <2> QED
      BY <2>1, <2>2
  <1> QED
    BY <1>5, <1>6, <1>7, <1>8 DEF h

\* The lines returned are lines of the block at hand that were not returned
\* before.
LEMMA ReturningKeeps ==
    ASSUME HistoryInvariant, NEW n \in Nat, ServesLines(n)
    PROVE  HistoryKept'
  <1>1. /\ LinesInvariant /\ PoolInvariant /\ LinesLeft
        /\ HistoryTyped /\ TakenKept /\ OrderKept /\ StartsDiffer /\ InFileOrder
        /\ TextsKept /\ OwnLines
    BY DEF HistoryInvariant, HistoryKept, LinesInvariant, ServesLines
  <1>2. /\ UNCHANGED <<options, source, disk, cycleStartCursor, cycle, block, taken>>
        /\ ~ Reading'
        /\ cursor' = cursor + n
        /\ LinesLeft' => /\ UNCHANGED <<buffer, offsets, cr, lineStep>>
                         /\ lineCursor' = lineCursor + n
                         /\ nextLine' = Ordered(lineCursor + n)
    BY DEF ServesLines
  <1>3. block # NoBlock /\ LineCount \in Nat \ {0} /\ lineCursor \in 0 .. LineCount - 1
        /\ block \in Nat /\ options.blockBytes \in Nat \ {0}
    BY <1>1, LinesAtHand, OwnedBytes
  <1>4. HistoryTyped'
    <2>1. history' \in Seq(Line) /\ Len(history') = Len(history) + n
      BY HistoryGrows
    <2> QED
      BY <1>1, <1>2, <2>1 DEF HistoryTyped
  <1>5. \A line : BlockOf(line)' = BlockOf(line)
    BY <1>2 DEF BlockOf
  <1>6. ASSUME NEW i \in InCycle', NEW m \in lineCursor .. LineCount - 1,
               history'[i] = LineAt(Ordered(m)), Ordered(m) \in 0 .. LineCount - 1
        PROVE  /\ BlockOf(history'[i]) = block
               /\ Len(history'[i].text) <= options.maxLineBytes
               /\ disk.intact => history'[i] \in Lines(source)
    BY <1>1, <1>6, ServedLine
  <1>7. TakenKept'
    <2>1. \A i \in InCycle' : BlockOf(history'[i]) \in taken
      BY <1>1, <1>3, <1>6, OldOrNew DEF TakenKept
    <2> QED
      BY <1>1, <1>2, <2>1 DEF TakenKept, BlockOf
  <1>8. FreshBlock'
    BY <1>2 DEF FreshBlock
  <1>9. OwnLines'
    <2>1. disk.intact => \A i \in InCycle' : history'[i] \in Lines(source)
      BY <1>1, <1>6, OldOrNew DEF OwnLines
    <2> QED
      BY <1>2, <2>1 DEF OwnLines
  <1>10. TextsKept'
    <2> DEFINE h == Len(history)
    <2>1. /\ history' \in Seq(Line) /\ Len(history') = h + n
          /\ \A i \in 1 .. h : history'[i] = history[i]
          /\ \A k \in 1 .. n :
                /\ lineCursor + k - 1 \in 0 .. LineCount - 1
                /\ history'[h + k] = LineAt(Ordered(lineCursor + k - 1))
      BY HistoryGrows
    <2>2. h \in Nat /\ DOMAIN history = 1 .. h
      BY <1>1 DEF HistoryTyped
    <2> HIDE DEF h
    <2>3. DOMAIN history' = 1 .. h + n
      BY <2>1
    <2>4. ASSUME NEW i \in 1 .. h + n
          PROVE  Len(history'[i].text) <= options.maxLineBytes
      <3>1. CASE i <= h
        <4>1. i \in 1 .. h
          BY <2>2, <3>1, SMT
        <4> QED
          BY <1>1, <2>1, <2>2, <4>1 DEF TextsKept
      <3>2. CASE ~ (i <= h)
        <4> DEFINE k == i - h
                   m == lineCursor + k - 1
        <4>1. k \in 1 .. n /\ h + k = i
          BY <2>2, <3>2, SMT
        <4>2. m \in 0 .. LineCount - 1 /\ history'[i] = LineAt(Ordered(m))
          BY <2>1, <4>1
        <4> HIDE DEF m
        <4>3. m \in Nat
          BY <4>2, SMT
        <4>4. Ordered(m) \in 0 .. LineCount - 1
          BY <1>1, <4>3, OrderedInRange
        <4> QED
          BY <1>1, <4>2, <4>4, ServedLine
      <3> QED
        BY <3>1, <3>2
    <2> QED
      BY <1>2, <2>3, <2>4 DEF TextsKept
  <1>11. \A m \in lineCursor .. LineCount - 1 : m \in 0 .. LineCount - 1
    BY <1>3, SMT
  <1>12. ASSUME NEW i \in InCycle', NEW j \in InCycle', i < j
         PROVE  /\ history'[i].start # history'[j].start
                /\ options.mode = "ModeSequential" => history'[i].start < history'[j].start
    <2>0. /\ \A k \in InCycle : history[k] \in Line /\ k \in Nat
          /\ Len(history) \in Nat
      BY <1>1, CycleInHistory
    <2>1. CASE /\ i \in InCycle /\ history'[i] = history[i]
               /\ j \in InCycle /\ history'[j] = history[j]
      BY <1>1, <1>12, <2>1 DEF StartsDiffer, InFileOrder
    <2>2. ASSUME i \in InCycle, history'[i] = history[i],
                 NEW m \in lineCursor .. LineCount - 1,
                 Ordered(m) \in 0 .. LineCount - 1,
                 history'[j] = LineAt(Ordered(m)), history'[j].start = StartOf(m)
          PROVE  /\ history'[i].start # history'[j].start
                 /\ options.mode = "ModeSequential" => history'[i].start < history'[j].start
      <3>1. BlockOf(history'[j]) = block /\ history'[j] \in Line
        BY <1>1, <2>2, ServedLine
      <3>2. CASE BlockOf(history[i]) # block
        <4>1. history'[i].start # history'[j].start
          BY <2>2, <3>1, <3>2 DEF BlockOf
        <4>2. ASSUME options.mode = "ModeSequential"
              PROVE  history'[i].start < history'[j].start
          <5>1. BlockOf(history[i]) <= block
            BY <1>1, <2>2, <4>2 DEF InFileOrder
          <5> DEFINE a == history[i].start
                     b == history'[j].start
                     p == a \div options.blockBytes
                     q == b \div options.blockBytes
          <5>2. a \in Nat /\ b \in Nat
            BY <2>0, <2>2, <3>1 DEF Line
          <5>3. p <= block /\ p # block /\ q = block
            BY <3>1, <3>2, <5>1 DEF BlockOf
          <5>4. p \in Int
            <6>1. a \in Int
              BY <5>2, SMT
            <6> QED
              BY <1>3, <6>1, DivisionFacts
          <5> HIDE DEF p, q
          <5>5. p < q
            BY <1>3, <5>3, <5>4, SMT
          <5>6. a < b
            BY <1>3, <5>2, <5>5, EarlierBlockIsEarlier DEF p, q
          <5> QED
            BY <2>2, <5>6
        <4> QED
          BY <4>1, <4>2
      <3>3. CASE BlockOf(history[i]) = block
        <4>1. PICK k \in 0 .. lineCursor - 1 : history[i].start = StartOf(k)
          BY <1>1, <2>2, <3>3 DEF OrderKept, StartOf
        <4>2. k \in 0 .. LineCount - 1 /\ k < m /\ k # m
          BY <1>3, SMT
        <4>3. m \in 0 .. LineCount - 1
          BY <1>11
        <4>4. StartOf(k) # StartOf(m)
          BY <1>1, <4>2, <4>3, StartsOfBlock
        <4>5. options.mode = "ModeSequential" => StartOf(k) < StartOf(m)
          BY <1>1, <4>2, <4>3, StartsOfBlock
        <4> QED
          BY <2>2, <4>1, <4>4, <4>5
      <3> QED
        BY <3>2, <3>3
    <2>3. ASSUME NEW k \in lineCursor .. LineCount - 1, i = Len(history) + k - lineCursor + 1,
                 history'[i].start = StartOf(k),
                 NEW m \in lineCursor .. LineCount - 1, j = Len(history) + m - lineCursor + 1,
                 history'[j].start = StartOf(m)
          PROVE  /\ history'[i].start # history'[j].start
                 /\ options.mode = "ModeSequential" => history'[i].start < history'[j].start
      <3> DEFINE h == Len(history)
      <3> HIDE DEF h
      <3>1. k < m /\ k # m
        <4>1. i = h + k - lineCursor + 1 /\ j = h + m - lineCursor + 1 /\ i < j /\ h \in Nat
          BY <1>12, <2>0, <2>3 DEF h
        <4> QED
          BY <1>3, <4>1, SMT
      <3>2. k \in 0 .. LineCount - 1 /\ m \in 0 .. LineCount - 1
        BY <1>11
      <3>3. StartOf(k) # StartOf(m)
        BY <1>1, <3>1, <3>2, StartsOfBlock
      <3>4. options.mode = "ModeSequential" => StartOf(k) < StartOf(m)
        BY <1>1, <3>1, <3>2, StartsOfBlock
      <3> QED
        BY <2>3, <3>3, <3>4
    <2>4. ASSUME NEW k \in lineCursor .. LineCount - 1, i = Len(history) + k - lineCursor + 1,
                 j \in InCycle
          PROVE  FALSE
      <3>1. j <= Len(history) /\ j \in Nat
        BY <2>0, <2>4, OldOrNew
      <3> DEFINE h == Len(history)
      <3>2. j <= h /\ j \in Nat /\ h \in Nat /\ i = h + k - lineCursor + 1 /\ i < j
        BY <1>12, <2>0, <2>4, <3>1
      <3> HIDE DEF h
      <3> QED
        BY <1>3, <3>2, SMT
    <2>5. \/ i \in InCycle /\ history'[i] = history[i]
          \/ \E m \in lineCursor .. LineCount - 1 :
               i = Len(history) + m - lineCursor + 1 /\ history'[i].start = StartOf(m)
      BY OldOrNew
    <2>6. \/ j \in InCycle /\ history'[j] = history[j]
          \/ \E m \in lineCursor .. LineCount - 1 :
               /\ j = Len(history) + m - lineCursor + 1 /\ history'[j].start = StartOf(m)
               /\ Ordered(m) \in 0 .. LineCount - 1
               /\ history'[j] = LineAt(Ordered(m))
      BY OldOrNew
    <2> QED
      BY <2>1, <2>2, <2>3, <2>4, <2>5, <2>6
  <1>13. StartsDiffer'
    BY <1>12 DEF StartsDiffer
  <1>14. InFileOrder'
    <2>1. ASSUME options.mode = "ModeSequential"
          PROVE  \A i \in InCycle' : BlockOf(history'[i]) <= block
      <3>1. block <= block
        BY <1>3, SMT
      <3> QED
        BY <1>1, <1>6, <2>1, <3>1, OldOrNew DEF InFileOrder
    <2> QED
      BY <1>2, <1>12, <2>1 DEF InFileOrder, BlockOf
  <1>15. OrderKept'
    <2> SUFFICES ASSUME LinesLeft'
                 PROVE  OrderKept'
      BY DEF OrderKept
    <2>1. /\ UNCHANGED <<buffer, offsets, cr, lineStep, options, cycle, block>>
          /\ lineCursor' = lineCursor + n
          /\ nextLine' = Ordered(lineCursor + n)
      BY <1>2
    <2>2. LineCount' = LineCount /\ ReadOffset' = ReadOffset
      BY <2>1 DEF LineCount, ReadOffset
    <2>3. LineOrder(LineCount)' = LineOrder(LineCount)
      BY <2>1, <2>2 DEF LineOrder
    <2>4. \A k : Ordered(k)' = Ordered(k)
      BY <2>2, <2>3 DEF Ordered
    <2>5. Ordered(lineCursor)' = Ordered(lineCursor + n)
      BY <2>1, <2>2, <2>3 DEF Ordered
    <2>6. \A i \in InCycle' : BlockOf(history'[i]) = block =>
             \E k \in 0 .. (lineCursor + n) - 1 : history'[i].start = StartOf(k)
      <3> SUFFICES ASSUME NEW i \in InCycle', BlockOf(history'[i]) = block
                   PROVE  \E k \in 0 .. (lineCursor + n) - 1 : history'[i].start = StartOf(k)
        OBVIOUS
      <3>1. CASE i \in InCycle /\ history'[i] = history[i]
        <4>1. PICK k \in 0 .. lineCursor - 1 : history[i].start = StartOf(k)
          BY <1>1, <3>1 DEF OrderKept, StartOf
        <4>2. k \in 0 .. (lineCursor + n) - 1
          BY <1>3, SMT
        <4> QED
          BY <3>1, <4>1, <4>2
      <3>2. ASSUME NEW m \in lineCursor .. LineCount - 1, m < lineCursor + n,
                   history'[i].start = StartOf(m)
            PROVE  \E k \in 0 .. (lineCursor + n) - 1 : history'[i].start = StartOf(k)
        <4>1. m \in 0 .. (lineCursor + n) - 1
          BY <1>3, <3>2, SMT
        <4> QED
          BY <3>2, <4>1
      <3> QED
        BY <3>1, <3>2, OldOrNew
    <2>7. lineStep = LineOrder(LineCount).step
      BY <1>1 DEF OrderKept
    <2> QED
      BY <2>1, <2>2, <2>3, <2>4, <2>5, <2>6, <2>7 DEF OrderKept, StartOf, BlockOf
  <1> QED
    BY <1>4, <1>7, <1>8, <1>9, <1>10, <1>13, <1>14, <1>15 DEF HistoryKept

-----------------------------------------------------------------------------
(* The theorems about what is returned.                                    *)

LEMMA InitHistoryInvariant == Init => HistoryInvariant
  <1>1. Init => LinesInvariant
    BY InitPoolInvariant, InitLines DEF LinesInvariant
  <1> QED
    BY <1>1, InitHistory, InitOverIsIdle DEF HistoryInvariant

\* Every step keeps the inductive invariant.
LEMMA HistoryStays == HistoryInvariant /\ [Next]_poolVars => HistoryInvariant'
  <1> SUFFICES ASSUME HistoryInvariant, [Next]_poolVars
               PROVE  HistoryInvariant'
    OBVIOUS
  <1>1. LinesInvariant' /\ OverIsIdle'
    BY EveryStepIsTrue, NextOverIsIdle DEF HistoryInvariant
  <1>2. HistoryKept'
    <2>1. ASSUME ReturnsLines
          PROVE  HistoryKept'
      <3>1. PICK n \in Nat : ServesLines(n)
        BY <2>1 DEF ReturnsLines
      <3> QED
        BY <3>1, ReturningKeeps
    <2> QED
      BY <1>1, <2>1, StepKinds, StandingKeeps, FindingKeeps, TakingKeeps, StartingKeeps
  <1> QED
    BY <1>1, <1>2 DEF HistoryInvariant

\* The lines of the cycle are those of history from its first on.
LEMMA CycleLines ==
    ASSUME HistoryInvariant
    PROVE  /\ Len(history) \in Nat /\ cycleStartCursor \in 0 .. Len(history)
           /\ Len(CycleHistory) \in Nat
           /\ DOMAIN CycleHistory = 1 .. Len(CycleHistory)
           /\ \A i \in DOMAIN CycleHistory :
                /\ i \in Nat /\ cycleStartCursor + i \in InCycle
                /\ CycleHistory[i] = history[cycleStartCursor + i]
           /\ \A i \in InCycle :
                /\ i - cycleStartCursor \in DOMAIN CycleHistory
                /\ CycleHistory[i - cycleStartCursor] = history[i]
  <1> DEFINE n     == Len(history)
             s     == cycleStartCursor
             lines == CycleHistory
  <1>1. PoolInvariant /\ HistoryTyped
    BY DEF HistoryInvariant, LinesInvariant, HistoryKept
  <1>2. n \in Nat /\ s \in 0 .. n /\ \A i \in s + 1 .. n : history[i] \in Line
    BY <1>1, CycleInHistory DEF InCycle
  <1>3. lines = SubSeq(history, s + 1, n)
    BY DEF CycleHistory
  <1>4. InCycle = s + 1 .. n
    BY DEF InCycle
  <1> HIDE DEF n, s, lines
  <1>5. s + 1 \in Int /\ n \in Int
    BY <1>2, SMT
  <1>6. /\ lines \in Seq(Line)
        /\ Len(lines) = IF s + 1 <= n THEN n - (s + 1) + 1 ELSE 0
        /\ \A i \in 1 .. n - (s + 1) + 1 : lines[i] = history[s + 1 + i - 1]
    BY <1>2, <1>3, <1>5, SubSeqProperties
  <1>7. Len(lines) = n - s /\ Len(lines) \in Nat
    BY <1>2, <1>6, SMT
  <1>8. DOMAIN lines = 1 .. n - s
    BY <1>6, <1>7
  <1>9. ASSUME NEW i \in 1 .. n - s
        PROVE  i \in Nat /\ s + i \in s + 1 .. n /\ lines[i] = history[s + i]
    <2>1. i \in 1 .. n - (s + 1) + 1 /\ s + 1 + i - 1 = s + i /\ i \in Nat /\ s + i \in s + 1 .. n
      BY <1>2, SMT
    <2> QED
      BY <1>6, <2>1
  <1>10. ASSUME NEW i \in s + 1 .. n
         PROVE  i - s \in 1 .. n - s /\ lines[i - s] = history[i]
    <2>1. i - s \in 1 .. n - s /\ s + (i - s) = i
      BY <1>2, SMT
    <2> QED
      BY <1>9, <2>1
  <1> QED
    BY <1>2, <1>4, <1>7, <1>8, <1>9, <1>10 DEF n, s, lines

\* Next and NextBatch together return no line twice within a cycle, a
\* sequential pool returns them in the order of the file, and Stats.Cursor
\* counts them, for every file, geometry and interleaving of the calls.
THEOREM LinesInOrderOnce == Spec => []InOrderOnce
  <1>1. HistoryInvariant => InOrderOnce
    <2> SUFFICES ASSUME HistoryInvariant
                 PROVE  InOrderOnce
      OBVIOUS
    <2> DEFINE s == cycleStartCursor
    <2>1. HistoryTyped /\ StartsDiffer /\ InFileOrder
      BY DEF HistoryInvariant, HistoryKept
    <2>2. ASSUME NEW i \in DOMAIN CycleHistory, NEW j \in DOMAIN CycleHistory, i < j
          PROVE  /\ CycleHistory[i].start # CycleHistory[j].start
                 /\ options.mode = "ModeSequential" =>
                       CycleHistory[i].start < CycleHistory[j].start
      <3>1. /\ i \in Nat /\ j \in Nat /\ s \in Nat
            /\ s + i \in InCycle /\ CycleHistory[i] = history[s + i]
            /\ s + j \in InCycle /\ CycleHistory[j] = history[s + j]
        BY CycleLines, SMT
      <3> HIDE DEF s
      <3>2. s + i < s + j
        BY <2>2, <3>1, SMT
      <3> QED
        BY <2>1, <3>1, <3>2 DEF StartsDiffer, InFileOrder
    <2> QED
      BY <2>1, <2>2 DEF InOrderOnce, HistoryTyped
  <1> QED
    BY <1>1, InitHistoryInvariant, HistoryStays, PTL DEF Spec

\* What the walk took or skipped is the shard's.
LEMMA PassedAreOfShard ==
    ASSUME Invariant
    PROVE  taken \cup skipped \subseteq ShardBlocks(options, cycle)
  <1> DEFINE n == regionCursor
             m == RegionsForShard(options)
  <1>1. n \in 0 .. m /\ m \in Nat
    BY OpenedPool DEF Invariant
  <1>2. CASE n = 0
    BY <1>2 DEF Invariant, OnSchedule
  <1>3. CASE n # 0
    <2>1. n > 0
      <3> HIDE DEF n, m
      <3> QED
        BY <1>1, <1>3, SMT
    <2>2. /\ taken \cup skipped = FirstBlocks(options, cycle, n - 1) \cup PassedInRegion
          /\ n - 1 \in 0 .. m - 1
          /\ regionBlockBase = RegionBase(options, Entered)
          /\ regionBlocks = RegionLength(options, Entered)
          /\ regionBlockBase \in Nat /\ regionBlocks \in Nat \ {0} /\ regionBlocks < WordSize
          /\ regionRotation \in 0 .. regionBlocks - 1
      BY <2>1, InRegion
    <2>3. FirstBlocks(options, cycle, n - 1) \subseteq ShardBlocks(options, cycle)
      <3> HIDE DEF n, m
      <3>1. \A k \in 0 .. (n - 1) - 1 : k \in 0 .. m - 1
        BY <1>1, SMT
      <3> QED
        BY <3>1 DEF ShardBlocks, FirstBlocks, m
    <2>4. RegionBlocksOf(options, Entered) \subseteq ShardBlocks(options, cycle)
      BY <2>2 DEF ShardBlocks, FirstBlocks, Entered
    <2>5. PassedInRegion \subseteq RegionBlocksOf(options, Entered)
      <3> SUFFICES ASSUME NEW j \in 0 .. regionBlockNext - 1
                   PROVE  regionBlockBase + AddModulo(regionRotation, j, regionBlocks)
                              \in RegionBlocksOf(options, Entered)
        BY DEF PassedInRegion
      <3>1. regionBlockNext \in 0 .. regionBlocks
        BY DEF Invariant, CursorTypeOK
      <3>2. j \in 0 .. regionBlocks - 1
        BY <2>2, <3>1, SMT
      <3> DEFINE r == AddModulo(regionRotation, j, regionBlocks)
      <3>3. r \in 0 .. regionBlocks - 1
        BY <2>2, <3>2, RotatedBlocksAreAll
      <3> HIDE DEF r
      <3>4. regionBlockBase + r \in regionBlockBase .. regionBlockBase + regionBlocks - 1
        BY <2>2, <3>3, SMT
      <3> QED
        BY <2>2, <3>4 DEF RegionBlocksOf, r
    <2> QED
      BY <2>2, <2>3, <2>4, <2>5
  <1> QED
    BY <1>2, <1>3

\* The lines of the cycle, as a set.
LEMMA CycleLinesAsSet ==
    ASSUME HistoryInvariant
    PROVE  ToSet(CycleHistory) = { history[i] : i \in InCycle }
  <1>1. ToSet(CycleHistory) = { CycleHistory[i] : i \in DOMAIN CycleHistory }
    BY DEF ToSet
  <1> QED
    BY <1>1, CycleLines

\* Whatever is returned is a line of the shard.
LEMMA ReturnedAreOwed == HistoryInvariant => LinesIntact
  <1> SUFFICES ASSUME HistoryInvariant, disk.intact, NEW i \in InCycle
               PROVE  history[i] \in OwedLines
    BY CycleLinesAsSet DEF LinesIntact
  <1>1. TakenKept /\ OwnLines /\ Invariant
    BY DEF HistoryInvariant, HistoryKept, LinesInvariant, PoolInvariant
  <1>2. history[i] \in Lines(source) /\ BlockOf(history[i]) \in taken
    BY <1>1 DEF TakenKept, OwnLines
  <1>3. BlockOf(history[i]) \in ShardBlocks(options, cycle)
    BY <1>1, <1>2, PassedAreOfShard
  <1> QED
    BY <1>2, <1>3 DEF OwedLines, BlockOf

\* What is returned is a line of the shard, with the bytes that line had when
\* the file was opened, unless those bytes were rewritten underneath the pool.
THEOREM ReturnedLinesAreIntact == Spec => []LinesIntact
  BY ReturnedAreOwed, InitHistoryInvariant, HistoryStays, PTL DEF Spec

-----------------------------------------------------------------------------
(* The lines that the pool owes.                                           *)

\* The bytes of the block at hand are those that belong to it.
LEMMA BytesOfBlock ==
    ASSUME LinesInvariant, block # NoBlock, NEW start \in Nat, start < Len(source)
    PROVE  start \div options.blockBytes = block <=>
               ReadOffset < start /\ start < ReadOffset + OwnedEnd
  <1> DEFINE size  == options.blockBytes
             begin == block * size
             q     == start \div size
             r     == start % size
  <1>1. /\ size \in Nat \ {0} /\ options.fileSize \in Nat /\ block \in Nat
        /\ ReadOffset = begin - 1 /\ OwnedEnd \in Nat
        /\ ReadOffset + OwnedEnd = Lesser((block + 1) * size, options.fileSize)
        /\ options.fileSize = Len(source)
    BY OwnedBytes DEF LinesInvariant, LinesFormed
  <1>2. begin \in Nat /\ (block + 1) * size = begin + size
    BY <1>1, BlockProduct
  <1>3. start \in Int
    BY SMT
  <1>4. q \in Int /\ start = size * q + r /\ r \in 0 .. size - 1
    BY <1>1, <1>3, DivisionFacts
  <1> HIDE DEF q, r
  <1>5. ASSUME q = block
        PROVE  ReadOffset < start /\ start < ReadOffset + OwnedEnd
    <2>1. start = begin + r
      BY <1>1, <1>4, <1>5, SMT
    <2> HIDE DEF begin, size
    <2> QED
      BY <1>1, <1>2, <1>4, <2>1, SMT DEF Lesser
  <1>6. ASSUME ReadOffset < start, start < ReadOffset + OwnedEnd
        PROVE  q = block
    <2>1. begin <= start /\ start < begin + size
      <3> HIDE DEF begin, size
      <3> QED
        BY <1>1, <1>2, <1>6, SMT DEF Lesser
    <2> QED
      BY <1>1, <1>3, <2>1, BlockOfPosition DEF q
  <1> QED
    BY <1>5, <1>6 DEF q

\* A line that begins in the block at hand is owed.
LEMMA LineAtHandIsOwed ==
    ASSUME HistoryInvariant, block # NoBlock, NEW from \in Nat \ {0}, from < OwnedEnd,
           ReadOffset + from \in LineStarts(source)
    PROVE  \E line \in OwedLines : line.text = LineText(source, ReadOffset + from)
  <1> DEFINE start == ReadOffset + from
             line  == [start |-> start, text |-> LineText(source, start)]
  <1>1. LinesInvariant /\ Invariant /\ TakenKept /\ PoolInvariant
    BY DEF HistoryInvariant, HistoryKept, LinesInvariant, PoolInvariant
  <1>2. ReadOffset \in Int /\ OwnedEnd \in Nat
    BY <1>1, OwnedBytes
  <1>3. start \in Nat /\ start < Len(source)
    <2>1. start \in 0 .. Len(source) - 1
      BY DEF LineStarts
    <2> HIDE DEF start
    <2> QED
      BY <2>1, SMT
  <1>4. ReadOffset < start /\ start < ReadOffset + OwnedEnd
    BY <1>2, SMT
  <1>5. start \div options.blockBytes = block
    BY <1>1, <1>3, <1>4, BytesOfBlock
  <1>6. block \in ShardBlocks(options, cycle)
    BY <1>1, PassedAreOfShard DEF TakenKept
  <1>7. line \in Lines(source)
    BY DEF Lines
  <1>8. line.start = start /\ line.text = LineText(source, start)
    OBVIOUS
  <1> HIDE DEF line, start
  <1>9. line \in OwedLines
    BY <1>5, <1>6, <1>7, <1>8 DEF OwedLines
  <1> QED
    BY <1>8, <1>9 DEF start

\* Some line is too long.
LineIsTooLong == \E line \in OwedLines : Len(line.text) > options.maxLineBytes

\* The file and the limit.
LEMMA FileOfPool ==
    ASSUME LinesInvariant, block # NoBlock
    PROVE  /\ ReadOffset \in Int /\ -1 <= ReadOffset
           /\ options.maxLineBytes \in Nat
           /\ source \in Seq(Byte) /\ Len(source) = options.fileSize
           /\ options.fileSize \in Nat
  <1>1. options \in ValidOptions
    BY BlockAtHand DEF LinesInvariant
  <1>2. options.maxLineBytes \in Nat
    BY <1>1, OpenedSizes, SMT
  <1>3. Len(source) = options.fileSize
    BY DEF LinesInvariant, LinesFormed
  <1>4. source \in Seq(Byte)
    BY PoolAssumption DEF LinesInvariant, PoolInvariant, SourceKept
  <1> QED
    BY <1>2, <1>3, <1>4, OwnedBytes DEF LinesInvariant

\* A terminated line that the pool finds too long.
LEMMA TooLongLineIsOwed ==
    ASSUME HistoryInvariant, block # NoBlock, NEW bytes \in Seq(Byte),
           ReadOffset + Len(bytes) <= options.fileSize, HoldsFile(bytes, source, ReadOffset),
           NEW from \in Nat \ {0}, from < OwnedEnd, NEW to \in Nat, from < to, to <= Len(bytes),
           At(bytes, from - 1) = LF, At(bytes, to - 1) = LF, Feedless(bytes, from, to - 1),
           TooLong(bytes, from, to)
    PROVE  LineIsTooLong
  <1> DEFINE limit == options.maxLineBytes
             text  == TextEnd(bytes, to)
             n     == Len(bytes)
  <1>1. LinesInvariant /\ PoolInvariant /\ LinesFormed
    BY DEF HistoryInvariant, LinesInvariant
  <1>2. /\ ReadOffset \in Int /\ -1 <= ReadOffset
        /\ limit \in Nat /\ source \in Seq(Byte) /\ Len(source) = options.fileSize
        /\ options.fileSize \in Nat /\ n \in Nat
    BY <1>1, FileOfPool
  <1> DEFINE offset == ReadOffset
             top    == options.fileSize
  <1>3. offset + from < Len(source) /\ ~ (offset + to > Len(source)) /\ from <= to
    <2>1. offset \in Int /\ top \in Nat /\ Len(source) = top /\ offset + n <= top
      BY <1>2
    <2> HIDE DEF n, offset, top
    <2>2. offset + from < top /\ ~ (offset + to > top) /\ from <= to
      BY <1>2, <2>1, SMT DEF n
    <2> QED
      BY <2>1, <2>2
  <1>4. Terminated(bytes, source, ReadOffset, to)
    BY <1>3 DEF Terminated
  <1>5. /\ ReadOffset + from \in LineStarts(source)
        /\ LineText(source, ReadOffset + from) = Slice(bytes, from, text)
        /\ text \in from .. to - 1
    BY <1>2, <1>3, <1>4, LineInFile
  <1>6. text - from > limit
    <2>1. ExceedsLineLimit(Slice(bytes, from, to), limit)
      BY DEF TooLong
    <2> QED
      BY <1>2, <1>3, <2>1, LimitMeasuresText
  <1>7. text \in Nat /\ from <= text /\ text <= n
    <2> HIDE DEF text, n
    <2> QED
      BY <1>2, <1>5, SMT DEF n
  <1>8. Len(Slice(bytes, from, text)) = text - from
    <2> HIDE DEF text
    <2> QED
      BY <1>7, PartOfBytes
  <1>9. PICK line \in OwedLines : line.text = LineText(source, ReadOffset + from)
    BY <1>5, LineAtHandIsOwed
  <1>10. Len(line.text) > limit
    BY <1>5, <1>6, <1>8, <1>9
  <1> QED
    BY <1>10 DEF LineIsTooLong

\* A line without an end so far that the pool finds too long.
LEMMA TooLongOpenLineIsOwed ==
    ASSUME HistoryInvariant, block # NoBlock, NEW bytes \in Seq(Byte),
           ReadOffset + Len(bytes) <= options.fileSize, HoldsFile(bytes, source, ReadOffset),
           NEW from \in Nat \ {0}, from < OwnedEnd, OwnedEnd <= Len(bytes),
           At(bytes, from - 1) = LF, Feedless(bytes, from, Len(bytes)),
           \/ Len(bytes) - from > options.maxLineBytes + 1
           \/ /\ ReadOffset + Len(bytes) = options.fileSize
              /\ Len(bytes) - from > options.maxLineBytes
    PROVE  LineIsTooLong
  <1> DEFINE limit == options.maxLineBytes
             n     == Len(bytes)
             text  == LineText(source, ReadOffset + from)
             top   == options.fileSize
             offset == ReadOffset
  <1>1. LinesInvariant
    BY DEF HistoryInvariant
  <1>2. /\ offset \in Int /\ -1 <= offset
        /\ limit \in Nat /\ source \in Seq(Byte) /\ Len(source) = top
        /\ top \in Nat /\ n \in Nat
    BY <1>1, FileOfPool
  <1>3. OwnedEnd \in Nat
    BY <1>1, OwnedBytes DEF LinesInvariant
  <1>4. from <= Len(bytes) /\ offset + from < Len(source) /\ offset + Len(bytes) <= Len(source)
    <2>1. offset + n <= top /\ OwnedEnd <= n
      OBVIOUS
    <2> HIDE DEF offset, top, n
    <2>2. from <= n /\ offset + from < top
      BY <1>2, <1>3, <2>1, SMT
    <2> QED
      BY <1>2, <2>1, <2>2 DEF n
  <1>5. /\ ReadOffset + from \in LineStarts(source)
        /\ text \in Seq(Byte)
        /\ Len(text) >= n - from - 1
        /\ ReadOffset + Len(bytes) = Len(source) => Len(text) = n - from
    BY <1>2, <1>4, OpenLineInFile
  <1>6. Len(text) > limit
    <2>1. Len(text) \in Nat
      BY <1>5
    <2>2. \/ n - from > limit + 1
          \/ Len(text) = n - from /\ n - from > limit
      BY <1>2, <1>5
    <2> HIDE DEF text, n, limit
    <2> QED
      BY <1>2, <1>5, <2>1, <2>2, SMT
  <1>7. PICK line \in OwedLines : line.text = text
    BY <1>5, LineAtHandIsOwed
  <1> QED
    BY <1>6, <1>7 DEF LineIsTooLong

\* A terminated line among the lines indexed.
LEMMA IndexedTooLong ==
    ASSUME HistoryInvariant, NEW c \in Callers, NEW bytes, ReadsBlock(c, bytes), disk.intact,
           FirstLineStart(bytes, ReadRange.ownershipEnd) # NoLine,
           AnyTooLong(bytes, BlockOffsets(bytes))
    PROVE  LineIsTooLong
  <1> DEFINE ends == BlockOffsets(bytes)
  <1>1. LinesInvariant /\ options \in ValidOptions
    BY BlockAtHand DEF HistoryInvariant, LinesInvariant
  <1>2. /\ bytes = Filled(ReadData) /\ bytes \in Seq(Byte) /\ ReadIsFull
        /\ block # NoBlock
        /\ OwnedEnd \in Nat \ {0, 1}
        /\ ReadOffset + Len(bytes) <= options.fileSize
        /\ HoldsFile(bytes, source, ReadOffset)
    BY <1>1, BlockRead
  <1>3. CutsLines(bytes, ends) /\ Last(ends) = ends[Len(ends)] /\ Last(ends) <= OwnedEnd
    BY <1>1, <1>2, IndexedLines
  <1>4. PICK i \in 1 .. Len(ends) - 1 : TooLong(bytes, ends[i], ends[i + 1])
    BY DEF AnyTooLong
  <1> HIDE DEF ends
  <1>5. /\ ends[i] \in Nat \ {0} /\ ends[i + 1] \in Nat
        /\ ends[i] < ends[i + 1] /\ ends[i + 1] <= Len(bytes)
        /\ At(bytes, ends[i] - 1) = LF /\ At(bytes, ends[i + 1] - 1) = LF
        /\ Feedless(bytes, ends[i], ends[i + 1] - 1)
    BY <1>1, <1>2, <1>3, <1>4, FitsWithinLimit
  <1>6. ends[i] < OwnedEnd
    <2>1. ends \in Seq(Nat) /\ Len(ends) \in Nat /\ i \in Nat
      BY <1>3, <1>4, SMT DEF CutsLines
    <2>2. ends[i] < ends[Len(ends)]
      <3>1. i \in 1 .. Len(ends) /\ Len(ends) \in 1 .. Len(ends) /\ i < Len(ends)
        BY <1>4, <2>1, SMT
      <3> QED
        BY <1>3, <3>1 DEF CutsLines
    <2>3. ends[Len(ends)] \in Nat
      <3>1. Len(ends) \in 1 .. Len(ends)
        BY <1>4, <2>1, SMT
      <3> QED
        BY <2>1, <3>1
    <2> QED
      BY <1>2, <1>3, <1>5, <2>2, <2>3, SMT
  <1> QED
    BY <1>2, <1>4, <1>5, <1>6, TooLongLineIsOwed

\* The line that is still open, once a line feed is found.
LEMMA FoundTooLong ==
    ASSUME HistoryInvariant, block # NoBlock, NEW bytes \in Seq(Byte), NEW ends, NEW hint,
           LinesCut(bytes, ends, hint), ends[Len(ends)] < OwnedEnd,
           ends[Len(ends)] \in Nat \ {0}, Last(ends) = ends[Len(ends)],
           NEW m \in Nat, m < Len(bytes), ends[Len(ends)] <= m,
           At(bytes, m) = LF, Feedless(bytes, ends[Len(ends)], m),
           HoldsFile(bytes, source, ReadOffset), ReadOffset + Len(bytes) <= options.fileSize,
           NEW c, NEW h, LineFeedFound(c, Slice(bytes, 0, m + 1), ends, h),
           terminal # "ErrLineTooLong", terminal' = "ErrLineTooLong"
    PROVE  LineIsTooLong
  <1> DEFINE line == Slice(bytes, 0, m + 1)
             last == ends[Len(ends)]
  <1>1. LinesInvariant
    BY DEF HistoryInvariant
  <1>2. ReadOffset \in Int /\ options.fileSize \in Nat
    BY <1>1, FileOfPool
  <1>3. /\ line \in Seq(Byte) /\ Len(line) = m + 1
        /\ LinesCut(line, ends, hint)
        /\ At(line, Len(line) - 1) = LF
        /\ Feedless(line, last, Len(line) - 1)
        /\ HoldsFile(line, source, ReadOffset)
    BY LineUpToFeed
  <1>4. At(line, last - 1) = LF
    <2>1. Len(ends) \in 1 .. Len(ends)
      BY <1>3, SMT DEF LinesCut, CutsLines
    <2> QED
      BY <1>3, <2>1 DEF LinesCut, CutsLines
  <1>5. TooLong(line, last, Len(line))
    BY DEF LineFeedFound, LineContinues, LinesReady
  <1> HIDE DEF line
  <1>6. ReadOffset + Len(line) <= options.fileSize
    <2> DEFINE offset == ReadOffset
    <2> HIDE DEF offset
    <2>1. offset \in Int /\ offset + Len(bytes) <= options.fileSize /\ Len(bytes) \in Nat
      BY <1>2 DEF offset
    <2>2. offset + Len(line) <= options.fileSize
      BY <1>2, <1>3, <2>1, SMT
    <2> QED
      BY <2>2 DEF offset
  <1>7. Len(line) \in Nat /\ last < Len(line) /\ Len(line) <= Len(line)
    BY <1>3, SMT
  <1> QED
    BY <1>3, <1>4, <1>5, <1>6, <1>7, TooLongLineIsOwed

\* The line that ends with the file.
LEMMA TooLongAtEnd ==
    ASSUME HistoryInvariant, block # NoBlock, NEW bytes \in Seq(Byte),
           ReadOffset + Len(bytes) = options.fileSize, HoldsFile(bytes, source, ReadOffset),
           NEW from \in Nat \ {0}, from < OwnedEnd, OwnedEnd <= Len(bytes),
           At(bytes, from - 1) = LF, Feedless(bytes, from, Len(bytes)),
           TooLong(bytes, from, Len(bytes))
    PROVE  LineIsTooLong
  <1> DEFINE limit == options.maxLineBytes
             n     == Len(bytes)
  <1>1. LinesInvariant
    BY DEF HistoryInvariant
  <1>2. limit \in Nat /\ options.fileSize \in Nat /\ ReadOffset \in Int
    BY <1>1, FileOfPool
  <1>3. OwnedEnd \in Nat
    BY <1>1, OwnedBytes DEF LinesInvariant
  <1>4. n \in Nat
    OBVIOUS
  <1> HIDE DEF n
  <1>5. from < n /\ from <= n /\ n - 1 \in from .. n - 1 /\ n <= n
    BY <1>3, <1>4, SMT DEF n
  <1>6. At(bytes, n - 1) # LF
    BY <1>5 DEF Feedless, n
  <1>7. ExceedsLineLimit(Slice(bytes, from, n), limit)
    BY DEF TooLong, n
  <1>8. n - from > limit
    BY <1>2, <1>4, <1>5, <1>6, <1>7, LimitMeasuresText DEF n
  <1>9. ReadOffset + Len(bytes) <= options.fileSize
    BY <1>2, SMT
  <1> QED
    BY <1>8, <1>9, TooLongOpenLineIsOwed DEF n

\* The first line feed behind the block, in the lookahead.
LEMMA FeedInLookahead ==
    ASSUME LinesInvariant, NEW c \in Callers, NEW bytes, NEW ends, NEW hint \in BOOLEAN,
           IndexesBlock(c, bytes, ends, hint), Last(ends) < OwnedEnd
    PROVE  LET from  == ends[Len(ends)]
               feeds == LineFeeds(bytes, ReadRange.ownershipEnd, ReadRange.readBytes)
           IN  /\ from \in Nat \ {0} /\ from < OwnedEnd /\ Last(ends) = from
               /\ At(bytes, from - 1) = LF
               /\ LinesCut(bytes, ends, hint)
               /\ feeds # {} => /\ Min(feeds) \in Nat /\ Min(feeds) < Len(bytes)
                                /\ from <= Min(feeds)
                                /\ At(bytes, Min(feeds)) = LF
                                /\ Feedless(bytes, from, Min(feeds))
  <1> DEFINE feeds == LineFeeds(bytes, ReadRange.ownershipEnd, ReadRange.readBytes)
             from  == ends[Len(ends)]
             m     == Min(feeds)
  <1>1. ReadsBlock(c, bytes)
    BY DEF IndexesBlock
  <1>2. /\ bytes \in Seq(Byte) /\ OwnedEnd \in Nat \ {0, 1} /\ OwnedEnd <= Len(bytes)
        /\ ReadRange.ownershipEnd = OwnedEnd
        /\ ReadRange.readBytes = Len(bytes)
    BY <1>1, BlockRead
  <1>3. /\ LinesCut(bytes, ends, hint)
        /\ Last(ends) = from
        /\ from \in Nat \ {0}
        /\ Feedless(bytes, from, OwnedEnd)
        /\ Len(ends) >= 1 /\ Len(ends) \in Nat
    BY LinesRead
  <1>4. At(bytes, from - 1) = LF
    <2>1. Len(ends) \in 1 .. Len(ends)
      BY <1>3, SMT
    <2> QED
      BY <1>3, <2>1 DEF LinesCut, CutsLines
  <1>5. feeds = LineFeeds(bytes, OwnedEnd, Len(bytes)) /\ Len(bytes) \in Nat
    BY <1>2
  <1>6. from < OwnedEnd
    BY <1>3
  <1>7. ASSUME feeds # {}
        PROVE  m \in Nat /\ m < Len(bytes) /\ from <= m /\ At(bytes, m) = LF
               /\ Feedless(bytes, from, m)
    <2>1. m \in OwnedEnd .. Len(bytes) - 1 /\ At(bytes, m) = LF
          /\ \A k \in OwnedEnd .. m - 1 : At(bytes, k) # LF
      BY <1>2, <1>5, <1>7, LeastFeed
    <2> HIDE DEF m, feeds, from
    <2>2. m \in Nat /\ m < Len(bytes) /\ from <= m
      BY <1>2, <1>3, <1>5, <1>6, <2>1, SMT
    <2>3. Feedless(bytes, from, m)
      <3> SUFFICES ASSUME NEW k \in from .. m - 1
                   PROVE  At(bytes, k) # LF
        BY DEF Feedless
      <3>1. k \in from .. OwnedEnd - 1 \/ k \in OwnedEnd .. m - 1
        BY <1>2, <1>3, <2>2, SMT
      <3> QED
        BY <1>3, <2>1, <3>1 DEF Feedless
    <2> QED
      BY <2>1, <2>2, <2>3
  <1> HIDE DEF m, feeds
  <1>8. feeds # {} => m \in Nat /\ m < Len(bytes) /\ from <= m /\ At(bytes, m) = LF
                      /\ Feedless(bytes, from, m)
    BY <1>7
  <1> QED
    BY <1>3, <1>4, <1>6, <1>8 DEF m, feeds

\* The first line feed among the bytes of a further read.
LEMMA FeedInExtension ==
    ASSUME LinesInvariant, NEW c \in Callers, Extending(c)
    PROVE  LET bytes == buffer \o ReadAt(disk.bytes, BufferEnd, ExtendLength)
               from  == offsets[Len(offsets)]
               feeds == LineFeeds(bytes, Len(buffer), Len(bytes))
           IN  /\ bytes \in Seq(Byte) /\ Len(bytes) \in Nat /\ Len(buffer) <= Len(bytes)
               /\ \A k \in 1 .. Len(buffer) : bytes[k] = buffer[k]
               /\ LinesCut(bytes, offsets, cr)
               /\ feeds # {} => /\ Min(feeds) \in Nat /\ Min(feeds) < Len(bytes)
                                /\ from <= Min(feeds)
                                /\ At(bytes, Min(feeds)) = LF
                                /\ Feedless(bytes, from, Min(feeds))
  <1> DEFINE read  == ReadAt(disk.bytes, BufferEnd, ExtendLength)
             bytes == buffer \o read
             feeds == LineFeeds(bytes, Len(buffer), Len(bytes))
             from  == offsets[Len(offsets)]
             known == Len(buffer)
             m     == Min(feeds)
  <1>1. /\ known \in Nat
        /\ LinesCut(buffer, offsets, cr)
        /\ from \in Nat \ {0} /\ from < OwnedEnd
        /\ OwnedEnd \in Nat \ {0, 1} /\ OwnedEnd <= known
        /\ Feedless(buffer, from, known)
    BY LineAtHand
  <1>2. /\ bytes \in Seq(Byte) /\ Len(bytes) = known + Len(read) /\ Len(read) \in Nat
        /\ \A k \in 1 .. known : bytes[k] = buffer[k]
    BY ExtensionIsTrue
  <1> HIDE DEF bytes, read, known
  <1>3. Len(bytes) \in Nat /\ known <= Len(bytes) /\ from < known /\ from <= Len(bytes)
    BY <1>1, <1>2, SMT
  <1>4. LinesCut(bytes, offsets, cr)
    <2>1. \A k \in 1 .. from : bytes[k] = buffer[k]
      <3>1. \A k \in 1 .. from : k \in 1 .. known
        BY <1>1, <1>3, SMT
      <3> QED
        BY <1>2, <3>1
    <2> QED
      BY <1>1, <1>3, <2>1, CutsOtherBytes, TextsOfPrefix DEF LinesCut
  <1>5. \A k \in from .. known - 1 : At(bytes, k) # LF
    <2> TAKE k \in from .. known - 1
    <2>1. k + 1 \in 1 .. known
      BY <1>1, SMT
    <2> QED
      BY <1>1, <1>2, <2>1 DEF At, Feedless
  <1>6. feeds = LineFeeds(bytes, known, Len(bytes))
    BY DEF known
  <1>7. ASSUME feeds # {}
        PROVE  m \in Nat /\ m < Len(bytes) /\ from <= m /\ At(bytes, m) = LF
               /\ Feedless(bytes, from, m)
    <2>1. m \in known .. Len(bytes) - 1 /\ At(bytes, m) = LF
          /\ \A k \in known .. m - 1 : At(bytes, k) # LF
      BY <1>1, <1>3, <1>6, <1>7, LeastFeed
    <2> HIDE DEF m, feeds, from
    <2>2. m \in Nat /\ m < Len(bytes) /\ from <= m
      BY <1>1, <1>3, <2>1, SMT
    <2>3. Feedless(bytes, from, m)
      <3> SUFFICES ASSUME NEW k \in from .. m - 1
                   PROVE  At(bytes, k) # LF
        BY DEF Feedless
      <3>1. k \in from .. known - 1 \/ k \in known .. m - 1
        BY <1>1, <2>2, SMT
      <3> QED
        BY <1>5, <2>1, <3>1
    <2> QED
      BY <2>1, <2>2, <2>3
  <1> HIDE DEF m, feeds
  <1>8. feeds # {} => m \in Nat /\ m < Len(bytes) /\ from <= m /\ At(bytes, m) = LF
                      /\ Feedless(bytes, from, m)
    BY <1>7
  <1> QED
    BY <1>2, <1>3, <1>4, <1>8 DEF m, feeds, bytes, read, known

\* Reading a block ends with this error only for a line that is too long.
LEMMA ReadingTooLong ==
    ASSUME HistoryInvariant, disk.intact, NEW c \in Callers,
           \/ ReadNoLine(c) \/ ReadTooLong(c) \/ ReadWholeLines(c)
           \/ ReadLastLine(c) \/ ReadOpenLine(c),
           terminal # "ErrLineTooLong", terminal' = "ErrLineTooLong"
    PROVE  LineIsTooLong
  <1> DEFINE bytes == Filled(ReadData)
             ends  == BlockOffsets(bytes)
  <1>1. LinesInvariant
    BY DEF HistoryInvariant
  <1>2. CASE ReadNoLine(c)
    BY <1>2 DEF ReadNoLine
  <1>3. CASE ReadTooLong(c)
    BY <1>3, IndexedTooLong DEF ReadTooLong
  <1>4. CASE ReadWholeLines(c)
    BY <1>4 DEF ReadWholeLines, LinesReady
  <1>5. CASE ReadLastLine(c)
    <2>1. PICK hint \in BOOLEAN :
            /\ IndexesBlock(c, bytes, ends, hint)
            /\ Last(ends) < ReadRange.ownershipEnd
            /\ ReadRange.readOffset + ReadRange.ownershipEnd = options.fileSize
            /\ TooLong(bytes, Last(ends), Len(bytes))
      BY <1>5 DEF ReadLastLine, LinesReady
    <2>2. ReadsBlock(c, bytes)
      BY <2>1 DEF IndexesBlock
    <2> HIDE DEF bytes, ends
    <2>3. /\ bytes \in Seq(Byte) /\ block # NoBlock
          /\ OwnedEnd \in Nat \ {0, 1} /\ OwnedEnd <= Len(bytes) /\ ReadOffset \in Int
          /\ ReadOffset + Len(bytes) <= options.fileSize
          /\ options.fileSize = Len(source) /\ Len(source) \in Nat
          /\ ReadRange.ownershipEnd = OwnedEnd
          /\ ReadRange.readOffset = ReadOffset
          /\ HoldsFile(bytes, source, ReadOffset)
      BY <1>1, <2>2, BlockRead
    <2>4. /\ ends[Len(ends)] \in Nat \ {0} /\ ends[Len(ends)] < OwnedEnd
          /\ Last(ends) = ends[Len(ends)]
          /\ At(bytes, ends[Len(ends)] - 1) = LF
      BY <1>1, <2>1, <2>3, FeedInLookahead
    <2>5. Feedless(bytes, ends[Len(ends)], OwnedEnd)
      BY <1>1, <2>1, LinesRead
    <2>6. Len(bytes) = OwnedEnd
      <3>1. Len(bytes) \in Nat
        BY <2>3
      <3> QED
        BY <2>1, <2>3, <3>1, SMT
    <2>7. ReadOffset + Len(bytes) = options.fileSize
      BY <2>1, <2>3, <2>6
    <2> QED
      BY <2>1, <2>3, <2>4, <2>5, <2>6, <2>7, TooLongAtEnd
  <1>6. CASE ReadOpenLine(c)
    <2> DEFINE feeds == LineFeeds(bytes, ReadRange.ownershipEnd, ReadRange.readBytes)
    <2>1. PICK hint \in BOOLEAN :
            /\ IndexesBlock(c, bytes, ends, hint)
            /\ Last(ends) < ReadRange.ownershipEnd
            /\ feeds # {}
            /\ LineFeedFound(c, Slice(bytes, 0, Min(feeds) + 1), ends, hint)
      BY <1>6 DEF ReadOpenLine
    <2>2. ReadsBlock(c, bytes)
      BY <2>1 DEF IndexesBlock
    <2> HIDE DEF bytes, ends
    <2>3. /\ bytes \in Seq(Byte) /\ block # NoBlock
          /\ ReadOffset + Len(bytes) <= options.fileSize
          /\ ReadRange.ownershipEnd = OwnedEnd
          /\ HoldsFile(bytes, source, ReadOffset)
      BY <1>1, <2>2, BlockRead
    <2>4. /\ ends[Len(ends)] \in Nat \ {0} /\ ends[Len(ends)] < OwnedEnd
          /\ Last(ends) = ends[Len(ends)]
          /\ LinesCut(bytes, ends, hint)
          /\ Min(feeds) \in Nat /\ Min(feeds) < Len(bytes)
          /\ ends[Len(ends)] <= Min(feeds)
          /\ At(bytes, Min(feeds)) = LF
          /\ Feedless(bytes, ends[Len(ends)], Min(feeds))
      BY <1>1, <2>1, <2>3, FeedInLookahead
    <2> HIDE DEF feeds
    <2> QED
      BY <2>1, <2>3, <2>4, FoundTooLong
  <1> QED
    BY <1>2, <1>3, <1>4, <1>5, <1>6

\* Reading on ends with this error only for a line that is too long.
LEMMA ExtendingTooLong ==
    ASSUME HistoryInvariant, disk.intact, NEW c \in Callers,
           ExtendTooLong(c) \/ ExtendToEnd(c) \/ ExtendRead(c) \/ ExtendFails(c),
           terminal # "ErrLineTooLong", terminal' = "ErrLineTooLong"
    PROVE  LineIsTooLong
  <1> DEFINE from  == offsets[Len(offsets)]
             known == Len(buffer)
  <1>1. LinesInvariant
    BY DEF HistoryInvariant
  <1>2. Extending(c)
    BY DEF ExtendTooLong, ExtendToEnd, ExtendRead, ExtendFails
  <1>3. /\ block # NoBlock
        /\ buffer \in Seq(Byte) /\ known \in Nat
        /\ Last(offsets) = from
        /\ from \in Nat \ {0} /\ from < OwnedEnd
        /\ OwnedEnd \in Nat \ {0, 1} /\ OwnedEnd <= known
        /\ Feedless(buffer, from, known)
        /\ BufferEnd = ReadOffset + known
        /\ BufferEnd <= options.fileSize
        /\ HoldsFile(buffer, source, ReadOffset)
        /\ LinesCut(buffer, offsets, cr)
    BY <1>1, <1>2, LineAtHand
  <1>4. At(buffer, from - 1) = LF
    <2>1. Len(offsets) \in 1 .. Len(offsets)
      BY <1>3, SMT DEF LinesCut, CutsLines
    <2> QED
      BY <1>3, <2>1 DEF LinesCut, CutsLines
  <1>5. CASE ExtendTooLong(c)
    <2>1. options.maxLineBytes \in Nat
      BY <1>1, <1>3, FileOfPool
    <2>2. known >= LineLimit
      BY <1>5 DEF ExtendTooLong
    <2> HIDE DEF from, known
    <2>3. known - from > options.maxLineBytes + 1
      BY <1>3, <2>1, <2>2, SMT DEF LineLimit
    <2> QED
      BY <1>3, <1>4, <2>3, TooLongOpenLineIsOwed DEF from, known
  <1>6. CASE ExtendToEnd(c)
    <2>1. BufferEnd = options.fileSize /\ TooLong(buffer, from, known)
      BY <1>3, <1>6 DEF ExtendToEnd, LineContinues, LinesReady
    <2> QED
      BY <1>3, <1>4, <2>1, TooLongAtEnd
  <1>7. CASE ExtendRead(c)
    <2> DEFINE bytes == buffer \o ReadAt(disk.bytes, BufferEnd, ExtendLength)
               feeds == LineFeeds(bytes, Len(buffer), Len(bytes))
    <2>1. /\ BufferEnd < options.fileSize
          /\ feeds # {}
          /\ LineFeedFound(c, Slice(bytes, 0, Min(feeds) + 1), offsets, cr)
      BY <1>7 DEF ExtendRead
    <2>2. /\ bytes \in Seq(Byte)
          /\ LinesCut(bytes, offsets, cr)
          /\ Min(feeds) \in Nat /\ Min(feeds) < Len(bytes)
          /\ from <= Min(feeds)
          /\ At(bytes, Min(feeds)) = LF
          /\ Feedless(bytes, from, Min(feeds))
      BY <1>1, <1>2, <2>1, FeedInExtension
    <2>3. ReadOffset + Len(bytes) <= options.fileSize /\ HoldsFile(bytes, source, ReadOffset)
      BY <1>1, <1>2, <2>1, ExtensionIsTrue
    <2> HIDE DEF bytes, feeds
    <2> QED
      BY <1>3, <2>1, <2>2, <2>3, FoundTooLong
  <1>8. CASE ExtendFails(c)
    BY <1>8 DEF ExtendFails, Fail
  <1> QED
    BY <1>5, <1>6, <1>7, <1>8

\* The error tells of a line that is too long.
LimitKept == (disk.intact /\ terminal = "ErrLineTooLong") => LineIsTooLong

\* A step after which the error stands.
LEMMA StepTooLong ==
    ASSUME HistoryInvariant, [Next]_poolVars, terminal' = "ErrLineTooLong"
    PROVE  /\ SameFile /\ cycle' = cycle
           /\ disk.intact => terminal = "ErrLineTooLong" \/ LineIsTooLong
  <1> USE DEF NoError
  <1>1. LinesInvariant /\ PoolInvariant /\ StageKept
    BY DEF HistoryInvariant, LinesInvariant, PoolInvariant
  <1>2. ASSUME NEW error, Validates(error)
        PROVE  error # "ErrLineTooLong"
    BY <1>2 DEF Validates, ValidationErrors
  <1>3. CASE \E c \in Callers, operation \in Operations : Call(c, operation)
    BY <1>3, WalkStandsStill DEF StandsStill, Call
  <1>4. CASE \E c \in Callers : Enter(c)
    <2>1. PICK c \in Callers : EnterNext(c) \/ Reset(c) \/ ResetFails(c) \/ Close(c)
      BY <1>4 DEF Enter
    <2>2. CASE EnterNext(c)
      BY <2>2, WalkStandsStill DEF StandsStill, EnterNext
    <2>3. CASE Reset(c)
      BY <2>3 DEF Reset
    <2>4. CASE ResetFails(c)
      BY <1>2, <2>4, FailingStandsStill DEF StandsStill, ResetFails
    <2>5. CASE Close(c)
      BY <2>5 DEF Close
    <2> QED
      BY <2>1, <2>2, <2>3, <2>4, <2>5
  <1>5. CASE \E c \in Callers : Walk(c)
    <2>1. PICK c \in Callers : Walk(c)
      BY <1>5
    <2>2. pc = "walk" /\ terminal = NoError
      BY <1>1, <2>1 DEF StageKept, Walk, WalkTake, WalkSkip, WalkEnterRegion,
                        WalkCheckFails, WalkEnds, WalkNextCycle
    <2>3. ~ WalkTake(c) /\ ~ WalkSkip(c) /\ ~ WalkEnterRegion(c) /\ ~ WalkNextCycle(c)
      BY <2>2 DEF WalkTake, WalkSkip, WalkEnterRegion, WalkNextCycle
    <2>4. ~ WalkCheckFails(c)
      BY <1>2 DEF WalkCheckFails, Fail
    <2>5. ~ WalkEnds(c)
      BY DEF WalkEnds, Fail
    <2> QED
      BY <2>1, <2>3, <2>4, <2>5 DEF Walk
  <1>6. CASE \E c \in Callers : Load(c)
    <2>1. PICK c \in Callers : Load(c)
      BY <1>6
    <2>2. SameFile /\ cycle' = cycle
      BY <2>1, LoadingFindsOrNot DEF StandsStill, FindsLines
    <2>3. ASSUME disk.intact, terminal # "ErrLineTooLong"
          PROVE  LineIsTooLong
      <3>1. CASE ReadFails(c)
        BY <2>3, <3>1 DEF ReadFails
      <3>2. CASE ShortReadEnds(c)
        BY <1>2, <3>2 DEF ShortReadEnds, Fail
      <3> QED
        BY <2>1, <2>3, <3>1, <3>2, ReadingTooLong, ExtendingTooLong DEF Load
    <2> QED
      BY <2>2, <2>3
  <1>7. CASE \E c \in Callers : Serve(c)
    BY <1>1, <1>7 DEF Serve, ServeNext, ServeBatch, StageKept
  <1>8. CASE ChangeSource \/ UNCHANGED poolVars
    <2>1. terminal' = terminal
      BY <1>8 DEF ChangeSource, poolVars
    <2> QED
      BY <1>8, <2>1, FailingStandsStill DEF StandsStill
  <1> QED
    BY <1>3, <1>4, <1>5, <1>6, <1>7, <1>8 DEF Next, Proceed

\* ErrLineTooLong is returned only for a line of the shard that is longer than the
\* limit, as it stood in the file when it was opened, and no line longer than the limit is
\* ever returned: a line whose length is measured in pieces, behind the block and at
\* the end of the file (nextLocked, extendLineLocked, exceedsLineLimit).
THEOREM LimitIsEnforced == Spec => []LimitEnforced
  <1>1. Init => HistoryInvariant /\ LimitKept
    BY InitHistoryInvariant DEF Init, LimitKept, NoError
  <1>2. HistoryInvariant /\ LimitKept /\ [Next]_poolVars => HistoryInvariant' /\ LimitKept'
    <2> SUFFICES ASSUME HistoryInvariant, LimitKept, [Next]_poolVars,
                        disk'.intact, terminal' = "ErrLineTooLong"
                 PROVE  LineIsTooLong'
      BY HistoryStays DEF LimitKept
    <2>1. /\ UNCHANGED <<options, source, cycle>> /\ disk.intact
          /\ terminal = "ErrLineTooLong" \/ LineIsTooLong
      BY StepTooLong DEF SameFile
    <2>2. LineIsTooLong
      BY <2>1 DEF LimitKept
    <2> QED
      BY <2>1, <2>2 DEF LineIsTooLong, OwedLines
  <1>3. HistoryInvariant /\ LimitKept => LimitEnforced
    BY DEF HistoryInvariant, HistoryKept, TextsKept, LimitKept, LimitEnforced, LineIsTooLong
  <1> QED
    BY <1>1, <1>2, <1>3, PTL DEF Spec

-----------------------------------------------------------------------------
(* Every line of the blocks that were passed was returned.                 *)

\* No line begins in the block.
Lineless(b) == \A start \in LineStarts(source) : start \div options.blockBytes # b

\* Every line of the block was returned in this cycle.
BlockServed(b) ==
    \A start \in LineStarts(source) :
        start \div options.blockBytes = b => \E i \in InCycle : history[i].start = start

\* Iteration has not failed and is not about to.
Going == terminal = NoError /\ ~ closed /\ pc \notin {"short", "failed"}

\* The block taken last is being read, or has lines left.
AtHand == Reading \/ LinesLeft

\* A file that was not changed is as it was opened.
ChangesCounted == disk.changes = 0 => disk.intact

\* What is skipped as the continuation of a line has no line of its own.
SkippedAreLineless == disk.intact => \A b \in skipped : Lineless(b)

\* Of the block at hand, the lines in front of the next one were returned.
ReturnedSoFar ==
    LinesLeft => \A k \in 0 .. lineCursor - 1 : \E i \in InCycle : history[i].start = StartOf(k)

\* Of the other blocks taken, all lines were.
TakenServed ==
    (disk.intact /\ Going) => \A b \in taken : (b = block /\ AtHand) \/ BlockServed(b)

CompleteKept == ChangesCounted /\ SkippedAreLineless /\ ReturnedSoFar /\ TakenServed

\* In front of a line that begins in the block at hand, the buffer has a line feed.
LEMMA FeedBeforeStart ==
    ASSUME LinesInvariant, block # NoBlock, NEW bytes \in Seq(Byte),
           HoldsFile(bytes, source, ReadOffset), OwnedEnd <= Len(bytes),
           NEW start \in LineStarts(source), start \div options.blockBytes = block
    PROVE  \E p \in 1 .. OwnedEnd - 1 : start = ReadOffset + p /\ At(bytes, p - 1) = LF
  <1> DEFINE p      == start - ReadOffset
             offset == ReadOffset
             n      == Len(bytes)
  <1>1. offset \in Int /\ OwnedEnd \in Nat
    BY OwnedBytes DEF LinesInvariant
  <1>2. start \in 0 .. Len(source) - 1 /\ (start = 0 \/ At(source, start - 1) = LF)
    BY DEF LineStarts
  <1>3. Len(source) \in Nat
    BY FileOfPool
  <1>4. start \in Nat /\ start < Len(source)
    BY <1>2, <1>3, SMT
  <1>5. offset < start /\ start < offset + OwnedEnd
    BY <1>4, BytesOfBlock
  <1>6. n \in Nat /\ OwnedEnd <= n
    OBVIOUS
  <1> HIDE DEF offset, n
  <1>7. /\ p \in 1 .. OwnedEnd - 1 /\ start = offset + p
        /\ p - 1 \in 0 .. n - 1 /\ offset + (p - 1) = start - 1 /\ start - 1 < Len(source)
        /\ start - 1 < 0 <=> start = 0
    BY <1>1, <1>3, <1>4, <1>5, <1>6, SMT DEF offset
  <1> HIDE DEF p
  <1>8. At(bytes, p - 1) = IF start - 1 < 0 THEN LF ELSE At(source, start - 1)
    BY <1>7 DEF HoldsFile, offset, n
  <1> QED
    BY <1>2, <1>7, <1>8 DEF offset

\* The lines at hand are all that begin in the block.
LEMMA EveryStartAtHand ==
    ASSUME LinesInvariant, LinesLeft, disk.intact,
           NEW start \in LineStarts(source), start \div options.blockBytes = block
    PROVE  \E k \in 0 .. LineCount - 1 : StartOf(k) = start
  <1>1. /\ LinesWhole /\ block # NoBlock
        /\ buffer \in Seq(Byte) /\ offsets \in Seq(Nat)
        /\ LineCount \in Nat \ {0} /\ Len(offsets) = LineCount + 1
        /\ HoldsFile(buffer, source, ReadOffset)
    BY LinesAtHand
  <1>2. CutsLines(buffer, offsets) /\ OwnedEnd <= offsets[LineCount + 1]
    BY <1>1 DEF LinesWhole, LinesCut
  <1>3. OwnedEnd \in Nat
    BY <1>1, OwnedBytes DEF LinesInvariant
  <1> DEFINE last == offsets[LineCount + 1]
  <1>4. last \in Nat /\ last <= Len(buffer) /\ last = offsets[Len(offsets)]
    <2>1. LineCount + 1 \in DOMAIN offsets
      BY <1>1, SMT
    <2> QED
      BY <1>1, <1>2, <2>1 DEF CutsLines
  <1>5. OwnedEnd <= Len(buffer)
    BY <1>1, <1>2, <1>3, <1>4, SMT
  <1>6. PICK p \in 1 .. OwnedEnd - 1 : start = ReadOffset + p /\ At(buffer, p - 1) = LF
    BY <1>1, <1>5, FeedBeforeStart
  <1>7. p - 1 \in 0 .. last - 1 /\ p < last /\ (p - 1) + 1 = p
    BY <1>2, <1>3, <1>4, <1>6, SMT
  <1>8. PICK i \in 1 .. Len(offsets) : offsets[i] = p
    BY <1>2, <1>4, <1>6, <1>7 DEF CutsLines
  <1>9. i - 1 \in 0 .. LineCount - 1 /\ (i - 1) + 1 = i
    <2>1. i # LineCount + 1
      BY <1>4, <1>7, <1>8, SMT
    <2> QED
      BY <1>1, <1>8, <2>1, SMT
  <1>10. PICK k \in 0 .. LineCount - 1 : Ordered(k) = i - 1
    BY <1>9, OrderIsPermutation
  <1>11. StartOf(k) = start
    BY <1>6, <1>8, <1>9, <1>10 DEF StartOf
  <1> QED
    BY <1>11

\* A block in which no line is found has none.
LEMMA NoLineIsLineless ==
    ASSUME LinesInvariant, disk.intact, NEW c \in Callers, ReadNoLine(c)
    PROVE  Lineless(block)
  <1> DEFINE bytes == Filled(ReadData)
  <1>1. ReadsBlock(c, bytes) /\ FirstLineStart(bytes, ReadRange.ownershipEnd) = NoLine
    BY DEF ReadNoLine
  <1> HIDE DEF bytes
  <1>2. /\ bytes \in Seq(Byte) /\ block # NoBlock
        /\ OwnedEnd \in Nat \ {0, 1} /\ OwnedEnd <= Len(bytes)
        /\ ReadRange.ownershipEnd = OwnedEnd
        /\ HoldsFile(bytes, source, ReadOffset)
    BY <1>1, BlockRead
  <1>3. Feedless(bytes, 0, OwnedEnd - 1)
    BY <1>1, <1>2, FirstLineIsFirst
  <1> SUFFICES ASSUME NEW start \in LineStarts(source), start \div options.blockBytes = block
               PROVE  FALSE
    BY DEF Lineless
  <1>4. PICK p \in 1 .. OwnedEnd - 1 : At(bytes, p - 1) = LF
    BY <1>2, FeedBeforeStart
  <1>5. p - 1 \in 0 .. (OwnedEnd - 1) - 1
    BY <1>2, <1>4, SMT
  <1> QED
    BY <1>3, <1>4, <1>5 DEF Feedless

\* What ends iteration stays until it starts over.
LEMMA StaysGoing ==
    ASSUME HistoryInvariant, [Next]_poolVars, Going'
    PROVE  Going \/ StartsOver
  <1>1. PoolInvariant /\ StageKept /\ OverIsIdle
    BY DEF HistoryInvariant, LinesInvariant, PoolInvariant
  <1>2. CASE \E c \in Callers, operation \in Operations : Call(c, operation)
    BY <1>2 DEF Call, Going
  <1>3. ASSUME NEW c \in Callers, Enter(c)
        PROVE  Going \/ StartsOver
    <2>1. holder = NoCaller /\ pc = "idle"
      BY <1>1, <1>3 DEF Enter, EnterNext, Reset, ResetFails, Close, Acquires, StageKept
    <2>2. CASE EnterNext(c)
      BY <2>1, <2>2 DEF EnterNext, Going
    <2>3. CASE Reset(c)
      BY <2>3, StartsAreStarts
    <2>4. CASE ResetFails(c)
      BY <2>1, <2>4, ErrorsAreErrors DEF ResetFails, Going
    <2>5. CASE Close(c)
      BY <2>5 DEF Close, Going
    <2> QED
      BY <1>3, <2>2, <2>3, <2>4, <2>5 DEF Enter
  <1>4. ASSUME NEW c \in Callers, Proceed(c)
        PROVE  Going
    <2>1. ~ closed /\ terminal = NoError
      BY <1>1, <1>4, OverNeverProceeds
    <2>2. CASE pc \in {"short", "failed"}
      <3>1. ShortReadEnds(c)
        BY <1>4, <2>2
           DEF Proceed, Walk, Load, Serve, WalkTake, WalkSkip, WalkEnterRegion, WalkCheckFails,
               WalkEnds, WalkNextCycle, ReadFails, ReadNoLine, ReadTooLong, ReadWholeLines,
               ReadLastLine, ReadOpenLine, ReadsBlock, IndexesBlock, ExtendTooLong, ExtendToEnd,
               ExtendRead, ExtendFails, Extending, ServeNext, ServeBatch
      <3>2. terminal' # NoError
        BY <2>2, <3>1 DEF ShortReadEnds, Fail, NoError
      <3> QED
        BY <3>2 DEF Going
    <2> QED
      BY <2>1, <2>2 DEF Going
  <1>5. CASE ChangeSource \/ UNCHANGED poolVars
    BY <1>5 DEF ChangeSource, poolVars, callVars, Going
  <1> QED
    BY <1>2, <1>3, <1>4, <1>5 DEF Next

\* Reading leaves lines, goes on, fails, or finds that the block has none.
LEMMA ReadingKeepsAtHand ==
    ASSUME HistoryInvariant, NEW c \in Callers, Load(c), Going'
    PROVE  Reading' \/ pc' = "serve" \/ (disk.intact => Lineless(block))
  <1> USE DEF NoError
  <1>1. LinesInvariant
    BY DEF HistoryInvariant
  <1>2. ASSUME NEW b, NEW ends, NEW hint, LineFeedFound(c, b, ends, hint)
        PROVE  pc' = "serve"
    BY <1>2 DEF LineFeedFound, LineTooLong, Fail, LineContinues, LinesReady, Goto, Going
  <1>3. CASE ReadFails(c) \/ ShortReadEnds(c)
    BY <1>3 DEF ReadFails, ShortReadEnds, Goto, Fail, Return, Going
  <1>4. CASE ReadNoLine(c)
    BY <1>1, <1>4, NoLineIsLineless
  <1>5. CASE ReadTooLong(c) \/ ExtendTooLong(c)
    BY <1>5 DEF ReadTooLong, ExtendTooLong, LineTooLong, Fail, Going
  <1>6. CASE ReadWholeLines(c)
    BY <1>6 DEF ReadWholeLines, LinesReady, Goto
  <1>7. CASE ReadLastLine(c)
    BY <1>7 DEF ReadLastLine, LineTooLong, Fail, LinesReady, Goto, Going
  <1>8. CASE ReadOpenLine(c)
    BY <1>2, <1>8 DEF ReadOpenLine, Goto, Reading
  <1>9. CASE ExtendToEnd(c)
    BY <1>9 DEF ExtendToEnd, LineTooLong, Fail, LineContinues, LinesReady, Goto, Going
  <1>10. CASE ExtendRead(c)
    BY <1>2, <1>10 DEF ExtendRead, Goto, Reading, Going
  <1>11. CASE ExtendFails(c)
    BY <1>11 DEF ExtendFails, Fail, Going
  <1> QED
    BY <1>3, <1>4, <1>5, <1>6, <1>7, <1>8, <1>9, <1>10, <1>11 DEF Load

\* While iteration goes on, the block at hand stays so until its lines are returned.
LEMMA StaysAtHand ==
    ASSUME HistoryInvariant, [Next]_poolVars, Going', AtHand
    PROVE  AtHand' \/ StartsOver \/ ReturnsLines \/ (disk.intact => Lineless(block))
  <1>1. PoolInvariant /\ StageKept /\ OverIsIdle /\ HistoryInvariant'
    BY HistoryStays DEF HistoryInvariant, LinesInvariant, PoolInvariant
  <1>2. StageKept'
    BY <1>1 DEF HistoryInvariant, LinesInvariant, PoolInvariant
  <1>3. ASSUME pc' = "serve"
        PROVE  AtHand'
    BY <1>2, <1>3 DEF StageKept, Going, AtHand, LinesLeft
  <1>4. pc # "walk"
    BY DEF AtHand, Reading, LinesLeft
  <1>5. CASE \E c \in Callers, operation \in Operations : Call(c, operation)
    BY <1>5 DEF Call, lineVars, AtHand, Reading, LinesLeft, LineCount
  <1>6. ASSUME NEW c \in Callers, Enter(c)
        PROVE  AtHand' \/ StartsOver
    <2>1. pc = "idle"
      BY <1>1, <1>6 DEF Enter, EnterNext, Reset, ResetFails, Close, Acquires, StageKept
    <2>2. LinesLeft
      BY <2>1 DEF AtHand, Reading
    <2>3. CASE EnterNext(c)
      <3>1. /\ UNCHANGED lineVars /\ terminal' = terminal
            /\ pc' = "idle" \/ pc' = IF lineCursor >= LineCount THEN "walk" ELSE "serve"
        BY <2>3 DEF EnterNext, Return
      <3>2. ~ (lineCursor >= LineCount)
        <4>1. LineCount \in Int /\ lineCursor \in Int
          BY <1>1, SMT DEF PoolInvariant, LinesKept, LineCount
        <4> QED
          BY <2>2, <4>1, SMT DEF LinesLeft
      <3> QED
        BY <2>2, <3>1, <3>2 DEF lineVars, AtHand, LinesLeft, LineCount
    <2>4. CASE Reset(c)
      BY <2>4, StartsAreStarts
    <2>5. CASE ResetFails(c)
      BY <2>2, <2>5 DEF ResetFails, Return, lineVars, Going, AtHand, LinesLeft, LineCount
    <2>6. CASE Close(c)
      BY <2>6 DEF Close, Going
    <2> QED
      BY <1>6, <2>3, <2>4, <2>5, <2>6 DEF Enter
  <1>7. ASSUME NEW c \in Callers, Walk(c)
        PROVE  FALSE
    BY <1>4, <1>7 DEF Walk, WalkTake, WalkSkip, WalkEnterRegion, WalkCheckFails, WalkEnds,
                      WalkNextCycle
  <1>8. ASSUME NEW c \in Callers, Load(c)
        PROVE  AtHand' \/ (disk.intact => Lineless(block))
    BY <1>3, <1>8, ReadingKeepsAtHand DEF AtHand
  <1>9. ASSUME NEW c \in Callers, Serve(c)
        PROVE  ReturnsLines
    BY <1>9, ServingReturnsLines DEF Serve
  <1>10. CASE ChangeSource \/ UNCHANGED poolVars
    BY <1>10 DEF ChangeSource, poolVars, callVars, lineVars, AtHand, Reading, LinesLeft, LineCount
  <1> QED
    BY <1>5, <1>6, <1>7, <1>8, <1>9, <1>10 DEF Next, Proceed

\* Only a change of the file changes it.
LEMMA DiskStays ==
    ASSUME [Next]_poolVars, ~ ChangeSource
    PROVE  disk' = disk
  <1> USE DEF fileVars
  <1>1. CASE \E c \in Callers, operation \in Operations : Call(c, operation)
    BY <1>1 DEF Call
  <1>2. ASSUME NEW c \in Callers, Enter(c)
        PROVE  disk' = disk
    BY <1>2 DEF Enter, EnterNext, Reset, ResetFails, Close
  <1>3. ASSUME NEW c \in Callers, Walk(c)
        PROVE  disk' = disk
    BY <1>3 DEF Walk, WalkTake, WalkSkip, WalkEnterRegion, WalkCheckFails, WalkEnds, WalkNextCycle
  <1>4. ASSUME NEW c \in Callers, Load(c)
        PROVE  disk' = disk
    BY <1>4 DEF Load, ReadFails, ShortReadEnds, ReadNoLine, ReadTooLong, ReadWholeLines,
                ReadLastLine, ReadOpenLine, IndexesBlock, ReadsBlock, ExtendTooLong, ExtendToEnd,
                ExtendRead, ExtendFails, Extending
  <1>5. ASSUME NEW c \in Callers, Serve(c)
        PROVE  disk' = disk
    BY <1>5 DEF Serve, ServeNext, ServeBatch
  <1>6. CASE UNCHANGED poolVars
    BY <1>6 DEF poolVars
  <1> QED
    BY <1>1, <1>2, <1>3, <1>4, <1>5, <1>6 DEF Next, Proceed

\* Changes are counted, and one that shows cannot make up for one that did not.
LEMMA CountingStays ==
    ASSUME HistoryInvariant, [Next]_poolVars
    PROVE  /\ ChangesCounted => ChangesCounted'
           /\ ChangesShow' => ChangesShow
  <1>1. /\ disk \in [bytes : Seq(Byte), changes : 0 .. MaxChanges,
                     visible : 0 .. MaxChanges, intact : BOOLEAN]
        /\ disk.visible <= disk.changes
    BY DEF HistoryInvariant, LinesInvariant, PoolInvariant, SourceKept
  <1>2. disk.visible \in Int /\ disk.changes \in Int /\ disk.changes >= 0
    BY <1>1, SMT
  <1>3. CASE ChangeSource
    <2>1. PICK bytes : ChangesTo(bytes)
      BY <1>3 DEF ChangeSource
    <2> DEFINE intact == disk.intact /\ (IsPrefix(bytes, source) \/ IsPrefix(source, bytes))
    <2>2. PICK visible \in 0 .. 1 :
            disk' = [bytes   |-> bytes,
                     changes |-> disk.changes + 1,
                     visible |-> disk.visible + visible,
                     intact  |-> intact]
      BY <2>1 DEF ChangesTo
    <2>3. intact => disk.intact
      OBVIOUS
    <2> HIDE DEF intact
    <2>4. /\ disk'.changes = disk.changes + 1
          /\ disk'.visible = disk.visible + visible
          /\ disk'.intact => disk.intact
      BY <2>2, <2>3
    <2>5. disk'.changes # 0
      BY <1>2, <2>4, SMT
    <2>6. disk'.visible = disk'.changes => disk.visible = disk.changes
      BY <1>1, <1>2, <2>4, SMT
    <2> QED
      BY <2>4, <2>5, <2>6 DEF ChangesCounted, ChangesShow
  <1>4. CASE ~ ChangeSource
    BY <1>4, DiskStays DEF ChangesCounted, ChangesShow
  <1> QED
    BY <1>3, <1>4

\* No step gives back what a change took.
LEMMA FileStaysSame ==
    ASSUME HistoryInvariant, [Next]_poolVars
    PROVE  SameFile
  BY StepKinds DEF StandsStill, FindsLines, TakesBlock, StartsOver, ReturnsLines, ServesLines, SameFile

\* A block is skipped only as part of a line that begins in front of it.
LEMMA SkippingKeeps ==
    ASSUME HistoryInvariant, SkippedAreLineless, [Next]_poolVars
    PROVE  SkippedAreLineless'
  <1>1. SameFile /\ LinesInvariant /\ PoolInvariant
    BY FileStaysSame DEF HistoryInvariant, LinesInvariant
  <1>2. [CursorNext]_cursorVars
    BY <1>1, EveryStepKeeps
  <1> SUFFICES ASSUME disk'.intact, NEW b \in skipped'
               PROVE  Lineless(b)'
    BY DEF SkippedAreLineless
  <1>3. disk.intact /\ UNCHANGED <<options, source>>
    BY <1>1 DEF SameFile
  <1>4. Lineless(b)
    <2>1. CASE b \in skipped
      BY <1>3, <2>1 DEF SkippedAreLineless
    <2>2. CASE b \notin skipped
      <3>1. InContinuation(b)
        BY <1>2, <2>2 DEF CursorNext, TakeBlock, SkipBlock, EnterRegion, NextCycle, Rewind,
                          StartCycle, ContinueLine, cursorVars, historyVars
      <3> QED
        BY <1>1, <1>3, <3>1 DEF LinesInvariant, FileIsTrue, ContinuationIsTrue, Lineless
    <2> QED
      BY <2>1, <2>2
  <1> QED
    BY <1>3, <1>4 DEF Lineless

\* What is returned in a step begins where the line stood in the order.
LEMMA LineIsReturned ==
    ASSUME HistoryInvariant, NEW n \in Nat, ServesLines(n),
           NEW k \in lineCursor .. lineCursor + n - 1
    PROVE  \E i \in InCycle' : history'[i].start = StartOf(k)
  <1> DEFINE j == k - lineCursor + 1
  <1>1. PICK i \in InCycle' : history'[i] = LineAt(Ordered(k))
    BY OldOrNew
  <1>2. lineCursor \in Nat
    BY DEF HistoryInvariant, LinesInvariant, PoolInvariant, LinesKept
  <1>3. j \in 1 .. n /\ lineCursor + j - 1 = k
    BY <1>2, SMT
  <1> HIDE DEF j
  <1>4. LineAt(Ordered(k)).start = StartOf(k)
    BY <1>3, HistoryGrows
  <1> QED
    BY <1>1, <1>4

\* The lines returned of the block at hand.
LEMMA ReturnedStays ==
    ASSUME HistoryInvariant, ReturnedSoFar, [Next]_poolVars
    PROVE  ReturnedSoFar'
  <1> SUFFICES ASSUME LinesLeft', NEW k \in (0 .. lineCursor - 1)'
               PROVE  (\E i \in InCycle : history[i].start = StartOf(k))'
    BY DEF ReturnedSoFar
  <1>1. CASE StandsStill
    <2>1. /\ LinesLeft
          /\ UNCHANGED <<lineVars, options, source, cycleStartCursor, history, cycle, block>>
      BY <1>1 DEF StandsStill, SameFile
    <2>2. \E i \in InCycle : history[i].start = StartOf(k)
      BY <2>1 DEF ReturnedSoFar, lineVars
    <2> QED
      BY <2>1, <2>2 DEF InCycle, StartOf, Ordered, LineOrder, LineCount, ReadOffset, lineVars
  <1>2. CASE FindsLines
    <2>1. lineCursor' = 0
      BY <1>2 DEF FindsLines
    <2> QED
      BY <2>1, SMT
  <1>3. CASE TakesBlock
    BY <1>3 DEF TakesBlock, LinesLeft
  <1>4. CASE StartsOver
    BY <1>4 DEF StartsOver
  <1>5. CASE ReturnsLines
    <2>1. PICK n \in Nat : ServesLines(n)
      BY <1>5 DEF ReturnsLines
    <2>2. /\ UNCHANGED <<options, cycle, block, offsets>>
          /\ lineCursor' = lineCursor + n
          /\ LinesLeft
      BY <2>1 DEF ServesLines
    <2>3. StartOf(k)' = StartOf(k)
      BY <2>2 DEF StartOf, Ordered, LineOrder, LineCount, ReadOffset
    <2>4. lineCursor \in Nat
      BY DEF HistoryInvariant, LinesInvariant, PoolInvariant, LinesKept
    <2>5. k \in 0 .. lineCursor - 1 \/ k \in lineCursor .. lineCursor + n - 1
      BY <2>2, <2>4, SMT
    <2>6. CASE k \in 0 .. lineCursor - 1
      <3>1. PICK i \in InCycle : history[i].start = StartOf(k)
        BY <2>2, <2>6 DEF ReturnedSoFar
      <3>2. i \in InCycle' /\ history'[i] = history[i]
        BY <2>1, OldOrNew
      <3> QED
        BY <2>3, <3>1, <3>2
    <2>7. CASE k \in lineCursor .. lineCursor + n - 1
      BY <2>1, <2>3, <2>7, LineIsReturned
    <2> QED
      BY <2>5, <2>6, <2>7
  <1> QED
    BY <1>1, <1>2, <1>3, <1>4, <1>5, StepKinds

\* Served lines stay served while the cycle goes on.
LEMMA ServedStays ==
    ASSUME HistoryInvariant, StandsStill \/ FindsLines \/ TakesBlock \/ ReturnsLines,
           NEW b, BlockServed(b)
    PROVE  BlockServed(b)'
  <1>1. CASE StandsStill \/ FindsLines \/ TakesBlock
    BY <1>1 DEF StandsStill, FindsLines, TakesBlock, SameFile, BlockServed, InCycle
  <1>2. CASE ReturnsLines
    <2>1. PICK n \in Nat : ServesLines(n)
      BY <1>2 DEF ReturnsLines
    <2>2. UNCHANGED <<options, source>>
      BY <2>1 DEF ServesLines
    <2>3. \A i \in InCycle : i \in InCycle' /\ history'[i] = history[i]
      BY <2>1, OldOrNew
    <2> QED
      BY <2>2, <2>3 DEF BlockServed
  <1> QED
    BY <1>1, <1>2

\* With its last line, the whole block was returned.
LEMMA LastLineServesBlock ==
    ASSUME HistoryInvariant, ReturnedSoFar, disk.intact,
           NEW n \in Nat, ServesLines(n), ~ LinesLeft'
    PROVE  BlockServed(block)'
  <1>1. /\ LinesLeft /\ LinesInvariant
        /\ n = LineCount - lineCursor
        /\ UNCHANGED <<options, source, block>>
    BY DEF ServesLines, HistoryInvariant
  <1>2. LineCount \in Nat /\ lineCursor \in Nat
    BY <1>1, LinesAtHand, SMT
  <1> SUFFICES ASSUME NEW start \in LineStarts(source), start \div options.blockBytes = block
               PROVE  \E i \in InCycle' : history'[i].start = start
    BY <1>1 DEF BlockServed
  <1>3. PICK k \in 0 .. LineCount - 1 : StartOf(k) = start
    BY <1>1, EveryStartAtHand
  <1>4. k \in 0 .. lineCursor - 1 \/ k \in lineCursor .. lineCursor + n - 1
    BY <1>1, <1>2, SMT
  <1>5. CASE k \in 0 .. lineCursor - 1
    <2>1. PICK i \in InCycle : history[i].start = StartOf(k)
      BY <1>1, <1>5 DEF ReturnedSoFar
    <2>2. i \in InCycle' /\ history'[i] = history[i]
      BY OldOrNew
    <2> QED
      BY <1>3, <2>1, <2>2
  <1>6. CASE k \in lineCursor .. lineCursor + n - 1
    BY <1>3, <1>6, LineIsReturned
  <1> QED
    BY <1>4, <1>5, <1>6

\* Returning lines leaves some of the block, or none.
LEMMA LastOrLeft ==
    ASSUME HistoryInvariant, ReturnedSoFar, disk.intact, ReturnsLines
    PROVE  block' = block /\ (LinesLeft' \/ BlockServed(block)')
  <1>1. PICK n \in Nat : ServesLines(n)
    BY DEF ReturnsLines
  <1>2. block' = block
    BY <1>1 DEF ServesLines
  <1> QED
    BY <1>1, <1>2, LastLineServesBlock

\* A block is left only when all its lines were returned.
LEMMA TakenStaysServed ==
    ASSUME HistoryInvariant, ReturnedSoFar, TakenServed, [Next]_poolVars
    PROVE  TakenServed'
  <1> SUFFICES ASSUME disk'.intact, Going', NEW b \in taken'
               PROVE  (b = block' /\ AtHand') \/ BlockServed(b)'
    BY DEF TakenServed
  <1>1. disk.intact
    BY FileStaysSame DEF SameFile
  <1>2. CASE StartsOver
    BY <1>2 DEF StartsOver
  <1>3. CASE ~ StartsOver
    <2>1. Going
      BY <1>3, StaysGoing
    <2>2. CASE TakesBlock
      <3>1. b \in taken \/ b = block'
        BY <2>2 DEF TakesBlock, TakeBlock
      <3>2. AtHand' /\ ~ AtHand
        BY <2>2 DEF TakesBlock, AtHand, Reading, LinesLeft
      <3>3. CASE b \in taken
        BY <1>1, <2>1, <2>2, <3>2, <3>3, ServedStays DEF TakenServed
      <3> QED
        BY <3>1, <3>2, <3>3
    <2>3. CASE StandsStill \/ FindsLines
      <3>1. UNCHANGED <<options, source, block, taken>>
        BY <2>3 DEF StandsStill, FindsLines, SameFile
      <3>2. CASE BlockServed(b)
        BY <2>3, <3>2, ServedStays
      <3>3. CASE b = block /\ AtHand
        <4>1. AtHand' \/ ReturnsLines \/ Lineless(block)
          BY <1>1, <1>3, <3>3, StaysAtHand
        <4>2. CASE AtHand'
          BY <3>1, <3>3, <4>2
        <4>3. CASE Lineless(block)
          BY <3>1, <3>3, <4>3 DEF Lineless, BlockServed
        <4>4. CASE ReturnsLines
          <5>1. taken' = taken
            BY <3>1
          <5> QED
            BY <1>1, <3>3, <4>4, LastOrLeft DEF AtHand
        <4> QED
          BY <4>1, <4>2, <4>3, <4>4
      <3> QED
        BY <1>1, <2>1, <3>1, <3>2, <3>3 DEF TakenServed
    <2>4. CASE ReturnsLines
      <3>1. taken' = taken
        BY <2>4 DEF ReturnsLines, ServesLines
      <3>2. CASE BlockServed(b)
        BY <2>4, <3>2, ServedStays
      <3>3. CASE b = block
        BY <1>1, <2>4, <3>3, LastOrLeft DEF AtHand
      <3> QED
        BY <1>1, <2>1, <3>1, <3>2, <3>3 DEF TakenServed
    <2> QED
      BY <1>3, <2>2, <2>3, <2>4, StepKinds
  <1> QED
    BY <1>2, <1>3

\* Where the pool ends and where a cycle ends: the shard is exhausted and the check of
\* the source succeeds.
WalkDone == pc = "walk" /\ Exhausted /\ disk.visible = 0

\* Then everything was returned.
LEMMA DoneIsComplete ==
    ASSUME HistoryInvariant, CompleteKept, WalkDone, ~ closed, terminal = NoError, ChangesShow
    PROVE  ToSet(CycleHistory) = OwedLines
  <1>1. LinesInvariant /\ PoolInvariant /\ Invariant /\ OwnLines /\ TakenKept
    BY DEF HistoryInvariant, HistoryKept, LinesInvariant, PoolInvariant
  <1>2. disk.intact
    BY DEF CompleteKept, ChangesCounted, ChangesShow, WalkDone
  <1>3. Going /\ ~ AtHand
    BY DEF WalkDone, Going, AtHand, Reading, LinesLeft
  <1>4. taken \cup skipped = ShardBlocks(options, cycle)
    BY <1>1, InvariantGivesAllPassed DEF WalkDone, ExhaustedMeansAllPassed
  <1>5. \A b \in ShardBlocks(options, cycle) : BlockServed(b)
    BY <1>2, <1>3, <1>4 DEF CompleteKept, TakenServed, SkippedAreLineless, Lineless, BlockServed
  <1>6. \A i \in InCycle : history[i] \in Lines(source) /\ BlockOf(history[i]) \in taken
    BY <1>1, <1>2 DEF OwnLines, TakenKept
  <1>7. ASSUME NEW i \in InCycle
        PROVE  history[i] \in OwedLines
    BY <1>4, <1>6 DEF OwedLines, BlockOf
  <1>8. ASSUME NEW line \in OwedLines
        PROVE  \E i \in InCycle : history[i] = line
    <2>1. line \in Lines(source) /\ line.start \div options.blockBytes \in ShardBlocks(options, cycle)
      BY DEF OwedLines
    <2>2. PICK start \in LineStarts(source) : line = [start |-> start, text |-> LineText(source, start)]
      BY <2>1 DEF Lines
    <2>3. line.start = start
      BY <2>2
    <2>4. PICK i \in InCycle : history[i].start = start
      BY <1>5, <2>1, <2>3 DEF BlockServed
    <2>5. PICK own \in LineStarts(source) :
            history[i] = [start |-> own, text |-> LineText(source, own)]
      BY <1>6 DEF Lines
    <2>6. own = start
      BY <2>4, <2>5
    <2> QED
      BY <2>2, <2>5, <2>6
  <1> QED
    BY <1>1, <1>7, <1>8, CycleLinesAsSet

\* A successful check of the source finds no change that shows.
LEMMA CheckedIsUnchanged ==
    ASSUME PoolInvariant, Validates(NoError)
    PROVE  disk.visible = 0
  <1>1. ~ SourceChanged
    BY DEF Validates, ValidationErrors, NoError
  <1>2. disk.visible \in 0 .. MaxChanges
    BY DEF PoolInvariant, SourceKept
  <1>3. disk.visible \in Int /\ disk.visible >= 0
    BY <1>2, SMT
  <1> QED
    BY <1>1, <1>3, SMT DEF SourceChanged

\* How iteration comes to an end.
LEMMA EofStep ==
    ASSUME HistoryInvariant, [Next]_poolVars, terminal' = "EOF"
    PROVE  /\ UNCHANGED <<options, source, cycle, cycleStartCursor, history>>
           /\ \/ terminal = "EOF"
              \/ WalkDone /\ ~ closed /\ terminal = NoError
  <1> USE DEF NoError
  <1>1. PoolInvariant /\ StageKept /\ OverIsIdle
    BY DEF HistoryInvariant, LinesInvariant, PoolInvariant
  <1>2. ASSUME NEW error, Validates(error)
        PROVE  error # "EOF"
    BY <1>2 DEF Validates, ValidationErrors
  <1>3. CASE \E c \in Callers, operation \in Operations : Call(c, operation)
    BY <1>3 DEF Call, cursorVars, fileVars, countVars
  <1>4. ASSUME NEW c \in Callers, Enter(c)
        PROVE  /\ UNCHANGED <<options, source, cycle, cycleStartCursor, history>>
               /\ terminal = "EOF"
    <2>1. CASE EnterNext(c)
      BY <2>1 DEF EnterNext, cursorVars, fileVars, countVars
    <2>2. CASE Reset(c)
      BY <2>2 DEF Reset
    <2>3. CASE ResetFails(c)
      BY <1>2, <2>3 DEF ResetFails, cursorVars, fileVars, countVars
    <2>4. CASE Close(c)
      BY <2>4 DEF Close
    <2> QED
      BY <1>4, <2>1, <2>2, <2>3, <2>4 DEF Enter
  <1>5. ASSUME NEW c \in Callers, Proceed(c)
        PROVE  /\ UNCHANGED <<options, source, cycle, cycleStartCursor, history>>
               /\ WalkDone /\ ~ closed /\ terminal = NoError
    <2>1. ~ closed /\ terminal = NoError
      BY <1>1, <1>5, OverNeverProceeds
    <2>2. ~ Load(c)
      <3>1. SUFFICES ASSUME Load(c)
                     PROVE  FALSE
        OBVIOUS
      <3>2. ~ ReadFails(c) /\ ~ ReadNoLine(c) /\ ~ ReadTooLong(c) /\ ~ ReadWholeLines(c)
            /\ ~ ReadLastLine(c)
        BY <2>1 DEF ReadFails, ReadNoLine, ReadTooLong, ReadWholeLines, ReadLastLine, LineTooLong,
                    LinesReady, Fail
      <3>3. ~ ShortReadEnds(c)
        BY <1>2 DEF ShortReadEnds, Fail
      <3>4. ~ ReadOpenLine(c) /\ ~ ExtendTooLong(c) /\ ~ ExtendToEnd(c) /\ ~ ExtendRead(c)
            /\ ~ ExtendFails(c)
        BY <2>1 DEF ReadOpenLine, ExtendTooLong, ExtendToEnd, ExtendRead, ExtendFails,
                    LineFeedFound, LineContinues, LineTooLong, LinesReady, Fail
      <3> QED
        BY <3>1, <3>2, <3>3, <3>4 DEF Load
    <2>3. ~ Serve(c)
      BY <2>1 DEF Serve, ServeNext, ServeBatch
    <2>4. CASE WalkEnds(c)
      <3>1. disk.visible = 0
        BY <1>1, <2>4, CheckedIsUnchanged DEF WalkEnds
      <3> QED
        BY <2>1, <2>4, <3>1 DEF WalkEnds, WalkDone, cursorVars, fileVars, countVars
    <2>5. CASE WalkTake(c) \/ WalkSkip(c) \/ WalkEnterRegion(c) \/ WalkNextCycle(c)
      BY <2>1, <2>5 DEF WalkTake, WalkSkip, WalkEnterRegion, WalkNextCycle
    <2>6. CASE WalkCheckFails(c)
      BY <1>2, <2>6 DEF WalkCheckFails, Fail
    <2> QED
      BY <1>5, <2>2, <2>3, <2>4, <2>5, <2>6 DEF Proceed, Walk
  <1>6. CASE ChangeSource \/ UNCHANGED poolVars
    BY <1>6 DEF ChangeSource, poolVars, cursorVars, fileVars, countVars
  <1> QED
    BY <1>3, <1>4, <1>5, <1>6 DEF Next

\* How a cycle comes to an end.
LEMMA CycleStep ==
    ASSUME HistoryInvariant, [Next]_poolVars, cycle' > cycle
    PROVE  WalkDone /\ ~ closed /\ terminal = NoError
  <1>1. PoolInvariant /\ StageKept /\ OverIsIdle /\ cycle \in Nat
    BY DEF HistoryInvariant, LinesInvariant, PoolInvariant, Invariant, CursorTypeOK
  <1>2. StartsOver
    <2>1. cycle' # cycle
      BY <1>1, SMT
    <2> QED
      BY <2>1, StepKinds DEF StandsStill, FindsLines, TakesBlock, ReturnsLines, ServesLines
  <1>3. ASSUME NEW c \in Callers, Enter(c)
        PROVE  FALSE
    <2>1. cycle' = 0 \/ cycle' = cycle
      BY <1>3 DEF Enter, EnterNext, Reset, ResetFails, Close, StartCycle, cursorVars
    <2> QED
      BY <1>1, <2>1, SMT
  <1>4. ASSUME NEW c \in Callers, Proceed(c)
        PROVE  WalkDone /\ ~ closed /\ terminal = NoError
    <2>1. ~ closed /\ terminal = NoError
      BY <1>1, <1>4, OverNeverProceeds
    <2>2. CASE WalkNextCycle(c)
      BY <1>1, <2>1, <2>2, CheckedIsUnchanged DEF WalkNextCycle, WalkDone
    <2>3. CASE ~ WalkNextCycle(c)
      <3>1. cycle' = cycle
        <4>1. CASE Walk(c)
          BY <2>3, <4>1 DEF Walk, WalkTake, TakeBlock, WalkSkip, SkipBlock, WalkEnterRegion,
                            EnterRegion, WalkCheckFails, WalkEnds, cursorVars
        <4>2. CASE Load(c)
          BY <4>2, LoadingFindsOrNot DEF StandsStill, FindsLines
        <4>3. CASE Serve(c)
          BY <4>3, ServingReturnsLines DEF Serve, ReturnsLines, ServesLines
        <4> QED
          BY <1>4, <4>1, <4>2, <4>3 DEF Proceed
      <3> QED
        BY <1>1, <3>1, SMT
    <2> QED
      BY <2>2, <2>3
  <1>5. ASSUME \/ \E c \in Callers, operation \in Operations : Call(c, operation)
               \/ ChangeSource \/ UNCHANGED poolVars
        PROVE  FALSE
    <2>1. cycle' = cycle
      BY <1>5 DEF Call, ChangeSource, poolVars, cursorVars
    <2> QED
      BY <1>1, <2>1, SMT
  <1> QED
    BY <1>3, <1>4, <1>5 DEF Next

\* The invariant holds of a pool just opened.
LEMMA InitComplete == Init => CompleteKept /\ EofMeansComplete
  <1> SUFFICES ASSUME Init
               PROVE  CompleteKept /\ EofMeansComplete
    OBVIOUS
  <1>1. disk.intact /\ terminal = NoError /\ skipped = {} /\ taken = {}
    BY DEF Init, CursorInit
  <1>2. LineCount = -1 /\ lineCursor = 0
    BY SMT DEF Init, LineCount
  <1>3. ~ LinesLeft
    BY <1>2, SMT DEF LinesLeft
  <1> QED
    BY <1>1, <1>3 DEF CompleteKept, ChangesCounted, SkippedAreLineless, ReturnedSoFar, TakenServed,
                      EofMeansComplete, NoError

\* Every step keeps it.
LEMMA CompleteStays ==
    HistoryInvariant /\ CompleteKept /\ EofMeansComplete /\ [Next]_poolVars =>
        CompleteKept' /\ EofMeansComplete'
  <1> SUFFICES ASSUME HistoryInvariant, CompleteKept, EofMeansComplete, [Next]_poolVars
               PROVE  CompleteKept' /\ EofMeansComplete'
    OBVIOUS
  <1>1. CompleteKept'
    BY CountingStays, SkippingKeeps, ReturnedStays, TakenStaysServed DEF CompleteKept
  <1>2. ASSUME ChangesShow', terminal' = "EOF"
        PROVE  (ToSet(CycleHistory) = OwedLines)'
    <2>1. ChangesShow
      BY <1>2, CountingStays
    <2>2. /\ UNCHANGED <<options, source, cycle, cycleStartCursor, history>>
          /\ terminal = "EOF" \/ (WalkDone /\ ~ closed /\ terminal = NoError)
      BY <1>2, EofStep
    <2>3. ToSet(CycleHistory) = OwedLines
      BY <2>1, <2>2, DoneIsComplete DEF EofMeansComplete
    <2> QED
      BY <2>2, <2>3 DEF CycleHistory, OwedLines
  <1> QED
    BY <1>1, <1>2 DEF EofMeansComplete

\* io.EOF is returned only when each line of the shard was returned in this cycle, and
\* nothing else, as the file stood when it was opened, unless bytes of it were rewritten
\* with the modification time left alone. A block is left only when its last line is
\* returned, a block without a line holds none, a skipped block lies within a line, and the
\* check of the source that nextLocked makes before io.EOF comes after all of this.
THEOREM EofIsComplete == Spec => []EofMeansComplete
  <1>1. Init => HistoryInvariant /\ CompleteKept /\ EofMeansComplete
    BY InitHistoryInvariant, InitComplete
  <1>2. HistoryInvariant /\ CompleteKept /\ EofMeansComplete /\ [Next]_poolVars =>
            HistoryInvariant' /\ CompleteKept' /\ EofMeansComplete'
    BY HistoryStays, CompleteStays
  <1> QED
    BY <1>1, <1>2, PTL DEF Spec

\* The next automatic cycle begins only when all lines of this one were returned
\* (startCycleLocked).
THEOREM CycleIsComplete == Spec => CyclesComplete
  <1>1. Init => HistoryInvariant /\ CompleteKept /\ EofMeansComplete
    BY InitHistoryInvariant, InitComplete
  <1>2. HistoryInvariant /\ CompleteKept /\ EofMeansComplete /\ [Next]_poolVars =>
            HistoryInvariant' /\ CompleteKept' /\ EofMeansComplete'
    BY HistoryStays, CompleteStays
  <1>3. HistoryInvariant /\ CompleteKept /\ [Next]_poolVars =>
            [(ChangesShow /\ cycle' > cycle) => ToSet(CycleHistory) = OwedLines]_poolVars
    BY CycleStep, DoneIsComplete
  <1> QED
    BY <1>1, <1>2, <1>3, PTL DEF Spec, CyclesComplete

-----------------------------------------------------------------------------
(* The pool implements LineStream.                                         *)

\* Only a pool that is reused leaves its first cycle.
CycleKept == cycle # 0 => options.reuse

\* A longer sequence that begins like a shorter one and has other lines behind it
\* is what LineStream delivers.
LEMMA MoreLines ==
    ASSUME NEW old \in Seq(Line), NEW new \in Seq(Line), NEW owed,
           Len(old) < Len(new),
           \A i \in 1 .. Len(old) : new[i] = old[i],
           \A i, j \in 1 .. Len(new) : i < j => new[i].start # new[j].start,
           \A i \in 1 .. Len(new) : new[i] \in owed
    PROVE  LET more == SubSeq(new, Len(old) + 1, Len(new))
           IN  /\ Stream!IsStrictPrefix(old, new)
               /\ Stream!IsInjective(more)
               /\ Stream!ToSet(more) \subseteq owed \ Stream!ToSet(old)
  <1> DEFINE m    == Len(old)
             n    == Len(new)
             more == SubSeq(new, m + 1, n)
  <1>1. m \in Nat /\ n \in Nat /\ m < n
    OBVIOUS
  <1>2. DOMAIN old = 1 .. m /\ DOMAIN new = 1 .. n
    OBVIOUS
  <1>3. /\ more \in Seq(Line)
        /\ Len(more) = IF m + 1 <= n THEN n - (m + 1) + 1 ELSE 0
        /\ \A i \in 1 .. n - (m + 1) + 1 : more[i] = new[m + 1 + i - 1]
    <2>1. m + 1 \in Int /\ n \in Int /\ \A i \in m + 1 .. n : new[i] \in Line
      BY <1>1, <1>2
    <2> QED
      BY <2>1, SubSeqProperties
  <1>4. /\ SubSeq(new, 1, m) \in Seq(Line)
        /\ Len(SubSeq(new, 1, m)) = IF 1 <= m THEN m - 1 + 1 ELSE 0
        /\ \A i \in 1 .. m - 1 + 1 : SubSeq(new, 1, m)[i] = new[1 + i - 1]
    <2>1. 1 \in Int /\ m \in Int /\ \A i \in 1 .. m : new[i] \in Line
      BY <1>1, <1>2
    <2> QED
      BY <2>1, SubSeqProperties
  <1>5. /\ SubSeq(old, 1, m) \in Seq(Line)
        /\ Len(SubSeq(old, 1, m)) = IF 1 <= m THEN m - 1 + 1 ELSE 0
        /\ \A i \in 1 .. m - 1 + 1 : SubSeq(old, 1, m)[i] = old[1 + i - 1]
    <2>1. 1 \in Int /\ m \in Int /\ \A i \in 1 .. m : old[i] \in Line
      BY <1>1, <1>2
    <2> QED
      BY <2>1, SubSeqProperties
  <1>6. \A i \in 1 .. m : new[i] = old[i]
    OBVIOUS
  <1>7. \A i, j \in 1 .. n : i < j => new[i].start # new[j].start
    OBVIOUS
  <1>8. \A i \in 1 .. n : new[i] \in owed
    OBVIOUS
  <1>9. Stream!IsStrictPrefix(old, new)
    <2>1. old # new
      BY <1>1
    <2>2. SubSeq(old, 1, m) = SubSeq(new, 1, m)
      <3> DEFINE a == SubSeq(old, 1, m)
                 b == SubSeq(new, 1, m)
      <3>1. a \in Seq(Line) /\ b \in Seq(Line) /\ Len(a) = m /\ Len(b) = m
        <4> HIDE DEF m, n
        <4> QED
          BY <1>1, <1>4, <1>5, SMT
      <3>2. \A i \in 1 .. m : a[i] = b[i]
        <4> HIDE DEF m, n
        <4>1. ASSUME NEW i \in 1 .. m
              PROVE  i \in 1 .. m - 1 + 1 /\ 1 + i - 1 = i
          BY <1>1, SMT
        <4> QED
          BY <1>4, <1>5, <1>6, <4>1
      <3> HIDE DEF a, b
      <3> QED
        BY <3>1, <3>2, SeqEqual DEF a, b
    <2>3. m <= n
      BY <1>1
    <2> QED
      BY <2>1, <2>2, <2>3 DEF Stream!IsStrictPrefix, Stream!IsPrefix
  <1> HIDE DEF m, n
  <1>10. Len(more) = n - m /\ DOMAIN more = 1 .. n - m
    <2>1. Len(more) = n - m
      BY <1>1, <1>3, SMT
    <2> HIDE DEF more
    <2> QED
      BY <1>3, <2>1
  <1>11. ASSUME NEW i \in 1 .. n - m
         PROVE  i \in Nat /\ m + i \in 1 .. n /\ m + i > m /\ more[i] = new[m + i]
    <2>1. i \in 1 .. n - (m + 1) + 1 /\ m + 1 + i - 1 = m + i /\ i \in Nat /\ m + i \in 1 .. n /\ m + i > m
      BY <1>1, SMT
    <2> QED
      BY <1>3, <2>1
  <1> HIDE DEF more
  <1>12. Stream!IsInjective(more)
    <2>1. ASSUME NEW i \in 1 .. n - m, NEW j \in 1 .. n - m, i < j
          PROVE  more[i] # more[j]
      <3>1. m + i < m + j
        BY <1>1, <2>1, SMT
      <3>2. new[m + i].start # new[m + j].start
        BY <1>7, <1>11, <3>1
      <3> QED
        BY <1>11, <3>2
    <2>2. ASSUME NEW i \in 1 .. n - m, NEW j \in 1 .. n - m, more[i] = more[j]
          PROVE  i = j
      <3>1. i < j \/ j < i \/ i = j
        BY <1>11, SMT
      <3> QED
        BY <2>1, <2>2, <3>1
    <2> QED
      BY <1>10, <2>2 DEF Stream!IsInjective
  <1>13. ASSUME NEW i \in 1 .. n - m
         PROVE  more[i] \in owed /\ \A k \in 1 .. m : old[k] # more[i]
    <2>1. more[i] = new[m + i] /\ m + i \in 1 .. n
      BY <1>11
    <2>2. ASSUME NEW k \in 1 .. m
          PROVE  old[k] # more[i]
      <3>1. k \in 1 .. n /\ k < m + i
        BY <1>1, <1>11, SMT
      <3>2. new[k].start # new[m + i].start
        BY <1>7, <2>1, <3>1
      <3> QED
        BY <1>6, <2>1, <3>2
    <2> QED
      BY <1>8, <2>1, <2>2
  <1>14. Stream!ToSet(more) = { more[i] : i \in 1 .. n - m }
    BY <1>10 DEF Stream!ToSet
  <1>15. Stream!ToSet(old) = { old[i] : i \in 1 .. m }
    BY <1>2 DEF Stream!ToSet
  <1>16. Stream!ToSet(more) \subseteq owed \ Stream!ToSet(old)
    BY <1>13, <1>14, <1>15
  <1> QED
    BY <1>9, <1>12, <1>16 DEF more, m, n

\* The lines of the cycle, as a sequence.
CycleShape ==
    /\ CycleHistory \in Seq(Line)
    /\ Len(CycleHistory) = Len(history) - cycleStartCursor
    /\ \A i \in 1 .. Len(history) - cycleStartCursor :
         /\ i \in Nat /\ cycleStartCursor + i \in InCycle
         /\ CycleHistory[i] = history[cycleStartCursor + i]

LEMMA CycleHasShape == HistoryInvariant => CycleShape
  <1> SUFFICES ASSUME HistoryInvariant
               PROVE  CycleShape
    OBVIOUS
  <1> DEFINE n     == Len(history)
             s     == cycleStartCursor
             lines == CycleHistory
  <1>1. PoolInvariant /\ HistoryTyped
    BY DEF HistoryInvariant, LinesInvariant, HistoryKept
  <1>2. n \in Nat /\ s \in 0 .. n /\ \A i \in s + 1 .. n : history[i] \in Line
    BY <1>1, CycleInHistory DEF InCycle
  <1>3. lines = SubSeq(history, s + 1, n)
    BY DEF CycleHistory
  <1>4. InCycle = s + 1 .. n
    BY DEF InCycle
  <1> HIDE DEF n, s, lines
  <1>5. s + 1 \in Int /\ n \in Int
    BY <1>2, SMT
  <1>6. /\ lines \in Seq(Line)
        /\ Len(lines) = IF s + 1 <= n THEN n - (s + 1) + 1 ELSE 0
        /\ \A i \in 1 .. n - (s + 1) + 1 : lines[i] = history[s + 1 + i - 1]
    BY <1>2, <1>3, <1>5, SubSeqProperties
  <1>7. Len(lines) = n - s
    BY <1>2, <1>6, SMT
  <1>8. ASSUME NEW i \in 1 .. n - s
        PROVE  i \in Nat /\ s + i \in s + 1 .. n /\ lines[i] = history[s + i]
    <2>1. i \in 1 .. n - (s + 1) + 1 /\ s + 1 + i - 1 = s + i /\ i \in Nat /\ s + i \in s + 1 .. n
      BY <1>2, SMT
    <2> QED
      BY <1>6, <2>1
  <1> QED
    BY <1>4, <1>6, <1>7, <1>8 DEF CycleShape, n, s, lines

\* What is returned is delivered.
LEMMA ReturningDelivers ==
    ASSUME HistoryInvariant, HistoryInvariant', ReturnsLines, disk.intact',
           StreamStatus = "open", StreamStatus' = "open", OwedLines' = OwedLines
    PROVE  Stream!Deliver
  <1>1. PICK n \in Nat : ServesLines(n)
    BY DEF ReturnsLines
  <1> DEFINE h   == Len(history)
             h1  == Len(history')
             s   == cycleStartCursor
             old == CycleHistory
             new == CycleHistory'
  <1>2. /\ h \in Nat /\ s \in 0 .. h
        /\ old \in Seq(Line) /\ Len(old) = h - s
        /\ \A i \in 1 .. h - s : old[i] = history[s + i]
    BY CycleHasShape, CycleLines DEF CycleShape
  <1>3. CycleShape' /\ StartsDiffer' /\ LinesIntact' /\ cycleStartCursor' = s
    <2>1. CycleShape'
      BY CycleHasShape, PTL
    <2>2. LinesIntact'
      BY ReturnedAreOwed, PTL
    <2> QED
      BY <1>1, <2>1, <2>2 DEF ServesLines, HistoryInvariant, HistoryKept
  <1>4. /\ new \in Seq(Line) /\ Len(new) = h1 - s
        /\ \A i \in 1 .. h1 - s : /\ i \in Nat /\ s + i \in InCycle'
                                  /\ new[i] = history'[s + i]
    BY <1>3 DEF CycleShape
  <1>5. h1 = h + n /\ \A i \in 1 .. h : history'[i] = history[i]
    BY <1>1, HistoryGrows
  <1>6. n > 0
    <2>1. LinesLeft /\ n \in 1 .. LineCount - lineCursor
      BY <1>1 DEF ServesLines
    <2> QED
      BY <2>1, SMT
  <1>7. \A i, j \in InCycle' : i < j => history'[i].start # history'[j].start
    BY <1>3 DEF StartsDiffer
  <1>8. \A i \in DOMAIN new : new[i] \in OwedLines'
    BY <1>3 DEF LinesIntact, ToSet
  <1>9. options' = options
    BY <1>1 DEF ServesLines
  <1> HIDE DEF h, h1, s, old, new
  <1>10. Len(old) < Len(new)
    BY <1>1, <1>2, <1>4, <1>5, <1>6, SMT
  <1>11. \A i \in 1 .. Len(old) : new[i] = old[i]
    <2> SUFFICES ASSUME NEW i \in 1 .. h - s
                 PROVE  new[i] = old[i]
      BY <1>2
    <2>1. i \in 1 .. h1 - s /\ s + i \in 1 .. h
      BY <1>1, <1>2, <1>5, SMT
    <2> QED
      BY <1>2, <1>4, <1>5, <2>1
  <1>12. \A i, j \in 1 .. Len(new) : i < j => new[i].start # new[j].start
    <2> SUFFICES ASSUME NEW i \in 1 .. h1 - s, NEW j \in 1 .. h1 - s, i < j
                 PROVE  new[i].start # new[j].start
      BY <1>4
    <2>1. s + i < s + j
      BY <1>2, SMT
    <2> QED
      BY <1>4, <1>7, <2>1
  <1>13. \A i \in 1 .. Len(new) : new[i] \in OwedLines'
    BY <1>4, <1>8
  <1> DEFINE more == SubSeq(new, Len(old) + 1, Len(new))
  <1>14. /\ Stream!IsStrictPrefix(old, new)
         /\ Stream!IsInjective(more)
         /\ Stream!ToSet(more) \subseteq OwedLines \ Stream!ToSet(old)
    BY <1>2, <1>4, <1>10, <1>11, <1>12, <1>13, MoreLines
  <1> QED
    BY <1>9, <1>14 DEF Stream!Deliver, old, new

LEMMA InitCycleKept == Init => CycleKept
  BY DEF Init, CursorInit, CycleKept

LEMMA CycleStaysKept ==
    ASSUME PoolInvariant, CycleKept, [Next]_poolVars
    PROVE  CycleKept' /\ options' = options
  <1>1. [CursorNext]_cursorVars
    BY EveryStepKeeps
  <1>2. CASE UNCHANGED cursorVars
    BY <1>2 DEF CycleKept, cursorVars
  <1>3. CASE TakeBlock \/ SkipBlock \/ EnterRegion
             \/ \E end \in 0 .. BlockCount(options) : block + 1 <= end /\ ContinueLine(end)
    BY <1>3 DEF CycleKept, TakeBlock, SkipBlock, EnterRegion, ContinueLine
  <1>4. CASE NextCycle
    BY <1>4 DEF CycleKept, NextCycle, StartCycle
  <1>5. CASE Rewind
    BY <1>5 DEF CycleKept, Rewind, StartCycle
  <1> QED
    BY <1>1, <1>2, <1>3, <1>4, <1>5 DEF CursorNext

\* Each line begins in a block.
LEMMA StartInBlock ==
    ASSUME NEW o \in ValidOptions, NEW start \in Nat, start < o.fileSize
    PROVE  start \div o.blockBytes \in 0 .. BlockCount(o) - 1
  <1> DEFINE size  == o.blockBytes
             count == BlockCount(o)
             b     == start \div size
             below == count * size
  <1>1. size \in Nat \ {0} /\ count \in Nat /\ o.fileSize \in Nat /\ o.fileSize <= below
    BY OpenedSizes
  <1>2. b \in Int /\ start % size \in 0 .. size - 1 /\ start = size * b + (start % size)
    <2> HIDE DEF size
    <2>1. start \in Int
      OBVIOUS
    <2> QED
      BY <1>1, <2>1, DivisionFacts
  <1>3. b >= 0
    <2> HIDE DEF b, size
    <2> QED
      BY <1>1, <1>2, SMT
  <1>4. count # 0
    <2>1. SUFFICES ASSUME count = 0
                   PROVE  FALSE
      OBVIOUS
    <2> HIDE DEF count, size
    <2>2. below = 0
      BY <1>1, <2>1, SMT
    <2> HIDE DEF below
    <2> QED
      BY <1>1, <2>2, SMT
  <1>5. b < count
    <2>1. SUFFICES ASSUME ~ (b < count)
                   PROVE  FALSE
      OBVIOUS
    <2> DEFINE last == count - 1
    <2>2. last \in Nat /\ last + 1 = count /\ last + 1 <= b
      <3> HIDE DEF b, count
      <3> QED
        BY <1>1, <1>2, <1>4, <2>1, SMT
    <2> HIDE DEF last, count, size
    <2>3. start >= last * size + size
      BY <1>1, <2>2, LaterBlockIsBehind, start \in Int
    <2>4. last * size + size = below /\ below \in Nat
      BY <1>1, <2>2, BlockProduct
    <2>5. start >= below /\ below \in Nat
      BY <2>3, <2>4
    <2> HIDE DEF below
    <2> QED
      BY <1>1, <2>5, SMT
  <1> HIDE DEF b, count
  <1>6. b \in 0 .. count - 1
    BY <1>1, <1>2, <1>3, <1>5, SMT
  <1> QED
    BY <1>6 DEF b, count

\* A pool that is reused walks the whole file, so it owes all lines in every cycle.
OwesAll == OwedLines = Lines(source)

LEMMA ReusedOwesAll == LinesInvariant /\ options.reuse => OwesAll
  <1> SUFFICES ASSUME LinesInvariant, options.reuse
               PROVE  OwesAll
    OBVIOUS
  <1>1. options \in ValidOptions /\ cycle \in Nat
    BY DEF LinesInvariant, PoolInvariant, Invariant, CursorTypeOK
  <1>2. options.shardCount = 1 /\ options.shardIndex \in Words /\ options.shardIndex < 1
    BY <1>1 DEF ValidOptions
  <1>3. options.shardIndex = 0
    BY <1>2, WordAssumption, SMT DEF Words
  <1>4. OfShard(options, 0) = options
    BY <1>1, <1>3 DEF OfShard, ValidOptions
  <1>5. ASSUME NEW b \in 0 .. BlockCount(options) - 1
        PROVE  b \in ShardBlocks(options, cycle)
    <2>1. PICK shard \in 0 .. options.shardCount - 1 :
            { i \in 0 .. options.shardCount - 1 : b \in ShardBlocks(OfShard(options, i), cycle) } = {shard}
      BY <1>1, OneShardHasBlock
    <2>2. 0 .. options.shardCount - 1 = {0}
      BY <1>2, SMT
    <2>3. shard = 0 /\ b \in ShardBlocks(OfShard(options, shard), cycle)
      BY <2>1, <2>2
    <2> QED
      BY <1>4, <2>3
  <1>6. ASSUME NEW start \in LineStarts(source)
        PROVE  start \div options.blockBytes \in ShardBlocks(options, cycle)
    <2>1. Len(source) = options.fileSize /\ source \in Seq(Byte)
      BY PoolAssumption DEF LinesInvariant, LinesFormed, PoolInvariant, SourceKept
    <2>2. start \in Nat /\ start < options.fileSize
      <3>1. start \in 0 .. Len(source) - 1 /\ Len(source) \in Nat
        BY <2>1 DEF LineStarts
      <3> QED
        BY <2>1, <3>1, SMT
    <2> QED
      BY <1>1, <1>5, <2>2, StartInBlock
  <1>7. \A line \in Lines(source) : line.start \in LineStarts(source)
    BY DEF Lines
  <1> QED
    BY <1>6, <1>7 DEF OwesAll, OwedLines

\* So what a pool owes never changes.
LEMMA OwedLinesStay ==
    ASSUME HistoryInvariant, HistoryInvariant', CycleKept, [Next]_poolVars
    PROVE  OwedLines' = OwedLines /\ options' = options
  <1>1. PoolInvariant /\ LinesInvariant /\ LinesInvariant'
    BY DEF HistoryInvariant, LinesInvariant
  <1>2. CycleKept' /\ options' = options
    BY <1>1, CycleStaysKept
  <1>3. source' = source
    BY StepKinds DEF StandsStill, FindsLines, TakesBlock, StartsOver, ReturnsLines, ServesLines, SameFile
  <1>4. CASE options.reuse
    <2>1. OwesAll'
      <3>1. LinesInvariant' /\ (options.reuse)' => OwesAll'
        BY ReusedOwesAll, PTL
      <3> QED
        BY <1>1, <1>2, <1>4, <3>1
    <2> QED
      BY <1>1, <1>2, <1>3, <1>4, <2>1, ReusedOwesAll DEF OwesAll
  <1>5. CASE ~ options.reuse
    BY <1>2, <1>3, <1>5 DEF CycleKept, OwedLines
  <1> QED
    BY <1>2, <1>4, <1>5

\* The stream's status, case by case.
StatusTold ==
    /\ closed => StreamStatus = "closed"
    /\ ~ closed /\ terminal = NoError => StreamStatus = "open"
    /\ ~ closed /\ terminal = "EOF" => StreamStatus = "ended"
    /\ ~ closed /\ terminal # NoError /\ terminal # "EOF" => StreamStatus = "failed"

LEMMA StatusCases == StatusTold
  <1>1. closed => StreamStatus = "closed"
    BY DEF StreamStatus
  <1>2. ~ closed /\ terminal = NoError => StreamStatus = "open"
    BY DEF StreamStatus, NoError
  <1>3. ~ closed /\ terminal = "EOF" => StreamStatus = "ended"
    BY DEF StreamStatus, NoError
  <1>4. ~ closed /\ terminal # NoError /\ terminal # "EOF" => StreamStatus = "failed"
    BY DEF StreamStatus
  <1> QED
    BY <1>1, <1>2, <1>3, <1>4 DEF StatusTold

\* Calls do nothing to the stream until they have the mutex, and what happens to the
\* file shows only when it is checked.
LEMMA IdleSteps ==
    ASSUME OwedLines' = OwedLines, options' = options,
           UNCHANGED <<history, cycleStartCursor, closed, terminal>>
    PROVE  UNCHANGED Stream!streamVars
  <1>1. CycleHistory' = CycleHistory
    BY DEF CycleHistory
  <1>2. StreamStatus' = StreamStatus
    BY DEF StreamStatus
  <1> QED
    BY <1>1, <1>2 DEF Stream!streamVars

\* An error other than EOF fails the stream.
LEMMA FailingSteps ==
    ASSUME OwedLines' = OwedLines, options' = options,
           UNCHANGED <<history, cycleStartCursor, closed>>, ~ closed,
           terminal' # NoError, terminal' # "EOF"
    PROVE  Stream!Fail
  <1>1. CycleHistory' = CycleHistory
    BY DEF CycleHistory
  <1>2. StreamStatus' = "failed"
    <2>1. StatusTold'
      BY StatusCases, PTL
    <2> QED
      BY <2>1 DEF StatusTold
  <1>3. StreamStatus # "closed"
    BY DEF StreamStatus, NoError
  <1> QED
    BY <1>1, <1>2, <1>3 DEF Stream!Fail

\* Reset starts over; it can fail, and does nothing after Close.
LEMMA ResetSteps ==
    ASSUME HistoryInvariant, HistoryInvariant', OwedLines' = OwedLines, options' = options,
           NEW c \in Callers, Reset(c) \/ ResetFails(c) \/ Close(c)
    PROVE  Stream!StreamNext \/ UNCHANGED Stream!streamVars
  <1>1. CASE Reset(c)
    <2>1. ~ closed /\ ~ closed' /\ terminal' = NoError /\ history' = <<>> /\ cycleStartCursor' = 0
      BY <1>1 DEF Reset
    <2>2. StreamStatus' = "open"
      <3>1. StatusTold'
        BY StatusCases, PTL
      <3> QED
        BY <2>1, <3>1 DEF StatusTold
    <2>3. StreamStatus # "closed"
      BY <2>1 DEF StreamStatus, NoError
    <2>4. CycleHistory' = <<>>
      BY <2>1 DEF CycleHistory
    <2>5. Stream!Rewind
      BY <2>2, <2>3, <2>4 DEF Stream!Rewind
    <2> QED
      BY <2>5 DEF Stream!StreamNext
  <1>2. CASE ResetFails(c)
    <2>1. UNCHANGED <<history, cycleStartCursor, closed>>
      BY <1>2 DEF ResetFails, countVars
    <2>2. CASE closed
      BY <1>2, <2>1, <2>2, IdleSteps DEF ResetFails
    <2>3. CASE ~ closed
      <3>1. PICK error \in Errors : Validates(error) /\ terminal' = error
        BY <1>2, <2>3 DEF ResetFails
      <3>2. terminal' # NoError /\ terminal' # "EOF"
        BY <3>1 DEF Validates, ValidationErrors, Errors, NoError
      <3>3. Stream!Fail
        BY <2>1, <2>3, <3>2, FailingSteps
      <3> QED
        BY <3>3 DEF Stream!StreamNext
    <2> QED
      BY <2>2, <2>3
  <1>3. CASE Close(c)
    <2>1. UNCHANGED <<history, cycleStartCursor>> /\ closed'
      BY <1>3 DEF Close, countVars
    <2>2. StreamStatus' = "closed"
      <3>1. StatusTold'
        BY StatusCases, PTL
      <3> QED
        BY <2>1, <3>1 DEF StatusTold
    <2>3. CycleHistory' = CycleHistory
      BY <2>1 DEF CycleHistory
    <2>4. Stream!Close
      BY <2>2, <2>3 DEF Stream!Close
    <2> QED
      BY <2>4 DEF Stream!StreamNext
  <1> QED
    BY <1>1, <1>2, <1>3

\* What the walk does to the stream: a failed check ends it, a check at the end of the
\* last cycle ends it well, and a new cycle begins when all lines were returned.
LEMMA WalkSteps ==
    ASSUME HistoryInvariant, CompleteKept, OwedLines' = OwedLines, options' = options,
           disk.intact, ~ closed, terminal = NoError, NEW c \in Callers, Walk(c)
    PROVE  Stream!StreamNext \/ UNCHANGED Stream!streamVars
  <1>1. PoolInvariant /\ LinesInvariant /\ HistoryTyped
    BY DEF HistoryInvariant, LinesInvariant, HistoryKept
  <1>2. StreamStatus = "open"
    BY StatusCases DEF StatusTold
  <1>3. ChangesShow
    BY DEF ChangesShow
  <1>4. CASE WalkTake(c) \/ WalkSkip(c) \/ WalkEnterRegion(c)
    <2>1. UNCHANGED <<history, cycleStartCursor, closed, terminal>>
      BY <1>4 DEF WalkTake, WalkSkip, WalkEnterRegion, countVars
    <2> QED
      BY <2>1, IdleSteps
  <1>5. CASE WalkCheckFails(c)
    <2>1. UNCHANGED <<history, cycleStartCursor, closed>>
      BY <1>5 DEF WalkCheckFails, countVars
    <2>2. PICK error \in Errors : Validates(error) /\ terminal' = error
      BY <1>5 DEF WalkCheckFails, Fail
    <2>3. terminal' # NoError /\ terminal' # "EOF"
      BY <2>2 DEF Validates, ValidationErrors, Errors, NoError
    <2>4. Stream!Fail
      BY <2>1, <2>3, FailingSteps
    <2> QED
      BY <2>4 DEF Stream!StreamNext
  <1>6. ASSUME WalkEnds(c) \/ WalkNextCycle(c)
        PROVE  ToSet(CycleHistory) = OwedLines
    <2>1. pc = "walk" /\ Exhausted /\ Validates(NoError)
      BY <1>6 DEF WalkEnds, WalkNextCycle
    <2>2. WalkDone
      BY <1>1, <2>1, CheckedIsUnchanged DEF WalkDone
    <2> QED
      BY <1>3, <2>2, DoneIsComplete
  <1>7. CASE WalkEnds(c)
    <2>1. UNCHANGED <<history, cycleStartCursor, closed>> /\ terminal' = "EOF"
      BY <1>7 DEF WalkEnds, Fail, countVars
    <2>2. CycleHistory' = CycleHistory
      BY <2>1 DEF CycleHistory
    <2>3. StreamStatus' = "ended"
      <3>1. StatusTold'
        BY StatusCases, PTL
      <3> QED
        BY <2>1, <3>1 DEF StatusTold
    <2>4. Stream!AllReturned
      BY <1>6, <1>7 DEF Stream!AllReturned, Stream!ToSet, ToSet
    <2>5. ~ options.reuse \/ OwedLines = {}
      <3>1. CASE options.fileSize = 0
        <4>1. Len(source) = 0
          BY <1>1, <3>1 DEF LinesInvariant, LinesFormed
        <4>2. LineStarts(source) = {}
          <5>1. 0 .. Len(source) - 1 = {}
            BY <4>1, SMT
          <5> QED
            BY <5>1 DEF LineStarts
        <4> QED
          BY <4>2 DEF OwedLines, Lines
      <3>2. CASE cursor = cycleStartCursor
        <4>1. InCycle = {}
          <5>1. cursor = Len(history) /\ cursor \in Nat
            BY <1>1, CycleLines DEF HistoryTyped
          <5> QED
            BY <3>2, <5>1, SMT DEF InCycle
        <4> QED
          BY <1>6, <1>7, <4>1, CycleLinesAsSet
      <3> QED
        BY <1>7, <3>1, <3>2 DEF WalkEnds
    <2>6. Stream!End
      BY <1>2, <2>2, <2>3, <2>4, <2>5 DEF Stream!End
    <2> QED
      BY <2>6 DEF Stream!StreamNext
  <1>8. CASE WalkNextCycle(c)
    <2>1. /\ UNCHANGED <<history, closed, terminal>>
          /\ cycleStartCursor' = cursor /\ options.reuse
      BY <1>8 DEF WalkNextCycle
    <2>2. CycleHistory' = <<>>
      <3>1. CycleHistory' = SubSeq(history, Len(history) + 1, Len(history))
        BY <1>1, <2>1 DEF CycleHistory, HistoryTyped
      <3>2. Len(history) \in Nat
        BY CycleLines
      <3> QED
        BY <3>1, <3>2
    <2>3. StreamStatus' = StreamStatus
      BY <2>1 DEF StreamStatus
    <2>4. Stream!AllReturned
      BY <1>6, <1>8 DEF Stream!AllReturned, Stream!ToSet, ToSet
    <2>5. Stream!Repeat
      BY <1>2, <2>1, <2>2, <2>3, <2>4 DEF Stream!Repeat
    <2> QED
      BY <2>5 DEF Stream!StreamNext
  <1> QED
    BY <1>4, <1>5, <1>7, <1>8 DEF Walk

\* Reading a block returns nothing; it may fail, but it does not end the stream.
LEMMA LoadSteps ==
    ASSUME HistoryInvariant, [Next]_poolVars, OwedLines' = OwedLines, options' = options,
           ~ closed, NEW c \in Callers, Load(c)
    PROVE  Stream!StreamNext \/ UNCHANGED Stream!streamVars
  <1>1. UNCHANGED <<history, cycleStartCursor>>
    BY LoadingFindsOrNot DEF StandsStill, FindsLines
  <1>2. closed' = closed
    BY LoadGivesBack
  <1>3. CASE terminal' = terminal
    BY <1>1, <1>2, <1>3, IdleSteps
  <1>4. CASE terminal' # terminal
    <2>1. terminal = NoError
      BY OverNeverProceeds DEF HistoryInvariant, Proceed
    <2>2. pc # "walk"
      BY DEF Load, ReadFails, ShortReadEnds, ReadNoLine, ReadTooLong, ReadWholeLines, ReadLastLine,
             ReadOpenLine, ExtendTooLong, ExtendToEnd, ExtendRead, ExtendFails, ReadsBlock,
             IndexesBlock, Extending
    <2>3. terminal' # "EOF"
      BY <1>4, <2>2, EofStep DEF WalkDone
    <2>4. Stream!Fail
      BY <1>1, <1>2, <1>4, <2>1, <2>3, FailingSteps
    <2> QED
      BY <2>4 DEF Stream!StreamNext
  <1> QED
    BY <1>3, <1>4

\* Every step of the pool is a step of the stream or leaves it alone.
LEMMA StreamStep ==
    ASSUME HistoryInvariant, HistoryInvariant', CompleteKept, CycleKept,
           disk.intact, disk.intact', [Next]_poolVars
    PROVE  [Stream!StreamNext]_Stream!streamVars
  <1>1. OwedLines' = OwedLines /\ options' = options
    BY OwedLinesStay
  <1>2. CASE ChangeSource \/ UNCHANGED poolVars
             \/ \E c \in Callers, operation \in Operations : Call(c, operation)
    <2>1. UNCHANGED <<history, cycleStartCursor, closed, terminal>>
      BY <1>2 DEF ChangeSource, Call, poolVars, countVars
    <2> QED
      BY <1>1, <2>1, IdleSteps
  <1>3. ASSUME NEW c \in Callers, Enter(c)
        PROVE  Stream!StreamNext \/ UNCHANGED Stream!streamVars
    <2>1. CASE EnterNext(c)
      <3>1. UNCHANGED <<history, cycleStartCursor, closed, terminal>>
        BY <2>1 DEF EnterNext, countVars
      <3> QED
        BY <1>1, <3>1, IdleSteps
    <2> QED
      BY <1>1, <1>3, <2>1, ResetSteps DEF Enter
  <1>4. ASSUME NEW c \in Callers, Proceed(c)
        PROVE  Stream!StreamNext \/ UNCHANGED Stream!streamVars
    <2>1. ~ closed /\ terminal = NoError
      BY <1>4, OverNeverProceeds DEF HistoryInvariant
    <2>2. CASE Serve(c)
      <3>1. ReturnsLines
        BY <2>2, ServingReturnsLines DEF Serve
      <3>2. closed' = closed /\ terminal' = terminal
        BY <2>2 DEF Serve, ServeNext, ServeBatch
      <3>3. StreamStatus = "open" /\ StreamStatus' = "open"
        <4>1. StatusTold'
          BY StatusCases, PTL
        <4> QED
          BY <2>1, <3>2, <4>1, StatusCases DEF StatusTold
      <3>4. Stream!Deliver
        BY <1>1, <3>1, <3>3, ReturningDelivers
      <3> QED
        BY <3>4 DEF Stream!StreamNext
    <2> QED
      BY <1>1, <1>4, <2>1, <2>2, WalkSteps, LoadSteps DEF Proceed
  <1> QED
    BY <1>2, <1>3, <1>4 DEF Next

LEMMA InitStream == Init => Stream!StreamInit
  <1> SUFFICES ASSUME Init
               PROVE  Stream!StreamInit
    OBVIOUS
  <1>1. options.reuse \in BOOLEAN
    <2>1. options \in ValidOptions
      BY OpenedAssumption DEF Init, CursorInit
    <2> QED
      BY <2>1 DEF ValidOptions
  <1>2. CycleHistory = <<>>
    BY DEF Init, CycleHistory
  <1>3. StreamStatus = "open"
    BY StatusCases DEF Init, StatusTold
  <1> QED
    BY <1>1, <1>2, <1>3 DEF Stream!StreamInit

\* A pool implements LineStream as long as no bytes of its file are rewritten: whatever
\* is cut off or appended, whichever system calls fail, and however many goroutines
\* call, each cycle returns every line of the shard once and nothing else before EOF or
\* the next cycle comes, failures last until Reset, and nothing follows Close.
THEOREM PoolImplementsStream == Spec /\ [](disk.intact) => ImplementsStream
  <1>1. Init => HistoryInvariant /\ CompleteKept /\ EofMeansComplete /\ CycleKept
    BY InitHistoryInvariant, InitComplete, InitCycleKept
  <1>2. HistoryInvariant /\ CompleteKept /\ EofMeansComplete /\ CycleKept /\ [Next]_poolVars =>
            HistoryInvariant' /\ CompleteKept' /\ EofMeansComplete' /\ CycleKept'
    <2>1. HistoryInvariant => PoolInvariant
      BY DEF HistoryInvariant, LinesInvariant
    <2> QED
      BY <2>1, HistoryStays, CompleteStays, CycleStaysKept
  <1>3. HistoryInvariant /\ HistoryInvariant' /\ CompleteKept /\ CycleKept
            /\ disk.intact /\ (disk.intact)' /\ [Next]_poolVars
            => [Stream!StreamNext]_Stream!streamVars
    BY StreamStep
  <1> QED
    BY <1>1, <1>2, <1>3, InitStream, PTL DEF Spec, ImplementsStream, Stream!StreamSpec

-----------------------------------------------------------------------------
(* Two passes return the lines in one order.                               *)

\* There is only one order: two sequences in it agree as far as both go.
LEMMA OneOrder ==
    ASSUME NEW o \in ValidOptions, NEW file \in Seq(Byte),
           NEW g \in Seq(Line), InCycleOrder(o, file, g),
           NEW h \in Seq(Line), InCycleOrder(o, file, h)
    PROVE  \A i \in 1 .. Len(g) : i <= Len(h) => g[i] = h[i]
  <1> DEFINE different == { i \in 1 .. Len(g) : i <= Len(h) /\ g[i] # h[i] }
  <1> SUFFICES ASSUME different # {}
               PROVE  FALSE
    OBVIOUS
  <1>1. different \in SUBSET Nat /\ Len(g) \in Nat /\ Len(h) \in Nat
    OBVIOUS
  <1>2. PICK m \in different : \A x \in different : m <= x
    BY <1>1, LeastElement
  <1> DEFINE c    == CycleOf(o, file, m)
             size == CycleLength(o, file)
             from == c * size + 1
             s    == g[m].start
             t    == h[m].start
  <1>3. m \in 1 .. Len(g) /\ m \in 1 .. Len(h) /\ g[m] # h[m]
    BY <1>1, <1>2, SMT
  <1>4. LineInOrder(o, file, g, m) /\ LineInOrder(o, file, h, m)
    BY <1>3 DEF InCycleOrder
  <1>5. /\ c \in Nat
        /\ g[m] \in Lines(file) /\ h[m] \in Lines(file)
        /\ s \in OwedStarts(o, file, c) /\ t \in OwedStarts(o, file, c)
        /\ LinesBefore(o, file, c, s) = { g[j].start : j \in from .. m - 1 }
        /\ LinesBefore(o, file, c, t) = { h[j].start : j \in from .. m - 1 }
    BY <1>4 DEF LineInOrder
  <1>6. from \in Nat /\ 1 <= from
    <2>1. size \in Nat
      BY CycleLengthIsNat
    <2> HIDE DEF c, size
    <2>2. c * size \in Nat
      BY <1>5, <2>1, BlockProduct
    <2> QED
      BY <2>2, SMT
  <1>7. \A j \in from .. m - 1 : g[j] = h[j]
    <2> SUFFICES ASSUME NEW j \in from .. m - 1, g[j] # h[j]
                 PROVE  FALSE
      OBVIOUS
    <2> HIDE DEF from
    <2>1. j \in 1 .. Len(g) /\ j <= Len(h) /\ ~ (m <= j)
      BY <1>1, <1>3, <1>6, SMT
    <2> QED
      BY <1>2, <2>1
  <1>8. LinesBefore(o, file, c, s) = LinesBefore(o, file, c, t)
    BY <1>5, <1>7
  <1>9. s = t
    BY <1>5, <1>8, BeforeTells
  <1>10. g[m] = h[m]
    BY <1>5, <1>9 DEF Lines
  <1> QED
    BY <1>3, <1>10

LEMMA AgreeingIsPrefix ==
    ASSUME NEW g \in Seq(Line), NEW h \in Seq(Line), Len(g) <= Len(h),
           \A i \in 1 .. Len(g) : g[i] = h[i]
    PROVE  IsPrefix(g, h)
  <1> DEFINE m == Len(g)
             n == Len(h)
  <1>1. m \in Nat /\ n \in Nat /\ m <= n
    OBVIOUS
  <1>2. /\ SubSeq(g, 1, m) \in Seq(Line)
        /\ Len(SubSeq(g, 1, m)) = IF 1 <= m THEN m - 1 + 1 ELSE 0
        /\ \A i \in 1 .. m - 1 + 1 : SubSeq(g, 1, m)[i] = g[1 + i - 1]
    <2>1. 1 \in Int /\ m \in Int /\ \A i \in 1 .. m : g[i] \in Line
      BY <1>1
    <2> QED
      BY <2>1, SubSeqProperties
  <1>3. /\ SubSeq(h, 1, m) \in Seq(Line)
        /\ Len(SubSeq(h, 1, m)) = IF 1 <= m THEN m - 1 + 1 ELSE 0
        /\ \A i \in 1 .. m - 1 + 1 : SubSeq(h, 1, m)[i] = h[1 + i - 1]
    <2>1. 1 \in Int /\ m \in Int /\ \A i \in 1 .. m : h[i] \in Line
      <3>1. DOMAIN h = 1 .. n /\ \A i \in 1 .. m : i \in 1 .. n
        <4>1. DOMAIN h = 1 .. n
          OBVIOUS
        <4> HIDE DEF m, n
        <4> QED
          BY <1>1, <4>1, SMT
      <3> QED
        BY <1>1, <3>1
    <2> QED
      BY <2>1, SubSeqProperties
  <1>4. \A i \in 1 .. m : g[i] = h[i]
    OBVIOUS
  <1> DEFINE p == SubSeq(g, 1, m)
             q == SubSeq(h, 1, m)
  <1> HIDE DEF m, n
  <1>5. Len(p) = m /\ Len(q) = m
    BY <1>1, <1>2, <1>3, SMT
  <1>6. \A i \in 1 .. m : i \in 1 .. m - 1 + 1 /\ 1 + i - 1 = i
    BY <1>1, SMT
  <1>7. \A i \in 1 .. m : p[i] = q[i]
    BY <1>2, <1>3, <1>4, <1>6
  <1>8. p = q
    BY <1>2, <1>3, <1>5, <1>7, SeqEqual
  <1> QED
    BY <1>1, <1>8 DEF IsPrefix, m, n

\* So one of them is a prefix of the other.
LEMMA OneIsPrefix ==
    ASSUME NEW o \in ValidOptions, NEW file \in Seq(Byte),
           NEW g \in Seq(Line), InCycleOrder(o, file, g),
           NEW h \in Seq(Line), InCycleOrder(o, file, h)
    PROVE  IsPrefix(g, h) \/ IsPrefix(h, g)
  <1>1. Len(g) \in Nat /\ Len(h) \in Nat
    OBVIOUS
  <1>2. \A i \in 1 .. Len(g) : i <= Len(h) => g[i] = h[i]
    BY OneOrder
  <1>3. CASE Len(g) <= Len(h)
    <2>1. \A i \in 1 .. Len(g) : i <= Len(h)
      BY <1>1, <1>3, SMT
    <2> QED
      BY <1>2, <1>3, <2>1, AgreeingIsPrefix
  <1>4. CASE Len(h) <= Len(g)
    <2>1. \A i \in 1 .. Len(h) : i <= Len(h) /\ i \in 1 .. Len(g)
      BY <1>1, <1>4, SMT
    <2> QED
      BY <1>2, <1>4, <2>1, AgreeingIsPrefix
  <1> QED
    BY <1>1, <1>3, <1>4, SMT
-----------------------------------------------------------------------------
(* The lines at hand, numbered.                                            *)

\* A set listed in ascending order: the numbers up to the r-th are r + 1.
LEMMA ListedAscending ==
    ASSUME NEW n \in Nat, NEW f \in [0 .. n - 1 -> Nat],
           \A r, s \in 0 .. n - 1 : r < s => f[r] < f[s]
    PROVE  LET listed == { f[r] : r \in 0 .. n - 1 }
           IN  /\ Cardinality(listed) = n
               /\ \A r \in 0 .. n - 1 : Cardinality({ t \in listed : t <= f[r] }) = r + 1
  <1> DEFINE upTo(m) == { f[r] : r \in 0 .. m - 1 }
             listed  == upTo(n)
  <1>1. \A r, s \in 0 .. n - 1 : f[r] = f[s] => r = s
    <2> SUFFICES ASSUME NEW r \in 0 .. n - 1, NEW s \in 0 .. n - 1, f[r] = f[s]
                 PROVE  r = s
      OBVIOUS
    <2>1. f[r] \in Nat /\ f[s] \in Nat /\ r \in Int /\ s \in Int
      BY SMT
    <2>2. ~ (r < s) /\ ~ (s < r)
      BY <2>1, SMT
    <2> QED
      BY <2>1, <2>2, SMT
  <1>2. ASSUME NEW m \in 0 .. n
        PROVE  Cardinality(upTo(m)) = m
    <2> DEFINE dom == 0 .. m - 1
               g   == [r \in dom |-> f[r]]
    <2>1. /\ \A r \in dom : r \in 0 .. n - 1
          /\ 0 \in Int /\ m - 1 \in Int /\ m \in Nat
      BY SMT
    <2>2. IsFiniteSet(dom) /\ Cardinality(dom) = IF 0 > m - 1 THEN 0 ELSE m - 1 - 0 + 1
      BY <2>1, FS_Interval
    <2>3. Cardinality(dom) = m
      <3>1. (IF 0 > m - 1 THEN 0 ELSE m - 1 - 0 + 1) = m
        BY <2>1, SMT
      <3> QED
        BY <2>2, <3>1
    <2> HIDE DEF dom
    <2>4. g \in Surjection(dom, upTo(m))
      <3>1. g \in [dom -> upTo(m)]
        BY DEF dom
      <3>2. \A t \in upTo(m) : \E r \in dom : g[r] = t
        BY DEF dom
      <3> QED
        BY <3>1, <3>2 DEF Surjection
    <2>5. g \in Injection(dom, upTo(m))
      <3>1. \A r, s \in dom : g[r] = g[s] => r = s
        BY <1>1, <2>1
      <3> QED
        BY <2>4, <3>1 DEF Surjection, Injection, IsInjective
    <2> QED
      BY <2>2, <2>3, <2>4, <2>5, FS_Surjection
  <1>3. n \in 0 .. n
    BY SMT
  <1>4. ASSUME NEW r \in 0 .. n - 1
        PROVE  Cardinality({ t \in listed : t <= f[r] }) = r + 1
    <2>1. r + 1 \in 0 .. n /\ r \in Int
      BY SMT
    <2>2. \A s \in 0 .. n - 1 : f[s] <= f[r] <=> s \in 0 .. (r + 1) - 1
      <3> SUFFICES ASSUME NEW s \in 0 .. n - 1
                   PROVE  f[s] <= f[r] <=> s \in 0 .. (r + 1) - 1
        OBVIOUS
      <3>1. f[s] \in Nat /\ f[r] \in Nat /\ s \in Nat /\ r \in Nat
        BY SMT
      <3>2. s \in 0 .. (r + 1) - 1 <=> ~ (r < s)
        BY <3>1, SMT
      <3>3. CASE r < s
        BY <3>1, <3>2, <3>3, SMT
      <3>4. CASE s < r
        BY <3>1, <3>2, <3>4, SMT
      <3>5. CASE s = r
        BY <3>1, <3>2, <3>5, SMT
      <3> QED
        BY <3>1, <3>3, <3>4, <3>5, SMT
    <2>3. \A s \in 0 .. (r + 1) - 1 : s \in 0 .. n - 1
      BY SMT
    <2>4. { t \in listed : t <= f[r] } = upTo(r + 1)
      <3>1. \A t : t \in upTo(r + 1) <=> \E s \in 0 .. (r + 1) - 1 : t = f[s]
        OBVIOUS
      <3>2. \A t : t \in listed <=> \E s \in 0 .. n - 1 : t = f[s]
        OBVIOUS
      <3> HIDE DEF upTo, listed
      <3> QED
        BY <2>2, <2>3, <3>1, <3>2
    <2> QED
      BY <1>2, <2>1, <2>4
  <1> QED
    BY <1>2, <1>3, <1>4

\* The k-th line of a block in the order of the cycle.
LEMMA OrderedIsKth ==
    ASSUME LinesInvariant, LinesLeft, NEW k \in 0 .. LineCount - 1
    PROVE  KthIndex(options, cycle, block, LineCount, k) = Ordered(k)
  <1>1. CASE options.mode = "ModeSequential"
    BY <1>1, OrderIsPermutation DEF KthIndex
  <1>2. CASE options.mode # "ModeSequential"
    <2> DEFINE seed  == Mix(CycleSeed(options, cycle), block)
               first == PermutationFirst(LineCount, seed)
               step  == PermutationStep(LineCount, seed)
    <2>1. KthIndex(options, cycle, block, LineCount, k) = (first + step * k) % LineCount
      BY <1>2 DEF KthIndex
    <2>2. LineOrder(LineCount) = [step |-> step, first |-> first]
      BY <1>2 DEF LineOrder
    <2>3. Ordered(k) = (first + k * step) % LineCount
      BY <2>2 DEF Ordered
    <2>4. step \in 0 .. LineCount
      BY <2>2, OrderedInRange
    <2>5. LineCount \in Nat
      BY LinesAtHand, SMT
    <2> HIDE DEF first, step
    <2>6. step * k = k * step
      <3> DEFINE n == LineCount
      <3> HIDE DEF n
      <3>1. step \in Int /\ k \in Int
        BY <2>4, <2>5, SMT DEF n
      <3> QED
        BY <3>1, SMT
    <2> QED
      BY <2>1, <2>3, <2>6
  <1> QED
    BY <1>1, <1>2

\* While the bytes are those of the file, the lines at hand are the lines of
\* the block, and their numbers in the block those the pool counts with.
LEMMA IndexAtHand ==
    ASSUME LinesInvariant, LinesLeft, disk.intact
    PROVE  /\ LinesIn(options, source, block) = LineCount
           /\ \A s \in StartsIn(options, source, block) :
                \E k \in 0 .. LineCount - 1 : StartOf(k) = s
           /\ \A k \in 0 .. LineCount - 1 :
                /\ StartOf(k) \in StartsIn(options, source, block)
                /\ IndexIn(options, source, block, StartOf(k))
                       = KthIndex(options, cycle, block, LineCount, k)
  <1> DEFINE n      == LineCount
             starts == StartsIn(options, source, block)
             f      == [r \in 0 .. n - 1 |-> ReadOffset + offsets[r + 1]]
  <1>1. n \in Nat
    BY LinesAtHand, SMT
  <1>2. CutsLines(buffer, offsets) /\ ReadOffset \in Int /\ Len(offsets) = n + 1
        /\ offsets \in Seq(Nat)
    BY LinesAtHand, OwnedBytes DEF LinesWhole, LinesCut, LinesInvariant
  <1>3. \A r \in 0 .. n - 1 : f[r] \in Nat /\ f[r] \in starts
    <2> SUFFICES ASSUME NEW r \in 0 .. n - 1
                 PROVE  f[r] \in Nat /\ f[r] \in starts
      OBVIOUS
    <2>1. /\ LineAt(r) \in Line /\ LineAt(r).start = f[r]
          /\ BlockOf(LineAt(r)) = block /\ LineAt(r) \in Lines(source)
      BY ServedLine
    <2>2. LineAt(r).start \in LineStarts(source)
      BY <2>1 DEF Lines
    <2> QED
      BY <2>1, <2>2 DEF StartsIn, BlockOf, Line
  <1>4. f \in [0 .. n - 1 -> Nat]
    BY <1>3
  <1>5. \A r, s \in 0 .. n - 1 : r < s => f[r] < f[s]
    <2> SUFFICES ASSUME NEW r \in 0 .. n - 1, NEW s \in 0 .. n - 1, r < s
                 PROVE  f[r] < f[s]
      OBVIOUS
    <2> HIDE DEF n
    <2>1. r + 1 < s + 1 /\ r + 1 \in 1 .. n + 1 /\ s + 1 \in 1 .. n + 1
      BY <1>1, SMT
    <2>2. offsets[r + 1] < offsets[s + 1] /\ offsets[r + 1] \in Nat /\ offsets[s + 1] \in Nat
      BY <1>2, <2>1 DEF CutsLines
    <2> DEFINE a == offsets[r + 1]
               b == offsets[s + 1]
    <2>3. a < b /\ a \in Nat /\ b \in Nat
      BY <2>2
    <2> HIDE DEF a, b
    <2>4. ReadOffset + a < ReadOffset + b
      BY <1>2, <2>3, SMT
    <2> QED
      BY <2>4 DEF a, b
  <1>6. \A s \in starts : \E k \in 0 .. n - 1 : StartOf(k) = s
    BY EveryStartAtHand DEF StartsIn
  <1>7. \A k \in 0 .. n - 1 : Ordered(k) \in 0 .. n - 1 /\ StartOf(k) = f[Ordered(k)]
    <2>1. \A k \in 0 .. n - 1 : k \in Nat
      BY <1>1, SMT
    <2> QED
      BY <2>1, OrderedInRange DEF StartOf
  <1>8. starts = { f[r] : r \in 0 .. n - 1 }
    <2>1. \A s \in starts : \E r \in 0 .. n - 1 : s = f[r]
      <3> HIDE DEF f, starts, n
      <3> QED
        BY <1>6, <1>7
    <2> HIDE DEF f, starts, n
    <2> QED
      BY <1>3, <2>1
  <1> HIDE DEF f, starts, n
  <1>9. Cardinality(starts) = n /\ \A r \in 0 .. n - 1 : Cardinality({ t \in starts : t <= f[r] }) = r + 1
    BY <1>1, <1>4, <1>5, <1>8, ListedAscending
  <1>10. LinesIn(options, source, block) = n
    BY <1>9 DEF LinesIn, starts
  <1>11. ASSUME NEW k \in 0 .. n - 1
         PROVE  IndexIn(options, source, block, StartOf(k)) = KthIndex(options, cycle, block, n, k)
    <2> DEFINE r == Ordered(k)
    <2>1. r \in 0 .. n - 1 /\ StartOf(k) = f[r]
      BY <1>7
    <2>2. IndexIn(options, source, block, StartOf(k)) = Cardinality({ t \in starts : t <= f[r] }) - 1
      BY <2>1 DEF IndexIn, starts
    <2>3. KthIndex(options, cycle, block, n, k) = r
      BY OrderedIsKth DEF n
    <2> HIDE DEF r
    <2>4. (r + 1) - 1 = r
      BY <1>1, <2>1, SMT
    <2> QED
      BY <1>9, <2>1, <2>2, <2>3, <2>4
  <1>12. \A k \in 0 .. n - 1 : StartOf(k) \in starts
    BY <1>3, <1>7
  <1> QED
    BY <1>6, <1>10, <1>11, <1>12 DEF n, starts

-----------------------------------------------------------------------------
(* The invariant: histories keep to the order of the cycle.                *)

\* The blocks passed in front of the block at hand are those in front of it
\* in the order of the cycle.
Placed ==
    AtHand =>
        \A b : BlockBefore(options, cycle, b, block) <=> b \in (taken \cup skipped) \ {block}

\* What was returned since Reset and the longest history so far list the
\* lines in the order of the cycles, each cycle a full one before the next.
PassesAgree ==
    /\ InCycleOrder(options, source, history)
    /\ InCycleOrder(options, source, record)
    /\ cycleStartCursor = cycle * CycleLength(options, source)

PassesKept == disk.intact => PassesAgree

RecordTyped == record \in Seq(Line)

PassesInvariant ==
    /\ HistoryInvariant
    /\ CompleteKept
    /\ EofMeansComplete
    /\ CycleKept
    /\ RecordTyped
    /\ Placed
    /\ PassesKept

Restarts == \E c \in Callers : WalkNextCycle(c) \/ Reset(c)

\* Every step stands still, finds lines, takes a block, starts a cycle or
\* returns lines.
LEMMA PassSteps ==
    ASSUME HistoryInvariant, [Next]_poolVars
    PROVE  StandsStill \/ FindsLines \/ TakesBlock \/ Restarts \/ ReturnsLines
  <1>1. ASSUME NEW c \in Callers, NEW operation \in Operations, Call(c, operation)
        PROVE  StandsStill
    BY <1>1, WalkStandsStill
  <1>2. ASSUME NEW c \in Callers, Enter(c)
        PROVE  StandsStill \/ Restarts
    BY <1>2, WalkStandsStill, FailingStandsStill DEF Enter, Restarts
  <1>3. ASSUME NEW c \in Callers, Walk(c)
        PROVE  StandsStill \/ Restarts \/ TakesBlock
    BY <1>3, WalkStandsStill, StartsAreStarts DEF Walk, Restarts
  <1>4. ASSUME NEW c \in Callers, Load(c)
        PROVE  StandsStill \/ FindsLines
    BY <1>4, LoadingFindsOrNot
  <1>5. ASSUME NEW c \in Callers, Serve(c)
        PROVE  ReturnsLines
    BY <1>5, ServingReturnsLines DEF Serve
  <1>6. ASSUME ChangeSource \/ UNCHANGED poolVars
        PROVE  StandsStill
    BY <1>6, FailingStandsStill
  <1> QED
    BY <1>1, <1>2, <1>3, <1>4, <1>5, <1>6 DEF Next, Proceed

\* Blocks are skipped only on the walk, with no line at hand.
LEMMA SkippedStays ==
    ASSUME [Next]_poolVars, AtHand'
    PROVE  skipped' = skipped \/ Restarts
  <1> USE DEF cursorVars, historyVars
  <1>1. CASE \E c \in Callers, operation \in Operations : Call(c, operation)
    BY <1>1 DEF Call
  <1>2. ASSUME NEW c \in Callers, Enter(c)
        PROVE  skipped' = skipped \/ Restarts
    BY <1>2 DEF Enter, EnterNext, ResetFails, Close, Restarts
  <1>3. ASSUME NEW c \in Callers, Walk(c)
        PROVE  skipped' = skipped \/ Restarts
    <2>1. CASE WalkSkip(c)
      <3>1. pc' = "walk"
        BY <2>1 DEF WalkSkip, callVars
      <3> QED
        BY <3>1 DEF AtHand, Reading, LinesLeft
    <2>2. CASE WalkTake(c) \/ WalkEnterRegion(c) \/ WalkCheckFails(c) \/ WalkEnds(c)
      BY <2>2 DEF WalkTake, TakeBlock, WalkEnterRegion, EnterRegion, WalkCheckFails, WalkEnds
    <2> QED
      BY <1>3, <2>1, <2>2 DEF Walk, Restarts
  <1>4. ASSUME NEW c \in Callers, NEW bytes, NEW ends, NEW hint
        PROVE  /\ LineTooLong(c, bytes, ends) => skipped' = skipped
               /\ LineContinues(bytes, ends, hint) => skipped' = skipped
               /\ LineFeedFound(c, bytes, ends, hint) => skipped' = skipped
    BY DEF LineTooLong, LineContinues, ContinueLine, LineFeedFound
  <1>5. ASSUME NEW c \in Callers, Load(c)
        PROVE  skipped' = skipped
    <2>1. CASE ReadFails(c) \/ ShortReadEnds(c) \/ ReadNoLine(c) \/ ReadWholeLines(c) \/ ExtendFails(c)
      BY <2>1 DEF ReadFails, ShortReadEnds, ReadNoLine, ReadWholeLines, ExtendFails
    <2>2. CASE ReadTooLong(c) \/ ReadLastLine(c) \/ ReadOpenLine(c)
      BY <1>4, <2>2 DEF ReadTooLong, ReadLastLine, ReadOpenLine
    <2>3. CASE ExtendTooLong(c) \/ ExtendToEnd(c) \/ ExtendRead(c)
      BY <1>4, <2>3 DEF ExtendTooLong, ExtendToEnd, ExtendRead
    <2> QED
      BY <1>5, <2>1, <2>2, <2>3 DEF Load
  <1>6. ASSUME NEW c \in Callers, Serve(c)
        PROVE  skipped' = skipped
    BY <1>6 DEF Serve, ServeNext, ServeBatch
  <1>7. CASE ChangeSource \/ UNCHANGED poolVars
    BY <1>7 DEF ChangeSource, poolVars
  <1> QED
    BY <1>1, <1>2, <1>3, <1>5, <1>6, <1>7 DEF Next, Proceed

\* The longest history is an earlier one or the present one.
LEMMA RecordStep ==
    ASSUME [Next]_poolVars
    PROVE  record' = record \/ record' = history'
  <1> USE DEF countVars
  <1>1. CASE \E c \in Callers, operation \in Operations : Call(c, operation)
    BY <1>1 DEF Call
  <1>2. ASSUME NEW c \in Callers, Enter(c)
        PROVE  record' = record
    BY <1>2 DEF Enter, EnterNext, Reset, ResetFails, Close
  <1>3. ASSUME NEW c \in Callers, Walk(c)
        PROVE  record' = record
    BY <1>3 DEF Walk, WalkTake, WalkSkip, WalkEnterRegion, WalkCheckFails, WalkEnds, WalkNextCycle
  <1>4. ASSUME NEW c \in Callers, Load(c)
        PROVE  record' = record
    BY <1>4 DEF Load, ReadFails, ShortReadEnds, ReadNoLine, ReadTooLong, ReadWholeLines,
                ReadLastLine, ReadOpenLine, IndexesBlock, ReadsBlock, ExtendTooLong, ExtendToEnd,
                ExtendRead, ExtendFails, Extending
  <1>5. ASSUME NEW c \in Callers, Serve(c)
        PROVE  record' = record \/ record' = history'
    BY <1>5 DEF Serve, ServeNext, ServeBatch, Returned, Longer
  <1>6. CASE ChangeSource \/ UNCHANGED poolVars
    BY <1>6 DEF ChangeSource, poolVars
  <1> QED
    BY <1>1, <1>2, <1>3, <1>4, <1>5, <1>6 DEF Next, Proceed

\* The walk takes the block at its place in the order of the cycle.
LEMMA TakenIsPlaced ==
    ASSUME Invariant, TakeBlock
    PROVE  Placed'
  <1> DEFINE k == regionCursor - 1
             i == regionBlockNext
  <1>1. ~ RegionDone
    BY DEF TakeBlock
  <1>2. /\ options' = options /\ cycle' = cycle /\ block' = CurrentBlock
        /\ taken' = taken \cup {CurrentBlock} /\ skipped' = skipped
    BY DEF TakeBlock
  <1>3. regionCursor > 0
    BY <1>1, PositionInRegion
  <1>4. /\ k \in 0 .. RegionsForShard(options) - 1
        /\ i \in 0 .. regionBlocks - 1
        /\ regionBlockBase = RegionBase(options, Entered)
        /\ regionBlocks = RegionLength(options, Entered)
        /\ taken \cup skipped = FirstBlocks(options, cycle, k) \cup PassedInRegion
    BY <1>1, <1>3, InRegion, PositionInRegion
  <1>5. regionRotation = Rotation(options, cycle, Entered)
    BY <1>3 DEF Invariant, OnSchedule, Entered
  <1>6. options \in ValidOptions /\ cycle \in Nat
    BY DEF Invariant, CursorTypeOK
  <1> HIDE DEF k, i
  <1>7. IsPlace(options, cycle, k, i)
    BY <1>4 DEF IsPlace, Entered, k
  <1>8. \A j : IthBlock(options, cycle, k, j)
                 = regionBlockBase + AddModulo(regionRotation, j, regionBlocks)
    BY <1>4, <1>5 DEF IthBlock, Entered, k
  <1>9. CurrentBlock = IthBlock(options, cycle, k, i)
    BY <1>8 DEF CurrentBlock, i
  <1>10. taken \cup skipped = PassedAt(options, cycle, k, i)
    BY <1>4, <1>8 DEF PassedAt, PassedInRegion, i
  <1>11. CurrentBlock \notin taken \cup skipped
    BY <1>1, InvariantGivesNewBlock DEF NextBlockIsNew
  <1>12. \A b : BlockBefore(options, cycle, b, CurrentBlock) <=> b \in taken \cup skipped
    BY <1>6, <1>7, <1>9, <1>10, BeforePlace
  <1>13. \A b : BlockBefore(options', cycle', b, block')
                  <=> b \in (taken' \cup skipped') \ {block'}
    BY <1>2, <1>11, <1>12
  <1> QED
    BY <1>13 DEF Placed

\* Every step keeps the block at hand in its place.
LEMMA PlacedStays ==
    ASSUME HistoryInvariant, Placed, [Next]_poolVars
    PROVE  Placed'
  <1> SUFFICES ASSUME AtHand'
               PROVE  Placed'
    BY DEF Placed
  <1>1. CASE TakesBlock
    BY <1>1, TakenIsPlaced DEF TakesBlock, HistoryInvariant, LinesInvariant, PoolInvariant
  <1>2. CASE StandsStill \/ FindsLines \/ ReturnsLines
    <2>1. ~ Restarts => skipped' = skipped
      BY SkippedStays
    <2>2. AtHand /\ UNCHANGED <<options, cycle, block, taken>>
      BY <1>2 DEF StandsStill, FindsLines, ReturnsLines, ServesLines, SameFile, AtHand
    <2>3. ~ Restarts
      <3>1. Restarts => ~ AtHand'
        BY StartsAreStarts DEF Restarts, StartsOver, AtHand
      <3> QED
        BY <3>1
    <2> QED
      BY <2>1, <2>2, <2>3 DEF Placed
  <1>3. CASE Restarts
    BY <1>3, StartsAreStarts DEF Restarts, StartsOver, AtHand
  <1> QED
    BY <1>1, <1>2, <1>3, PassSteps

-----------------------------------------------------------------------------
(* Cycles are equally long.                                                *)

\* A pool that is reused owes every line of the file in every cycle.
LEMMA ReusedWalksAll ==
    ASSUME NEW o \in ValidOptions, o.reuse, NEW c \in Nat,
           NEW file \in Seq(Byte), Len(file) = o.fileSize
    PROVE  OwedStarts(o, file, c) = LineStarts(file)
  <1>1. o.shardCount = 1 /\ o.shardIndex \in Words /\ o.shardIndex < 1
    BY DEF ValidOptions
  <1>2. o.shardIndex = 0
    BY <1>1, WordAssumption, SMT DEF Words
  <1>3. OfShard(o, 0) = o
    BY <1>2 DEF OfShard, ValidOptions
  <1>4. ASSUME NEW b \in 0 .. BlockCount(o) - 1
        PROVE  b \in ShardBlocks(o, c)
    <2>1. PICK shard \in 0 .. o.shardCount - 1 :
            { i \in 0 .. o.shardCount - 1 : b \in ShardBlocks(OfShard(o, i), c) } = {shard}
      BY OneShardHasBlock
    <2>2. 0 .. o.shardCount - 1 = {0}
      BY <1>1, SMT
    <2>3. shard = 0 /\ b \in ShardBlocks(OfShard(o, shard), c)
      BY <2>1, <2>2
    <2> QED
      BY <1>3, <2>3
  <1>5. ASSUME NEW s \in LineStarts(file)
        PROVE  s \div o.blockBytes \in ShardBlocks(o, c)
    <2>1. s \in Nat /\ s < o.fileSize
      <3>1. s \in 0 .. Len(file) - 1 /\ Len(file) \in Nat
        BY DEF LineStarts
      <3> QED
        BY <3>1, SMT
    <2> QED
      BY <1>4, <2>1, StartInBlock
  <1> QED
    BY <1>5 DEF OwedStarts

\* What a cycle owes is as much as the first one owes.
LEMMA CycleOwesLength ==
    ASSUME HistoryInvariant, CycleKept
    PROVE  /\ options \in ValidOptions /\ cycle \in Nat /\ source \in Seq(Byte)
           /\ IsFiniteSet(OwedStarts(options, source, cycle))
           /\ Cardinality(OwedStarts(options, source, cycle)) = CycleLength(options, source)
           /\ CycleLength(options, source) \in Nat
  <1>1. options \in ValidOptions /\ cycle \in Nat
    BY DEF HistoryInvariant, LinesInvariant, PoolInvariant, Invariant, CursorTypeOK
  <1>2. source \in Seq(Byte) /\ Len(source) = options.fileSize
    BY PoolAssumption DEF HistoryInvariant, LinesInvariant, LinesFormed, PoolInvariant, SourceKept
  <1>3. OwedStarts(options, source, cycle) = OwedStarts(options, source, 0)
    <2>1. CASE cycle = 0
      BY <2>1
    <2>2. CASE cycle # 0
      <3>1. options.reuse /\ 0 \in Nat
        BY <2>2, SMT DEF CycleKept
      <3> QED
        BY <1>1, <1>2, <3>1, ReusedWalksAll
    <2> QED
      BY <2>1, <2>2
  <1>4. IsFiniteSet(OwedStarts(options, source, cycle))
    <2>1. OwedStarts(options, source, cycle) \in SUBSET LineStarts(source)
      BY DEF OwedStarts
    <2> QED
      BY <1>2, <2>1, StartsAreFinite
  <1> QED
    BY <1>1, <1>2, <1>3, <1>4, CycleLengthIsNat DEF CycleLength

\* A cycle returns no more lines than it owes, and as many once it is complete.
LEMMA CycleCounted ==
    ASSUME HistoryInvariant, CycleKept, disk.intact
    PROVE  /\ Len(history) - cycleStartCursor \in 0 .. CycleLength(options, source)
           /\ \A i \in InCycle : history[i].start \in OwedStarts(options, source, cycle)
           /\ ToSet(CycleHistory) = OwedLines =>
                  Len(history) - cycleStartCursor = CycleLength(options, source)
  <1> DEFINE n    == Len(history)
             from == cycleStartCursor
             m    == n - from
             owed == OwedStarts(options, source, cycle)
             dom  == 1 .. m
             f    == [i \in dom |-> history[from + i].start]
             size == CycleLength(options, source)
  <1>1. n \in Nat /\ from \in 0 .. n
    BY CycleLines
  <1>2. \A i \in InCycle : history[i] \in OwedLines
    BY ReturnedAreOwed, CycleLinesAsSet DEF LinesIntact
  <1>3. \A line \in OwedLines : line.start \in owed
    BY DEF OwedLines, OwedStarts, Lines
  <1>4. \A i, j \in InCycle : i < j => history[i].start # history[j].start
    BY DEF HistoryInvariant, HistoryKept, StartsDiffer
  <1>5. IsFiniteSet(owed) /\ Cardinality(owed) = size /\ size \in Nat
    BY CycleOwesLength
  <1> HIDE DEF n, owed, size
  <1>6. /\ m \in Nat
        /\ \A i \in dom : i \in Nat /\ from + i \in InCycle
        /\ \A j \in InCycle : j - from \in dom /\ from + (j - from) = j
    <2>1. \A j : j \in InCycle <=> j \in from + 1 .. n
      BY DEF InCycle, n
    <2>2. m \in Nat /\ from \in Nat
      BY <1>1, SMT
    <2>3. ASSUME NEW i \in dom
          PROVE  i \in Nat /\ from + i \in from + 1 .. n
      BY <1>1, <2>2, SMT
    <2>4. ASSUME NEW j \in from + 1 .. n
          PROVE  j - from \in dom /\ from + (j - from) = j
      BY <1>1, <2>2, SMT
    <2> QED
      BY <2>1, <2>2, <2>3, <2>4
  <1> HIDE DEF m
  <1>7. Cardinality(dom) = m /\ IsFiniteSet(dom)
    <2>1. 1 \in Int /\ m \in Int
      BY <1>6, SMT
    <2>2. IsFiniteSet(dom) /\ Cardinality(dom) = IF 1 > m THEN 0 ELSE m - 1 + 1
      BY <2>1, FS_Interval
    <2>3. (IF 1 > m THEN 0 ELSE m - 1 + 1) = m
      BY <1>6, SMT
    <2> QED
      BY <2>2, <2>3
  <1>8. \A i, j \in dom : f[i] = f[j] => i = j
    <2> SUFFICES ASSUME NEW i \in dom, NEW j \in dom, f[i] = f[j]
                 PROVE  i = j
      OBVIOUS
    <2>1. /\ from + i \in InCycle /\ from + j \in InCycle
          /\ history[from + i].start = history[from + j].start
      BY <1>6
    <2>2. ~ (from + i < from + j) /\ ~ (from + j < from + i)
      BY <1>4, <2>1
    <2>3. from \in Int /\ i \in Int /\ j \in Int
      BY <1>1, <1>6, SMT
    <2> QED
      BY <2>2, <2>3, SMT
  <1>9. f \in Injection(dom, owed)
    <2>1. f \in [dom -> owed]
      BY <1>2, <1>3, <1>6
    <2> QED
      BY <1>8, <2>1 DEF Injection, IsInjective
  <1> HIDE DEF dom, f
  <1>10. m <= size /\ (m = size <=> f \in Surjection(dom, owed))
    BY <1>5, <1>7, <1>9, FS_Injection
  <1>11. m \in 0 .. size
    BY <1>5, <1>6, <1>10, SMT
  <1>12. ASSUME ToSet(CycleHistory) = OwedLines
         PROVE  f \in Surjection(dom, owed)
    <2>1. ASSUME NEW s \in owed
          PROVE  \E i \in dom : f[i] = s
      <3> DEFINE line == [start |-> s, text |-> LineText(source, s)]
      <3>1. line \in OwedLines /\ line.start = s
        BY DEF owed, OwedStarts, OwedLines, Lines
      <3>2. PICK j \in InCycle : history[j] = line
        BY <1>12, <3>1, CycleLinesAsSet
      <3>3. j - from \in dom /\ from + (j - from) = j
        BY <1>6
      <3>4. f[j - from] = history[from + (j - from)].start
        BY <3>3 DEF f
      <3> QED
        BY <3>1, <3>2, <3>3, <3>4
    <2>2. f \in [dom -> owed]
      BY <1>9 DEF Injection
    <2> QED
      BY <2>1, <2>2 DEF Surjection
  <1> QED
    BY <1>2, <1>3, <1>10, <1>11, <1>12 DEF m, n, owed, size

-----------------------------------------------------------------------------
(* Returning lines keeps to the order.                                     *)

CycleFits ==
    /\ Len(history) - cycleStartCursor \in 0 .. CycleLength(options, source)
    /\ \A i \in InCycle : history[i].start \in OwedStarts(options, source, cycle)

LEMMA CycleFitsIn == HistoryInvariant /\ CycleKept /\ disk.intact => CycleFits
  BY CycleCounted DEF CycleFits

\* The same lines up to the i-th place give the same answer there.
LEMMA OrderOfPrefix ==
    ASSUME NEW o, NEW file \in Seq(Byte), NEW g, NEW h, NEW i \in Nat \ {0},
           \A j \in 1 .. i : g[j] = h[j],
           LineInOrder(o, file, g, i)
    PROVE  LineInOrder(o, file, h, i)
  <1> DEFINE c    == CycleOf(o, file, i)
             size == CycleLength(o, file)
             from == c * size
  <1>1. c \in Nat /\ size \in Nat
    BY CycleLengthIsNat DEF LineInOrder
  <1>2. /\ g[i] \in Lines(file) /\ g[i].start \in OwedStarts(o, file, c)
        /\ LinesBefore(o, file, c, g[i].start) = { g[j].start : j \in from + 1 .. i - 1 }
    BY DEF LineInOrder
  <1> HIDE DEF c, size
  <1>3. from \in Nat
    BY <1>1, SMT
  <1> HIDE DEF from
  <1>4. i \in 1 .. i /\ \A j \in from + 1 .. i - 1 : j \in 1 .. i
    BY <1>3, SMT
  <1>5. g[i] = h[i] /\ \A j \in from + 1 .. i - 1 : g[j] = h[j]
    BY <1>4
  <1>6. { g[j].start : j \in from + 1 .. i - 1 } = { h[j].start : j \in from + 1 .. i - 1 }
    BY <1>5
  <1>7. /\ h[i] \in Lines(file) /\ h[i].start \in OwedStarts(o, file, c)
        /\ LinesBefore(o, file, c, h[i].start) = { h[j].start : j \in from + 1 .. i - 1 }
    BY <1>2, <1>5, <1>6
  <1> QED
    BY <1>1, <1>7 DEF LineInOrder, from, c, size

\* What lies in front of the m-th line at hand: the lines of the other blocks
\* passed, and the lines at hand before it.
LEMMA BeforeAtHand ==
    ASSUME LinesInvariant, LinesLeft, disk.intact, Placed,
           NEW m \in 0 .. LineCount - 1, NEW t \in LineStarts(source)
    PROVE  LineBefore(options, source, cycle, t, StartOf(m)) <=>
              \/ t \div options.blockBytes \in (taken \cup skipped) \ {block}
              \/ \E j \in 0 .. m - 1 : t = StartOf(j)
  <1> DEFINE n       == LineCount
             a       == t \div options.blockBytes
             starts  == StartsIn(options, source, block)
             kth(k)  == KthIndex(options, cycle, block, n, k)
             index(s) == IndexIn(options, source, block, s)
  <1>1. n \in Nat \ {0} /\ source \in Seq(Byte) /\ block # NoBlock /\ options \in ValidOptions
    BY LinesAtHand
  <1>2. options \in ValidOptions /\ cycle \in Nat /\ block \in 0 .. BlockCount(options) - 1
    BY <1>1, BlockAtHand DEF LinesInvariant, PoolInvariant, Invariant, CursorTypeOK
  <1>3. block \in Words
    <2> DEFINE count == BlockCount(options)
    <2>1. count \in Nat /\ count < WordSize
      BY <1>2, LayoutFacts
    <2> HIDE DEF count
    <2> QED
      BY <1>2, <2>1, WordAssumption, SMT DEF Words, count
  <1>4. /\ LinesIn(options, source, block) = n
        /\ \A k \in 0 .. n - 1 : StartOf(k) \in starts /\ index(StartOf(k)) = kth(k)
    BY IndexAtHand
  <1>5. StartOf(m) \in starts /\ StartOf(m) \div options.blockBytes = block
    BY <1>4 DEF StartsIn
  <1>6. \A k, j \in 0 .. n - 1 : kth(k) = kth(j) => k = j
    BY <1>1, <1>2, <1>3, KthIndexIsBijective
  <1>7. \A r, s \in starts : index(r) = index(s) => r = s
    BY <1>1, LinesAreNumbered
  <1>8. t \in starts <=> a = block
    BY DEF StartsIn
  <1>9. BlockBefore(options, cycle, a, block) <=> a \in (taken \cup skipped) \ {block}
    BY DEF Placed, AtHand
  <1>10. LineBefore(options, source, cycle, t, StartOf(m)) <=>
            \/ BlockBefore(options, cycle, a, block)
            \/ /\ a = block
               /\ \E k \in 0 .. n - 1 : \E j \in 0 .. k - 1 :
                    index(StartOf(m)) = kth(k) /\ index(t) = kth(j)
    BY <1>4, <1>5 DEF LineBefore
  <1>11. /\ \A k \in 0 .. n - 1 : \A j \in 0 .. k - 1 : j \in 0 .. n - 1
         /\ m \in 0 .. n - 1
    BY <1>1, SMT
  <1> HIDE DEF n, a, starts, kth, index
  <1>12. ASSUME a = block, NEW k \in 0 .. n - 1, NEW j \in 0 .. k - 1,
                index(StartOf(m)) = kth(k), index(t) = kth(j)
         PROVE  \E i \in 0 .. m - 1 : t = StartOf(i)
    <2>1. k = m
      BY <1>4, <1>6, <1>11, <1>12
    <2>2. t = StartOf(j)
      BY <1>4, <1>7, <1>8, <1>11, <1>12
    <2> QED
      BY <1>12, <2>1, <2>2
  <1>13. ASSUME NEW i \in 0 .. m - 1, t = StartOf(i)
         PROVE  /\ a = block
                /\ \E k \in 0 .. n - 1 : \E j \in 0 .. k - 1 :
                     index(StartOf(m)) = kth(k) /\ index(t) = kth(j)
    <2>1. i \in 0 .. n - 1
      BY <1>11
    <2> QED
      BY <1>4, <1>8, <1>11, <1>13, <2>1
  <1> QED
    BY <1>9, <1>10, <1>12, <1>13 DEF a

\* What was returned in the cycle before the m-th line at hand is returned is
\* all that lies in front of it, and nothing else.
LEMMA ReturnedBefore ==
    ASSUME PassesInvariant, disk.intact, CycleFits',
           NEW n \in Nat, ServesLines(n), NEW m \in lineCursor .. lineCursor + n - 1
    PROVE  LinesBefore(options, source, cycle, StartOf(m))
              = { history'[j].start :
                    j \in cycleStartCursor + 1 .. Len(history) + m - lineCursor }
  <1> DEFINE old   == Len(history)
             from  == cycleStartCursor
             last  == old + m - lineCursor
             owed  == OwedStarts(options, source, cycle)
             b(t)  == t \div options.blockBytes
  <1>1. /\ HistoryInvariant /\ CompleteKept /\ Placed
        /\ LinesInvariant /\ OverIsIdle /\ TakenKept /\ OrderKept
    BY DEF PassesInvariant, HistoryInvariant, HistoryKept
  <1>2. /\ LinesLeft /\ n \in 1 .. LineCount - lineCursor
        /\ UNCHANGED <<options, source, cycleStartCursor, cycle>>
    BY DEF ServesLines
  <1>3. LineCount \in Nat \ {0} /\ lineCursor \in 0 .. LineCount - 1
    BY <1>1, <1>2, LinesAtHand
  <1>4. old \in Nat /\ from \in 0 .. old
    BY <1>1, CycleLines
  <1>5. Len(history') = old + n
    BY <1>1, HistoryGrows
  <1>6. \A i : i \in InCycle <=> i \in from + 1 .. old
    BY DEF InCycle
  <1>7. \A i : i \in InCycle' <=> i \in from + 1 .. old + n
    BY <1>2, <1>5 DEF InCycle
  <1> HIDE DEF old
  <1>8. /\ m \in 0 .. LineCount - 1 /\ lineCursor <= m /\ m < lineCursor + n
        /\ lineCursor \in Nat /\ m \in Nat /\ n \in Nat
    <2> DEFINE count == LineCount
    <2> HIDE DEF count
    <2>1. /\ m \in 0 .. count - 1 /\ lineCursor <= m /\ m < lineCursor + n
          /\ lineCursor \in Nat /\ m \in Nat
      BY <1>2, <1>3, SMT DEF count
    <2> QED
      BY <2>1 DEF count
  <1>9. last \in Nat /\ old <= last /\ last < old + n
    BY <1>4, <1>8, SMT
  <1> HIDE DEF last
  <1>10. \A t \in owed : t \in LineStarts(source)
    BY DEF OwedStarts
  <1>11. \A t \in owed : LineBefore(options, source, cycle, t, StartOf(m)) <=>
              \/ b(t) \in (taken \cup skipped) \ {block}
              \/ \E j \in 0 .. m - 1 : t = StartOf(j)
    BY <1>1, <1>2, <1>8, <1>10, BeforeAtHand
  <1> DEFINE before == { t \in owed : LineBefore(options, source, cycle, t, StartOf(m)) }
             given  == { history'[j].start : j \in from + 1 .. last }
  <1>12. ASSUME NEW j \in from + 1 .. last
         PROVE  history'[j].start \in before
    <2> DEFINE t == history'[j].start
    <2>1. j \in from + 1 .. old + n
      BY <1>4, <1>8, <1>9, SMT
    <2>2. j \in InCycle'
      BY <1>7, <2>1
    <2>3. t \in owed
      BY <1>2, <2>2 DEF CycleFits
    <2>4. CASE j \in InCycle /\ history'[j] = history[j]
      <3>1. BlockOf(history[j]) = b(t) /\ b(t) \in taken
        BY <1>1, <2>4 DEF TakenKept, BlockOf
      <3>2. CASE b(t) # block
        BY <1>11, <2>3, <3>1, <3>2
      <3>3. CASE b(t) = block
        <4>1. PICK k \in 0 .. lineCursor - 1 :
                history[j].start = ReadOffset + offsets[Ordered(k) + 1]
          BY <1>1, <1>2, <2>4, <3>1, <3>3 DEF OrderKept
        <4>2. k \in 0 .. m - 1 /\ t = StartOf(k)
          <5>1. k \in 0 .. m - 1
            BY <1>8, SMT
          <5> QED
            BY <2>4, <4>1, <5>1 DEF StartOf
        <4> QED
          BY <1>11, <2>3, <4>2
      <3> QED
        BY <3>2, <3>3
    <2>5. ASSUME NEW k \in lineCursor .. LineCount - 1,
                 j = old + k - lineCursor + 1, t = StartOf(k)
          PROVE  t \in before
      <3>1. k \in 0 .. m - 1
        <4> DEFINE count == LineCount
        <4>1. k \in lineCursor .. count - 1 /\ count \in Nat
          BY <1>3
        <4> HIDE DEF count, t
        <4>2. old + k - lineCursor + 1 <= old + m - lineCursor
          BY <2>5 DEF last
        <4> QED
          BY <1>4, <1>8, <4>1, <4>2, SMT
      <3> QED
        BY <1>11, <2>3, <2>5, <3>1
    <2>6. \/ j \in InCycle /\ history'[j] = history[j]
          \/ \E k \in lineCursor .. LineCount - 1 :
               j = old + k - lineCursor + 1 /\ t = StartOf(k)
      BY <1>1, <2>2, OldOrNew DEF old
    <2> QED
      BY <2>4, <2>5, <2>6
  <1>13. ASSUME NEW i \in InCycle
         PROVE  i \in from + 1 .. last /\ history'[i] = history[i]
    <2>1. i \in from + 1 .. old
      BY <1>6
    <2>2. i \in from + 1 .. last /\ i \in 1 .. old
      BY <1>4, <1>9, <2>1, SMT
    <2> QED
      BY <1>1, <2>2, HistoryGrows DEF old
  <1>14. ASSUME NEW t \in before
         PROVE  \E j \in from + 1 .. last : history'[j].start = t
    <2>1. t \in owed /\ t \in LineStarts(source)
      BY <1>10
    <2>2. CASE b(t) \in (taken \cup skipped) \ {block}
      <3>1. b(t) \notin skipped
        BY <1>1, <2>1 DEF CompleteKept, SkippedAreLineless, Lineless
      <3>2. b(t) \in taken /\ b(t) # block
        BY <2>2, <3>1
      <3>3. Going
        <4>1. ~ closed
          <5>1. closed => Len(offsets) = 0
            BY <1>1 DEF OverIsIdle
          <5>2. Len(offsets) # 0
            BY <1>3, SMT DEF LineCount
          <5> QED
            BY <5>1, <5>2
        <4> QED
          BY <1>2, <4>1 DEF Going, LinesLeft
      <3>4. BlockServed(b(t))
        BY <1>1, <3>2, <3>3 DEF CompleteKept, TakenServed
      <3>5. PICK i \in InCycle : history[i].start = t
        BY <2>1, <3>4 DEF BlockServed
      <3> QED
        BY <1>13, <3>5
    <2>3. ASSUME NEW j \in 0 .. m - 1, t = StartOf(j)
          PROVE  \E i \in from + 1 .. last : history'[i].start = t
      <3>1. CASE j < lineCursor
        <4>1. j \in 0 .. lineCursor - 1
          BY <1>8, <3>1, SMT
        <4>2. PICK i \in InCycle : history[i].start = StartOf(j)
          BY <1>1, <1>2, <4>1 DEF CompleteKept, ReturnedSoFar
        <4> QED
          BY <1>13, <2>3, <4>2
      <3>2. CASE ~ (j < lineCursor)
        <4> DEFINE k == j - lineCursor + 1
        <4>1. k \in 1 .. n /\ lineCursor + k - 1 = j /\ old + k \in from + 1 .. last
          BY <1>4, <1>8, <3>2, SMT DEF last
        <4> HIDE DEF k
        <4>2. /\ history'[old + k] = LineAt(Ordered(lineCursor + k - 1))
              /\ LineAt(Ordered(lineCursor + k - 1)).start = StartOf(lineCursor + k - 1)
          BY <1>1, <4>1, HistoryGrows DEF old
        <4> QED
          BY <2>3, <4>1, <4>2
      <3> QED
        BY <3>1, <3>2
    <2> QED
      BY <1>11, <2>1, <2>2, <2>3
  <1>15. before = given
    <2> HIDE DEF before
    <2> QED
      BY <1>12, <1>14
  <1> QED
    BY <1>15 DEF LinesBefore, last, old, owed

\* So the lines returned are the next ones in the order of the cycle.
LEMMA ReturningKeepsOrder ==
    ASSUME PassesInvariant, disk.intact, CycleFits', NEW n \in Nat, ServesLines(n)
    PROVE  InCycleOrder(options, source, history')
  <1> DEFINE old  == Len(history)
             from == cycleStartCursor
             size == CycleLength(options, source)
  <1>1. HistoryInvariant /\ LinesInvariant /\ TakenKept /\ CycleKept
    BY DEF PassesInvariant, HistoryInvariant, HistoryKept
  <1>2. /\ LinesLeft /\ n \in 1 .. LineCount - lineCursor
        /\ UNCHANGED <<options, source, cycleStartCursor, cycle>>
    BY DEF ServesLines
  <1>3. /\ options \in ValidOptions /\ cycle \in Nat /\ source \in Seq(Byte) /\ size \in Nat
    BY <1>1, CycleOwesLength
  <1>4. InCycleOrder(options, source, history) /\ from = cycle * size
    BY DEF PassesInvariant, PassesKept, PassesAgree
  <1>5. /\ Len(history') = old + n
        /\ \A i \in 1 .. old : history'[i] = history[i]
        /\ \A k \in 1 .. n :
             /\ lineCursor + k - 1 \in 0 .. LineCount - 1
             /\ history'[old + k] = LineAt(Ordered(lineCursor + k - 1))
             /\ LineAt(Ordered(lineCursor + k - 1)).start = StartOf(lineCursor + k - 1)
    BY <1>1, HistoryGrows
  <1>6. old \in Nat /\ from \in 0 .. old
    BY <1>1, CycleLines
  <1>7. old + n - from \in 0 .. size
    <2>1. Len(history') - cycleStartCursor' \in 0 .. CycleLength(options', source')
      BY DEF CycleFits
    <2>2. /\ cycleStartCursor' = from /\ CycleLength(options', source') = size
      BY <1>2
    <2> DEFINE total == Len(history')
    <2>3. total = old + n
      BY <1>5
    <2>4. total - from \in 0 .. size
      BY <2>1, <2>2
    <2> HIDE DEF old, from, size, total
    <2> QED
      BY <1>6, <2>3, <2>4, SMT
  <1>8. lineCursor \in Nat
    BY <1>1, <1>2, LinesAtHand, SMT
  <1>9. ASSUME NEW i \in 1 .. old
        PROVE  LineInOrder(options, source, history', i)
    <2>1. LineInOrder(options, source, history, i)
      BY <1>4 DEF InCycleOrder
    <2> HIDE DEF old
    <2>2. i \in Nat \ {0} /\ \A j \in 1 .. i : j \in 1 .. old
      BY <1>6, SMT
    <2>3. \A j \in 1 .. i : history[j] = history'[j]
      BY <1>5, <2>2
    <2> QED
      BY <1>3, <2>1, <2>2, <2>3, OrderOfPrefix
  <1> HIDE DEF old, size
  <1>10. ASSUME NEW k \in 1 .. n
         PROVE  LineInOrder(options, source, history', old + k)
    <2> DEFINE i == old + k
               m == lineCursor + k - 1
    <2>1. i - 1 \in Nat /\ m \in lineCursor .. lineCursor + n - 1 /\ old + m - lineCursor = i - 1
      BY <1>6, <1>8, SMT
    <2>2. size \in Nat \ {0} /\ from <= i - 1 /\ i - 1 < from + size /\ i - 1 \in Int
      BY <1>3, <1>6, <1>7, SMT
    <2>3. history'[i] = LineAt(Ordered(m)) /\ history'[i].start = StartOf(m) /\ m \in 0 .. LineCount - 1
      BY <1>5
    <2> HIDE DEF i, m
    <2>4. (i - 1) \div size = cycle
      BY <1>3, <1>4, <2>2, BlockOfPosition
    <2>5. CycleOf(options, source, i) = cycle
      BY <2>4 DEF CycleOf, size
    <2>6. history'[i] \in Lines(source)
      <3>1. m \in Nat
        BY <1>8, <2>1, SMT
      <3>2. Ordered(m) \in 0 .. LineCount - 1
        BY <1>1, <1>2, <3>1, OrderedInRange
      <3> QED
        BY <1>1, <1>2, <2>3, <3>2, ServedLine
    <2>7. StartOf(m) \in OwedStarts(options, source, cycle)
      <3>1. StartOf(m) \in StartsIn(options, source, block)
        BY <1>1, <1>2, <2>3, IndexAtHand
      <3>2. block \in taken /\ taken \subseteq ShardBlocks(options, cycle)
        BY <1>1, <1>2, LinesAtHand, PassedAreOfShard
           DEF TakenKept, LinesInvariant, PoolInvariant
      <3> QED
        BY <3>1, <3>2 DEF StartsIn, OwedStarts
    <2>8. LinesBefore(options, source, cycle, StartOf(m))
            = { history'[j].start : j \in from + 1 .. old + m - lineCursor }
      BY <2>1, ReturnedBefore DEF old
    <2>9. LinesBefore(options, source, cycle, history'[i].start)
            = { history'[j].start : j \in cycle * size + 1 .. i - 1 }
      BY <1>4, <2>1, <2>3, <2>8
    <2>10. LineInOrder(options, source, history', i)
      BY <1>3, <2>3, <2>5, <2>6, <2>7, <2>9 DEF LineInOrder, size
    <2> QED
      BY <2>10 DEF i
  <1>11. ASSUME NEW i \in 1 .. old + n
         PROVE  i \in 1 .. old \/ \E k \in 1 .. n : i = old + k
    <2>1. i \notin 1 .. old => i - old \in 1 .. n /\ i = old + (i - old)
      BY <1>6, SMT
    <2> QED
      BY <2>1
  <1> QED
    BY <1>5, <1>9, <1>10, <1>11 DEF InCycleOrder

\* A new cycle begins after a full one, and Reset begins again.
LEMMA RestartingKeepsOrder ==
    ASSUME PassesInvariant, [Next]_poolVars, disk.intact, Restarts
    PROVE  /\ InCycleOrder(options, source, history')
           /\ cycleStartCursor' = cycle' * CycleLength(options, source)
  <1> DEFINE size == CycleLength(options, source)
  <1>1. HistoryInvariant /\ CompleteKept /\ CycleKept
    BY DEF PassesInvariant
  <1>2. InCycleOrder(options, source, history) /\ cycleStartCursor = cycle * size
    BY DEF PassesInvariant, PassesKept, PassesAgree
  <1>3. size \in Nat /\ cycle \in Nat
    BY <1>1, CycleOwesLength
  <1>4. ASSUME NEW c \in Callers, WalkNextCycle(c)
        PROVE  /\ history' = history
               /\ cycleStartCursor' = cycle' * size
    <2>1. history' = history /\ cycle' = cycle + 1 /\ cycleStartCursor' = cursor
      BY <1>4 DEF WalkNextCycle, StartCycle
    <2>2. cycle' > cycle
      BY <1>3, <2>1, SMT
    <2>3. WalkDone /\ ~ closed /\ terminal = NoError
      BY <1>1, <2>2, CycleStep
    <2>4. ToSet(CycleHistory) = OwedLines
      BY <1>1, <2>3, DoneIsComplete DEF ChangesShow
    <2>5. Len(history) - cycleStartCursor = size
      BY <1>1, <2>4, CycleCounted
    <2>6. cursor = Len(history) /\ cursor \in Nat
      BY <1>1, CycleLines DEF HistoryInvariant, HistoryKept, HistoryTyped
    <2> HIDE DEF size
    <2>7. cursor - cycle * size = size
      BY <1>2, <2>5, <2>6
    <2> DEFINE product == cycle * size
               next    == (cycle + 1) * size
    <2>8. product \in Nat /\ next = product + size
      BY <1>3, BlockProduct
    <2> HIDE DEF product, next
    <2>9. cursor = next
      BY <1>3, <2>6, <2>7, <2>8, SMT DEF product
    <2> QED
      BY <2>1, <2>9 DEF next
  <1>5. ASSUME NEW c \in Callers, Reset(c)
        PROVE  /\ history' = <<>>
               /\ cycleStartCursor' = cycle' * size
    <2>1. history' = <<>> /\ cycle' = 0 /\ cycleStartCursor' = 0
      BY <1>5 DEF Reset, StartCycle
    <2> HIDE DEF size
    <2>2. 0 * size = 0
      BY <1>3, SMT
    <2> QED
      BY <2>1, <2>2
  <1>6. InCycleOrder(options, source, <<>>)
    BY DEF InCycleOrder
  <1> QED
    BY <1>2, <1>4, <1>5, <1>6 DEF Restarts

\* The longest history is one of lines too.
LEMMA RecordStaysTyped ==
    ASSUME RecordTyped, HistoryInvariant', [Next]_poolVars
    PROVE  RecordTyped'
  <1>1. history' \in Seq(Line)
    BY DEF HistoryInvariant, HistoryKept, HistoryTyped
  <1> QED
    BY <1>1, RecordStep DEF RecordTyped

\* Every step keeps the history, and so the longest one, in order.
LEMMA PassesStayKept ==
    ASSUME PassesInvariant, HistoryInvariant', CycleKept', [Next]_poolVars
    PROVE  PassesKept'
  <1> SUFFICES ASSUME disk'.intact
               PROVE  PassesAgree'
    BY DEF PassesKept
  <1>1. HistoryInvariant
    BY DEF PassesInvariant
  <1>2. UNCHANGED <<options, source>> /\ disk.intact
    BY <1>1, FileStaysSame DEF SameFile
  <1>3. /\ InCycleOrder(options, source, history)
        /\ InCycleOrder(options, source, record)
        /\ cycleStartCursor = cycle * CycleLength(options, source)
    BY <1>2 DEF PassesInvariant, PassesKept, PassesAgree
  <1>4. CycleFits'
    <2>1. (HistoryInvariant /\ CycleKept /\ disk.intact => CycleFits)'
      BY CycleFitsIn, PTL
    <2> QED
      BY <2>1
  <1>5. /\ InCycleOrder(options, source, history')
        /\ cycleStartCursor' = cycle' * CycleLength(options, source)
    <2>1. CASE StandsStill \/ FindsLines \/ TakesBlock
      <3>1. UNCHANGED <<history, cycleStartCursor, cycle>>
        BY <2>1 DEF StandsStill, FindsLines, TakesBlock
      <3> QED
        BY <1>3, <3>1
    <2>2. CASE Restarts
      BY <1>2, <2>2, RestartingKeepsOrder
    <2>3. CASE ReturnsLines
      <3>1. PICK n \in Nat : ServesLines(n)
        BY <2>3 DEF ReturnsLines
      <3>2. UNCHANGED <<cycleStartCursor, cycle>>
        BY <3>1 DEF ServesLines
      <3> QED
        BY <1>2, <1>3, <1>4, <3>1, <3>2, ReturningKeepsOrder
    <2> QED
      BY <1>1, <2>1, <2>2, <2>3, PassSteps
  <1>6. InCycleOrder(options, source, record')
    BY <1>3, <1>5, RecordStep
  <1> QED
    BY <1>2, <1>5, <1>6 DEF PassesAgree

LEMMA InitPasses == Init => PassesInvariant
  <1> SUFFICES ASSUME Init
               PROVE  PassesInvariant
    OBVIOUS
  <1>1. /\ history = <<>> /\ record = <<>> /\ cycle = 0 /\ cycleStartCursor = 0
        /\ pc = "idle" /\ offsets = <<>> /\ lineCursor = 0 /\ source \in Sources
    BY DEF Init, CursorInit
  <1>2. ~ AtHand
    <2>1. LineCount = -1
      BY <1>1, SMT DEF LineCount
    <2> QED
      BY <1>1, <2>1, SMT DEF AtHand, Reading, LinesLeft
  <1>3. PassesAgree
    <2> DEFINE size == CycleLength(options, source)
    <2>1. size \in Nat
      BY <1>1, PoolAssumption, CycleLengthIsNat
    <2> HIDE DEF size
    <2>2. 0 * size = 0
      BY <2>1, SMT
    <2>3. InCycleOrder(options, source, <<>>)
      BY DEF InCycleOrder
    <2> QED
      BY <1>1, <2>2, <2>3 DEF PassesAgree, size
  <1>4. RecordTyped
    BY <1>1 DEF RecordTyped
  <1> QED
    BY <1>2, <1>3, <1>4, InitHistoryInvariant, InitComplete, InitCycleKept
       DEF PassesInvariant, Placed, PassesKept

LEMMA PassesStay == PassesInvariant /\ [Next]_poolVars => PassesInvariant'
  <1> SUFFICES ASSUME PassesInvariant, [Next]_poolVars
               PROVE  PassesInvariant'
    OBVIOUS
  <1>1. /\ HistoryInvariant /\ CompleteKept /\ EofMeansComplete /\ CycleKept
        /\ RecordTyped /\ Placed
    BY DEF PassesInvariant
  <1>2. HistoryInvariant'
    BY <1>1, HistoryStays
  <1>3. CompleteKept' /\ EofMeansComplete'
    BY <1>1, CompleteStays
  <1>4. CycleKept'
    BY <1>1, CycleStaysKept DEF HistoryInvariant, LinesInvariant
  <1>5. RecordTyped' /\ Placed'
    BY <1>1, <1>2, RecordStaysTyped, PlacedStays
  <1>6. PassesKept'
    BY <1>2, <1>4, PassesStayKept
  <1> QED
    BY <1>2, <1>3, <1>4, <1>5, <1>6 DEF PassesInvariant

\* Two histories in the order of the cycles agree as far as both got.
LEMMA PassesAreReproducible == PassesInvariant => Reproducible
  <1> SUFFICES ASSUME PassesInvariant, disk.intact
               PROVE  IsPrefix(history, record) \/ IsPrefix(record, history)
    BY DEF Reproducible
  <1>1. HistoryInvariant /\ CycleKept /\ RecordTyped /\ PassesAgree
    BY DEF PassesInvariant, PassesKept
  <1>2. options \in ValidOptions /\ source \in Seq(Byte)
    BY <1>1, CycleOwesLength
  <1>3. history \in Seq(Line) /\ record \in Seq(Line)
    BY <1>1 DEF RecordTyped, HistoryInvariant, HistoryKept, HistoryTyped
  <1> QED
    BY <1>1, <1>2, <1>3, OneIsPrefix DEF PassesAgree

\* Whatever mixture of Next and NextBatch is used, and whatever error or Reset
\* cut an earlier pass short, passes over the file agree as far as both got,
\* unless bytes of the file were rewritten underneath the pool.
THEOREM PassesAreAlike == Spec => []Reproducible
  <1>1. Init => PassesInvariant
    BY InitPasses
  <1>2. PassesInvariant /\ [Next]_poolVars => PassesInvariant'
    BY PassesStay
  <1>3. PassesInvariant => Reproducible
    BY PassesAreReproducible
  <1> QED
    BY <1>1, <1>2, <1>3, PTL DEF Spec

=============================================================================

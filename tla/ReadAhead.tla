----------------------------- MODULE ReadAhead -----------------------------
(***************************************************************************)
(* Options.Prefetch on Windows: before NextBatch looks for a block, the    *)
(* pool starts reads of the blocks it will come to (readAheadLocked); the  *)
(* kernel runs them between calls, and the pool adopts the memory of one   *)
(* that is right (adoptLocked).  Memory moves between the pool's buffer,   *)
(* the slots of blockread.Ahead and the batches, and nothing but this      *)
(* exchange keeps the kernel from writing where a caller reads.            *)
(*                                                                         *)
(* The walk is BlockCursor's.  Bytes are not modelled: what a memory holds *)
(* is where in the file its bytes are from.  Which lines a block has is a  *)
(* free choice here and ProxyPool's subject, as is a source that changes.  *)
(***************************************************************************)
EXTENDS BlockCursor, PoolStorage

CONSTANTS
    AheadDepth,    \* reads in flight at most; 3 in the code
    Storages,      \* memories that may be allocated, positive integers
    Batches,       \* the callers' Batch values
    Operations,    \* what the callers do
    MaxFaults      \* bound on failing system calls

NoStorage == 0
NoBatch   == "Next"

ASSUME AheadAssumption ==
    /\ AheadDepth \in Nat \ {0}
    /\ Storages \subseteq Nat \ {0}
    /\ IsFiniteSet(Storages) /\ IsFiniteSet(Batches)
    /\ Cardinality(Storages) > AheadDepth + Cardinality(Batches) + 2
    /\ NoBatch \notin Batches
    /\ Operations \subseteq {"Next", "NextBatch", "Reset", "Close", "FillElsewhere"}
    /\ MaxFaults \in Nat

VARIABLES
    direct,        \* whether reads ahead bypass the system cache
    prefetching,
    slotStorage,   \* the memory each slot retains
    request,       \* the read each slot has in flight, or NoRequest
    poolStorage,   \* pool.buffer
    spare,         \* the memory of the batch being filled
    batchStorage,  \* the memory of the other batches
    batchBlock,    \* the block whose lines a batch holds, or NoBlock
    memory,        \* what each memory holds
    aligned,       \* of a direct pool: memories whose second byte starts a page
    carriedBlock,
    linesLeft,     \* whether the pool has lines of the block to return
    served,        \* whether a line was returned in this cycle
    terminal,
    closed,
    pc,
    into,          \* the batch being filled, or NoBatch
    issued,        \* upcoming blocks readAheadLocked is done with
    faults

slotVars    == <<slotStorage, request>>
batchVars   == <<batchStorage, batchBlock>>
memoryVars  == <<memory, aligned>>
lineVars    == <<carriedBlock, linesLeft, served>>
endVars     == <<terminal, closed>>
callVars    == <<pc, into, issued>>
aheadVars   == <<cursorVars, direct, prefetching, slotVars, poolStorage, spare,
                 batchVars, memoryVars, lineVars, endVars, callVars, faults>>

Slots == 0 .. AheadDepth - 1

Faulty(n) == faults + n <= MaxFaults /\ faults' = faults + n

-----------------------------------------------------------------------------
(* Memory. *)

\* memory[s] = [at, from, to]: byte i of s, from <= i < to, is byte at + i of
\* the file.  What nobody will look at again is Junk at once.
Junk == [at |-> 0, from |-> 0, to |-> 0]

InUse == { poolStorage, spare } \cup Range(slotStorage) \cup Range(batchStorage)

\* The memory the next allocation returns.
New == CHOOSE s \in Storages : s \notin InUse

\* resized: memory that is too small is replaced.  What replaces it has its name
\* here, since nobody is left who owns the old one.
Replaced(storage) == IF storage = NoStorage THEN New ELSE storage

-----------------------------------------------------------------------------
(* blockread.Ahead. *)

NoRequest == [status |-> "none", block |-> NoBlock, offset |-> 0, length |-> 0, read |-> 0]

Pending(slot) == request[slot] # NoRequest

\* Find
InFlight(b) == \E slot \in Slots : Pending(slot) /\ request[slot].block = b

IdleSlots == { slot \in Slots : ~ Pending(slot) }

\* Idle, if there is such a slot
IdleSlot == CHOOSE slot \in IdleSlots : TRUE

\* The kernel ends a read: it wrote all bytes there are, fewer, or failed.
KernelReads(slot) ==
    LET r    == request[slot]
        full == Lesser(r.length, options.fileSize - r.offset)
        skip == r.offset - (r.block * options.blockBytes - 1)
    IN  /\ r.status = "running"
        /\ \E status \in {"done", "failed"}, read \in {full - 1, full} :
             /\ Faulty(IF status = "done" /\ read = full THEN 0 ELSE 1)
             /\ request' = [request EXCEPT ![slot].status = status, ![slot].read = read]
             /\ memory' = [memory EXCEPT ![slotStorage[slot]] =
                              [at |-> r.offset - skip, from |-> skip, to |-> skip + read]]
        /\ UNCHANGED <<cursorVars, direct, prefetching, slotStorage, poolStorage, spare,
                       batchVars, aligned, lineVars, endVars, callVars>>

\* Settle: the read is cancelled, or ends; nobody looks at what it left.
Settled(slots) ==
    /\ request' = [slot \in Slots |-> IF slot \in slots THEN NoRequest ELSE request[slot]]
    /\ memory' = [s \in Storages |->
                     IF \E slot \in slots : Pending(slot) /\ slotStorage[slot] = s
                     THEN Junk ELSE memory[s]]

-----------------------------------------------------------------------------
(* upcomingBlocksLocked. *)

\* The region that nextRegion becomes when advanced so often.
RegionAfter[n \in Nat] ==
    IF n = 0 THEN nextRegion
    ELSE AddModulo(RegionAfter[n - 1], regionAdvance, RegionCount(options))

\* The n-th region of the cycle, from the one entered last on: its blocks that
\* are not passed yet, in the order of the walk.
RegionToCome(n) ==
    LET region == RegionAfter[n - regionCursor - 1]
    IN  IF n = regionCursor
        THEN [base |-> regionBlockBase, rotation |-> regionRotation,
              next |-> regionBlockNext, count |-> regionBlocks]
        ELSE [base |-> RegionBase(options, region),
              rotation |-> Rotation(options, cycle, region),
              next |-> 0, count |-> RegionLength(options, region)]

\* A place of the walk: block j, in its order, of the n-th region.
Place(n, j) == n * BlocksPerRegion(options) + j

BlockAt(place) ==
    LET r == RegionToCome(place \div BlocksPerRegion(options))
    IN  r.base + AddModulo(r.rotation, place % BlocksPerRegion(options), r.count)

RestOfCycle ==
    UNION { LET r == RegionToCome(n) IN Place(n, r.next) .. Place(n, r.count - 1) :
                n \in regionCursor .. RegionsForShard(options) }

\* The blocks at the first so many of these places.
FirstOf(depth) ==
    [places \in SUBSET Int |->
        [k \in 1 .. Lesser(depth, Cardinality(places)) |->
            BlockAt(CHOOSE p \in places : Cardinality({ q \in places : q <= p }) = k)]]

\* Mutant: the continuation is not left out.
UpcomingUnfiltered(depth) == FirstOf(depth)[RestOfCycle]

\* The next blocks the walk will take, as far as it is known now.
Upcoming(depth) ==
    FirstOf(depth)[{ p \in RestOfCycle : ~ InContinuation(BlockAt(p)) }]

-----------------------------------------------------------------------------
(* Starting reads: readAheadLocked. *)

Frees(storages) == [s \in Storages |-> IF s \in storages THEN Junk ELSE memory[s]]

Calls(operation) == operation \in Operations /\ pc = "idle" /\ ~ closed

\* The bound on cycles.
BelowBound == options.reuse => cycle < MaxCycle

\* NextBatch(b) with no line of the block left.
EnterNextBatch(b) ==
    /\ Calls("NextBatch") /\ BelowBound
    /\ ~ terminal /\ ~ linesLeft
    /\ into' = b
    /\ spare' = batchStorage[b]
    /\ memory' = Frees({batchStorage[b]})
    /\ batchStorage' = [batchStorage EXCEPT ![b] = NoStorage]
    /\ batchBlock' = [batchBlock EXCEPT ![b] = NoBlock]
    /\ pc' = IF prefetching THEN "settle" ELSE "walk"
    /\ UNCHANGED <<cursorVars, direct, prefetching, slotVars, poolStorage, aligned,
                   lineVars, endVars, issued, faults>>

\* Next or NextBytes with no line of the block left.
EnterNext ==
    /\ Calls("Next") /\ BelowBound
    /\ ~ terminal /\ ~ linesLeft
    /\ pc' = "walk"
    /\ into' = NoBatch
    /\ UNCHANGED <<cursorVars, direct, prefetching, slotVars, poolStorage, spare,
                   batchVars, memoryVars, lineVars, endVars, issued, faults>>

\* A call of a pool that is closed, or ended with an error, changes nothing.
CallRefused ==
    /\ pc = "idle"
    /\ closed \/ terminal
    /\ UNCHANGED aheadVars

\* Mutant: reads the walk no longer comes to stay in flight.
SettleNothing ==
    /\ pc = "settle"
    /\ pc' = "issue"
    /\ UNCHANGED <<cursorVars, direct, prefetching, slotVars, poolStorage, spare,
                   batchVars, memoryVars, lineVars, endVars, into, issued, faults>>

SettleStale ==
    /\ pc = "settle"
    /\ Settled({ slot \in Slots :
                   Pending(slot) /\ request[slot].block \notin Range(Upcoming(AheadDepth)) })
    /\ pc' = "issue"
    /\ UNCHANGED <<cursorVars, direct, prefetching, slotStorage, poolStorage, spare,
                   batchVars, aligned, lineVars, endVars, into, issued, faults>>

NextUpcoming == Upcoming(AheadDepth)[issued + 1]

IssueDone ==
    /\ pc = "issue"
    /\ issued = Len(Upcoming(AheadDepth))
    /\ pc' = "walk"
    /\ issued' = 0
    /\ UNCHANGED <<cursorVars, direct, prefetching, slotVars, poolStorage, spare,
                   batchVars, memoryVars, lineVars, endVars, into, faults>>

IssueFound ==
    /\ pc = "issue"
    /\ issued < Len(Upcoming(AheadDepth))
    /\ InFlight(NextUpcoming)
    /\ issued' = issued + 1
    /\ UNCHANGED <<cursorVars, direct, prefetching, slotVars, poolStorage, spare,
                   batchVars, memoryVars, lineVars, endVars, pc, into, faults>>

\* The block behind the one that will be read before this one.
CarriedThen ==
    IF issued = 0 THEN carriedBlock ELSE Upcoming(AheadDepth)[issued] + 1

\* Mutant: the byte in front of the block is rounded up with the rest.
TargetRoundedWhole(range) ==
    IF direct
    THEN [offset |-> range.readOffset + 1,
          length |-> CeilingQuotient(range.readBytes, PageBytes) * PageBytes]
    ELSE [offset |-> range.readOffset + range.skip, length |-> range.readBytes - range.skip]

\* What to read of an upcoming block: an aligned read leaves out the byte in
\* front of the block and rounds its length up.
Target(range) ==
    IF direct
    THEN [offset |-> range.readOffset + 1, length |-> PageCeiling(range.readBytes - 1)]
    ELSE [offset |-> range.readOffset + range.skip, length |-> range.readBytes - range.skip]

\* Mutant: the batch keeps the memory given to the kernel.
GivesAndKeeps(slot, storage) ==
    /\ storage = IF slotStorage[slot] # NoStorage THEN slotStorage[slot]
                 ELSE IF spare # NoStorage THEN spare ELSE poolStorage
    /\ UNCHANGED <<spare, poolStorage>>

\* The memory a slot reads into is its own, else the batch's, else the pool's,
\* which part with it.
Gives(slot, storage) ==
    \/ /\ slotStorage[slot] # NoStorage
       /\ storage = slotStorage[slot]
       /\ UNCHANGED <<spare, poolStorage>>
    \/ /\ slotStorage[slot] = NoStorage /\ spare # NoStorage
       /\ storage = spare /\ spare' = NoStorage
       /\ UNCHANGED poolStorage
    \/ /\ slotStorage[slot] = NoStorage /\ spare = NoStorage
       /\ storage = poolStorage /\ poolStorage' = NoStorage
       /\ UNCHANGED spare

\* A direct read replaces memory that is not aligned.
AlignedOf(storage) == IF direct THEN aligned \cup {storage} ELSE aligned

\* One read started, refused at the end of the file, or refused.
Issue ==
    /\ pc = "issue"
    /\ issued < Len(Upcoming(AheadDepth))
    /\ ~ InFlight(NextUpcoming)
    /\ IdleSlots # {}
    /\ \E given \in Storages \cup {NoStorage} :
         LET slot   == IdleSlot
             target == Target(BlockReadRange(options, NextUpcoming, CarriedThen))
         IN  /\ Gives(slot, given)
             /\ slotStorage' = [slotStorage EXCEPT ![slot] = Replaced(given)]
             /\ memory' = [memory EXCEPT ![Replaced(given)] = Junk]
             /\ aligned' = AlignedOf(Replaced(given))
             /\ \/ /\ request' = [request EXCEPT ![slot] =
                                     [status |-> "running", block |-> NextUpcoming,
                                      offset |-> target.offset, length |-> target.length,
                                      read |-> 0]]
                   /\ issued' = issued + 1
                   /\ UNCHANGED <<prefetching, pc, faults>>
                \/ /\ Faulty(1)
                   /\ issued' = issued + 1
                   /\ UNCHANGED <<request, prefetching, pc>>
                \/ /\ Faulty(1)
                   /\ prefetching' = FALSE
                   /\ pc' = "walk"
                   /\ issued' = 0
                   /\ UNCHANGED request
    /\ UNCHANGED <<cursorVars, direct, batchVars, lineVars, endVars, into>>

-----------------------------------------------------------------------------
(* Looking for the block: loadNextBlockLocked. *)

\* What every step of the walk leaves alone.
OnlyWalks ==
    UNCHANGED <<direct, prefetching, slotVars, poolStorage, spare, batchVars,
                memoryVars, carriedBlock, linesLeft, closed, issued>>

\* The call returns an error, which is terminal.
Fails ==
    /\ terminal' = TRUE
    /\ pc' = "idle"
    /\ into' = NoBatch
    /\ batchStorage' = [b \in Batches |-> IF b = into THEN spare ELSE batchStorage[b]]
    /\ spare' = NoStorage
    /\ UNCHANGED batchBlock

WalkTake ==
    /\ pc = "walk"
    /\ TakeBlock
    /\ pc' = "load"
    /\ UNCHANGED <<into, served, terminal, faults>>
    /\ OnlyWalks

WalkOn ==
    /\ pc = "walk"
    /\ SkipBlock \/ EnterRegion
    /\ UNCHANGED <<pc, into, served, terminal, faults>>
    /\ OnlyWalks

WalkNextCycle ==
    /\ pc = "walk"
    /\ served
    /\ options.fileSize # 0
    /\ NextCycle
    /\ served' = FALSE
    /\ UNCHANGED <<pc, into, terminal, faults>>
    /\ OnlyWalks

\* The source is checked at the end of a cycle and once in so many regions.
CheckDue ==
    \/ Exhausted
    \/ RegionDone /\ regionCursor > 0 /\ regionCursor % RegionsPerCheck(options) = 0

\* io.EOF, or a check of the source that fails.
WalkEnds ==
    /\ pc = "walk"
    /\ \/ Exhausted /\ (~ options.reuse \/ ~ served \/ options.fileSize = 0) /\ UNCHANGED faults
       \/ CheckDue /\ Faulty(1)
    /\ Fails
    /\ UNCHANGED <<cursorVars, direct, prefetching, slotVars, poolStorage, memoryVars,
                   lineVars, closed, issued>>

-----------------------------------------------------------------------------
(* Reading the block: adoptLocked and loadBlockLocked. *)

ReadRange == BlockReadRange(options, block, carriedBlock)

\* Mutant: any read of the block that did not fail will do.
AdoptableAnyhow(r, range) == r.status = "done"

\* Whether a read that ended is the one that is needed now.
Adoptable(r, range) ==
    /\ r.status = "done"
    /\ IF direct
       THEN r.offset = range.readOffset + 1 /\ r.read >= range.readBytes - 1
       ELSE /\ r.offset = range.readOffset + range.skip
            /\ r.length = range.readBytes - range.skip
            /\ r.read >= r.length

\* Find, and Wait, which blocks while the kernel is at it.
Found(slot) ==
    /\ pc = "load"
    /\ Pending(slot) /\ request[slot].block = block
    /\ request[slot].status # "running"

\* The slot's memory becomes the pool's, and the pool's the slot's.
Adopts(slot) ==
    /\ Found(slot)
    /\ Adoptable(request[slot], ReadRange)
    /\ request' = [request EXCEPT ![slot] = NoRequest]
    /\ poolStorage' = slotStorage[slot]
    /\ slotStorage' = [slotStorage EXCEPT ![slot] = poolStorage]
    /\ UNCHANGED <<cursorVars, direct, prefetching, aligned, linesLeft, served, closed, issued>>

\* The byte in front of the block is the one carried, or read by itself.
Adopt(slot) ==
    /\ Adopts(slot)
    /\ memory' = [memory EXCEPT ![slotStorage[slot]].from =
                     IF direct \/ ReadRange.skip = 1 THEN 0 ELSE @]
    /\ carriedBlock' = block + 1
    /\ pc' = "lines"
    /\ UNCHANGED <<spare, batchVars, terminal, into, faults>>

AdoptFails(slot) ==
    /\ Adopts(slot)
    /\ direct /\ ReadRange.skip = 0
    /\ Faulty(1)
    /\ Fails
    /\ memory' = Frees({slotStorage[slot]})
    /\ UNCHANGED carriedBlock

Refuse(slot) ==
    /\ Found(slot)
    /\ ~ Adoptable(request[slot], ReadRange)
    /\ Settled({slot})
    /\ UNCHANGED <<cursorVars, direct, prefetching, slotStorage, poolStorage, spare,
                   batchVars, aligned, lineVars, endVars, callVars, faults>>

\* The read into pool.buffer, when no slot has the block.
LoadsInto(content) ==
    /\ pc = "load"
    /\ ~ InFlight(block)
    /\ poolStorage' = Replaced(poolStorage)
    /\ memory' = [memory EXCEPT ![Replaced(poolStorage)] = content]
    /\ aligned' = IF poolStorage = NoStorage THEN AlignedOf(New) ELSE aligned
    /\ UNCHANGED <<cursorVars, direct, prefetching, slotVars, linesLeft, served, closed, issued>>

Load ==
    /\ LoadsInto([at |-> ReadRange.readOffset, from |-> 0, to |-> ReadRange.readBytes])
    /\ carriedBlock' = block + 1
    /\ pc' = "lines"
    /\ UNCHANGED <<spare, batchVars, terminal, into, faults>>

LoadFails ==
    /\ LoadsInto(Junk)
    /\ Faulty(1)
    /\ Fails
    /\ UNCHANGED carriedBlock

\* No line starts in the block.
NoLineStarts ==
    /\ pc = "lines"
    /\ pc' = "walk"
    /\ memory' = Frees({poolStorage})
    /\ UNCHANGED <<cursorVars, direct, prefetching, slotVars, poolStorage, spare,
                   batchVars, aligned, lineVars, endVars, into, issued, faults>>

LinesEnd ==
    /\ pc = "lines"
    /\ pc' = "serve"
    /\ UNCHANGED <<direct, prefetching, slotVars, poolStorage, spare, batchVars,
                   memoryVars, lineVars, endVars, into, issued, faults>>

\* The block's lines end in it, or with the file.
LinesStart ==
    /\ LinesEnd
    /\ UNCHANGED cursorVars

\* Its last line ends in a later block.
LineContinues ==
    /\ LinesEnd
    /\ (block + 1) * options.blockBytes < options.fileSize
    /\ \E end \in block + 1 .. BlockCount(options) : ContinueLine(end)

\* A line is too long, or its end cannot be read.
LineFails ==
    /\ pc = "lines"
    /\ Faulty(1)
    /\ Fails
    /\ memory' = Frees({poolStorage})
    /\ UNCHANGED <<cursorVars, direct, prefetching, slotVars, poolStorage, aligned,
                   lineVars, closed, issued>>

-----------------------------------------------------------------------------
(* Handing lines out, Reset and Close. *)

\* nextLineLocked
ServeNext ==
    /\ \/ pc = "serve" /\ into = NoBatch
       \/ Calls("Next") /\ ~ terminal /\ linesLeft
    /\ linesLeft' \in BOOLEAN
    /\ served' = TRUE
    /\ pc' = "idle"
    /\ memory' = Frees(IF linesLeft' THEN {} ELSE {poolStorage})
    /\ UNCHANGED <<cursorVars, direct, prefetching, slotVars, poolStorage, spare,
                   batchVars, aligned, carriedBlock, endVars, into, issued, faults>>

Gets(b, storage) ==
    /\ batchStorage' = [batchStorage EXCEPT ![b] = poolStorage]
    /\ batchBlock' = [batchBlock EXCEPT ![b] = block]
    /\ poolStorage' = storage
    /\ linesLeft' = FALSE
    /\ served' = TRUE
    /\ UNCHANGED <<cursorVars, direct, prefetching, slotVars, aligned, carriedBlock,
                   endVars, issued, faults>>

\* nextBatchLocked after a block was loaded
ServeBatch ==
    /\ pc = "serve" /\ into # NoBatch
    /\ Gets(into, spare)
    /\ spare' = NoStorage
    /\ pc' = "idle"
    /\ into' = NoBatch
    /\ UNCHANGED memory

\* nextBatchLocked while lines of the block are left
ServeRest(b) ==
    /\ Calls("NextBatch") /\ ~ terminal /\ linesLeft
    /\ Gets(b, batchStorage[b])
    /\ memory' = Frees({batchStorage[b]})
    /\ UNCHANGED <<spare, pc, into>>

Reset ==
    /\ Calls("Reset")
    /\ Rewind
    /\ terminal' = FALSE
    /\ linesLeft' = FALSE
    /\ served' = FALSE
    /\ memory' = Frees({poolStorage})
    /\ UNCHANGED <<direct, prefetching, slotVars, poolStorage, spare, batchVars,
                   aligned, carriedBlock, closed, callVars, faults>>

\* The check of the source fails.
ResetFails ==
    /\ Calls("Reset")
    /\ Faulty(1)
    /\ terminal' = TRUE
    /\ UNCHANGED <<cursorVars, direct, prefetching, slotVars, poolStorage, spare,
                   batchVars, memoryVars, lineVars, closed, callVars>>

\* Ahead.Close settles all reads; the memory of pool and slots is freed.
Close ==
    /\ Calls("Close")
    /\ closed' = TRUE
    /\ terminal' = FALSE
    /\ prefetching' = FALSE
    /\ request' = [slot \in Slots |-> NoRequest]
    /\ slotStorage' = [slot \in Slots |-> NoStorage]
    /\ poolStorage' = NoStorage
    /\ linesLeft' = FALSE
    /\ memory' = Frees({poolStorage} \cup Range(slotStorage))
    /\ aligned' = aligned \cap Range(batchStorage)
    /\ UNCHANGED <<cursorVars, direct, spare, batchVars, carriedBlock, served, callVars, faults>>

\* A batch without memory is filled by another pool, whose memory comes with it.
\* (A batch whose memory is larger than this pool's may be is as good as empty:
\* nextBatchLocked drops it first.  This pool's own memory is never too large.)
FillElsewhere(b) ==
    /\ Calls("FillElsewhere")
    /\ batchStorage[b] = NoStorage
    /\ batchStorage' = [batchStorage EXCEPT ![b] = New]
    /\ memory' = Frees({New})
    /\ aligned' \in {AlignedOf(New), aligned \ {New}}
    /\ UNCHANGED <<cursorVars, direct, prefetching, slotVars, poolStorage, spare,
                   batchBlock, lineVars, endVars, callVars, faults>>

-----------------------------------------------------------------------------
AheadInit ==
    /\ CursorInit
    /\ direct \in {FALSE} \cup { d \in {TRUE} : DirectAllowed(options) }
    /\ prefetching = TRUE
    /\ slotStorage = [slot \in Slots |-> NoStorage]
    /\ request = [slot \in Slots |-> NoRequest]
    /\ poolStorage = NoStorage
    /\ spare = NoStorage
    /\ batchStorage = [b \in Batches |-> NoStorage]
    /\ batchBlock = [b \in Batches |-> NoBlock]
    /\ memory = [s \in Storages |-> Junk]
    /\ aligned = {}
    /\ carriedBlock = 0
    /\ linesLeft = FALSE
    /\ served = FALSE
    /\ terminal = FALSE
    /\ closed = FALSE
    /\ pc = "idle"
    /\ into = NoBatch
    /\ issued = 0
    /\ faults = 0

AheadNext ==
    \/ \E slot \in Slots : KernelReads(slot) \/ Adopt(slot) \/ AdoptFails(slot) \/ Refuse(slot)
    \/ \E b \in Batches : EnterNextBatch(b) \/ ServeRest(b) \/ FillElsewhere(b)
    \/ EnterNext
    \/ CallRefused
    \/ SettleStale
    \/ IssueDone
    \/ IssueFound
    \/ Issue
    \/ WalkTake
    \/ WalkOn
    \/ WalkNextCycle
    \/ WalkEnds
    \/ Load
    \/ LoadFails
    \/ NoLineStarts
    \/ LinesStart
    \/ LineContinues
    \/ LineFails
    \/ ServeNext
    \/ ServeBatch
    \/ Reset
    \/ ResetFails
    \/ Close

AheadSpec == AheadInit /\ [][AheadNext]_aheadVars

-----------------------------------------------------------------------------
(* Properties. *)

\* "the caller must not access the target until Wait, Settle, or Close
\* completes it": no memory is ever owned by two of the slots, the batches and
\* the pool, and what the kernel may write is the memory of its slot.
StorageHasOneOwner ==
    /\ \A i, j \in Slots : i # j => slotStorage[i] # slotStorage[j] \/ slotStorage[i] = NoStorage
    /\ \A b, c \in Batches : b # c => batchStorage[b] # batchStorage[c] \/ batchStorage[b] = NoStorage
    /\ \A i \in Slots, b \in Batches : slotStorage[i] # batchStorage[b] \/ slotStorage[i] = NoStorage
    /\ \A s \in {poolStorage, spare} \ {NoStorage} :
           /\ \A i \in Slots : slotStorage[i] # s
           /\ \A b \in Batches : batchStorage[b] # s
    /\ poolStorage = spare => spare = NoStorage
    /\ \A i \in Slots : Pending(i) => slotStorage[i] # NoStorage

WholeBlock(s, b) ==
    /\ s # NoStorage
    /\ memory[s].at = b * options.blockBytes - 1
    /\ memory[s].from = 0
    /\ memory[s].to >= BlockReadRange(options, b, 0).readBytes

\* Lines are taken from, and batches filled with, the bytes of the block meant,
\* all of them, and they stay until the batch is passed back, whatever reads
\* were in flight, late, short, failed or settled meanwhile.
HeldBlocksWhole ==
    /\ pc \in {"lines", "serve"} \/ linesLeft => WholeBlock(poolStorage, block)
    /\ \A b \in Batches : batchBlock[b] # NoBlock =>
                            WholeBlock(batchStorage[b], batchBlock[b])

\* readAheadLocked never runs out of slots: it would use slot -1.
IdleSlotForEach ==
    (pc = "issue" /\ issued < Len(Upcoming(AheadDepth)) /\ ~ InFlight(NextUpcoming))
        => IdleSlots # {}

\* A read in flight stays within the memory resized can have returned
\* (bufferLimit), and one that bypasses the cache is aligned as it has to be.
TargetsFit ==
    \A slot \in Slots : Pending(slot) =>
        LET r    == request[slot]
            skip == r.offset - (r.block * options.blockBytes - 1)
        IN  /\ skip \in {0, 1}
            /\ skip + r.length <= BufferLimit(options)
            /\ direct => /\ slotStorage[slot] \in aligned
                         /\ r.offset % PageBytes = 0
                         /\ r.length % PageBytes = 0

\* upcomingBlocksLocked foretells the walk: until the cycle ends, the block
\* loadNextBlockLocked loads is the first foretold, and what is foretold does
\* not change on the way to it.
WalkIsForetold ==
    [][/\ pc = "walk" /\ pc' = "load" =>
             Upcoming(AheadDepth) # <<>> /\ block' = Head(Upcoming(AheadDepth))
       /\ pc = "walk" /\ pc' = "walk" /\ cycle' = cycle =>
             Upcoming(AheadDepth)' = Upcoming(AheadDepth)]_aheadVars
=============================================================================

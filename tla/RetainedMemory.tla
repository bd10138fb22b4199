--------------------------- MODULE RetainedMemory ---------------------------
(***************************************************************************)
(* The memory a Pool retains.  Buffers are exchanged between the pool, the *)
(* slots of its Ahead and the batches it fills; a batch may come from a    *)
(* pool with other options.  Every length the pool asks for is cut out of  *)
(* a buffer grown by resized, and Stats tells what is retained and a bound *)
(* that is never exceeded.                                                 *)
(*                                                                         *)
(* Buffers are their capacities here; who may touch their bytes is the     *)
(* subject of ReadAhead.  Any block may follow any other, whether a call   *)
(* finds lines left is a free choice, and so is every outcome of a read:   *)
(* BlockCursor and ProxyPool decide these, and no capacity depends on it.  *)
(***************************************************************************)
EXTENDS PoolOpening

CONSTANTS
    Platforms,   \* records of intMax and offsetMax (2^32 - 1)
    Requests,    \* options and files Open is called with
    Batches,     \* the callers' batches
    Elsewhere    \* capacities a batch may have got from another pool

AheadDepth == 3
Slots == 1 .. AheadDepth

NoBatch == "Next"

ASSUME MemoryAssumption ==
    /\ NoBatch \notin Batches
    /\ Elsewhere \subseteq [buffer : Nat, offsets : Nat]
    /\ Requests \subseteq [options : AskedOptions, file : AskedFiles]

\* An int has room for a page more than the storage that is not aligned.
ASSUME PlatformAssumption ==
    /\ Platforms \subseteq [intMax : 1 .. Int64Max, offsetMax : Nat]
    /\ PageBytes >= 3
    /\ \A p \in Platforms : AlignedBytes < p.intMax

VARIABLES
    platform,
    asked,        \* what Open is called with, then NoRequest
    options,      \* of the pool opened, or NoPool
    ahead,        \* whether the pool has an Ahead, and how it reads
    prefetching,  \* with an Ahead; advice to the kernel retains nothing
    buffer,       \* cap(pool.buffer)
    length,       \* len(pool.buffer) while a block is loaded
    offsets,      \* cap(pool.offsets)
    slots,        \* storage each slot retains, and how much its read asked for
    batches,      \* what the batches hold
    block,
    limit,        \* extendLineLocked gives up at this length
    into,         \* the batch to fill, or NoBatch
    pc

openVars   == <<platform, asked, options, ahead>>
blockVars  == <<block, limit, into>>
memoryVars == <<openVars, prefetching, buffer, length, offsets, slots, batches,
                blockVars, pc>>

NoRequest == [options |-> <<>>]
NoPool    == <<>>

Init ==
    /\ platform \in Platforms
    /\ asked \in Requests
    /\ options = NoPool
    /\ ahead = "none"
    /\ prefetching = FALSE
    /\ buffer = 0 /\ length = 0 /\ offsets = 0
    /\ slots = [slot \in Slots |-> [capacity |-> 0, length |-> 0]]
    /\ batches = [b \in Batches |-> [buffer |-> 0, offsets |-> 0]]
    /\ block = 0 /\ limit = 0
    /\ into = NoBatch
    /\ pc = "open"

Open ==
    /\ pc = "open"
    /\ IF Refuses(platform, asked.options, asked.file)
       THEN /\ pc' = "refused"
            /\ UNCHANGED <<options, ahead, prefetching>>
       ELSE /\ options' \in OpenedPools(asked.options, asked.file)
            /\ ahead' \in {"none"}
                 \cup (IF asked.options.prefetch THEN {"buffered"} ELSE {})
                 \cup (IF asked.options.prefetch /\ DirectAllowed(options')
                       THEN {"direct"} ELSE {})
            /\ prefetching' = (ahead' # "none")
            /\ pc' = "idle"
    /\ asked' = NoRequest
    /\ UNCHANGED <<platform, buffer, length, offsets, slots, batches, blockVars>>

-----------------------------------------------------------------------------
(* Buffers. *)

Resize(newLength) ==
    /\ buffer' = Resized(platform, options, buffer, newLength)
    /\ length' = newLength

ReadBytesOf(b) == BlockReadRange(options, b, 0).readBytes

OwnershipEnd == BlockReadRange(options, block, 0).ownershipEnd

\* How much of a slot's storage the read of a block ahead covers.
AheadBytes(b) ==
    IF ahead = "direct" THEN 1 + PageCeiling(ReadBytesOf(b) - 1) ELSE ReadBytesOf(b)

Block == IF options = NoPool THEN {} ELSE 0 .. BlockCount(options) - 1

\* Mutant: a batch keeps its buffer, however large.
FittingAny(held) ==
    [held EXCEPT !.offsets = IF @ > MaxOffsets(options) THEN 0 ELSE @]

\* What nextBatchLocked leaves a batch of the storage it brings.
Fitting(held) ==
    [buffer  |-> IF held.buffer > BufferLimit(options) THEN 0 ELSE held.buffer,
     offsets |-> IF held.offsets > MaxOffsets(options) THEN 0 ELSE held.offsets]

-----------------------------------------------------------------------------
(* Calls. *)

EnterNext ==
    /\ pc = "idle"
    /\ pc' = "load"
    /\ into' = NoBatch
    /\ UNCHANGED <<openVars, prefetching, buffer, length, offsets, slots, batches,
                   block, limit>>

EnterNextBatch(b) ==
    /\ pc = "idle"
    /\ into' = b
    /\ batches' = [batches EXCEPT ![b] = Fitting(@)]
    /\ pc' \in {"serve", IF prefetching THEN "ahead" ELSE "load"}
    /\ UNCHANGED <<openVars, prefetching, buffer, length, offsets, slots, block, limit>>

\* A batch is passed to another pool and comes back.
FillElsewhere(b) ==
    /\ pc = "idle"
    /\ \E held \in Elsewhere : batches' = [batches EXCEPT ![b] = held]
    /\ UNCHANGED <<openVars, prefetching, buffer, length, offsets, slots, blockVars, pc>>

Close ==
    /\ pc = "idle"
    /\ pc' = "closed"
    /\ ahead' = "none"
    /\ prefetching' = FALSE
    /\ buffer' = 0 /\ offsets' = 0
    /\ slots' = [slot \in Slots |-> [capacity |-> 0, length |-> 0]]
    /\ UNCHANGED <<platform, asked, options, length, batches, blockVars>>

-----------------------------------------------------------------------------
(* readAheadLocked. *)

Idle == { slot \in Slots : slots[slot].length = 0 }

Settle(slot) ==
    /\ pc = "ahead"
    /\ slots[slot].length > 0
    /\ slots' = [slots EXCEPT ![slot].length = 0]
    /\ UNCHANGED <<openVars, prefetching, buffer, length, offsets, batches, blockVars, pc>>

\* The storage read into is the slot's, else the batch's, else the pool's.
Gives(slot, given) ==
    \/ /\ slots[slot].capacity > 0
       /\ given = slots[slot].capacity
       /\ UNCHANGED <<batches, buffer>>
    \/ /\ slots[slot].capacity = 0 /\ batches[into].buffer > 0
       /\ given = batches[into].buffer
       /\ batches' = [batches EXCEPT ![into].buffer = 0]
       /\ UNCHANGED buffer
    \/ /\ slots[slot].capacity = 0 /\ batches[into].buffer = 0
       /\ given = buffer
       /\ buffer' = 0
       /\ UNCHANGED batches

\* A read is started, or refused because the file ends, or refused for good.
\* A direct read replaces storage that is not aligned.
Issue(b) ==
    /\ pc = "ahead"
    /\ Idle # {}
    /\ LET slot == CHOOSE s \in Idle : \A t \in Idle : s <= t
       IN  /\ \E given \in {slots[slot].capacity, batches[into].buffer, buffer} :
                 \E kept \in {given} \cup (IF ahead = "direct" THEN {0} ELSE {}) :
                    \E asks \in {AheadBytes(b), 0} :
                       /\ Gives(slot, given)
                       /\ slots' = [slots EXCEPT ![slot] =
                             [capacity |-> Resized(platform, options, kept, AheadBytes(b)),
                              length   |-> asks]]
                       /\ \/ UNCHANGED <<prefetching, pc>>
                          \/ asks = 0 /\ prefetching' = FALSE /\ pc' = "load"
    /\ UNCHANGED <<openVars, length, offsets, blockVars>>

AheadDone ==
    /\ pc = "ahead"
    /\ pc' = "load"
    /\ UNCHANGED <<openVars, prefetching, buffer, length, offsets, slots, batches, blockVars>>

-----------------------------------------------------------------------------
(* loadBlockLocked. *)

\* The block is read now; a read of it ahead that is no use leaves its slot.
LoadBlock(b) ==
    /\ pc = "load"
    /\ block' = b
    /\ Resize(ReadBytesOf(b))
    /\ slots' \in {slots} \cup
          { [slots EXCEPT ![slot].length = 0] : slot \in Slots \ Idle }
    /\ pc' = "index"
    /\ UNCHANGED <<openVars, prefetching, offsets, batches, limit, into>>

\* adoptLocked: the slot takes the pool's buffer in exchange.
AdoptBlock(b, slot) ==
    /\ pc = "load"
    /\ slots[slot].length = AheadBytes(b)
    /\ block' = b
    /\ buffer' = slots[slot].capacity
    /\ length' = ReadBytesOf(b)
    /\ slots' = [slots EXCEPT ![slot] = [capacity |-> buffer, length |-> 0]]
    /\ pc' = "index"
    /\ UNCHANGED <<openVars, prefetching, offsets, batches, limit, into>>

GrowOffsets ==
    /\ pc = "index"
    /\ offsets' = GrownOffsets(MaxOffsets(options), offsets)
    /\ UNCHANGED <<openVars, prefetching, buffer, length, slots, batches, blockVars, pc>>

\* The block's last line runs into the next block.
ContinueLine ==
    /\ pc = "index"
    /\ block < BlockCount(options) - 1
    /\ \E lineStart \in 1 .. OwnershipEnd - 1 :
          limit' = lineStart + options.maxLineBytes + 2
    /\ pc' = "extend"
    /\ UNCHANGED <<openVars, prefetching, buffer, length, offsets, slots, batches, block, into>>

\* terminateLocked: the last line lacks its LF, and keeps a CR.
Terminate(at) ==
    /\ \E added \in {1, 2} : Resize(at + added)
    /\ block' = 0 /\ limit' = 0
    /\ pc' = "serve"
    /\ UNCHANGED <<openVars, prefetching, offsets, slots, batches, into>>

TerminateBlock ==
    /\ pc = "index"
    /\ block = BlockCount(options) - 1
    /\ Terminate(OwnershipEnd)

\* One turn of extendLineLocked that does not find the file at its end.
ExtendLine ==
    /\ pc = "extend"
    /\ length < limit
    /\ LET absoluteEnd == block * options.blockBytes - 1 + length
           readBytes   == ExtendReadBytes(options, length, limit, absoluteEnd)
       IN  /\ absoluteEnd < options.fileSize
           /\ Resize(length + readBytes)
    /\ pc' \in {"extend", "serve"}
    /\ UNCHANGED <<openVars, prefetching, offsets, slots, batches, blockVars>>

TerminateExtended ==
    /\ pc = "extend"
    /\ length < limit
    /\ block * options.blockBytes - 1 + length = options.fileSize
    /\ Terminate(length)

\* The lines of the block are complete; or it has none and another is looked
\* for; or an error ends the call, which leaves every buffer where it is.
Loaded ==
    /\ pc \in {"load", "index", "extend"}
    /\ pc' \in IF pc = "index" THEN {"serve", "load", "idle"} ELSE {"idle"}
    /\ length' = 0 /\ limit' = 0 /\ block' = 0
    /\ UNCHANGED <<openVars, prefetching, buffer, offsets, slots, batches, into>>

\* The line is copied out of the buffer, or the batch takes it and gives the
\* pool what it held.
Serve ==
    /\ pc = "serve"
    /\ IF into = NoBatch
       THEN UNCHANGED <<buffer, offsets, batches>>
       ELSE /\ buffer' = batches[into].buffer
            /\ offsets' = batches[into].offsets
            /\ batches' = [batches EXCEPT ![into] = [buffer |-> buffer, offsets |-> offsets]]
    /\ length' = 0 /\ limit' = 0 /\ block' = 0
    /\ into' = NoBatch
    /\ pc' = "idle"
    /\ UNCHANGED <<openVars, prefetching, slots>>

Next ==
    \/ Open
    \/ EnterNext
    \/ \E b \in Batches : EnterNextBatch(b)
    \/ \E b \in Batches : FillElsewhere(b)
    \/ Close
    \/ \E slot \in Slots : Settle(slot)
    \/ \E b \in Block : Issue(b)
    \/ \E b \in Block : LoadBlock(b)
    \/ \E b \in Block, slot \in Slots : AdoptBlock(b, slot)
    \/ AheadDone
    \/ GrowOffsets \/ ContinueLine \/ TerminateBlock
    \/ ExtendLine \/ TerminateExtended
    \/ Loaded \/ Serve

Spec == Init /\ [][Next]_memoryVars

-----------------------------------------------------------------------------
(* Stats. *)

\* Ahead.RetainedBytes
AheadRetained ==
    BufferBytes(slots[1].capacity) + BufferBytes(slots[2].capacity)
        + BufferBytes(slots[3].capacity)

RetainedBytes == BufferBytes(buffer) + AheadRetained + 4 * offsets

MaxRetainedBytes ==
    BufferBytes(options.blockBytes + options.maxLineBytes + 3)
        * (IF ahead = "none" THEN 1 ELSE 1 + AheadDepth)
      + 4 * (options.blockBytes + 1)

-----------------------------------------------------------------------------
(* Properties. *)

\* What Open accepts is what the other modules assume of a pool, and none of
\* the sizes that later code forms from it overflows.
OpenedIsValid ==
    options # NoPool =>
        /\ options \in ValidOptions
        /\ BlocksPerRegion(options) * options.blockBytes <= Int64Max
        /\ BlocksPerRegion(options) > 0
        /\ BufferBytes(options.blockBytes + options.maxLineBytes + 3) <= platform.intMax
        /\ options.blockBytes + options.maxLineBytes + 3 <= platform.offsetMax

\* Whatever lengths loading a block asks for, the line that runs through other
\* blocks, the terminator added to the last line and the whole pages of a
\* direct read included, they fit in the buffer resized returned: slicing it
\* never panics, and every offset into it is a uint32.
BuffersHoldLengths ==
    /\ length <= buffer
    /\ \A slot \in Slots : slots[slot].length <= slots[slot].capacity
    /\ options # NoPool => length <= platform.offsetMax

\* Stats never reports more than its own bound, whichever buffers went to and
\* came from batches, other pools and reads ahead.
RetainedWithinBound ==
    options # NoPool => RetainedBytes <= MaxRetainedBytes
=============================================================================

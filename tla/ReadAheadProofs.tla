-------------------------- MODULE ReadAheadProofs --------------------------
(***************************************************************************)
(* The exchange of memory between a pool, its reads ahead and its callers' *)
(* batches, for every number of slots and batches, every file, and any     *)
(* outcome of any system call: no memory is ever owned twice, so that the  *)
(* kernel writes only where nobody reads; the blocks foretold are those    *)
(* that the walk takes, and there is a slot for each of them; reads stay   *)
(* in their memory; and what callers hold is the block, whole.             *)
(***************************************************************************)
EXTENDS ReadAhead, BlockCursorProofs, FiniteSetTheorems, TLAPS

\* Who owns what: the batch being filled gave its memory up, and only while a
\* batch is being filled is there memory to spare.
Ownership ==
    /\ slotStorage \in [Slots -> Storages \cup {NoStorage}]
    /\ batchStorage \in [Batches -> Storages \cup {NoStorage}]
    /\ poolStorage \in Storages \cup {NoStorage}
    /\ spare \in Storages \cup {NoStorage}
    /\ request = [slot \in Slots |-> request[slot]]
    /\ into \in Batches \cup {NoBatch}
    /\ into = NoBatch => spare = NoStorage
    /\ into # NoBatch => batchStorage[into] = NoStorage
    /\ pc = "idle" => into = NoBatch
    /\ StorageHasOneOwner

-----------------------------------------------------------------------------
\* The values of a function are no more than its arguments.
LEMMA RangeIsSmaller ==
    ASSUME NEW S, NEW T, NEW f \in [S -> T], IsFiniteSet(S)
    PROVE  IsFiniteSet(Range(f)) /\ Cardinality(Range(f)) <= Cardinality(S)
  <1>1. f \in Surjection(S, Range(f))
    BY DEF Surjection, Range
  <1> QED
    BY <1>1, FS_Surjection, Zenon

\* There are as many slots as reads may be in flight.
LEMMA SlotsAreFinite ==
    IsFiniteSet(Slots) /\ Cardinality(Slots) = AheadDepth
  BY AheadAssumption, FS_Interval DEF Slots

\* New returns memory nobody owns: slots, batches, pool.buffer and the batch
\* being filled are fewer than the memories there are.
LEMMA NewIsUnused ==
    ASSUME Ownership
    PROVE  New \in Storages /\ New \notin InUse
  <1>1. IsFiniteSet(Slots) /\ Cardinality(Slots) = AheadDepth
    BY SlotsAreFinite
  <1>2. /\ IsFiniteSet(Range(slotStorage))
        /\ Cardinality(Range(slotStorage)) <= AheadDepth
    BY <1>1, RangeIsSmaller DEF Ownership
  <1>3. /\ IsFiniteSet(Range(batchStorage))
        /\ Cardinality(Range(batchStorage)) <= Cardinality(Batches)
    BY AheadAssumption, RangeIsSmaller DEF Ownership
  <1>4. /\ IsFiniteSet({poolStorage, spare})
        /\ Cardinality({poolStorage, spare}) <= 2
    <2>1. {poolStorage, spare} = {poolStorage} \cup {spare}
      OBVIOUS
    <2>2. IsFiniteSet({poolStorage}) /\ Cardinality({poolStorage}) = 1
      BY FS_Singleton
    <2> QED
      BY <2>1, <2>2, FS_AddElement
  <1> DEFINE both == {poolStorage, spare} \cup Range(slotStorage)
  <1>5. IsFiniteSet(both) /\ Cardinality(both) <= 2 + AheadDepth
    <2>1. /\ IsFiniteSet(both)
          /\ Cardinality(both) = Cardinality({poolStorage, spare}) + Cardinality(Range(slotStorage))
                                   - Cardinality({poolStorage, spare} \cap Range(slotStorage))
      BY <1>2, <1>4, FS_Union
    <2>2. Cardinality({poolStorage, spare} \cap Range(slotStorage)) \in Nat
      <3>1. {poolStorage, spare} \cap Range(slotStorage) \in SUBSET {poolStorage, spare}
        OBVIOUS
      <3> QED
        BY <3>1, <1>4, FS_Subset, FS_CardinalityType
    <2> QED
      BY <2>1, <2>2, <1>2, <1>4, FS_CardinalityType, AheadAssumption
  <1>6. IsFiniteSet(InUse) /\ Cardinality(InUse) <= 2 + AheadDepth + Cardinality(Batches)
    <2>1. InUse = both \cup Range(batchStorage)
      BY DEF InUse
    <2> HIDE DEF both
    <2>2. /\ IsFiniteSet(InUse)
          /\ Cardinality(InUse) = Cardinality(both) + Cardinality(Range(batchStorage))
                                    - Cardinality(both \cap Range(batchStorage))
      BY <2>1, <1>3, <1>5, FS_Union
    <2>3. Cardinality(both \cap Range(batchStorage)) \in Nat
      <3>1. both \cap Range(batchStorage) \in SUBSET both
        OBVIOUS
      <3> QED
        BY <3>1, <1>5, FS_Subset, FS_CardinalityType
    <2>4. Cardinality(both) \in Nat /\ Cardinality(Range(batchStorage)) \in Nat
      BY <1>3, <1>5, FS_CardinalityType
    <2>5. Cardinality(Batches) \in Nat
      BY AheadAssumption, FS_CardinalityType
    <2> QED
      BY <2>2, <2>3, <2>4, <2>5, <1>3, <1>5, AheadAssumption
  <1>7. ~ (Storages \subseteq InUse)
    <2> SUFFICES ASSUME Storages \in SUBSET InUse
                 PROVE  FALSE
      OBVIOUS
    <2>1. Cardinality(Storages) <= Cardinality(InUse)
      BY <1>6, FS_Subset
    <2>2. Cardinality(InUse) \in Nat /\ Cardinality(Storages) \in Nat /\ Cardinality(Batches) \in Nat
      BY <1>6, AheadAssumption, FS_CardinalityType
    <2> QED
      BY <2>1, <2>2, <1>6, AheadAssumption
  <1>8. \E s \in Storages : s \notin InUse
    BY <1>7
  <1> QED
    BY <1>8 DEF New

-----------------------------------------------------------------------------
(* Steps that move no memory. *)

\* Reads may end, be settled or be refused; calls go on.
LEMMA NothingMoves ==
    ASSUME Ownership,
           UNCHANGED <<slotStorage, poolStorage, spare, batchStorage>>,
           into' \in {into, NoBatch} /\ (into' = NoBatch => into = NoBatch),
           pc' = "idle" => into' = NoBatch,
           request' = [slot \in Slots |-> request'[slot]],
           \A slot \in Slots : Pending(slot)' => Pending(slot)
    PROVE  Ownership'
  BY DEF Ownership, StorageHasOneOwner

\* The kernel ends a read that was in flight.
LEMMA KernelKeepsOwnership ==
    ASSUME Ownership, NEW slot \in Slots, KernelReads(slot)
    PROVE  Ownership'
  <1>1. request[slot] # NoRequest
    BY DEF KernelReads, NoRequest
  <1>2. /\ request' = [k \in Slots |-> request'[k]]
        /\ \A k \in Slots : k # slot => request'[k] = request[k]
    BY DEF KernelReads, Ownership
  <1>3. \A k \in Slots : Pending(k)' => Pending(k)
    BY <1>1, <1>2 DEF Pending, NoRequest
  <1> QED
    BY <1>2, <1>3, NothingMoves DEF KernelReads, Ownership, batchVars, callVars

\* Reads are settled, or refused.
LEMMA SettlingKeepsOwnership ==
    ASSUME Ownership, SettleStale \/ \E slot \in Slots : Refuse(slot)
    PROVE  Ownership'
  <1>1. /\ UNCHANGED <<slotStorage, poolStorage, spare, batchStorage, into>>
        /\ pc' # "idle"
    BY DEF SettleStale, Refuse, Found, batchVars, callVars
  <1>2. \E slots : request' = [slot \in Slots |-> IF slot \in slots THEN NoRequest ELSE request[slot]]
    BY DEF SettleStale, Refuse, Settled
  <1>3. \A k \in Slots : Pending(k)' => Pending(k)
    BY <1>2 DEF Pending, NoRequest
  <1> QED
    BY <1>1, <1>2, <1>3, NothingMoves DEF Ownership

\* The walk, and what is found in a block.
LEMMA WalkKeepsOwnership ==
    ASSUME Ownership,
           \/ IssueDone \/ IssueFound
           \/ WalkTake \/ WalkOn \/ WalkNextCycle
           \/ NoLineStarts \/ LinesStart \/ LineContinues
    PROVE  Ownership'
  <1>1. /\ UNCHANGED <<slotStorage, request, poolStorage, spare, batchStorage, into>>
        /\ pc' # "idle"
    BY DEF IssueDone, IssueFound, WalkTake, WalkOn, WalkNextCycle, NoLineStarts, LinesStart,
           LineContinues, LinesEnd, OnlyWalks, slotVars, batchVars, callVars
  <1> QED
    BY <1>1, NothingMoves DEF Ownership, Pending, NoRequest

\* Calls that move no memory.
LEMMA CallsKeepOwnership ==
    ASSUME Ownership, EnterNext \/ CallRefused \/ ServeNext \/ Reset \/ ResetFails
    PROVE  Ownership'
  <1>1. /\ UNCHANGED <<slotStorage, request, poolStorage, spare, batchStorage>>
        /\ into = NoBatch /\ into' = NoBatch
    BY DEF Ownership, EnterNext, CallRefused, ServeNext, Reset, ResetFails, Calls, aheadVars,
           slotVars, batchVars, callVars
  <1> QED
    BY <1>1, NothingMoves DEF Ownership, Pending, NoRequest

-----------------------------------------------------------------------------
(* Steps that move memory. *)

\* The batch's memory becomes spare.
LEMMA EnterKeepsOwnership ==
    ASSUME Ownership, NEW b \in Batches, EnterNextBatch(b)
    PROVE  Ownership'
  <1>1. into = NoBatch /\ spare = NoStorage
    BY DEF Ownership, EnterNextBatch, Calls
  <1>2. /\ UNCHANGED <<slotStorage, request, poolStorage>>
        /\ spare' = batchStorage[b]
        /\ batchStorage' = [batchStorage EXCEPT ![b] = NoStorage]
        /\ into' = b
        /\ pc' # "idle"
    BY DEF EnterNextBatch, slotVars
  <1>3. b # NoBatch
    BY AheadAssumption
  <1> QED
    BY <1>1, <1>2, <1>3 DEF Ownership, StorageHasOneOwner, Pending, NoRequest

\* A call that fails gives the spare memory back to its batch.
LEMMA FailingKeepsOwnership ==
    ASSUME Ownership, Fails,
           UNCHANGED <<slotStorage, poolStorage>>,
           request' = request
    PROVE  Ownership'
  BY DEF Ownership, StorageHasOneOwner, Fails, Pending, NoRequest

\* The walk ends, or a line does not.
LEMMA EndsKeepOwnership ==
    ASSUME Ownership, WalkEnds \/ LineFails
    PROVE  Ownership'
  BY FailingKeepsOwnership DEF WalkEnds, LineFails, slotVars

\* A slot that is idle, if there is one.
LEMMA IdleSlotIsIdle ==
    ASSUME IdleSlots # {}
    PROVE  IdleSlot \in Slots /\ ~ Pending(IdleSlot)
  BY DEF IdleSlot, IdleSlots

\* A slot takes memory from the batch, from the pool or newly allocated, whether
\* or not its read then starts.
LEMMA IssueKeepsOwnership ==
    ASSUME Ownership, Issue
    PROVE  Ownership'
  <1>1. PICK given \in Storages \cup {NoStorage} :
          /\ Gives(IdleSlot, given)
          /\ slotStorage' = [slotStorage EXCEPT ![IdleSlot] = Replaced(given)]
          /\ \/ request' = request
             \/ \E r : request' = [request EXCEPT ![IdleSlot] = r]
    BY DEF Issue
  <1>2. /\ UNCHANGED <<batchStorage, into>>
        /\ pc' # "idle"
    BY DEF Issue, batchVars
  <1>3. IdleSlot \in Slots
    BY IdleSlotIsIdle DEF Issue
  <1>4. New \in Storages /\ New \notin InUse
    BY NewIsUnused
  <1> DEFINE slot == IdleSlot
             got  == Replaced(given)
  <1>5. /\ got \in Storages
        /\ got = given \/ (given = NoStorage /\ got = New)
    BY <1>1, <1>4 DEF Replaced
  <1>6. /\ New # poolStorage /\ New # spare
        /\ \A i \in Slots : New # slotStorage[i]
        /\ \A b \in Batches : New # batchStorage[b]
    BY <1>4 DEF InUse, Range, Ownership
  <1>7. NoStorage \notin Storages
    BY AheadAssumption DEF NoStorage
  <1>8. request' = [k \in Slots |-> request'[k]] /\ \A k \in Slots : k # slot => request'[k] = request[k]
    BY <1>1 DEF Ownership
  <1>9. /\ slotStorage' \in [Slots -> Storages \cup {NoStorage}]
        /\ slotStorage'[slot] = got
        /\ \A k \in Slots : k # slot => slotStorage'[k] = slotStorage[k]
    BY <1>1, <1>3, <1>5 DEF Ownership
  <1>10. /\ got # poolStorage' /\ got # spare'
         /\ \A i \in Slots : i # slot => got # slotStorage[i]
         /\ \A b \in Batches : got # batchStorage[b]
    <2>1. CASE slotStorage[slot] # NoStorage
      BY <2>1, <1>1, <1>3, <1>5, <1>6, <1>7 DEF Gives, Ownership, StorageHasOneOwner
    <2>2. CASE slotStorage[slot] = NoStorage /\ spare # NoStorage
      BY <2>2, <1>1, <1>3, <1>5, <1>6, <1>7 DEF Gives, Ownership, StorageHasOneOwner
    <2>3. CASE slotStorage[slot] = NoStorage /\ spare = NoStorage
      BY <2>3, <1>1, <1>3, <1>5, <1>6, <1>7 DEF Gives, Ownership, StorageHasOneOwner
    <2> QED
      BY <2>1, <2>2, <2>3
  <1>11. /\ poolStorage' \in {poolStorage, NoStorage}
         /\ spare' \in {spare, NoStorage}
    BY <1>1 DEF Gives
  <1> HIDE DEF slot, got
  <1>12. StorageHasOneOwner'
    BY <1>2, <1>5, <1>7, <1>8, <1>9, <1>10, <1>11
    DEF Ownership, StorageHasOneOwner, Pending, NoRequest
  <1> QED
    BY <1>2, <1>8, <1>9, <1>11, <1>12 DEF Ownership

\* The memory of the pool and that of a slot change places.
LEMMA AdoptingKeepsOwnership ==
    ASSUME Ownership, NEW slot \in Slots, Adopt(slot) \/ AdoptFails(slot)
    PROVE  Ownership'
  <1>1. Adopts(slot) /\ Pending(slot) /\ slotStorage[slot] # NoStorage
    BY DEF Adopt, AdoptFails, Adopts, Found, Ownership, StorageHasOneOwner
  <1>2. /\ poolStorage' = slotStorage[slot]
        /\ slotStorage' = [slotStorage EXCEPT ![slot] = poolStorage]
        /\ request' = [request EXCEPT ![slot] = NoRequest]
    BY <1>1 DEF Adopts
  <1>3. \/ UNCHANGED <<spare, batchStorage, into>> /\ pc' # "idle"
        \/ Fails
    BY DEF Adopt, AdoptFails, batchVars
  <1>4. CASE UNCHANGED <<spare, batchStorage, into>> /\ pc' # "idle"
    BY <1>1, <1>2, <1>4, SMTT(30) DEF Ownership, StorageHasOneOwner, Pending, NoRequest
  <1>5. CASE Fails
    BY <1>1, <1>2, <1>5, SMTT(30) DEF Ownership, StorageHasOneOwner, Pending, NoRequest, Fails
  <1> QED
    BY <1>3, <1>4, <1>5

\* The pool reads into its memory, which may be new.
LEMMA LoadingKeepsOwnership ==
    ASSUME Ownership, Load \/ LoadFails
    PROVE  Ownership'
  <1>1. /\ UNCHANGED <<slotStorage, request>>
        /\ poolStorage' = Replaced(poolStorage)
    BY DEF Load, LoadFails, LoadsInto, slotVars
  <1>2. New \in Storages /\ New \notin InUse
    BY NewIsUnused
  <1>3. /\ New # spare
        /\ \A i \in Slots : New # slotStorage[i]
        /\ \A b \in Batches : New # batchStorage[b]
    BY <1>2 DEF InUse, Range, Ownership
  <1>4. NoStorage \notin Storages
    BY AheadAssumption DEF NoStorage
  <1>5. \/ UNCHANGED <<spare, batchStorage, into>> /\ pc' # "idle"
        \/ Fails
    BY DEF Load, LoadFails, batchVars
  <1>6. CASE UNCHANGED <<spare, batchStorage, into>> /\ pc' # "idle"
    BY <1>1, <1>2, <1>3, <1>4, <1>6 DEF Ownership, StorageHasOneOwner, Pending, NoRequest, Replaced
  <1>7. CASE Fails
    BY <1>1, <1>2, <1>3, <1>4, <1>7
    DEF Ownership, StorageHasOneOwner, Pending, NoRequest, Replaced, Fails
  <1> QED
    BY <1>5, <1>6, <1>7

\* A batch takes the pool's memory and gives its own for it.
LEMMA ServingKeepsOwnership ==
    ASSUME Ownership, ServeBatch \/ \E b \in Batches : ServeRest(b)
    PROVE  Ownership'
  <1>1. UNCHANGED <<slotStorage, request>>
    BY DEF ServeBatch, ServeRest, Gets, slotVars
  <1>2. CASE ServeBatch
    <2>1. /\ into \in Batches /\ batchStorage[into] = NoStorage
          /\ batchStorage' = [batchStorage EXCEPT ![into] = poolStorage]
          /\ poolStorage' = spare
          /\ spare' = NoStorage /\ into' = NoBatch
      BY <1>2 DEF ServeBatch, Gets, Ownership
    <2> QED
      BY <1>1, <2>1 DEF Ownership, StorageHasOneOwner, Pending, NoRequest
  <1>3. ASSUME NEW b \in Batches, ServeRest(b)
        PROVE  Ownership'
    <2>1. /\ batchStorage' = [batchStorage EXCEPT ![b] = poolStorage]
          /\ poolStorage' = batchStorage[b]
          /\ UNCHANGED <<spare, into, pc>>
          /\ into = NoBatch
      BY <1>3 DEF ServeRest, Gets, Calls, Ownership
    <2> QED
      BY <1>1, <2>1 DEF Ownership, StorageHasOneOwner, Pending, NoRequest
  <1> QED
    BY <1>2, <1>3

\* Close drops the memory of pool and slots once no read is in flight.
LEMMA CloseKeepsOwnership ==
    ASSUME Ownership, Close
    PROVE  Ownership'
  <1>1. /\ request' = [slot \in Slots |-> NoRequest]
        /\ slotStorage' = [slot \in Slots |-> NoStorage]
        /\ poolStorage' = NoStorage
        /\ UNCHANGED <<spare, batchStorage, pc, into>>
    BY DEF Close, batchVars, callVars
  <1> QED
    BY <1>1 DEF Ownership, StorageHasOneOwner, Pending, NoRequest

\* A batch comes back with memory of another pool.
LEMMA FillingElsewhereKeepsOwnership ==
    ASSUME Ownership, NEW b \in Batches, FillElsewhere(b)
    PROVE  Ownership'
  <1>1. /\ batchStorage' = [batchStorage EXCEPT ![b] = New]
        /\ UNCHANGED <<slotStorage, request, poolStorage, spare, pc, into>>
        /\ into = NoBatch
    BY DEF FillElsewhere, slotVars, callVars, Calls, Ownership
  <1>2. New \in Storages /\ New \notin InUse
    BY NewIsUnused
  <1>3. /\ New # poolStorage /\ New # spare
        /\ \A i \in Slots : New # slotStorage[i]
        /\ \A c \in Batches : New # batchStorage[c]
    BY <1>2 DEF InUse, Range, Ownership
  <1> QED
    BY <1>1, <1>2, <1>3 DEF Ownership, StorageHasOneOwner, Pending, NoRequest

-----------------------------------------------------------------------------
\* At first nobody owns any memory.
LEMMA OwnershipInitially == AheadInit => Ownership
  BY DEF AheadInit, Ownership, StorageHasOneOwner, Pending, NoRequest

\* Every step keeps Ownership.
LEMMA OwnershipIsKept ==
    ASSUME Ownership, [AheadNext]_aheadVars
    PROVE  Ownership'
  <1>1. CASE UNCHANGED aheadVars
    BY <1>1 DEF Ownership, StorageHasOneOwner, Pending, NoRequest, aheadVars, slotVars, batchVars, callVars
  <1>2. ASSUME NEW slot \in Slots, KernelReads(slot) \/ Adopt(slot) \/ AdoptFails(slot) \/ Refuse(slot)
        PROVE  Ownership'
    BY <1>2, KernelKeepsOwnership, AdoptingKeepsOwnership, SettlingKeepsOwnership
  <1>3. ASSUME NEW b \in Batches, EnterNextBatch(b) \/ ServeRest(b) \/ FillElsewhere(b)
        PROVE  Ownership'
    BY <1>3, EnterKeepsOwnership, ServingKeepsOwnership, FillingElsewhereKeepsOwnership
  <1>4. CASE EnterNext \/ CallRefused \/ ServeNext \/ Reset \/ ResetFails
    BY <1>4, CallsKeepOwnership
  <1>5. CASE SettleStale
    BY <1>5, SettlingKeepsOwnership
  <1>6. CASE \/ IssueDone \/ IssueFound \/ WalkTake \/ WalkOn \/ WalkNextCycle
             \/ NoLineStarts \/ LinesStart \/ LineContinues
    BY <1>6, WalkKeepsOwnership
  <1>7. CASE Issue
    BY <1>7, IssueKeepsOwnership
  <1>8. CASE WalkEnds \/ LineFails
    BY <1>8, EndsKeepOwnership
  <1>9. CASE Load \/ LoadFails
    BY <1>9, LoadingKeepsOwnership
  <1>10. CASE ServeBatch
    BY <1>10, ServingKeepsOwnership
  <1>11. CASE Close
    BY <1>11, CloseKeepsOwnership
  <1> QED
    BY <1>1, <1>2, <1>3, <1>4, <1>5, <1>6, <1>7, <1>8, <1>9, <1>10, <1>11 DEF AheadNext

\* No memory is owned by two of the slots, the batches and the pool, in any pool
\* with reads ahead: NextBatch never hands a caller memory that the kernel may
\* still write, nor gives the kernel memory a caller still reads (readAheadLocked,
\* adoptLocked, nextBatchLocked, Ahead.Settle, Close).
THEOREM MemoryHasOneOwner == AheadSpec => []StorageHasOneOwner
  <1>1. AheadInit => Ownership
    BY OwnershipInitially
  <1>2. Ownership /\ [AheadNext]_aheadVars => Ownership'
    BY OwnershipIsKept
  <1>3. Ownership => StorageHasOneOwner
    BY DEF Ownership
  <1> QED
    BY <1>1, <1>2, <1>3, PTL DEF AheadSpec

-----------------------------------------------------------------------------
(* The walk. *)

\* What the pool does to its walk is what BlockCursor says.
LEMMA AheadWalks ==
    ASSUME Invariant, [AheadNext]_aheadVars
    PROVE  [CursorNext]_cursorVars
  <1>1. CASE UNCHANGED cursorVars
    BY <1>1
  <1>2. CASE WalkTake
    BY <1>2 DEF WalkTake, CursorNext
  <1>3. CASE WalkOn
    BY <1>3 DEF WalkOn, CursorNext
  <1>4. CASE WalkNextCycle
    BY <1>4 DEF WalkNextCycle, CursorNext
  <1>5. CASE Reset
    BY <1>5 DEF Reset, CursorNext
  <1>6. CASE LineContinues
    <2>1. PICK end \in block + 1 .. BlockCount(options) : ContinueLine(end)
      BY <1>6 DEF LineContinues
    <2>2. BlockCount(options) \in Nat /\ block \in {NoBlock} \cup 0 .. BlockCount(options) - 1
      BY OpenedPool DEF Invariant, CursorTypeOK
    <2>3. end \in 0 .. BlockCount(options) /\ block + 1 <= end
      BY <2>2, SMT DEF NoBlock
    <2> QED
      BY <2>1, <2>3 DEF CursorNext
  <1>7. CASE UNCHANGED aheadVars
    BY <1>7 DEF aheadVars
  <1>8. CASE \/ \E slot \in Slots : KernelReads(slot) \/ Adopt(slot) \/ AdoptFails(slot) \/ Refuse(slot)
             \/ \E b \in Batches : EnterNextBatch(b) \/ ServeRest(b) \/ FillElsewhere(b)
             \/ EnterNext \/ CallRefused \/ SettleStale \/ IssueDone \/ IssueFound \/ Issue
             \/ WalkEnds
    BY <1>8, <1>1 DEF KernelReads, Adopt, AdoptFails, Adopts, Refuse, EnterNextBatch, ServeRest, Gets,
       FillElsewhere, EnterNext, CallRefused, SettleStale, IssueDone, IssueFound, Issue, WalkEnds,
       aheadVars
  <1>9. CASE \/ Load \/ LoadFails \/ NoLineStarts \/ LinesStart \/ LineFails
             \/ ServeNext \/ ServeBatch \/ ResetFails \/ Close
    BY <1>9, <1>1 DEF Load, LoadFails, LoadsInto, NoLineStarts, LinesStart, LineFails, ServeNext,
       ServeBatch, Gets, ResetFails, Close
  <1> QED
    BY <1>2, <1>3, <1>4, <1>5, <1>6, <1>7, <1>8, <1>9 DEF AheadNext

\* A remainder may be taken of a summand first.
LEMMA ReducedSum ==
    ASSUME NEW a \in Int, NEW b \in Int, NEW n \in Nat \ {0}
    PROVE  ((a % n) + b) % n = (a + b) % n
  <1> DEFINE q == a \div n
             r == a % n
             c == r + b
  <1>1. r \in 0 .. n - 1 /\ q \in Int /\ a = n * q + r
    BY DivisionFacts
  <1> HIDE DEF q, r
  <1>2. a + b = n * q + c /\ c \in Int
    BY <1>1, SMT
  <1> HIDE DEF c
  <1>3. (n * q + c) % n = c % n
    BY <1>1, <1>2, MultipleRemainder
  <1> QED
    BY <1>2, <1>3 DEF c, r

\* nextRegion, advanced so often, is the region of the shard that comes so many
\* later; the definition of RegionAfter has a solution to begin with.
LEMMA RegionAfterUnfolds ==
    ASSUME Invariant
    PROVE  /\ RegionAfter[0] = nextRegion
           /\ \A n \in Nat \ {0} :
                RegionAfter[n] = AddModulo(RegionAfter[n - 1], regionAdvance, RegionCount(options))
  <1> DEFINE count == RegionCount(options)
             f     == [n \in Nat |-> IF count <= 1 THEN (IF n = 0 THEN nextRegion ELSE 0)
                                     ELSE (nextRegion + n * regionAdvance) % count]
  <1>1. /\ count \in Nat /\ count < WordSize
        /\ nextRegion \in 0 .. Greater(0, count - 1)
        /\ regionAdvance \in 0 .. count
    BY OpenedPool DEF Invariant, CursorTypeOK
  <1>2. f[0] = nextRegion
    <2>1. CASE count <= 1
      BY <2>1
    <2>2. CASE count > 1
      <3>1. nextRegion \in Nat /\ nextRegion < count
        BY <1>1, <2>2, SMT DEF Greater
      <3>2. nextRegion + 0 * regionAdvance = nextRegion /\ ~ (count <= 1)
        BY <1>1, <2>2, <3>1, SMT
      <3> HIDE DEF count
      <3> QED
        BY <1>1, <3>1, <3>2, SmallRemainder
    <2> QED
      BY <1>1, <2>1, <2>2, SMT
  <1>3. ASSUME NEW n \in Nat \ {0}
        PROVE  f[n] = AddModulo(f[n - 1], regionAdvance, count)
    <2>1. CASE count <= 1
      BY <2>1 DEF AddModulo
    <2>2. CASE count > 1
      <3>1. n - 1 \in Nat /\ nextRegion \in Nat /\ regionAdvance \in Nat /\ count \in Nat \ {0}
            /\ ~ (count <= 1)
        BY <1>1, <2>2, SMT
      <3> DEFINE sum == nextRegion + (n - 1) * regionAdvance
      <3>2. sum \in Int /\ nextRegion + n * regionAdvance = sum + regionAdvance
        BY <3>1, SMT
      <3>3. f[n] = (sum + regionAdvance) % count /\ f[n - 1] = sum % count
        BY <3>1, <3>2
      <3> HIDE DEF sum, f, count
      <3>4. sum % count \in 0 .. count - 1
        BY <3>1, <3>2, DivisionFacts
      <3>5. AddModulo(sum % count, regionAdvance, count) = ((sum % count) + regionAdvance) % count
        BY <1>1, <3>1, <3>4, AddModuloExact
      <3>6. ((sum % count) + regionAdvance) % count = (sum + regionAdvance) % count
        <4>1. regionAdvance \in Int
          BY <3>1, SMT
        <4> QED
          BY <3>1, <3>2, <4>1, ReducedSum
      <3> QED
        BY <3>3, <3>5, <3>6
    <2> QED
      BY <1>1, <2>1, <2>2, SMT
  <1>4. f = [n \in Nat |-> IF n = 0 THEN nextRegion
                           ELSE AddModulo(f[n - 1], regionAdvance, count)]
    <2>1. \A n \in Nat : f[n] = IF n = 0 THEN nextRegion ELSE AddModulo(f[n - 1], regionAdvance, count)
      <3> HIDE DEF f, count
      <3> QED
        BY <1>2, <1>3
    <2> QED
      BY <2>1, Zenon
  <1> HIDE DEF f
  <1>5. \E g : g = [n \in Nat |-> IF n = 0 THEN nextRegion
                                  ELSE AddModulo(g[n - 1], regionAdvance, count)]
    BY <1>4
  <1>6. RegionAfter = [n \in Nat |-> IF n = 0 THEN nextRegion
                                     ELSE AddModulo(RegionAfter[n - 1], regionAdvance, count)]
    BY <1>5 DEF RegionAfter
  <1> HIDE DEF count
  <1>7. \A n \in Nat : RegionAfter[n] = IF n = 0 THEN nextRegion
                                        ELSE AddModulo(RegionAfter[n - 1], regionAdvance, count)
    BY <1>6, Zenon
  <1>8. 0 \in Nat /\ \A n \in Nat \ {0} : n \in Nat /\ n # 0
    OBVIOUS
  <1> QED
    BY <1>7, <1>8 DEF count

\* The regions to come, from the one that the walk enters next on, are those of
\* the shard.
LEMMA RegionAfterIsShardRegion ==
    ASSUME Invariant, NEW k \in Nat, regionCursor + k < RegionsForShard(options)
    PROVE  RegionAfter[k] = ShardRegion(options, cycle, regionCursor + k)
  <1> DEFINE wrong == { n \in Nat : /\ regionCursor + n < RegionsForShard(options)
                                    /\ RegionAfter[n] # ShardRegion(options, cycle, regionCursor + n) }
  <1>1. /\ options \in ValidOptions /\ cycle \in Nat
        /\ regionCursor \in Nat /\ RegionsForShard(options) \in Nat
    BY OpenedPool, SMT DEF Invariant
  <1>2. /\ regionAdvance = RegionAdvance(options, cycle)
        /\ regionCursor < RegionsForShard(options) => nextRegion = ShardRegion(options, cycle, regionCursor)
    BY DEF Invariant, OnSchedule
  <1>3. ASSUME NEW n \in wrong, \A x \in wrong : n <= x
        PROVE  FALSE
    <2>1. n \in Nat /\ regionCursor + n < RegionsForShard(options)
          /\ RegionAfter[n] # ShardRegion(options, cycle, regionCursor + n)
      BY <1>3
    <2>2. CASE n = 0
      <3>1. regionCursor + n = regionCursor
        BY <1>1, <2>2, SMT
      <3> QED
        BY <1>2, <2>1, <2>2, <3>1, RegionAfterUnfolds
    <2>3. CASE n # 0
      <3>1. /\ n \in Nat \ {0} /\ n - 1 \in Nat /\ ~ (n <= n - 1)
            /\ regionCursor + (n - 1) \in Nat
            /\ (regionCursor + (n - 1)) + 1 = regionCursor + n
            /\ regionCursor + (n - 1) < RegionsForShard(options)
        BY <1>1, <2>1, <2>3, SMT
      <3>2. n - 1 \notin wrong
        BY <1>3, <3>1
      <3>3. RegionAfter[n - 1] = ShardRegion(options, cycle, regionCursor + (n - 1))
        BY <3>1, <3>2
      <3>4. RegionAfter[n] = AddModulo(RegionAfter[n - 1], regionAdvance, RegionCount(options))
        BY <3>1, RegionAfterUnfolds
      <3>5. AddModulo(ShardRegion(options, cycle, regionCursor + (n - 1)),
                      RegionAdvance(options, cycle), RegionCount(options))
              = ShardRegion(options, cycle, regionCursor + n)
        BY <1>1, <2>1, <3>1, NextShardRegion
      <3> QED
        BY <1>2, <2>1, <3>3, <3>4, <3>5
    <2> QED
      BY <2>2, <2>3
  <1>4. wrong \in SUBSET Nat
    OBVIOUS
  <1>5. k \notin wrong
    <2> HIDE DEF wrong
    <2> QED
      BY <1>3, <1>4, LeastElement
  <1> QED
    BY <1>5

-----------------------------------------------------------------------------
(* The places of the walk. *)

\* The block that a place stands for, in a cycle of a pool.
PlacedBlock(o, c, place) ==
    LET region == ShardRegion(o, c, (place \div BlocksPerRegion(o)) - 1)
    IN  RegionBase(o, region)
          + AddModulo(Rotation(o, c, region), place % BlocksPerRegion(o), RegionLength(o, region))

\* The places of a cycle from block next of region cursor on.
PlacesFrom(o, c, cursor, next) ==
    UNION { (n * BlocksPerRegion(o) + (IF n = cursor THEN next ELSE 0))
              .. (n * BlocksPerRegion(o) + (RegionLength(o, ShardRegion(o, c, n - 1)) - 1)) :
              n \in Greater(1, cursor) .. RegionsForShard(o) }

\* The regions that upcomingBlocksLocked comes to are those of the schedule.
LEMMA RegionsToCome ==
    ASSUME Invariant, NEW n \in Greater(1, regionCursor) .. RegionsForShard(options)
    PROVE  LET region == ShardRegion(options, cycle, n - 1)
           IN  /\ region \in 0 .. RegionCount(options) - 1
               /\ RegionToCome(n) =
                    [base |-> RegionBase(options, region),
                     rotation |-> Rotation(options, cycle, region),
                     next |-> IF n = regionCursor THEN regionBlockNext ELSE 0,
                     count |-> RegionLength(options, region)]
  <1>1. /\ options \in ValidOptions /\ cycle \in Nat
        /\ regionCursor \in Nat /\ RegionsForShard(options) \in Nat
    BY OpenedPool, SMT DEF Invariant
  <1>2. /\ n \in Nat /\ n >= 1 /\ n >= regionCursor
        /\ n - 1 \in 0 .. RegionsForShard(options) - 1
    BY <1>1, SMT DEF Greater
  <1>3. ShardRegion(options, cycle, n - 1) \in 0 .. RegionCount(options) - 1
    BY <1>1, <1>2, ShardRegionInRange
  <1>4. CASE n = regionCursor
    <2>1. regionCursor > 0
      BY <1>2, <1>4, SMT
    <2> QED
      BY <1>3, <1>4, <2>1 DEF RegionToCome, Invariant, OnSchedule
  <1>5. CASE n # regionCursor
    <2>1. /\ n - regionCursor - 1 \in Nat
          /\ regionCursor + (n - regionCursor - 1) = n - 1
          /\ regionCursor + (n - regionCursor - 1) < RegionsForShard(options)
      BY <1>1, <1>2, <1>5, SMT
    <2>2. RegionAfter[n - regionCursor - 1] = ShardRegion(options, cycle, n - 1)
      BY <2>1, RegionAfterIsShardRegion
    <2> QED
      BY <1>3, <1>5, <2>2 DEF RegionToCome
  <1> QED
    BY <1>4, <1>5

\* A place tells its region and its block.
LEMMA PlaceTells ==
    ASSUME NEW b \in Nat \ {0}, NEW n \in Nat, NEW j \in 0 .. b - 1
    PROVE  (n * b + j) \div b = n /\ (n * b + j) % b = j
  <1>1. n * b \in Nat /\ n * b = b * n /\ n * b + j = b * n + j /\ n * b + j \in Int
    BY SMT
  <1>2. (n * b + j) % b = j
    BY <1>1, RemainderUnique
  <1> DEFINE a == n * b + j
             q == a \div b
  <1>3. q \in Int /\ a = b * q + (a % b)
    BY <1>1, DivisionFacts
  <1> HIDE DEF q
  <1>4. b * q = b * n
    <2>1. a = b * q + j /\ a = b * n + j
      BY <1>1, <1>2, <1>3
    <2>2. b * q \in Int /\ b * n \in Int
      BY <1>3, SMT
    <2> HIDE DEF a
    <2> QED
      BY <2>1, <2>2, SMT
  <1>5. q = n
    BY <1>3, <1>4, SMT
  <1> QED
    BY <1>2, <1>5 DEF q, a

\* A place of the walk is a block of a region of the shard.
LEMMA PlaceInWalk ==
    ASSUME NEW o \in ValidOptions, NEW c \in Nat, NEW cursor \in Nat, NEW next \in Nat,
           NEW p \in PlacesFrom(o, c, cursor, next)
    PROVE  \E n \in Greater(1, cursor) .. RegionsForShard(o) :
             /\ n \in Nat /\ n >= 1 /\ n >= cursor
             /\ ShardRegion(o, c, n - 1) \in 0 .. RegionCount(o) - 1
             /\ \E j \in 0 .. RegionLength(o, ShardRegion(o, c, n - 1)) - 1 :
                  /\ j \in 0 .. BlocksPerRegion(o) - 1
                  /\ p = n * BlocksPerRegion(o) + j
                  /\ p \div BlocksPerRegion(o) = n /\ p % BlocksPerRegion(o) = j
                  /\ n = cursor => next <= j
                  /\ p \in 0 .. (RegionsForShard(o) + 1) * BlocksPerRegion(o)
  <1> DEFINE b == BlocksPerRegion(o)
             all == RegionsForShard(o)
  <1>1. PICK n \in Greater(1, cursor) .. all :
          p \in (n * b + (IF n = cursor THEN next ELSE 0))
                  .. (n * b + (RegionLength(o, ShardRegion(o, c, n - 1)) - 1))
    BY DEF PlacesFrom
  <1>2. b \in Nat \ {0} /\ all \in Nat
    BY LayoutFacts
  <1>3. n \in Nat /\ n >= 1 /\ n >= cursor /\ n - 1 \in 0 .. all - 1 /\ n <= all
    BY <1>2, SMT DEF Greater
  <1>4. ShardRegion(o, c, n - 1) \in 0 .. RegionCount(o) - 1
    BY <1>3, ShardRegionInRange
  <1> DEFINE length == RegionLength(o, ShardRegion(o, c, n - 1))
             j == p - n * b
  <1>5. length \in 1 .. b
    BY <1>4, RegionLiesInFile
  <1> HIDE DEF b, all, length
  <1>6. n * b \in Nat
    BY <1>2, <1>3, SMT
  <1>7. /\ j \in 0 .. length - 1 /\ j \in 0 .. b - 1 /\ p = n * b + j
        /\ n = cursor => next <= j
    BY <1>1, <1>2, <1>5, <1>6, SMT DEF length, b
  <1> HIDE DEF j
  <1>8. p \div b = n /\ p % b = j
    BY <1>2, <1>3, <1>7, PlaceTells
  <1>9. p \in 0 .. (all + 1) * b
    <2>1. b * n <= b * all /\ b * all \in Nat
      BY <1>2, <1>3, ProductOrder
    <2>2. b * n = n * b /\ (all + 1) * b = b * all + b
      BY <1>2, <1>3, SMT
    <2> QED
      BY <1>2, <1>6, <1>7, <2>1, <2>2, SMT
  <1> QED
    BY <1>3, <1>4, <1>7, <1>8, <1>9 DEF b, all, length

\* A place stands for a block of the file.
LEMMA PlacedBlockInFile ==
    ASSUME NEW o \in ValidOptions, NEW c \in Nat, NEW cursor \in Nat, NEW next \in Nat,
           NEW p \in PlacesFrom(o, c, cursor, next)
    PROVE  PlacedBlock(o, c, p) \in 0 .. BlockCount(o) - 1
  <1>1. PICK n \in Greater(1, cursor) .. RegionsForShard(o) :
          /\ ShardRegion(o, c, n - 1) \in 0 .. RegionCount(o) - 1
          /\ \E j \in 0 .. RegionLength(o, ShardRegion(o, c, n - 1)) - 1 :
               p \div BlocksPerRegion(o) = n /\ p % BlocksPerRegion(o) = j
    BY PlaceInWalk
  <1> DEFINE region == ShardRegion(o, c, n - 1)
             length == RegionLength(o, region)
  <1>2. PICK j \in 0 .. length - 1 : p \div BlocksPerRegion(o) = n /\ p % BlocksPerRegion(o) = j
    BY <1>1
  <1>3. /\ RegionBase(o, region) \in Nat
        /\ length \in 1 .. BlocksPerRegion(o)
        /\ RegionBase(o, region) + length <= BlockCount(o)
    BY <1>1, RegionLiesInFile
  <1>4. length \in Nat \ {0} /\ length < WordSize
    <2>1. BlocksPerRegion(o) \in Nat /\ BlocksPerRegion(o) < WordSize
      BY LayoutFacts
    <2> QED
      BY <1>3, <2>1, WordAssumption, SMT
  <1>5. Rotation(o, c, region) \in 0 .. length - 1
    BY <1>1, RotationInRegion
  <1>6. AddModulo(Rotation(o, c, region), j, length) \in 0 .. length - 1
    BY <1>2, <1>4, <1>5, RotatedBlocksAreAll, SMTT(30)
  <1>7. PlacedBlock(o, c, p) = RegionBase(o, region) + AddModulo(Rotation(o, c, region), j, length)
    BY <1>2 DEF PlacedBlock
  <1>8. BlockCount(o) \in Nat
    BY LayoutFacts
  <1> HIDE DEF length, region
  <1> QED
    BY <1>3, <1>6, <1>7, <1>8, SMT

\* The places that upcomingBlocksLocked runs through are those of the schedule
\* from the walk's position on.
LEMMA PlacesAreScheduled ==
    Invariant => RestOfCycle = PlacesFrom(options, cycle, regionCursor, regionBlockNext)
  <1> SUFFICES ASSUME Invariant
               PROVE  RestOfCycle = PlacesFrom(options, cycle, regionCursor, regionBlockNext)
    OBVIOUS
  <1> DEFINE b == BlocksPerRegion(options)
             all == RegionsForShard(options)
             len(n) == RegionLength(options, ShardRegion(options, cycle, n - 1))
             first(n) == IF n = regionCursor THEN regionBlockNext ELSE 0
             here(n) == Place(n, RegionToCome(n).next) .. Place(n, RegionToCome(n).count - 1)
             there(n) == (n * b + first(n)) .. (n * b + (len(n) - 1))
  <1>1. /\ regionCursor \in Nat /\ all \in Nat /\ b \in Nat
    BY OpenedPool, SMT DEF Invariant
  <1>2. \A n \in Greater(1, regionCursor) .. all : here(n) = there(n)
    BY RegionsToCome DEF Place
  <1>3. RestOfCycle = UNION { here(n) : n \in regionCursor .. all }
    BY DEF RestOfCycle
  <1>4. PlacesFrom(options, cycle, regionCursor, regionBlockNext)
          = UNION { there(n) : n \in Greater(1, regionCursor) .. all }
    BY DEF PlacesFrom
  <1>5. regionCursor = 0 => here(0) = {}
    <2> SUFFICES ASSUME regionCursor = 0 PROVE here(0) = {}
      OBVIOUS
    <2>1. regionBlocks = 0 /\ regionBlockNext = 0
      <3>1. regionBlocks = 0
        BY DEF Invariant, OnSchedule
      <3>2. regionBlockNext \in 0 .. regionBlocks
        BY DEF Invariant, CursorTypeOK
      <3> QED
        BY <3>1, <3>2, SMT
    <2>2. RegionToCome(0).next = 0 /\ RegionToCome(0).count = 0
      BY <2>1 DEF RegionToCome
    <2>3. here(0) = (0 * b + 0) .. (0 * b + (0 - 1))
      BY <2>2 DEF Place
    <2>4. (0 * b + 0) .. (0 * b + (0 - 1)) = {}
      BY <1>1, SMT
    <2> QED
      BY <2>3, <2>4
  <1>6. \A n \in regionCursor .. all : n \in Greater(1, regionCursor) .. all \/ (n = 0 /\ regionCursor = 0)
    BY <1>1, SMT DEF Greater
  <1>7. \A n \in Greater(1, regionCursor) .. all : n \in regionCursor .. all
    BY <1>1, SMT DEF Greater
  <1> HIDE DEF here, there
  <1> QED
    BY <1>2, <1>3, <1>4, <1>5, <1>6, <1>7

\* The block at such a place is the one that the schedule has there.
LEMMA BlocksAreScheduled ==
    Invariant => \A p \in PlacesFrom(options, cycle, regionCursor, regionBlockNext) :
                    BlockAt(p) = PlacedBlock(options, cycle, p)
  <1> SUFFICES ASSUME Invariant,
                      NEW p \in PlacesFrom(options, cycle, regionCursor, regionBlockNext)
               PROVE  BlockAt(p) = PlacedBlock(options, cycle, p)
    OBVIOUS
  <1>1. options \in ValidOptions /\ cycle \in Nat /\ regionCursor \in Nat /\ regionBlockNext \in Nat
    BY OpenedPool, SMT DEF Invariant
  <1>2. PICK n \in Greater(1, regionCursor) .. RegionsForShard(options) :
          p \div BlocksPerRegion(options) = n
    BY <1>1, PlaceInWalk
  <1> QED
    BY <1>2, RegionsToCome DEF BlockAt, PlacedBlock

-----------------------------------------------------------------------------
(* What upcomingBlocksLocked foretells. *)

\* The number of a given rank.
Ranked(S, k) == CHOOSE p \in S : Cardinality({ q \in S : q <= p }) = k

\* The places from a position on that a continuation does not run over.
OpenPlaces(o, c, cursor, next, start, end) ==
    { p \in PlacesFrom(o, c, cursor, next) :
        ~ (start <= PlacedBlock(o, c, p) /\ PlacedBlock(o, c, p) < end) }

\* The blocks at the first of some places.
BlocksAhead(o, c, places) ==
    [k \in 1 .. Lesser(AheadDepth, Cardinality(places)) |-> PlacedBlock(o, c, Ranked(places, k))]

\* The places that are left to the walk.
Left == OpenPlaces(options, cycle, regionCursor, regionBlockNext, continuationStart, continuationEnd)

\* They are no more than the blocks of the regions.
LEMMA LeftIsFinite ==
    ASSUME Invariant
    PROVE  /\ (RegionsForShard(options) + 1) * BlocksPerRegion(options) \in Nat
           /\ Left \in SUBSET (0 .. (RegionsForShard(options) + 1) * BlocksPerRegion(options))
           /\ IsFiniteSet(Left)
           /\ Cardinality(Left) \in Nat
           /\ Left \in SUBSET Int
           /\ \A p \in Left : PlacedBlock(options, cycle, p) \in 0 .. BlockCount(options) - 1
  <1> DEFINE m == (RegionsForShard(options) + 1) * BlocksPerRegion(options)
  <1>1. options \in ValidOptions /\ cycle \in Nat /\ regionCursor \in Nat /\ regionBlockNext \in Nat
    BY OpenedPool, SMT DEF Invariant
  <1>2. m \in Nat
    <2>1. RegionsForShard(options) \in Nat /\ BlocksPerRegion(options) \in Nat
      BY OpenedPool DEF Invariant
    <2> QED
      BY <2>1, SMT
  <1>3. \A p \in PlacesFrom(options, cycle, regionCursor, regionBlockNext) : p \in 0 .. m
    <2> TAKE p \in PlacesFrom(options, cycle, regionCursor, regionBlockNext)
    <2> QED
      BY <1>1, PlaceInWalk
  <1>4. \A p \in Left : /\ p \in PlacesFrom(options, cycle, regionCursor, regionBlockNext)
                        /\ p \in 0 .. m
    BY <1>3 DEF Left, OpenPlaces
  <1>5. \A p \in Left : PlacedBlock(options, cycle, p) \in 0 .. BlockCount(options) - 1
    BY <1>1, <1>4, PlacedBlockInFile
  <1> HIDE DEF m
  <1>6. IsFiniteSet(0 .. m)
    BY <1>2, FS_Interval, SMT
  <1>7. Left \in SUBSET (0 .. m)
    BY <1>4
  <1>8. IsFiniteSet(Left) /\ Cardinality(Left) \in Nat
    BY <1>6, <1>7, FS_Subset, FS_CardinalityType
  <1>9. \A x \in 0 .. m : x \in Int
    BY SMT
  <1> QED
    BY <1>2, <1>5, <1>7, <1>8, <1>9 DEF m

\* Each rank up to the number of places is met.
LEMMA RankedIsLeft ==
    ASSUME Invariant, NEW k \in 1 .. Cardinality(Left)
    PROVE  Ranked(Left, k) \in Left /\ Cardinality({ q \in Left : q <= Ranked(Left, k) }) = k
  <1>1. \E p \in Left : Cardinality({ q \in Left : q <= p }) = k
    BY LeftIsFinite, RankIsMet
  <1> QED
    BY <1>1 DEF Ranked

\* upcomingBlocksLocked returns the first blocks of the schedule that are left.
LEMMA UpcomingIsScheduled ==
    Invariant => Upcoming(AheadDepth) = BlocksAhead(options, cycle, Left)
  <1> SUFFICES ASSUME Invariant
               PROVE  Upcoming(AheadDepth) = BlocksAhead(options, cycle, Left)
    OBVIOUS
  <1>1. { p \in RestOfCycle : ~ InContinuation(BlockAt(p)) } = Left
    BY PlacesAreScheduled, BlocksAreScheduled DEF Left, OpenPlaces, InContinuation
  <1>2. \A p \in Left : BlockAt(p) = PlacedBlock(options, cycle, p)
    BY BlocksAreScheduled DEF Left, OpenPlaces
  <1>3. \A k \in 1 .. Lesser(AheadDepth, Cardinality(Left)) :
          BlockAt(Ranked(Left, k)) = PlacedBlock(options, cycle, Ranked(Left, k))
    <2> TAKE k \in 1 .. Lesser(AheadDepth, Cardinality(Left))
    <2>1. k \in 1 .. Cardinality(Left)
      BY LeftIsFinite, AheadAssumption, SMT DEF Lesser
    <2> QED
      BY <1>2, <2>1, RankedIsLeft
  <1>4. FirstOf(AheadDepth)[Left] =
          [k \in 1 .. Lesser(AheadDepth, Cardinality(Left)) |-> BlockAt(Ranked(Left, k))]
    BY LeftIsFinite DEF FirstOf, Ranked
  <1>5. Upcoming(AheadDepth) = FirstOf(AheadDepth)[Left]
    BY <1>1 DEF Upcoming
  <1> QED
    BY <1>3, <1>4, <1>5 DEF BlocksAhead

\* It is a sequence of blocks of the file, no longer than there are slots.
LEMMA UpcomingIsSequence ==
    ASSUME Invariant
    PROVE  /\ Len(Upcoming(AheadDepth)) \in Nat
           /\ Len(Upcoming(AheadDepth)) <= AheadDepth
           /\ Upcoming(AheadDepth) \in
                [1 .. Len(Upcoming(AheadDepth)) -> 0 .. BlockCount(options) - 1]
           /\ Left # {} => Len(Upcoming(AheadDepth)) # 0
  <1> DEFINE n == Lesser(AheadDepth, Cardinality(Left))
             U == Upcoming(AheadDepth)
  <1>1. n \in Nat /\ n <= AheadDepth /\ n <= Cardinality(Left)
    BY LeftIsFinite, AheadAssumption, SMT DEF Lesser
  <1>2. \A k \in 1 .. n : PlacedBlock(options, cycle, Ranked(Left, k)) \in 0 .. BlockCount(options) - 1
    <2> TAKE k \in 1 .. n
    <2>1. k \in 1 .. Cardinality(Left)
      BY <1>1, LeftIsFinite, SMT
    <2> QED
      BY <2>1, LeftIsFinite, RankedIsLeft
  <1>3. U \in [1 .. n -> 0 .. BlockCount(options) - 1]
    BY <1>2, UpcomingIsScheduled DEF BlocksAhead
  <1>4. Left # {} => n # 0
    <2>1. Left # {} => Cardinality(Left) # 0
      BY LeftIsFinite, FS_EmptySet
    <2> QED
      BY <2>1, AheadAssumption DEF Lesser
  <1> HIDE DEF n, U
  <1>5. Len(U) = n
    BY <1>1, <1>3
  <1> QED
    BY <1>1, <1>3, <1>4, <1>5 DEF U

\* What is foretold depends on the walk only.
LEMMA UpcomingStays ==
    ASSUME Invariant, Invariant', UNCHANGED cursorVars
    PROVE  Upcoming(AheadDepth)' = Upcoming(AheadDepth)
  <1>1. Upcoming(AheadDepth) = BlocksAhead(options, cycle, Left)
    BY UpcomingIsScheduled
  <1>2. Invariant' => (Upcoming(AheadDepth) = BlocksAhead(options, cycle, Left))'
    BY UpcomingIsScheduled, PTL
  <1> QED
    BY <1>1, <1>2 DEF cursorVars, regionVars, continuationVars, Left, BlocksAhead, Ranked

-----------------------------------------------------------------------------
(* What is read of a block. *)

\* A length rounded up to pages.
LEMMA PageCeilingFacts ==
    ASSUME NEW n \in Nat
    PROVE  /\ PageCeiling(n) \in Nat
           /\ PageCeiling(n) % PageBytes = 0
           /\ n <= PageCeiling(n)
           /\ \A m \in Nat : n <= m /\ m % PageBytes = 0 => PageCeiling(n) <= m
  <1> DEFINE p == PageBytes
             q == CeilingQuotient(n, p)
  <1>1. p \in Nat \ {0}
    BY StorageAssumption
  <1>2. CASE n = 0
    <2>1. PageCeiling(n) = 0 * p
      BY <1>2 DEF PageCeiling, CeilingQuotient
    <2>2. PageCeiling(n) = 0
      BY <1>1, <2>1, SMT
    <2>3. 0 % p = 0
      BY <1>1, SmallRemainder, SMT
    <2> QED
      BY <1>2, <2>2, <2>3, SMT
  <1>3. CASE n # 0
    <2> DEFINE k == (n - 1) \div p
    <2>1. q = k + 1 /\ PageCeiling(n) = q * p
      BY <1>3 DEF PageCeiling, CeilingQuotient
    <2>2. n - 1 \in Int /\ n - 1 >= 0
      BY <1>3, SMT
    <2>3. k \in Int /\ (n - 1) % p \in 0 .. p - 1 /\ n - 1 = p * k + ((n - 1) % p)
      BY <1>1, <2>2, DivisionFacts
    <2> HIDE DEF k, q, p
    <2>4. k \in Nat
      BY <1>1, <2>2, <2>3, SMT
    <2>5. p * k \in Nat /\ q * p = p * k + p /\ q * p = p * q + 0 /\ q \in Nat /\ q * p \in Nat
      BY <1>1, <2>1, <2>4, SMT
    <2>6. n <= q * p /\ p * k < n
      BY <1>1, <2>2, <2>3, <2>5, SMT
    <2>7. (q * p) % p = 0
      <3>1. 0 \in 0 .. p - 1 /\ q * p \in Int /\ q \in Int
        BY <1>1, <2>5, SMT
      <3> QED
        BY <1>1, <2>5, <3>1, RemainderUnique
    <2>8. ASSUME NEW m \in Nat, n <= m, m % p = 0
          PROVE  q * p <= m
      <3> DEFINE j == m \div p
      <3>1. j \in Int /\ m = p * j + 0
        BY <1>1, <2>8, DivisionFacts
      <3> HIDE DEF j
      <3>2. j \in Nat
        BY <1>1, <3>1, SMT
      <3>3. k < j
        <4> SUFFICES ASSUME j <= k PROVE FALSE
          BY <2>4, <3>2, SMT
        <4>1. p * j <= p * k /\ p * j \in Nat
          BY <1>1, <2>4, <3>2, ProductOrder
        <4>2. n <= m
          BY <2>8
        <4> QED
          BY <2>5, <2>6, <3>1, <4>1, <4>2, SMT
      <3>4. p * q <= p * j /\ p * q \in Nat /\ p * j \in Nat
        <4>1. q <= j
          BY <2>1, <2>4, <3>2, <3>3, SMT
        <4> QED
          BY <1>1, <2>5, <3>2, <4>1, ProductOrder
      <3> QED
        BY <2>5, <3>1, <3>4, SMT
    <2> QED
      BY <2>1, <2>5, <2>6, <2>7, <2>8 DEF p
  <1> QED
    BY <1>2, <1>3

\* What leaves no remainder is a multiple.
LEMMA NoRemainder ==
    ASSUME NEW a \in Int, NEW n \in Nat \ {0}, a % n = 0
    PROVE  \E q \in Int : a = n * q
  <1>1. a \div n \in Int /\ a = n * (a \div n) + 0
    BY DivisionFacts
  <1> DEFINE q == a \div n
  <1> HIDE DEF q
  <1>2. n * q + 0 = n * q
    BY <1>1, SMT DEF q
  <1> QED
    BY <1>1, <1>2 DEF q

\* A block's read is at the block, and as long as its bytes and those of the
\* lookahead.
LEMMA BlockReads ==
    ASSUME NEW o \in ValidOptions, NEW b \in 0 .. BlockCount(o) - 1, NEW carried
    PROVE  LET range == BlockReadRange(o, b, carried)
               base  == range.ownershipEnd - 1
           IN  /\ b * o.blockBytes \in Nat
               /\ range.readOffset = b * o.blockBytes - 1
               /\ range.skip \in {0, 1}
               /\ range.readBytes \in Nat
               /\ range.readBytes = BlockReadRange(o, b, 0).readBytes
               /\ base \in 1 .. o.blockBytes
               /\ base + 1 <= range.readBytes
               /\ range.readBytes <= base + 1 + LookaheadBytes(o)
               /\ range.readBytes <= o.fileSize - b * o.blockBytes + 1
               /\ b * o.blockBytes < o.fileSize
               /\ base = o.blockBytes \/ range.readBytes = base + 1
               /\ LookaheadBytes(o) \in Nat
               /\ LookaheadBytes(o) <= o.maxLineBytes + 2
               /\ LookaheadBytes(o) <= o.blockBytes
  <1> DEFINE start     == b * o.blockBytes
             whole     == Lesser(o.blockBytes, o.fileSize - start)
             remaining == o.fileSize - start - whole
             ahead     == Lesser(LookaheadBytes(o), remaining)
  <1>1. /\ o.blockBytes \in Nat \ {0}
        /\ o.fileSize \in Nat
        /\ o.maxLineBytes \in Nat \ {0}
        /\ b \in Nat
        /\ start < o.fileSize
    BY OpenedSizes, SMT
  <1>2. start \in Nat
    BY <1>1, SMT
  <1>3. /\ LookaheadBytes(o) \in Nat
        /\ LookaheadBytes(o) <= o.maxLineBytes + 2
        /\ LookaheadBytes(o) <= o.blockBytes
    <2>1. o.blockBytes \div LookaheadDivisor \in Nat /\ o.blockBytes \div LookaheadDivisor <= o.blockBytes
      <3>1. LookaheadDivisor \in Nat \ {0}
        BY ReadAssumption
      <3> DEFINE q == o.blockBytes \div LookaheadDivisor
      <3>2. /\ q \in Int /\ o.blockBytes % LookaheadDivisor \in 0 .. LookaheadDivisor - 1
            /\ o.blockBytes = LookaheadDivisor * q + (o.blockBytes % LookaheadDivisor)
        <4>1. o.blockBytes \in Int
          BY <1>1, SMT
        <4> QED
          BY <3>1, <4>1, DivisionFacts
      <3> HIDE DEF q
      <3>3. q \in Nat
        BY <1>1, <3>1, <3>2, SMT
      <3>4. q * 1 <= q * LookaheadDivisor
        BY <3>1, <3>3, ProductOrder, SMT
      <3>5. q <= LookaheadDivisor * q /\ LookaheadDivisor * q \in Nat
        BY <3>1, <3>3, <3>4, SMT
      <3>6. q <= o.blockBytes
        BY <1>1, <3>1, <3>2, <3>3, <3>5, SMT
      <3> QED
        BY <3>3, <3>6 DEF q
    <2>2. TailReadBytes \in Nat /\ o.maxLineBytes + 2 \in Nat
      BY <1>1, ReadAssumption, SMT
    <2> QED
      BY <1>1, <2>1, <2>2 DEF LookaheadBytes, Lesser
  <1>4. \A c : BlockReadRange(o, b, c) =
                 [readOffset   |-> start - 1,
                  skip         |-> IF b = 0 \/ b = c THEN 1 ELSE 0,
                  ownershipEnd |-> 1 + whole,
                  readBytes    |-> 1 + whole + ahead]
    BY DEF BlockReadRange
  <1> HIDE DEF start
  <1>5. /\ whole \in 1 .. o.blockBytes
        /\ remaining \in Nat
        /\ whole = o.blockBytes \/ remaining = 0
        /\ start + whole + remaining = o.fileSize
    BY <1>1, <1>2, SMT DEF Lesser
  <1> HIDE DEF whole, remaining
  <1>6. /\ ahead \in Nat /\ ahead <= LookaheadBytes(o) /\ ahead <= remaining
        /\ remaining = 0 => ahead = 0
    BY <1>3, <1>5 DEF Lesser
  <1> HIDE DEF ahead
  <1> DEFINE range == BlockReadRange(o, b, carried)
  <1>7. /\ range.readOffset = start - 1 /\ range.skip \in {0, 1}
        /\ range.ownershipEnd = 1 + whole /\ range.readBytes = 1 + whole + ahead
        /\ BlockReadRange(o, b, 0).readBytes = 1 + whole + ahead
    BY <1>4
  <1> HIDE DEF range
  <1>8. /\ range.readBytes \in Nat
        /\ range.ownershipEnd - 1 = whole
        /\ whole + 1 <= range.readBytes
        /\ range.readBytes <= whole + 1 + LookaheadBytes(o)
        /\ range.readBytes <= o.fileSize - start + 1
        /\ whole = o.blockBytes \/ range.readBytes = whole + 1
    BY <1>1, <1>2, <1>3, <1>5, <1>6, <1>7, SMT
  <1> QED
    BY <1>1, <1>2, <1>3, <1>5, <1>7, <1>8 DEF start, range

\* What readAheadLocked reads of a block fits the memory that resized returns,
\* and is aligned when it bypasses the cache.
LEMMA TargetFits ==
    ASSUME options \in ValidOptions, direct => DirectAllowed(options),
           NEW b \in 0 .. BlockCount(options) - 1, NEW carried
    PROVE  LET range  == BlockReadRange(options, b, carried)
               target == Target(range)
               skip   == target.offset - (b * options.blockBytes - 1)
           IN  /\ target.offset \in Int
               /\ target.length \in Int
               /\ skip \in {0, 1}
               /\ skip + target.length <= BufferLimit(options)
               /\ IF direct
                  THEN skip = 1 /\ target.length >= range.readBytes - 1
                  ELSE target.length = range.readBytes - skip
               /\ direct => /\ target.offset % PageBytes = 0
                            /\ target.length % PageBytes = 0
  <1> DEFINE o     == options
             range == BlockReadRange(o, b, carried)
             base  == range.ownershipEnd - 1
             start == b * o.blockBytes
  <1>1. /\ start \in Nat
        /\ range.readOffset = start - 1
        /\ range.skip \in {0, 1}
        /\ range.readBytes \in Nat
        /\ base \in 1 .. o.blockBytes
        /\ base + 1 <= range.readBytes
        /\ range.readBytes <= base + 1 + LookaheadBytes(o)
        /\ range.readBytes <= o.fileSize - start + 1
        /\ start < o.fileSize
        /\ base = o.blockBytes \/ range.readBytes = base + 1
        /\ LookaheadBytes(o) \in Nat
        /\ LookaheadBytes(o) <= o.maxLineBytes + 2
        /\ LookaheadBytes(o) <= o.blockBytes
    BY BlockReads
  <1>2. /\ o.blockBytes \in Nat \ {0} /\ o.fileSize \in Nat /\ o.maxLineBytes \in Nat \ {0}
    BY OpenedSizes
  <1>3. BufferLimit(o) = Lesser(o.blockBytes + o.maxLineBytes, o.fileSize) + 3
    BY DEF BufferLimit
  <1>4. CASE ~ direct
    <2>1. Target(range) = [offset |-> range.readOffset + range.skip,
                           length |-> range.readBytes - range.skip]
      BY <1>4 DEF Target
    <2> HIDE DEF range, start, o, base
    <2>2. /\ Target(range).offset \in Int
          /\ Target(range).length \in Int
          /\ Target(range).offset - (start - 1) = range.skip
          /\ Target(range).length = range.readBytes - range.skip
      BY <1>1, <2>1, SMT
    <2>3. range.skip + (range.readBytes - range.skip) <= BufferLimit(o)
      BY <1>1, <1>2, <1>3, SMT DEF Lesser
    <2> QED
      BY <1>1, <1>4, <2>2, <2>3 DEF range, start, o
  <1>5. CASE direct
    <2>1. /\ o.blockBytes % PageBytes = 0
          /\ LookaheadBytes(o) = PageBytes
          /\ o.fileSize >= 4 * o.blockBytes
      BY <1>5 DEF DirectAllowed
    <2>2. Target(range) = [offset |-> range.readOffset + 1,
                           length |-> PageCeiling(range.readBytes - 1)]
      BY <1>5 DEF Target
    <2>3. PageBytes \in Nat \ {0}
      BY StorageAssumption
    <2>0. \E q \in Int : o.blockBytes = PageBytes * q
      <3> DEFINE bytes == o.blockBytes
      <3>1. bytes \in Int /\ bytes % PageBytes = 0
        BY <1>2, <2>1
      <3> HIDE DEF bytes
      <3>2. \E q \in Int : bytes = PageBytes * q
        BY <2>3, <3>1, NoRemainder
      <3> QED
        BY <3>2 DEF bytes
    <2> DEFINE n == range.readBytes - 1
               length == PageCeiling(n)
    <2>4. n \in Nat /\ n <= base + LookaheadBytes(o)
      <3> HIDE DEF range, start, o, base
      <3> QED
        BY <1>1, SMT
    <2>5. /\ length \in Nat /\ length % PageBytes = 0 /\ n <= length
          /\ \A m \in Nat : n <= m /\ m % PageBytes = 0 => length <= m
      <3> HIDE DEF n
      <3> QED
        BY <2>4, PageCeilingFacts
    <2>6. (o.blockBytes + PageBytes) % PageBytes = 0
      <3>1. PICK q \in Int : o.blockBytes = PageBytes * q
        BY <2>0
      <3> HIDE DEF o
      <3>2. /\ o.blockBytes + PageBytes = PageBytes * (q + 1) + 0 /\ q + 1 \in Int
            /\ 0 \in 0 .. PageBytes - 1 /\ o.blockBytes + PageBytes \in Int
        BY <1>2, <2>3, <3>1, SMT
      <3> QED
        BY <2>3, <3>2, RemainderUnique
    <2>7. start % PageBytes = 0
      <3>1. PICK q \in Int : o.blockBytes = PageBytes * q
        BY <2>0
      <3>2. b \in Int
        BY LayoutFacts, SMT
      <3> HIDE DEF o
      <3>3. start = PageBytes * (b * q) + 0 /\ b * q \in Int /\ 0 \in 0 .. PageBytes - 1 /\ start \in Int
        BY <2>3, <3>1, <3>2, SMT
      <3> HIDE DEF start
      <3> QED
        BY <2>3, <3>3, RemainderUnique
    <2>8. length <= o.blockBytes + PageBytes
      <3> HIDE DEF length, n, range, start, o, base
      <3>1. o.blockBytes + PageBytes \in Nat /\ n <= o.blockBytes + PageBytes
        BY <1>1, <1>2, <2>1, <2>3, <2>4, SMT
      <3> QED
        BY <2>5, <2>6, <3>1
    <2> HIDE DEF length, n, range, start, o, base
    <2>9. 1 + length <= BufferLimit(o)
      BY <1>1, <1>2, <1>3, <2>1, <2>3, <2>5, <2>8, SMT DEF Lesser
    <2>10. range.readOffset + 1 = start
      BY <1>1, SMT
    <2>11. /\ Target(range).offset = start
           /\ Target(range).length = length
           /\ start - (start - 1) = 1
      BY <1>1, <2>2, <2>10, SMT DEF length, n
    <2>12. start \in Int /\ length \in Int
      BY <1>1, <2>5, SMT
    <2> QED
      BY <1>5, <2>5, <2>7, <2>9, <2>11, <2>12 DEF range, start, o, n
  <1> QED
    BY <1>4, <1>5

-----------------------------------------------------------------------------
(* A slot for each read. *)

\* What a slot knows of its read.
Requests ==
    [status : {"none", "running", "done", "failed"}, block : Int, offset : Int,
     length : Int, read : Int]

\* No two reads in flight are of one block, and while reads are started they
\* are of upcoming blocks only.
ReadsAhead ==
    /\ issued \in Nat
    /\ \A slot \in Slots : request[slot] \in Requests
    /\ \A i, j \in Slots : i # j /\ Pending(i) /\ Pending(j) => request[i].block # request[j].block
    /\ pc = "issue" =>
           \A slot \in Slots : Pending(slot) => request[slot].block \in Range(Upcoming(AheadDepth))

\* A pool bypasses the cache only when openPrefetch found that it may.
DirectWhenAllowed == direct \in BOOLEAN /\ (direct => DirectAllowed(options))

\* It does not change its mind, and its file keeps its size.
LEMMA DirectIsKept ==
    ASSUME Invariant, DirectWhenAllowed, [AheadNext]_aheadVars
    PROVE  DirectWhenAllowed' /\ options' = options
  <1>1. options' = options
    BY AheadWalks DEF CursorNext, TakeBlock, SkipBlock, EnterRegion, NextCycle, Rewind, StartCycle,
       ContinueLine, cursorVars
  <1>2. direct' = direct
    BY DEF AheadNext, KernelReads, Adopt, AdoptFails, Adopts, Refuse, EnterNextBatch, ServeRest, Gets,
       FillElsewhere, EnterNext, CallRefused, SettleStale, IssueDone, IssueFound, Issue, WalkTake,
       WalkOn, WalkNextCycle, OnlyWalks, WalkEnds, Load, LoadFails, LoadsInto, NoLineStarts,
       LinesStart, LineContinues, LinesEnd, LineFails, ServeNext, ServeBatch, Reset, ResetFails,
       Close, aheadVars
  <1> QED
    BY <1>1, <1>2 DEF DirectWhenAllowed

\* No request is a request as well.
LEMMA NoRequestIsRequest == NoRequest \in Requests
  BY DEF NoRequest, Requests, NoBlock

\* Settling reads leaves the others as they are.
LEMMA SomeSettled ==
    ASSUME ReadsAhead, NEW slots,
           request' = [slot \in Slots |-> IF slot \in slots THEN NoRequest ELSE request[slot]]
    PROVE  \A slot \in Slots :
             /\ request'[slot] \in Requests
             /\ Pending(slot)' => Pending(slot) /\ request'[slot].block = request[slot].block
  <1>1. NoRequest' = NoRequest
    BY DEF NoRequest
  <1> QED
    BY <1>1, NoRequestIsRequest DEF ReadsAhead, Pending

\* The bytes in front of those that a slot's read writes.
Skipped(slot) == request[slot].offset - (request[slot].block * options.blockBytes - 1)

\* A read ends.
KernelWrote(slot, status, read) ==
    /\ request' = [request EXCEPT ![slot].status = status, ![slot].read = read]
    /\ memory' = [memory EXCEPT ![slotStorage[slot]] =
                     [at |-> request[slot].offset - Skipped(slot),
                      from |-> Skipped(slot), to |-> Skipped(slot) + read]]

\* What the kernel has read is a number of bytes.
LEMMA KernelReadsSome ==
    ASSUME Invariant, ReadsAhead, NEW slot \in Slots, KernelReads(slot)
    PROVE  \E status \in {"done", "failed"}, read \in Int : KernelWrote(slot, status, read)
  <1>1. request[slot].length \in Int /\ request[slot].offset \in Int
    BY DEF ReadsAhead, Requests
  <1>2. options.fileSize \in Int
    BY OpenedPool, OpenedSizes, SMT DEF Invariant
  <1> DEFINE full == Lesser(request[slot].length, options.fileSize - request[slot].offset)
  <1>3. full \in Int /\ full - 1 \in Int
    BY <1>1, <1>2, SMT DEF Lesser
  <1> HIDE DEF full
  <1>4. PICK status \in {"done", "failed"}, read \in {full - 1, full} : KernelWrote(slot, status, read)
    BY Zenon DEF KernelReads, KernelWrote, Skipped, full
  <1>5. read \in Int
    BY <1>3
  <1> QED
    BY <1>4, <1>5

\* As many reads of upcoming blocks as there are slots leave none to be started.
LEMMA ReadsAheadGivesIdleSlot ==
    ASSUME Invariant, ReadsAhead
    PROVE  IdleSlotForEach
  <1> SUFFICES ASSUME pc = "issue", issued < Len(Upcoming(AheadDepth)), ~ InFlight(NextUpcoming),
                      IdleSlots = {}
               PROVE  FALSE
    BY DEF IdleSlotForEach
  <1> DEFINE U == Upcoming(AheadDepth)
             rest == Range(U) \ {NextUpcoming}
             f == [slot \in Slots |-> request[slot].block]
  <1>1. /\ Len(U) \in Nat /\ Len(U) <= AheadDepth
        /\ U \in [1 .. Len(U) -> 0 .. BlockCount(options) - 1]
    BY UpcomingIsSequence
  <1>2. IsFiniteSet(Slots) /\ Cardinality(Slots) = AheadDepth
    BY SlotsAreFinite
  <1>3. \A slot \in Slots : Pending(slot)
    BY DEF IdleSlots
  <1>4. \A slot \in Slots : /\ request[slot].block \in Range(U)
                            /\ request[slot].block # NextUpcoming
    BY <1>3 DEF ReadsAhead, InFlight
  <1>5. f \in Injection(Slots, rest)
    <2>1. f \in [Slots -> rest]
      BY <1>4
    <2>2. \A i, j \in Slots : f[i] = f[j] => i = j
      BY <1>3 DEF ReadsAhead
    <2> HIDE DEF f, rest
    <2> QED
      BY <2>1, <2>2 DEF Injection, IsInjective
  <1>6. IsFiniteSet(Range(U)) /\ Cardinality(Range(U)) <= Len(U)
    <2>1. IsFiniteSet(1 .. Len(U)) /\ Cardinality(1 .. Len(U)) = Len(U)
      BY <1>1, FS_Interval, SMT
    <2> QED
      BY <1>1, <2>1, RangeIsSmaller
  <1>7. NextUpcoming \in Range(U)
    <2>1. issued + 1 \in 1 .. Len(U)
      BY <1>1, SMT DEF ReadsAhead
    <2> QED
      BY <1>1, <2>1 DEF Range, NextUpcoming
  <1>8. IsFiniteSet(rest) /\ Cardinality(rest) = Cardinality(Range(U)) - 1
    BY <1>6, <1>7, FS_RemoveElement
  <1>9. Cardinality(Slots) <= Cardinality(rest)
    BY <1>5, <1>8, FS_Injection
  <1>10. Cardinality(Range(U)) \in Nat
    BY <1>6, FS_CardinalityType
  <1> HIDE DEF rest, U
  <1> QED
    BY <1>1, <1>2, <1>6, <1>8, <1>9, <1>10, AheadAssumption

\* Reads may end or be given up, on the way to blocks that stay the same.
LEMMA NoReadStarts ==
    ASSUME ReadsAhead,
           issued' \in Nat,
           pc' = "issue" =>
             \/ pc = "issue" /\ Upcoming(AheadDepth)' = Upcoming(AheadDepth)
             \/ \A slot \in Slots : Pending(slot)' =>
                     request[slot].block \in Range(Upcoming(AheadDepth)'),
           \A slot \in Slots :
             /\ request'[slot] \in Requests
             /\ Pending(slot)' => Pending(slot) /\ request'[slot].block = request[slot].block
    PROVE  ReadsAhead'
  BY DEF ReadsAhead

\* A read is started of a block that none is in flight of.
LEMMA IssueKeepsReads ==
    ASSUME Invariant, Invariant', Ownership, DirectWhenAllowed, ReadsAhead, Issue
    PROVE  ReadsAhead'
  <1> DEFINE U == Upcoming(AheadDepth)
  <1>1. U' = U
    BY UpcomingStays DEF Issue
  <1>2. IdleSlot \in Slots /\ ~ Pending(IdleSlot)
    BY IdleSlotIsIdle DEF Issue
  <1>3. /\ issued + 1 \in 1 .. Len(U)
        /\ U \in [1 .. Len(U) -> 0 .. BlockCount(options) - 1]
    <2>1. Len(U) \in Nat /\ issued < Len(U) /\ issued \in Nat
      BY UpcomingIsSequence DEF Issue, ReadsAhead
    <2> QED
      BY <2>1, UpcomingIsSequence, SMT
  <1>4. NextUpcoming \in Range(U)
    BY <1>3 DEF Range, NextUpcoming
  <1>5. issued' \in Nat
    BY DEF Issue, ReadsAhead
  <1>6. \/ request' = request
        \/ \E r \in Requests : r.block = NextUpcoming /\ request' = [request EXCEPT ![IdleSlot] = r]
    <2> DEFINE target == Target(BlockReadRange(options, NextUpcoming, CarriedThen))
               r == [status |-> "running", block |-> NextUpcoming,
                     offset |-> target.offset, length |-> target.length, read |-> 0]
    <2>1. NextUpcoming \in 0 .. BlockCount(options) - 1
      BY <1>3 DEF NextUpcoming
    <2>2. target.offset \in Int /\ target.length \in Int
      <3>1. options \in ValidOptions /\ (direct => DirectAllowed(options))
        BY OpenedPool DEF Invariant, DirectWhenAllowed
      <3> QED
        BY <2>1, <3>1, TargetFits
    <2>3. r \in Requests /\ r.block = NextUpcoming
      <3>1. BlockCount(options) \in Nat
        BY OpenedPool DEF Invariant
      <3>2. NextUpcoming \in Int
        BY <2>1, <3>1, SMT
      <3> HIDE DEF target
      <3> QED
        BY <2>2, <3>2 DEF Requests
    <2>4. request' = request \/ request' = [request EXCEPT ![IdleSlot] = r]
      BY DEF Issue
    <2> HIDE DEF r
    <2> QED
      BY <2>3, <2>4
  <1>7. CASE request' = request
    <2>1. pc' = "issue" => pc = "issue"
      BY DEF Issue
    <2>2. \A slot \in Slots :
            /\ request'[slot] \in Requests
            /\ Pending(slot)' => Pending(slot) /\ request'[slot].block = request[slot].block
      BY <1>7 DEF Pending, NoRequest, ReadsAhead
    <2> QED
      BY <1>1, <1>5, <2>1, <2>2, NoReadStarts
  <1>8. CASE \E r \in Requests : r.block = NextUpcoming /\ request' = [request EXCEPT ![IdleSlot] = r]
    <2>1. /\ request'[IdleSlot] \in Requests
          /\ request'[IdleSlot].block = NextUpcoming
          /\ \A slot \in Slots : slot # IdleSlot => request'[slot] = request[slot]
      BY <1>2, <1>8 DEF Ownership
    <2>2. \A slot \in Slots : slot # IdleSlot /\ Pending(slot)' =>
             /\ Pending(slot)
             /\ request'[slot].block = request[slot].block
             /\ request[slot].block # NextUpcoming
      BY <2>1 DEF Pending, NoRequest, Issue, InFlight
    <2>3. \A slot \in Slots : Pending(slot)' => request'[slot].block \in Range(U)
      BY <1>4, <2>1, <2>2 DEF ReadsAhead, Issue
    <2>4. \A i, j \in Slots : i # j /\ Pending(i)' /\ Pending(j)' => request'[i].block # request'[j].block
      BY <2>1, <2>2 DEF ReadsAhead
    <2>5. \A slot \in Slots : request'[slot] \in Requests
      BY <2>1 DEF ReadsAhead
    <2> QED
      BY <1>1, <1>5, <2>3, <2>4, <2>5 DEF ReadsAhead
  <1> QED
    BY <1>6, <1>7, <1>8

\* Every step keeps them apart.
LEMMA ReadsAreKept ==
    ASSUME Invariant, Invariant', Ownership, DirectWhenAllowed, ReadsAhead,
           [AheadNext]_aheadVars
    PROVE  ReadsAhead'
  <1> DEFINE U == Upcoming(AheadDepth)
             Kept == \A slot \in Slots :
                        /\ request'[slot] \in Requests
                        /\ Pending(slot)' => Pending(slot) /\ request'[slot].block = request[slot].block
  <1>0. request' = request => Kept
    BY DEF Pending, NoRequest, ReadsAhead
  <1>1. CASE UNCHANGED aheadVars
    <2>1. UNCHANGED cursorVars /\ request' = request /\ issued' = issued /\ pc' = pc
      BY <1>1 DEF aheadVars, slotVars, callVars
    <2> QED
      BY <1>0, <2>1, UpcomingStays, NoReadStarts DEF ReadsAhead
  <1>2. ASSUME NEW slot \in Slots, KernelReads(slot)
        PROVE  ReadsAhead'
    <2>1. UNCHANGED cursorVars /\ issued' = issued /\ pc' = pc
      BY <1>2 DEF KernelReads, callVars
    <2>2. request[slot] # NoRequest
      BY <1>2 DEF KernelReads, NoRequest
    <2>3. request[slot] \in Requests
      BY DEF ReadsAhead
    <2>4. PICK status \in {"done", "failed"}, read \in Int : KernelWrote(slot, status, read)
      BY <1>2, KernelReadsSome
    <2>5. /\ request'[slot] \in Requests
          /\ request'[slot].block = request[slot].block
          /\ \A k \in Slots : k # slot => request'[k] = request[k]
      BY <2>3, <2>4 DEF Ownership, Requests, KernelWrote
    <2>6. Kept
      BY <2>2, <2>5 DEF Pending, NoRequest, ReadsAhead
    <2> QED
      BY <2>1, <2>6, UpcomingStays, NoReadStarts DEF ReadsAhead
  <1>3. CASE SettleStale
    <2>1. UNCHANGED cursorVars /\ issued' = issued
      BY <1>3 DEF SettleStale
    <2>2. request' = [slot \in Slots |->
                        IF slot \in { k \in Slots : Pending(k) /\ request[k].block \notin Range(U) }
                        THEN NoRequest ELSE request[slot]]
      BY <1>3 DEF SettleStale, Settled
    <2>3. Kept
      BY <2>2, SomeSettled
    <2>4. \A slot \in Slots : Pending(slot)' => request[slot].block \in Range(U)
      BY <2>2 DEF Pending, NoRequest
    <2>5. U' = U
      BY <2>1, UpcomingStays
    <2> QED
      BY <2>1, <2>3, <2>4, <2>5, NoReadStarts DEF ReadsAhead
  <1>4. CASE IssueFound
    <2>1. UNCHANGED cursorVars /\ request' = request /\ issued' = issued + 1 /\ pc' = pc
      BY <1>4 DEF IssueFound, slotVars
    <2> QED
      BY <1>0, <2>1, UpcomingStays, NoReadStarts DEF ReadsAhead
  <1>5. CASE Issue
    BY <1>5, IssueKeepsReads
  <1>6. ASSUME NEW slot \in Slots, Adopt(slot) \/ AdoptFails(slot) \/ Refuse(slot)
        PROVE  ReadsAhead'
    <2>1. issued' = issued /\ pc' # "issue"
      BY <1>6 DEF Adopt, AdoptFails, Adopts, Refuse, Found, Fails, callVars
    <2>2. \E slots : request' = [k \in Slots |-> IF k \in slots THEN NoRequest ELSE request[k]]
      <3>1. CASE Refuse(slot)
        BY <3>1 DEF Refuse, Settled
      <3>2. CASE Adopts(slot)
        <4>1. request' = [k \in Slots |-> IF k \in {slot} THEN NoRequest ELSE request[k]]
          BY <3>2 DEF Adopts, Ownership
        <4> QED
          BY <4>1
      <3> QED
        BY <1>6, <3>1, <3>2 DEF Adopt, AdoptFails
    <2>3. Kept
      BY <2>2, SomeSettled
    <2> QED
      BY <2>1, <2>3, NoReadStarts DEF ReadsAhead
  <1>7. CASE \/ IssueDone \/ WalkTake \/ WalkOn \/ WalkNextCycle \/ WalkEnds \/ Load \/ LoadFails
             \/ NoLineStarts \/ LinesStart \/ LineContinues \/ LineFails
    <2>1. request' = request /\ issued' \in {issued, 0} /\ pc' # "issue"
      BY <1>7 DEF IssueDone, WalkTake, WalkOn, WalkNextCycle, WalkEnds, OnlyWalks, Load, LoadFails,
         LoadsInto, Fails, NoLineStarts, LinesStart, LineContinues, LinesEnd, LineFails,
         slotVars, callVars
    <2> QED
      BY <1>0, <2>1, NoReadStarts DEF ReadsAhead
  <1>8. CASE \/ EnterNext \/ CallRefused \/ ServeNext \/ ServeBatch \/ Reset \/ ResetFails \/ Close
             \/ \E b \in Batches : EnterNextBatch(b) \/ ServeRest(b) \/ FillElsewhere(b)
    <2>1. issued' = issued /\ pc' # "issue"
      BY <1>8 DEF EnterNext, CallRefused, ServeNext, ServeBatch, Gets, Reset, ResetFails, Close, Calls,
         EnterNextBatch, ServeRest, FillElsewhere, aheadVars, callVars
    <2>2. \/ request' = request
          \/ request' = [slot \in Slots |-> IF slot \in Slots THEN NoRequest ELSE request[slot]]
      BY <1>8 DEF EnterNext, CallRefused, ServeNext, ServeBatch, Gets, Reset, ResetFails, Close,
         EnterNextBatch, ServeRest, FillElsewhere, aheadVars, slotVars
    <2>3. Kept
      BY <1>0, <2>2, SomeSettled
    <2> QED
      BY <2>1, <2>3, NoReadStarts DEF ReadsAhead
  <1> QED
    BY <1>1, <1>2, <1>3, <1>4, <1>5, <1>6, <1>7, <1>8 DEF AheadNext

\* Everything about the reads of a pool, step by step.
AheadInvariant == Invariant /\ Ownership /\ DirectWhenAllowed /\ ReadsAhead

\* It holds of an opened pool.
LEMMA AheadInvariantInitially == AheadInit => AheadInvariant
  <1>1. AheadInit => ReadsAhead
    BY NoRequestIsRequest DEF AheadInit, ReadsAhead, Pending
  <1>2. AheadInit => DirectWhenAllowed
    BY DEF AheadInit, DirectWhenAllowed
  <1> QED
    BY <1>1, <1>2, InitInvariant, OwnershipInitially DEF AheadInit, AheadInvariant

\* And every step keeps it.
LEMMA AheadInvariantIsKept == AheadInvariant /\ [AheadNext]_aheadVars => AheadInvariant'
  <1> SUFFICES ASSUME AheadInvariant, [AheadNext]_aheadVars
               PROVE  AheadInvariant'
    OBVIOUS
  <1>1. Invariant'
    BY AheadWalks, NextInvariant DEF AheadInvariant
  <1>2. Ownership'
    BY OwnershipIsKept DEF AheadInvariant
  <1>3. DirectWhenAllowed'
    BY DirectIsKept DEF AheadInvariant
  <1>4. ReadsAhead'
    BY <1>1, ReadsAreKept DEF AheadInvariant
  <1> QED
    BY <1>1, <1>2, <1>3, <1>4 DEF AheadInvariant

\* readAheadLocked finds a free slot for every read it starts, in any pool with
\* any number of slots: reads in flight are of upcoming blocks, each of one, and
\* there are no more of these than slots.
THEOREM SlotIsFound == AheadSpec => []IdleSlotForEach
  <1>1. AheadInvariant => IdleSlotForEach
    BY ReadsAheadGivesIdleSlot DEF AheadInvariant
  <1> QED
    BY <1>1, AheadInvariantInitially, AheadInvariantIsKept, PTL DEF AheadSpec

-----------------------------------------------------------------------------
(* What reads in flight read, and where to. *)

\* A read of a whole block of the file fits its memory, and a read that ended
\* has written that memory and nobody since.
RequestFits(slot) ==
    LET r == request[slot]
    IN  /\ r.block \in 0 .. BlockCount(options) - 1
        /\ Skipped(slot) \in {0, 1}
        /\ Skipped(slot) + r.length <= BufferLimit(options)
        /\ IF direct
           THEN Skipped(slot) = 1
           ELSE r.length = BlockReadRange(options, r.block, 0).readBytes - Skipped(slot)
        /\ direct => /\ slotStorage[slot] \in aligned
                     /\ r.offset % PageBytes = 0
                     /\ r.length % PageBytes = 0
        /\ r.status = "done" =>
               memory[slotStorage[slot]] = [at   |-> r.offset - Skipped(slot),
                                            from |-> Skipped(slot),
                                            to   |-> Skipped(slot) + r.read]

ReadsFit ==
    /\ memory = [s \in Storages |-> memory[s]]
    /\ \A slot \in Slots : Pending(slot) => RequestFits(slot)

\* Reads in flight fit as TargetsFit says.
LEMMA ReadsFitGivesTargetsFit ==
    ASSUME ReadsFit
    PROVE  TargetsFit
  BY DEF ReadsFit, RequestFits, TargetsFit, Skipped

\* A read that goes on as it is still fits.
LEMMA ReadStays ==
    ASSUME NEW slot \in Slots, RequestFits(slot),
           options' = options, direct' = direct,
           request'[slot] = request[slot],
           slotStorage'[slot] = slotStorage[slot],
           memory'[slotStorage[slot]] = memory[slotStorage[slot]],
           slotStorage[slot] \in aligned => slotStorage[slot] \in aligned'
    PROVE  RequestFits(slot)'
  <1>1. Skipped(slot)' = Skipped(slot)
    BY DEF Skipped
  <1> QED
    BY <1>1 DEF RequestFits

\* Reads go on, or are no longer in flight.
LEMMA ReadsStay ==
    ASSUME ReadsFit,
           options' = options, direct' = direct,
           memory' = [s \in Storages |-> memory'[s]],
           \A slot \in Slots : Pending(slot)' =>
             /\ Pending(slot)
             /\ request'[slot] = request[slot]
             /\ slotStorage'[slot] = slotStorage[slot]
             /\ memory'[slotStorage[slot]] = memory[slotStorage[slot]]
             /\ slotStorage[slot] \in aligned => slotStorage[slot] \in aligned'
    PROVE  ReadsFit'
  BY ReadStays DEF ReadsFit

\* The memory of the pool, of the batches or of nobody is freed, or none.
LEMMA FreeingKeepsReads ==
    ASSUME Ownership, ReadsFit, options' = options, direct' = direct,
           UNCHANGED slotVars,
           NEW storages, memory' = Frees(storages),
           \A slot \in Slots : Pending(slot) => slotStorage[slot] \notin storages,
           \A slot \in Slots :
             Pending(slot) /\ slotStorage[slot] \in aligned => slotStorage[slot] \in aligned'
    PROVE  ReadsFit'
  <1>1. memory' = [s \in Storages |-> memory'[s]]
    BY DEF Frees
  <1>2. \A slot \in Slots : Pending(slot)' <=> Pending(slot)
    BY DEF slotVars, Pending, NoRequest
  <1>3. \A slot \in Slots : Pending(slot) =>
          memory'[slotStorage[slot]] = memory[slotStorage[slot]]
    BY DEF Frees, Ownership, StorageHasOneOwner
  <1> QED
    BY <1>1, <1>2, <1>3, ReadsStay DEF slotVars

\* The kernel writes the memory of its slot.
LEMMA KernelKeepsReadsFit ==
    ASSUME Invariant, Ownership, ReadsAhead, ReadsFit, options' = options,
           NEW slot \in Slots, KernelReads(slot)
    PROVE  ReadsFit'
  <1>1. PICK status \in {"done", "failed"}, read \in Int : KernelWrote(slot, status, read)
    BY KernelReadsSome
  <1>2. direct' = direct /\ UNCHANGED <<slotStorage, aligned>>
    BY DEF KernelReads
  <1>3. Pending(slot) /\ RequestFits(slot)
    BY DEF KernelReads, Pending, NoRequest, ReadsFit
  <1>4. slotStorage[slot] \in Storages
    BY <1>3 DEF Ownership, StorageHasOneOwner
  <1>5. /\ request[slot] \in Requests
        /\ request'[slot].block = request[slot].block
        /\ request'[slot].offset = request[slot].offset
        /\ request'[slot].length = request[slot].length
        /\ request'[slot].read = read
        /\ \A k \in Slots : k # slot => request'[k] = request[k]
    BY <1>1 DEF KernelWrote, ReadsAhead, Requests, Ownership
  <1>6. /\ memory' = [s \in Storages |-> memory'[s]]
        /\ memory'[slotStorage[slot]] =
             [at |-> request[slot].offset - Skipped(slot),
              from |-> Skipped(slot), to |-> Skipped(slot) + read]
        /\ \A s \in Storages : s # slotStorage[slot] => memory'[s] = memory[s]
    BY <1>1, <1>4 DEF KernelWrote, ReadsFit
  <1>7. Skipped(slot)' = Skipped(slot)
    BY <1>5 DEF Skipped
  <1>8. RequestFits(slot)'
    BY <1>2, <1>3, <1>5, <1>6, <1>7 DEF RequestFits
  <1>9. ASSUME NEW k \in Slots, k # slot, Pending(k)'
        PROVE  RequestFits(k)'
    <2>1. Pending(k) /\ RequestFits(k)
      BY <1>5, <1>9 DEF Pending, NoRequest, ReadsFit
    <2>2. slotStorage[k] \in Storages /\ slotStorage[k] # slotStorage[slot]
      BY <1>9, <2>1, <1>4 DEF Ownership, StorageHasOneOwner, NoStorage
    <2> QED
      BY <1>2, <1>5, <1>6, <1>9, <2>1, <2>2, ReadStays
  <1> QED
    BY <1>6, <1>8, <1>9 DEF ReadsFit

\* Reads that are settled leave the memory of the others alone.
LEMMA SettlingKeepsReadsFit ==
    ASSUME Ownership, ReadsFit, options' = options, direct' = direct,
           UNCHANGED <<slotStorage, aligned>>, NEW slots \in SUBSET Slots, Settled(slots)
    PROVE  ReadsFit'
  <1>1. \A k \in Slots : Pending(k)' => k \notin slots /\ Pending(k) /\ request'[k] = request[k]
    BY DEF Settled, Pending, NoRequest
  <1>2. memory' = [s \in Storages |-> memory'[s]]
    BY DEF Settled
  <1>3. ASSUME NEW k \in Slots, Pending(k)'
        PROVE  memory'[slotStorage[k]] = memory[slotStorage[k]]
    <2>1. slotStorage[k] \in Storages
      BY <1>1, <1>3 DEF Ownership, StorageHasOneOwner
    <2>2. ~ \E slot \in slots : Pending(slot) /\ slotStorage[slot] = slotStorage[k]
      BY <1>1, <1>3 DEF Ownership, StorageHasOneOwner
    <2> QED
      BY <2>1, <2>2 DEF Settled
  <1> QED
    BY <1>1, <1>2, <1>3, ReadsStay

\* A read is started into memory that no other read writes.
LEMMA IssueKeepsReadsFit ==
    ASSUME Invariant, Ownership, Ownership', DirectWhenAllowed, ReadsAhead, ReadsFit,
           options' = options, Issue
    PROVE  ReadsFit'
  <1> DEFINE target == Target(BlockReadRange(options, NextUpcoming, CarriedThen))
             r      == [status |-> "running", block |-> NextUpcoming, offset |-> target.offset,
                        length |-> target.length, read |-> 0]
  <1>1. PICK slot \in Slots : slot = IdleSlot /\ ~ Pending(slot)
    BY IdleSlotIsIdle DEF Issue
  <1>2. PICK given \in Storages \cup {NoStorage} :
          /\ Gives(slot, given)
          /\ slotStorage' = [slotStorage EXCEPT ![slot] = Replaced(given)]
          /\ memory' = [memory EXCEPT ![Replaced(given)] = Junk]
          /\ aligned' = AlignedOf(Replaced(given))
          /\ request' = request \/ request' = [request EXCEPT ![slot] = r]
    BY <1>1 DEF Issue
  <1>3. direct' = direct
    BY DEF Issue
  <1> DEFINE got == Replaced(given)
  <1>4. slotStorage'[slot] = got
    BY <1>1, <1>2 DEF Ownership
  <1>5. \A k \in Slots : k # slot => slotStorage'[k] = slotStorage[k]
    BY <1>2 DEF Ownership
  <1>6. memory' = [s \in Storages |-> memory'[s]] /\ \A s \in Storages : s # got => memory'[s] = memory[s]
    BY <1>2 DEF ReadsFit
  <1>7. aligned \subseteq aligned' /\ (direct => got \in aligned')
    BY <1>2 DEF AlignedOf
  <1>8. ASSUME NEW k \in Slots, k # slot, Pending(k)'
        PROVE  RequestFits(k)'
    <2>1. request'[k] = request[k]
      BY <1>2, <1>8 DEF Ownership
    <2>2. Pending(k) /\ RequestFits(k)
      BY <1>8, <2>1 DEF Pending, NoRequest, ReadsFit
    <2>3. slotStorage[k] \in Storages /\ slotStorage[k] # got
      <3>1. slotStorage'[k] # slotStorage'[slot] \/ slotStorage'[k] = NoStorage
        BY <1>1, <1>8 DEF Ownership, StorageHasOneOwner
      <3> QED
        BY <1>4, <1>5, <1>8, <2>2, <3>1 DEF Ownership, StorageHasOneOwner
    <2> QED
      BY <1>3, <1>5, <1>6, <1>7, <1>8, <2>1, <2>2, <2>3, ReadStays
  <1>9. ASSUME Pending(slot)'
        PROVE  RequestFits(slot)'
    <2> HIDE DEF r
    <2>1. request'[slot] = r
      BY <1>1, <1>2, <1>9 DEF Pending, NoRequest, Ownership
    <2>2. NextUpcoming \in 0 .. BlockCount(options) - 1
      <3>1. issued + 1 \in 1 .. Len(Upcoming(AheadDepth))
        <4>1. Len(Upcoming(AheadDepth)) \in Nat /\ issued < Len(Upcoming(AheadDepth)) /\ issued \in Nat
          BY UpcomingIsSequence DEF Issue, ReadsAhead
        <4> QED
          BY <4>1, SMT
      <3> QED
        BY <3>1, UpcomingIsSequence DEF NextUpcoming
    <2> DEFINE whole == BlockReadRange(options, NextUpcoming, CarriedThen).readBytes
               skip  == target.offset - (NextUpcoming * options.blockBytes - 1)
    <2>3. options \in ValidOptions /\ (direct => DirectAllowed(options))
      BY OpenedPool DEF Invariant, DirectWhenAllowed
    <2>4. whole = BlockReadRange(options, NextUpcoming, 0).readBytes
      BY <2>2, <2>3, BlockReads
    <2>5. /\ skip \in {0, 1}
          /\ skip + target.length <= BufferLimit(options)
          /\ IF direct THEN skip = 1 ELSE target.length = whole - skip
          /\ direct => target.offset % PageBytes = 0 /\ target.length % PageBytes = 0
      BY <2>2, <2>3, TargetFits
    <2>6. /\ request'[slot].block = NextUpcoming /\ request'[slot].offset = target.offset
          /\ request'[slot].length = target.length /\ request'[slot].status = "running"
      BY <2>1 DEF r
    <2> HIDE DEF target, whole
    <2>7. Skipped(slot)' = skip
      BY <2>6 DEF Skipped
    <2> QED
      BY <1>3, <1>4, <1>7, <2>2, <2>4, <2>5, <2>6, <2>7 DEF RequestFits
  <1> QED
    BY <1>6, <1>8, <1>9 DEF ReadsFit

\* Adopting gives a slot memory without a read.
LEMMA AdoptingKeepsReadsFit ==
    ASSUME Ownership, ReadsFit, options' = options,
           NEW slot \in Slots, Adopt(slot) \/ AdoptFails(slot)
    PROVE  ReadsFit'
  <1>1. /\ Pending(slot)
        /\ request' = [request EXCEPT ![slot] = NoRequest]
        /\ slotStorage' = [slotStorage EXCEPT ![slot] = poolStorage]
        /\ direct' = direct /\ aligned' = aligned
    BY DEF Adopt, AdoptFails, Adopts, Found
  <1>2. /\ memory' = [s \in Storages |-> memory'[s]]
        /\ \A s \in Storages : s # slotStorage[slot] => memory'[s] = memory[s]
    BY DEF Adopt, AdoptFails, Frees, ReadsFit
  <1>3. \A k \in Slots : Pending(k)' => /\ k # slot /\ Pending(k) /\ request'[k] = request[k]
                                        /\ slotStorage'[k] = slotStorage[k]
    BY <1>1 DEF Pending, NoRequest, Ownership
  <1>4. \A k \in Slots : Pending(k)' => slotStorage[k] \in Storages /\ slotStorage[k] # slotStorage[slot]
    BY <1>3 DEF Ownership, StorageHasOneOwner
  <1> QED
    BY <1>1, <1>2, <1>3, <1>4, ReadsStay

\* The pool reads into its own memory.
LEMMA LoadingKeepsReadsFit ==
    ASSUME Ownership, ReadsFit, options' = options, Load \/ LoadFails
    PROVE  ReadsFit'
  <1>1. PICK content : LoadsInto(content)
    BY DEF Load, LoadFails
  <1>2. UNCHANGED <<request, slotStorage, direct>> /\ aligned \subseteq aligned'
    BY <1>1 DEF LoadsInto, slotVars, AlignedOf
  <1>3. /\ memory' = [s \in Storages |-> memory'[s]]
        /\ \A s \in Storages : s # Replaced(poolStorage) => memory'[s] = memory[s]
    BY <1>1 DEF LoadsInto, ReadsFit
  <1>4. \A k \in Slots : Pending(k)' => Pending(k)
    BY <1>2 DEF Pending, NoRequest
  <1>5. \A k \in Slots : Pending(k) => slotStorage[k] \in Storages /\ slotStorage[k] # Replaced(poolStorage)
    <2>1. New \in Storages /\ \A k \in Slots : New # slotStorage[k]
      BY NewIsUnused DEF InUse, Range, Ownership
    <2> QED
      BY <2>1 DEF Ownership, StorageHasOneOwner, Replaced
  <1> QED
    BY <1>2, <1>3, <1>4, <1>5, ReadsStay

\* Every step keeps reads within their memory.
LEMMA ReadsFitIsKept ==
    ASSUME AheadInvariant, AheadInvariant', ReadsFit, [AheadNext]_aheadVars
    PROVE  ReadsFit'
  <1>0. Invariant /\ Ownership /\ DirectWhenAllowed /\ ReadsAhead /\ Ownership'
    BY DEF AheadInvariant
  <1>a. options' = options
    BY <1>0, DirectIsKept
  <1>1. CASE \/ UNCHANGED aheadVars
             \/ EnterNext \/ CallRefused \/ IssueDone \/ IssueFound \/ WalkTake \/ WalkOn
             \/ WalkNextCycle \/ WalkEnds \/ LinesStart \/ LineContinues \/ ServeBatch \/ ResetFails
    <2>1. UNCHANGED <<request, slotStorage, direct, memory, aligned>>
      BY <1>1 DEF aheadVars, slotVars, memoryVars, EnterNext, CallRefused, IssueDone, IssueFound,
         WalkTake, WalkOn, WalkNextCycle, OnlyWalks, WalkEnds, LinesStart, LineContinues, LinesEnd,
         ServeBatch, Gets, ResetFails
    <2>2. \A k \in Slots : Pending(k)' => Pending(k)
      BY <2>1 DEF Pending, NoRequest
    <2>3. memory' = [s \in Storages |-> memory'[s]]
      BY <2>1 DEF ReadsFit
    <2> QED
      BY <1>a, <2>1, <2>2, <2>3, ReadsStay
  <1>2. ASSUME NEW slot \in Slots, KernelReads(slot)
        PROVE  ReadsFit'
    BY <1>0, <1>a, <1>2, KernelKeepsReadsFit
  <1>3. ASSUME NEW slot \in Slots, Adopt(slot) \/ AdoptFails(slot)
        PROVE  ReadsFit'
    BY <1>0, <1>a, <1>3, AdoptingKeepsReadsFit
  <1>4. CASE SettleStale
    <2>1. { slot \in Slots : Pending(slot) /\ request[slot].block \notin Range(Upcoming(AheadDepth)) }
            \in SUBSET Slots
      OBVIOUS
    <2> QED
      BY <1>0, <1>a, <1>4, <2>1, SettlingKeepsReadsFit DEF SettleStale
  <1>5. ASSUME NEW slot \in Slots, Refuse(slot)
        PROVE  ReadsFit'
    <2>1. {slot} \in SUBSET Slots
      OBVIOUS
    <2> QED
      BY <1>0, <1>a, <1>5, <2>1, SettlingKeepsReadsFit DEF Refuse
  <1>6. CASE Issue
    BY <1>0, <1>a, <1>6, IssueKeepsReadsFit
  <1>7. CASE Load \/ LoadFails
    BY <1>0, <1>a, <1>7, LoadingKeepsReadsFit
  <1>8. CASE NoLineStarts \/ LineFails \/ ServeNext \/ Reset
    <2>1. PICK storages \in {{}, {poolStorage}} : memory' = Frees(storages)
      BY <1>8 DEF NoLineStarts, LineFails, ServeNext, Reset
    <2>2. UNCHANGED <<slotVars, direct, aligned>>
      BY <1>8 DEF NoLineStarts, LineFails, ServeNext, Reset
    <2>3. \A slot \in Slots : Pending(slot) => slotStorage[slot] \notin storages
      BY <1>0 DEF Ownership, StorageHasOneOwner
    <2> QED
      BY <1>0, <1>a, <2>1, <2>2, <2>3, FreeingKeepsReads
  <1>9. ASSUME NEW b \in Batches, EnterNextBatch(b) \/ ServeRest(b)
        PROVE  ReadsFit'
    <2>1. memory' = Frees({batchStorage[b]}) /\ UNCHANGED <<slotVars, direct, aligned>>
      BY <1>9 DEF EnterNextBatch, ServeRest, Gets
    <2>2. \A slot \in Slots : Pending(slot) => slotStorage[slot] \notin {batchStorage[b]}
      BY <1>0 DEF Ownership, StorageHasOneOwner
    <2> QED
      BY <1>0, <1>a, <2>1, <2>2, FreeingKeepsReads
  <1>10. ASSUME NEW b \in Batches, FillElsewhere(b)
         PROVE  ReadsFit'
    <2>1. /\ memory' = Frees({New}) /\ UNCHANGED <<slotVars, direct>>
          /\ aligned' \in {AlignedOf(New), aligned \ {New}}
      BY <1>10 DEF FillElsewhere
    <2>2. \A slot \in Slots : slotStorage[slot] \notin {New}
      BY <1>0, NewIsUnused DEF InUse, Range, Ownership
    <2>3. \A s : s \in aligned /\ s # New => s \in aligned'
      BY <2>1 DEF AlignedOf
    <2> QED
      BY <1>0, <1>a, <2>1, <2>2, <2>3, FreeingKeepsReads
  <1>11. CASE Close
    <2>1. \A slot \in Slots : ~ Pending(slot)'
      BY <1>11 DEF Close, Pending, NoRequest
    <2>2. memory' = [s \in Storages |-> memory'[s]] /\ direct' = direct
      BY <1>11 DEF Close, Frees
    <2> QED
      BY <1>a, <2>1, <2>2, ReadsStay
  <1> QED
    BY <1>1, <1>2, <1>3, <1>4, <1>5, <1>6, <1>7, <1>8, <1>9, <1>10, <1>11 DEF AheadNext

-----------------------------------------------------------------------------
(* What callers hold. *)

\* The pool's memory holds the block its lines are from, and that of a batch the
\* block the batch was filled with.
PoolHolds == pc \in {"lines", "serve"} \/ linesLeft => WholeBlock(poolStorage, block)

BatchesHold == \A b \in Batches : batchBlock[b] # NoBlock => WholeBlock(batchStorage[b], batchBlock[b])

Held ==
    /\ batchBlock = [b \in Batches |-> batchBlock[b]]
    /\ pc # "idle" => ~ linesLeft
    /\ pc \in {"load", "lines", "serve"} => block # NoBlock
    /\ into # NoBatch => batchBlock[into] = NoBlock
    /\ PoolHolds
    /\ BatchesHold

\* Bytes that nobody writes stay.
LEMMA WholeBlockStays ==
    ASSUME NEW s, NEW b, WholeBlock(s, b), options' = options, memory'[s] = memory[s]
    PROVE  WholeBlock(s, b)'
  BY DEF WholeBlock

\* The batches that hold a block are left alone.
LEMMA BatchesStay ==
    ASSUME BatchesHold, options' = options,
           \A b \in Batches : batchBlock'[b] # NoBlock =>
             /\ batchBlock'[b] = batchBlock[b]
             /\ batchStorage'[b] = batchStorage[b]
             /\ batchStorage[b] # NoStorage => memory'[batchStorage[b]] = memory[batchStorage[b]]
    PROVE  BatchesHold'
  <1> SUFFICES ASSUME NEW b \in Batches, batchBlock'[b] # NoBlock
               PROVE  WholeBlock(batchStorage[b], batchBlock[b])'
    BY DEF BatchesHold, NoBlock
  <1>1. /\ batchBlock'[b] = batchBlock[b]
        /\ batchStorage'[b] = batchStorage[b]
        /\ batchStorage[b] # NoStorage => memory'[batchStorage[b]] = memory[batchStorage[b]]
    OBVIOUS
  <1>2. WholeBlock(batchStorage[b], batchBlock[b])
    BY <1>1 DEF BatchesHold
  <1> QED
    BY <1>1, <1>2 DEF WholeBlock, NoStorage

\* Nothing is written to memory that is neither the pool's nor a slot's, nor
\* the one of the batch that is passed in.
LEMMA WritesSpareOthers ==
    ASSUME Ownership, ReadsFit,
           \/ \E slot \in Slots : KernelReads(slot) \/ Adopt(slot) \/ AdoptFails(slot) \/ Refuse(slot)
           \/ SettleStale \/ Issue \/ Load \/ LoadFails \/ NoLineStarts \/ LineFails
           \/ ServeNext \/ Reset \/ Close,
           NEW s \in Storages, s \notin {poolStorage, spare, New},
           \A slot \in Slots : slotStorage[slot] # s
    PROVE  memory'[s] = memory[s]
  <1>1. memory = [k \in Storages |-> memory[k]]
    BY DEF ReadsFit
  <1>2. ASSUME NEW slots, Settled(slots), slots \subseteq Slots
        PROVE  memory'[s] = memory[s]
    BY <1>1, <1>2 DEF Settled
  <1>3. ASSUME NEW storages, memory' = Frees(storages), s \notin storages
        PROVE  memory'[s] = memory[s]
    BY <1>1, <1>3, SMTT(30) DEF Frees
  <1>4. ASSUME NEW slot \in Slots, KernelReads(slot) \/ Adopt(slot)
        PROVE  memory'[s] = memory[s]
    BY <1>1, <1>4 DEF KernelReads, Adopt
  <1>5. ASSUME NEW slot \in Slots, AdoptFails(slot)
        PROVE  memory'[s] = memory[s]
    <2>1. memory' = Frees({slotStorage[slot]})
      BY <1>5 DEF AdoptFails
    <2> QED
      BY <1>3, <2>1
  <1>6. ASSUME NEW slot \in Slots, Refuse(slot)
        PROVE  memory'[s] = memory[s]
    <2>1. Settled({slot})
      BY <1>6 DEF Refuse
    <2> QED
      BY <1>2, <2>1
  <1>7. CASE SettleStale
    <2>1. PICK slots : Settled(slots) /\ slots \subseteq Slots
      BY <1>7 DEF SettleStale
    <2> QED
      BY <1>2, <2>1
  <1>8. CASE Issue
    <2>1. PICK given \in Storages \cup {NoStorage}, slot \in Slots :
            Gives(slot, given) /\ memory' = [memory EXCEPT ![Replaced(given)] = Junk]
      BY <1>8, IdleSlotIsIdle DEF Issue
    <2>2. Replaced(given) # s
      BY <2>1 DEF Gives, Replaced
    <2> QED
      BY <1>1, <2>1, <2>2
  <1>9. CASE Load \/ LoadFails
    <2>1. PICK content : memory' = [memory EXCEPT ![Replaced(poolStorage)] = content]
      BY <1>9 DEF Load, LoadFails, LoadsInto
    <2>2. Replaced(poolStorage) # s
      BY DEF Replaced
    <2> QED
      BY <1>1, <2>1, <2>2
  <1>10. CASE NoLineStarts \/ LineFails \/ ServeNext \/ Reset \/ Close
    <2>1. PICK storages \in {{}, {poolStorage}, {poolStorage} \cup Range(slotStorage)} :
            memory' = Frees(storages)
      BY <1>10 DEF NoLineStarts, LineFails, ServeNext, Reset, Close
    <2>2. s \notin storages
      BY <2>1 DEF Range, Ownership
    <2> QED
      BY <1>3, <2>1, <2>2
  <1> QED
    BY <1>4, <1>5, <1>6, <1>7, <1>8, <1>9, <1>10

\* So batches keep what they hold while the pool works.
LEMMA WritesSpareBatches ==
    ASSUME Ownership, ReadsFit,
           \/ \E slot \in Slots : KernelReads(slot) \/ Adopt(slot) \/ AdoptFails(slot) \/ Refuse(slot)
           \/ SettleStale \/ Issue \/ Load \/ LoadFails \/ NoLineStarts \/ LineFails
           \/ ServeNext \/ Reset \/ Close,
           NEW b \in Batches, batchStorage[b] # NoStorage
    PROVE  memory'[batchStorage[b]] = memory[batchStorage[b]]
  <1>1. PICK s \in Storages : s = batchStorage[b]
    BY DEF Ownership
  <1>2. \A slot \in Slots : slotStorage[slot] # s
    BY <1>1 DEF Ownership, StorageHasOneOwner
  <1>3. s \notin {poolStorage, spare, New}
    BY <1>1, NewIsUnused DEF Ownership, StorageHasOneOwner, InUse, Range
  <1>4. memory'[s] = memory[s]
    BY <1>2, <1>3, WritesSpareOthers
  <1> QED
    BY <1>1, <1>4

\* A read that is adopted is of the whole block.
LEMMA AdoptedIsWhole ==
    ASSUME Invariant, ReadsAhead, ReadsFit, Ownership, Held, options' = options,
           NEW slot \in Slots, Adopt(slot)
    PROVE  WholeBlock(poolStorage, block)'
  <1> DEFINE start == block * options.blockBytes
             whole == BlockReadRange(options, block, 0).readBytes
             s     == slotStorage[slot]
             r     == request[slot]
  <1>1. /\ r.block = block /\ r.status = "done" /\ pc = "load" /\ Pending(slot)
        /\ poolStorage' = s /\ block' = block
        /\ memory' = [memory EXCEPT ![s].from = IF direct \/ ReadRange.skip = 1 THEN 0 ELSE @]
    BY DEF Adopt, Adopts, Found, Adoptable, cursorVars
  <1>2. block \in 0 .. BlockCount(options) - 1 /\ options \in ValidOptions
    BY <1>1 DEF Held, Invariant, CursorTypeOK
  <1>3. /\ start \in Nat /\ whole \in Nat
        /\ ReadRange.readOffset = start - 1
        /\ ReadRange.skip \in {0, 1}
        /\ ReadRange.readBytes = whole
    BY <1>2, BlockReads DEF ReadRange
  <1>4. /\ RequestFits(slot)
        /\ Skipped(slot) = r.offset - (start - 1)
        /\ r.offset \in Int /\ r.read \in Int /\ r.length \in Int
    BY <1>1 DEF ReadsFit, Skipped, ReadsAhead, Requests
  <1>5. /\ memory[s] = [at |-> r.offset - Skipped(slot), from |-> Skipped(slot), to |-> Skipped(slot) + r.read]
        /\ Skipped(slot) \in {0, 1}
        /\ direct => Skipped(slot) = 1
    BY <1>1, <1>4 DEF RequestFits
  <1>6. s \in Storages /\ s # NoStorage
    BY <1>1 DEF Ownership, StorageHasOneOwner
  <1>7. IF direct
        THEN r.offset = start - 1 + 1 /\ r.read >= whole - 1
        ELSE /\ r.offset = start - 1 + ReadRange.skip
             /\ r.length = whole - ReadRange.skip
             /\ r.read >= r.length
    BY <1>3 DEF Adopt, Adopts, Adoptable
  <1>8. /\ memory'[s].at = memory[s].at /\ memory'[s].to = memory[s].to
        /\ memory'[s].from = IF direct \/ ReadRange.skip = 1 THEN 0 ELSE memory[s].from
    BY <1>1, <1>5, <1>6 DEF ReadsFit
  <1> HIDE DEF start, whole, s, r
  <1>9. /\ memory'[s].at = start - 1
        /\ memory'[s].from = 0
        /\ memory'[s].to >= whole
    BY <1>3, <1>4, <1>5, <1>7, <1>8
  <1> QED
    BY <1>1, <1>6, <1>9 DEF WholeBlock, start, whole

\* So is what the pool reads itself.
LEMMA LoadedIsWhole ==
    ASSUME Invariant, ReadsFit, Ownership, Held, options' = options, Load
    PROVE  WholeBlock(poolStorage, block)'
  <1>1. /\ pc = "load" /\ block' = block
        /\ poolStorage' = Replaced(poolStorage)
        /\ memory' = [memory EXCEPT ![Replaced(poolStorage)] =
                         [at |-> ReadRange.readOffset, from |-> 0, to |-> ReadRange.readBytes]]
    BY DEF Load, LoadsInto, cursorVars
  <1>2. block \in 0 .. BlockCount(options) - 1 /\ options \in ValidOptions
    BY <1>1 DEF Held, Invariant, CursorTypeOK
  <1>3. /\ BlockReadRange(options, block, 0).readBytes \in Nat
        /\ ReadRange.readOffset = block * options.blockBytes - 1
        /\ ReadRange.readBytes = BlockReadRange(options, block, 0).readBytes
    BY <1>2, BlockReads DEF ReadRange
  <1>4. Replaced(poolStorage) \in Storages /\ Replaced(poolStorage) # NoStorage
    BY NewIsUnused, AheadAssumption DEF Ownership, Replaced, NoStorage
  <1>5. memory'[Replaced(poolStorage)] =
          [at |-> ReadRange.readOffset, from |-> 0, to |-> ReadRange.readBytes]
    BY <1>1, <1>4 DEF ReadsFit
  <1> QED
    BY <1>1, <1>3, <1>4, <1>5 DEF WholeBlock

\* What callers hold, apart from the bytes.
HeldFrame ==
    /\ batchBlock = [b \in Batches |-> batchBlock[b]]
    /\ pc # "idle" => ~ linesLeft
    /\ pc \in {"load", "lines", "serve"} => block # NoBlock
    /\ into # NoBatch => batchBlock[into] = NoBlock

\* A block is taken before its lines are.
LEMMA HeldFrameIsKept ==
    ASSUME Invariant', Ownership, Held, [AheadNext]_aheadVars
    PROVE  HeldFrame'
  <1>0. HeldFrame
    BY DEF Held, HeldFrame
  <1>1. CASE \/ UNCHANGED aheadVars \/ CallRefused
             \/ \E slot \in Slots : KernelReads(slot) \/ Refuse(slot)
             \/ \E b \in Batches : FillElsewhere(b)
             \/ ResetFails
    <2>1. UNCHANGED <<batchBlock, linesLeft, block, into, pc>>
      BY <1>1 DEF aheadVars, batchVars, lineVars, cursorVars, callVars, CallRefused, KernelReads, Refuse,
         FillElsewhere, ResetFails
    <2> QED
      BY <1>0, <2>1 DEF HeldFrame, NoBlock
  <1>2. CASE \/ EnterNext \/ SettleStale \/ IssueDone \/ IssueFound \/ Issue \/ Load \/ NoLineStarts
             \/ LinesStart \/ LineContinues \/ \E slot \in Slots : Adopt(slot)
    <2>1. UNCHANGED <<batchBlock, linesLeft, block>> /\ into' \in {into, NoBatch} /\ ~ linesLeft
      BY <1>2 DEF Held, batchVars, lineVars, cursorVars, callVars, EnterNext, SettleStale, IssueDone,
         IssueFound, Issue, Load, LoadsInto, NoLineStarts, LinesStart, LineContinues, ContinueLine,
         LinesEnd, Adopt, Adopts, Found, Calls
    <2>2. pc' \in {"load", "lines", "serve"} => pc \in {"load", "lines", "serve"}
      BY <1>2 DEF callVars, EnterNext, SettleStale, IssueDone, IssueFound, Issue, Load, LoadsInto,
         NoLineStarts, LinesStart, LineContinues, LinesEnd, Adopt, Adopts, Found
    <2> QED
      BY <1>0, <2>1, <2>2 DEF HeldFrame, NoBlock
  <1>3. CASE WalkOn \/ WalkNextCycle
    <2>1. UNCHANGED <<batchBlock, linesLeft, into, pc>> /\ pc = "walk"
      BY <1>3 DEF WalkOn, WalkNextCycle, OnlyWalks, batchVars
    <2> QED
      BY <1>0, <2>1 DEF HeldFrame, NoBlock
  <1>4. CASE WalkTake
    <2>1. UNCHANGED <<batchBlock, linesLeft, into>> /\ pc = "walk"
      BY <1>4 DEF WalkTake, OnlyWalks, batchVars
    <2>2. block' \in taken'
      BY <1>4 DEF WalkTake, TakeBlock
    <2>3. block' # -1
      BY <2>2 DEF Invariant, CursorTypeOK
    <2> QED
      BY <1>0, <2>1, <2>3 DEF HeldFrame, NoBlock
  <1>5. CASE \/ WalkEnds \/ LoadFails \/ LineFails \/ ServeNext \/ Reset \/ Close
             \/ \E slot \in Slots : AdoptFails(slot)
    <2>1. UNCHANGED batchBlock /\ into' = NoBatch /\ pc' = "idle"
      BY <1>5 DEF WalkEnds, LoadFails, LoadsInto, LineFails, Fails, ServeNext, Reset, Close, AdoptFails,
         Calls, callVars, batchVars, Ownership
    <2> QED
      BY <1>0, <2>1 DEF HeldFrame, NoBlock
  <1>6. ASSUME NEW b \in Batches, EnterNextBatch(b)
        PROVE  HeldFrame'
    <2>1. /\ batchBlock' = [batchBlock EXCEPT ![b] = NoBlock] /\ linesLeft' = FALSE
          /\ into' = b /\ pc' \in {"settle", "walk"}
      BY <1>6 DEF EnterNextBatch, lineVars
    <2> QED
      BY <1>0, <2>1 DEF HeldFrame, NoBlock
  <1>7. CASE ServeBatch \/ \E b \in Batches : ServeRest(b)
    <2>1. /\ \E b : batchBlock' = [batchBlock EXCEPT ![b] = block]
          /\ into' = NoBatch /\ pc' = "idle"
      BY <1>7 DEF ServeBatch, ServeRest, Gets, Calls, Ownership
    <2>2. batchBlock' = [b \in Batches |-> batchBlock'[b]]
      BY <1>0, <2>1 DEF HeldFrame
    <2> QED
      BY <2>1, <2>2 DEF HeldFrame
  <1> QED
    BY <1>1, <1>2, <1>3, <1>4, <1>5, <1>6, <1>7 DEF AheadNext

\* The pool's memory holds its block.
LEMMA PoolHoldsIsKept ==
    ASSUME AheadInvariant, AheadInvariant', ReadsFit, Held, [AheadNext]_aheadVars
    PROVE  PoolHolds'
  <1>0. Invariant /\ Ownership /\ Ownership' /\ ReadsAhead /\ PoolHolds
    BY DEF AheadInvariant, Held
  <1>a. options' = options
    BY <1>0, DirectIsKept DEF AheadInvariant
  <1>b. pc # "idle" => ~ linesLeft
    BY DEF Held
  <1>1. CASE \/ \E slot \in Slots : AdoptFails(slot) \/ Refuse(slot)
             \/ \E b \in Batches : EnterNextBatch(b) \/ ServeRest(b)
             \/ EnterNext \/ SettleStale \/ IssueDone \/ IssueFound \/ Issue \/ WalkTake \/ WalkOn
             \/ WalkNextCycle \/ WalkEnds \/ LoadFails \/ NoLineStarts \/ LineFails \/ ServeBatch
             \/ Reset \/ Close
    <2>1. ~ linesLeft' /\ pc' \notin {"lines", "serve"}
      <3>1. CASE \E slot \in Slots : AdoptFails(slot) \/ Refuse(slot)
        BY <1>b, <3>1 DEF AdoptFails, Adopts, Found, Refuse, Fails, lineVars, callVars
      <3>6. CASE SettleStale \/ IssueDone \/ IssueFound
        BY <1>b, <3>6 DEF SettleStale, IssueDone, IssueFound, lineVars
      <3>7. CASE Issue
        <4>1. linesLeft' = linesLeft /\ pc = "issue" /\ pc' \in {pc, "walk"}
          BY <3>7 DEF Issue, lineVars
        <4> QED
          BY <1>b, <4>1
      <3>2. CASE \E b \in Batches : EnterNextBatch(b) \/ ServeRest(b)
        BY <3>2 DEF EnterNextBatch, ServeRest, Gets, Calls, lineVars
      <3>3. CASE WalkTake \/ WalkOn \/ WalkNextCycle \/ WalkEnds
        BY <1>b, <3>3 DEF WalkTake, WalkOn, WalkNextCycle, OnlyWalks, WalkEnds, Fails, lineVars
      <3>4. CASE LoadFails \/ NoLineStarts \/ LineFails
        BY <1>b, <3>4 DEF LoadFails, LoadsInto, NoLineStarts, LineFails, Fails, lineVars
      <3>5. CASE EnterNext \/ ServeBatch \/ Reset \/ Close
        BY <3>5 DEF EnterNext, ServeBatch, Gets, Reset, Close, Calls, lineVars, callVars
      <3> QED
        BY <1>1, <3>1, <3>2, <3>3, <3>4, <3>5, <3>6, <3>7
    <2> QED
      BY <2>1 DEF PoolHolds
  <1>2. ASSUME NEW slot \in Slots, Adopt(slot)
        PROVE  PoolHolds'
    BY <1>0, <1>a, <1>2, AdoptedIsWhole DEF PoolHolds
  <1>3. CASE Load
    BY <1>0, <1>a, <1>3, LoadedIsWhole DEF PoolHolds
  <1>4. ASSUME UNCHANGED <<poolStorage, block>>,
               pc' \in {"lines", "serve"} \/ linesLeft' =>
                 /\ pc \in {"lines", "serve"} \/ linesLeft
                 /\ poolStorage # NoStorage => memory'[poolStorage] = memory[poolStorage]
        PROVE  PoolHolds'
    BY <1>0, <1>a, <1>4 DEF PoolHolds, WholeBlock, NoStorage
  <1>5. CASE UNCHANGED aheadVars \/ CallRefused \/ LinesStart \/ LineContinues \/ ResetFails
    <2>1. UNCHANGED <<poolStorage, block, memory, linesLeft>>
      BY <1>5 DEF aheadVars, cursorVars, memoryVars, lineVars, CallRefused, LinesStart, LineContinues,
         LinesEnd, ContinueLine, ResetFails
    <2>2. pc' \in {"lines", "serve"} => pc \in {"lines", "serve"}
      BY <1>5 DEF aheadVars, callVars, CallRefused, LinesStart, LineContinues, LinesEnd, ResetFails
    <2> QED
      BY <1>4, <2>1, <2>2
  <1>6. ASSUME NEW slot \in Slots, KernelReads(slot)
        PROVE  PoolHolds'
    <2>1. UNCHANGED <<poolStorage, block, linesLeft, pc>>
      BY <1>6 DEF KernelReads, cursorVars, lineVars, callVars
    <2>2. poolStorage # NoStorage => slotStorage[slot] # poolStorage
      BY <1>0 DEF Ownership, StorageHasOneOwner
    <2>3. poolStorage # NoStorage => memory'[poolStorage] = memory[poolStorage]
      BY <1>0, <1>6, <2>2 DEF KernelReads, ReadsFit, Ownership
    <2> QED
      BY <1>4, <2>1, <2>3
  <1>7. CASE ServeNext
    <2>1. UNCHANGED <<poolStorage, block>> /\ pc' = "idle" /\ (pc = "serve" \/ linesLeft)
      BY <1>7 DEF ServeNext, cursorVars
    <2>2. linesLeft' => memory' = Frees({})
      BY <1>7 DEF ServeNext
    <2>3. linesLeft' => memory' = memory
      BY <2>2 DEF Frees, ReadsFit
    <2> QED
      BY <1>4, <2>1, <2>3
  <1>8. ASSUME NEW b \in Batches, FillElsewhere(b)
        PROVE  PoolHolds'
    <2>1. UNCHANGED <<poolStorage, block, linesLeft, pc>> /\ memory' = Frees({New})
      BY <1>8 DEF FillElsewhere, cursorVars, lineVars, callVars
    <2>2. poolStorage # New
      BY <1>0, NewIsUnused DEF InUse
    <2>3. poolStorage # NoStorage => memory'[poolStorage] = memory[poolStorage]
      BY <1>0, <2>1, <2>2 DEF Frees, Ownership
    <2> QED
      BY <1>4, <2>1, <2>3
  <1> QED
    BY <1>1, <1>2, <1>3, <1>5, <1>6, <1>7, <1>8 DEF AheadNext

\* Every batch holds its block still.
LEMMA BatchesHoldIsKept ==
    ASSUME AheadInvariant, AheadInvariant', ReadsFit, Held, [AheadNext]_aheadVars
    PROVE  BatchesHold'
  <1>0. Invariant /\ Ownership /\ BatchesHold
    BY DEF AheadInvariant, Held
  <1>a. options' = options
    BY <1>0, DirectIsKept DEF AheadInvariant
  <1>1. CASE \/ UNCHANGED aheadVars
             \/ EnterNext \/ CallRefused \/ IssueDone \/ IssueFound \/ WalkTake \/ WalkOn
             \/ WalkNextCycle \/ LinesStart \/ LineContinues \/ ResetFails
    <2>1. UNCHANGED <<batchStorage, batchBlock, memory>>
      BY <1>1 DEF aheadVars, batchVars, memoryVars, EnterNext, CallRefused, IssueDone, IssueFound,
         WalkTake, WalkOn, WalkNextCycle, OnlyWalks, LinesStart, LineContinues, LinesEnd, ResetFails
    <2> QED
      BY <1>0, <1>a, <2>1, BatchesStay
  <1>2. CASE \/ \E slot \in Slots : KernelReads(slot) \/ Adopt(slot) \/ Refuse(slot)
             \/ SettleStale \/ Issue \/ Load \/ NoLineStarts \/ ServeNext \/ Reset \/ Close
    <2>1. UNCHANGED <<batchStorage, batchBlock>>
      BY <1>2 DEF batchVars, KernelReads, Adopt, Refuse, SettleStale, Issue, Load, NoLineStarts,
         ServeNext, Reset, Close
    <2>2. \A b \in Batches : batchStorage[b] # NoStorage =>
            memory'[batchStorage[b]] = memory[batchStorage[b]]
      BY <1>0, <1>2, WritesSpareBatches
    <2> QED
      BY <1>0, <1>a, <2>1, <2>2, BatchesStay
  <1>3. CASE WalkEnds \/ LoadFails \/ LineFails \/ \E slot \in Slots : AdoptFails(slot)
    <2>1. /\ UNCHANGED batchBlock
          /\ batchStorage' = [b \in Batches |-> IF b = into THEN spare ELSE batchStorage[b]]
      BY <1>3 DEF WalkEnds, LoadFails, LineFails, AdoptFails, Fails
    <2>2. \A b \in Batches : b = into => batchBlock[b] = NoBlock
      BY AheadAssumption DEF Held, NoBatch
    <2>3. \A b \in Batches : batchStorage[b] # NoStorage =>
            memory'[batchStorage[b]] = memory[batchStorage[b]]
      <3>1. CASE WalkEnds
        BY <3>1 DEF WalkEnds, memoryVars
      <3> QED
        BY <1>0, <1>3, <3>1, WritesSpareBatches
    <2> QED
      BY <1>0, <1>a, <2>1, <2>2, <2>3, BatchesStay DEF NoBlock
  <1>4. ASSUME NEW b \in Batches, EnterNextBatch(b)
        PROVE  BatchesHold'
    <2>1. /\ batchBlock' = [batchBlock EXCEPT ![b] = NoBlock]
          /\ batchStorage' = [batchStorage EXCEPT ![b] = NoStorage]
          /\ memory' = Frees({batchStorage[b]})
      BY <1>4 DEF EnterNextBatch
    <2>2. \A c \in Batches : c # b /\ batchStorage[c] # NoStorage =>
            /\ batchStorage[c] \in Storages
            /\ batchStorage[c] # batchStorage[b]
      BY <1>0 DEF Ownership, StorageHasOneOwner
    <2>3. \A c \in Batches : c # b /\ batchStorage[c] # NoStorage =>
            memory'[batchStorage[c]] = memory[batchStorage[c]]
      BY <2>1, <2>2 DEF Frees
    <2>4. batchBlock'[b] = NoBlock
      BY <2>1 DEF Held
    <2>5. \A c \in Batches : c # b => batchBlock'[c] = batchBlock[c] /\ batchStorage'[c] = batchStorage[c]
      BY <1>0, <2>1 DEF Held, Ownership
    <2> QED
      BY <1>0, <1>a, <2>3, <2>4, <2>5, BatchesStay DEF NoBlock
  <1>5. ASSUME NEW b \in Batches, FillElsewhere(b)
        PROVE  BatchesHold'
    <2>1. /\ batchStorage[b] = NoStorage /\ batchBlock' = batchBlock
          /\ batchStorage' = [batchStorage EXCEPT ![b] = New]
          /\ memory' = Frees({New})
      BY <1>5 DEF FillElsewhere
    <2>2. batchBlock[b] = NoBlock
      BY <1>0, <2>1 DEF BatchesHold, WholeBlock
    <2>3. \A c \in Batches : batchStorage[c] # New
      BY <1>0, NewIsUnused DEF InUse, Range, Ownership
    <2>4. \A c \in Batches : batchStorage[c] # NoStorage =>
            memory'[batchStorage[c]] = memory[batchStorage[c]]
      BY <1>0, <2>1, <2>3 DEF Frees, Ownership
    <2>5. \A c \in Batches : c # b => batchStorage'[c] = batchStorage[c]
      BY <1>0, <2>1 DEF Ownership
    <2> QED
      BY <1>0, <1>a, <2>1, <2>2, <2>4, <2>5, BatchesStay DEF NoBlock
  <1>6. ASSUME NEW b \in Batches, NEW storage, Gets(b, storage), PoolHolds,
               pc = "serve" \/ linesLeft,
               \A c \in Batches : c # b /\ batchStorage[c] # NoStorage =>
                 memory'[batchStorage[c]] = memory[batchStorage[c]],
               poolStorage # NoStorage => memory'[poolStorage] = memory[poolStorage]
        PROVE  BatchesHold'
    <2>1. /\ batchStorage' = [batchStorage EXCEPT ![b] = poolStorage]
          /\ batchBlock' = [batchBlock EXCEPT ![b] = block]
      BY <1>6 DEF Gets
    <2>2. /\ batchStorage'[b] = poolStorage /\ batchBlock'[b] = block
          /\ \A c \in Batches : c # b => /\ batchStorage'[c] = batchStorage[c]
                                         /\ batchBlock'[c] = batchBlock[c]
      BY <1>0, <2>1 DEF Held, Ownership
    <2>3. WholeBlock(poolStorage, block)
      BY <1>6 DEF PoolHolds
    <2>4. WholeBlock(batchStorage[b], batchBlock[b])'
      BY <1>a, <1>6, <2>2, <2>3 DEF WholeBlock
    <2>5. ASSUME NEW c \in Batches, c # b, batchBlock'[c] # NoBlock
          PROVE  WholeBlock(batchStorage[c], batchBlock[c])'
      BY <1>0, <1>a, <1>6, <2>2, <2>5 DEF BatchesHold, WholeBlock
    <2> QED
      BY <2>4, <2>5 DEF BatchesHold, NoBlock
  <1>7. CASE ServeBatch
    <2>1. /\ into \in Batches /\ Gets(into, spare) /\ pc = "serve" /\ memory' = memory
      BY <1>0, <1>7 DEF ServeBatch, Ownership
    <2> QED
      BY <1>6, <2>1 DEF Held
  <1>8. ASSUME NEW b \in Batches, ServeRest(b)
        PROVE  BatchesHold'
    <2>1. Gets(b, batchStorage[b]) /\ linesLeft /\ memory' = Frees({batchStorage[b]})
      BY <1>8 DEF ServeRest
    <2>2. \A c \in Batches : c # b /\ batchStorage[c] # NoStorage =>
            batchStorage[c] \in Storages /\ batchStorage[c] # batchStorage[b]
      BY <1>0 DEF Ownership, StorageHasOneOwner
    <2>3. poolStorage # NoStorage => poolStorage \in Storages /\ poolStorage # batchStorage[b]
      BY <1>0 DEF Ownership, StorageHasOneOwner
    <2>4. /\ \A c \in Batches : c # b /\ batchStorage[c] # NoStorage =>
                memory'[batchStorage[c]] = memory[batchStorage[c]]
          /\ poolStorage # NoStorage => memory'[poolStorage] = memory[poolStorage]
      BY <2>1, <2>2, <2>3 DEF Frees
    <2> QED
      BY <1>6, <2>1, <2>4 DEF Held
  <1> QED
    BY <1>1, <1>2, <1>3, <1>4, <1>5, <1>7, <1>8 DEF AheadNext

\* What is known of every state of a pool that reads ahead.
HoldingInvariant == AheadInvariant /\ ReadsFit /\ Held

\* It holds of an opened pool.
LEMMA HoldingInvariantInitially == AheadInit => HoldingInvariant
  <1> SUFFICES ASSUME AheadInit
               PROVE  HoldingInvariant
    OBVIOUS
  <1>1. AheadInvariant
    BY AheadInvariantInitially
  <1>2. ReadsFit
    BY DEF AheadInit, ReadsFit, Pending
  <1>3. Held
    BY DEF AheadInit, Held, PoolHolds, BatchesHold
  <1> QED
    BY <1>1, <1>2, <1>3 DEF HoldingInvariant

\* Every step keeps it: reads in flight fit, so what is adopted is whole.
LEMMA HoldingInvariantIsKept == HoldingInvariant /\ [AheadNext]_aheadVars => HoldingInvariant'
  <1> SUFFICES ASSUME HoldingInvariant, [AheadNext]_aheadVars
               PROVE  HoldingInvariant'
    OBVIOUS
  <1>1. AheadInvariant'
    BY AheadInvariantIsKept DEF HoldingInvariant
  <1>2. ReadsFit'
    BY <1>1, ReadsFitIsKept DEF HoldingInvariant
  <1>3. HeldFrame' /\ PoolHolds' /\ BatchesHold'
    BY <1>1, HeldFrameIsKept, PoolHoldsIsKept, BatchesHoldIsKept DEF HoldingInvariant, AheadInvariant
  <1>4. Held'
    BY <1>3 DEF Held, HeldFrame
  <1> QED
    BY <1>1, <1>2, <1>4 DEF HoldingInvariant

\* A read in flight stays within its memory, at any block and line length, and
\* one that bypasses the cache is of whole pages, into memory aligned for it.
THEOREM ReadsStayInMemory == AheadSpec => []TargetsFit
  <1>1. HoldingInvariant => TargetsFit
    BY ReadsFitGivesTargetsFit DEF HoldingInvariant
  <1> QED
    BY <1>1, HoldingInvariantInitially, HoldingInvariantIsKept, PTL DEF AheadSpec

\* Lines are handed out from, and batches keep, all bytes of the block they are
\* of, with any number of slots and batches: a read that is late, short, failed
\* or of another position is never taken for the block, and none is written over
\* bytes that a caller holds.
THEOREM CallersHoldWholeBlocks == AheadSpec => []HeldBlocksWhole
  <1>1. HoldingInvariant => HeldBlocksWhole
    BY DEF HoldingInvariant, Held, PoolHolds, BatchesHold, HeldBlocksWhole
  <1> QED
    BY <1>1, HoldingInvariantInitially, HoldingInvariantIsKept, PTL DEF AheadSpec

-----------------------------------------------------------------------------
(* The walk takes what is foretold. *)

\* Every block of a region that is not passed has its place.
LEMMA PlaceOfWalk ==
    ASSUME NEW o \in ValidOptions, NEW c \in Nat, NEW cursor \in Nat, NEW next \in Nat,
           NEW n \in Greater(1, cursor) .. RegionsForShard(o),
           NEW j \in 0 .. RegionLength(o, ShardRegion(o, c, n - 1)) - 1,
           n = cursor => next <= j
    PROVE  n * BlocksPerRegion(o) + j \in PlacesFrom(o, c, cursor, next)
  <1> DEFINE b == BlocksPerRegion(o)
             all == RegionsForShard(o)
             length == RegionLength(o, ShardRegion(o, c, n - 1))
             first == IF n = cursor THEN next ELSE 0
  <1>1. b \in Nat \ {0} /\ all \in Nat
    BY LayoutFacts
  <1>2. n \in Nat /\ n - 1 \in 0 .. all - 1
    BY <1>1, SMT DEF Greater
  <1>3. length \in 1 .. b
    <2>1. ShardRegion(o, c, n - 1) \in 0 .. RegionCount(o) - 1
      BY <1>2, ShardRegionInRange
    <2> QED
      BY <2>1, RegionLiesInFile
  <1>4. first \in Nat /\ first <= j
    OBVIOUS
  <1>5. n * b \in Nat
    BY <1>1, <1>2, SMT
  <1> HIDE DEF b, length, first
  <1>6. n * b + j \in (n * b + first) .. (n * b + (length - 1))
    BY <1>1, <1>3, <1>4, <1>5, SMT DEF length
  <1> QED
    BY <1>6 DEF PlacesFrom, b, length, first

\* Places are in the order of regions, and of blocks in a region.
LEMMA PlacesAscend ==
    ASSUME NEW b \in Nat \ {0}, NEW n \in Nat, NEW j \in 0 .. b - 1,
           NEW m \in Nat, NEW k \in 0 .. b - 1, n <= m, n = m => j <= k
    PROVE  n * b + j <= m * b + k
  <1>1. n * b \in Nat /\ m * b \in Nat /\ n * b = b * n /\ m * b = b * m
    BY SMT
  <1>2. CASE n = m
    BY <1>1, <1>2, SMT
  <1>3. CASE n # m
    <2>1. n + 1 <= m /\ n + 1 \in Nat
      BY <1>3, SMT
    <2>2. b * (n + 1) <= b * m
      BY <2>1, ProductOrder
    <2>3. b * (n + 1) = b * n + b
      BY SMT
    <2> QED
      BY <1>1, <2>2, <2>3, SMT
  <1> QED
    BY <1>2, <1>3

\* Where the walk is: its place is the first that is not passed, and the block
\* there the one it comes to.
LEMMA WalkIsAtFirstPlace ==
    ASSUME Invariant, ~ RegionDone
    PROVE  LET p == regionCursor * BlocksPerRegion(options) + regionBlockNext
           IN  /\ p \in PlacesFrom(options, cycle, regionCursor, regionBlockNext)
               /\ p \in Int
               /\ PlacedBlock(options, cycle, p) = CurrentBlock
               /\ \A q \in PlacesFrom(options, cycle, regionCursor, regionBlockNext) : p <= q
               /\ \A q : q \in PlacesFrom(options, cycle, regionCursor, regionBlockNext + 1)
                           <=> /\ q \in PlacesFrom(options, cycle, regionCursor, regionBlockNext)
                               /\ q # p
  <1> DEFINE b == BlocksPerRegion(options)
             all == RegionsForShard(options)
             n == regionCursor
             j == regionBlockNext
             p == n * b + j
             region == ShardRegion(options, cycle, n - 1)
             length == RegionLength(options, region)
  <1>1. /\ options \in ValidOptions /\ cycle \in Nat /\ b \in Nat \ {0} /\ all \in Nat
        /\ n \in 0 .. all /\ j \in Nat /\ regionBlocks \in Nat /\ j < regionBlocks
    BY OpenedPool, SMT DEF Invariant, RegionDone
  <1>2. n # 0
    BY <1>1, SMT DEF Invariant, OnSchedule
  <1>3. /\ n \in Nat /\ n \in Greater(1, n) .. all
        /\ n > 0 /\ n - 1 \in 0 .. all - 1
    BY <1>1, <1>2, SMT DEF Greater
  <1>4. /\ regionBlockBase = RegionBase(options, region)
        /\ regionBlocks = length
        /\ regionRotation = Rotation(options, cycle, region)
    BY <1>3 DEF Invariant, OnSchedule
  <1>5. length \in 1 .. b
    <2>1. region \in 0 .. RegionCount(options) - 1
      BY <1>1, <1>3, ShardRegionInRange
    <2> QED
      BY <1>1, <2>1, RegionLiesInFile
  <1>6. j \in 0 .. length - 1 /\ j \in 0 .. b - 1
    BY <1>1, <1>4, <1>5, SMT
  <1>7. p \in PlacesFrom(options, cycle, n, j)
    BY <1>1, <1>3, <1>6, PlaceOfWalk
  <1>8. p \div b = n /\ p % b = j
    BY <1>1, <1>3, <1>6, PlaceTells
  <1>9. PlacedBlock(options, cycle, p) = CurrentBlock
    BY <1>4, <1>8 DEF PlacedBlock, CurrentBlock
  <1>10. p \in Int
    BY <1>1, <1>3, SMT
  <1>11. ASSUME NEW q \in PlacesFrom(options, cycle, n, j)
         PROVE  p <= q
    <2>1. PICK m \in Greater(1, n) .. all :
            /\ m \in Nat /\ m >= n
            /\ \E k \in 0 .. RegionLength(options, ShardRegion(options, cycle, m - 1)) - 1 :
                 k \in 0 .. b - 1 /\ q = m * b + k /\ (m = n => j <= k)
      BY <1>1, <1>3, PlaceInWalk
    <2>2. PICK k \in 0 .. b - 1 : q = m * b + k /\ (m = n => j <= k)
      BY <2>1
    <2>3. n <= m /\ (n = m => j <= k)
      BY <1>1, <2>1, <2>2, SMT
    <2> HIDE DEF b, n, j
    <2>4. n * b + j <= m * b + k
      BY <1>1, <1>3, <1>6, <2>1, <2>3, PlacesAscend
    <2> QED
      BY <2>2, <2>4
  <1>12. j + 1 \in Nat
    BY <1>1, SMT
  <1>13. ASSUME NEW q \in PlacesFrom(options, cycle, n, j + 1)
         PROVE  q \in PlacesFrom(options, cycle, n, j) /\ q # p
    <2>1. PICK m \in Greater(1, n) .. all :
            \E k \in 0 .. RegionLength(options, ShardRegion(options, cycle, m - 1)) - 1 :
              /\ q = m * b + k /\ q \div b = m /\ q % b = k
              /\ m = n => j + 1 <= k
      BY <1>1, <1>3, <1>12, PlaceInWalk
    <2>2. PICK k \in 0 .. RegionLength(options, ShardRegion(options, cycle, m - 1)) - 1 :
              /\ q = m * b + k /\ q \div b = m /\ q % b = k
              /\ m = n => j + 1 <= k
      BY <2>1
    <2>3. m = n => j <= k /\ k # j
      BY <1>1, <2>2, SMT
    <2>4. q \in PlacesFrom(options, cycle, n, j)
      BY <1>1, <1>3, <2>2, <2>3, PlaceOfWalk
    <2> QED
      BY <1>8, <2>2, <2>3, <2>4
  <1>14. ASSUME NEW q \in PlacesFrom(options, cycle, n, j), q # p
         PROVE  q \in PlacesFrom(options, cycle, n, j + 1)
    <2>1. PICK m \in Greater(1, n) .. all :
            \E k \in 0 .. RegionLength(options, ShardRegion(options, cycle, m - 1)) - 1 :
              q = m * b + k /\ (m = n => j <= k)
      BY <1>1, <1>3, PlaceInWalk
    <2>2. PICK k \in 0 .. RegionLength(options, ShardRegion(options, cycle, m - 1)) - 1 :
              q = m * b + k /\ (m = n => j <= k)
      BY <2>1
    <2>3. m = n => j + 1 <= k
      <3> SUFFICES ASSUME m = n PROVE j + 1 <= k
        OBVIOUS
      <3>1. k # j
        BY <1>14, <2>2
      <3>2. k \in Int /\ j <= k
        BY <2>2, SMT
      <3> QED
        BY <1>1, <3>1, <3>2, SMT
    <2> QED
      BY <1>1, <1>3, <1>12, <2>2, <2>3, PlaceOfWalk
  <1> QED
    BY <1>7, <1>9, <1>10, <1>11, <1>13, <1>14

\* The first block foretold is the one that the walk comes to, unless a
\* continuation runs over it.
LEMMA CurrentIsForetold ==
    ASSUME Invariant, ~ RegionDone, ~ InContinuation(CurrentBlock)
    PROVE  Upcoming(AheadDepth) # <<>> /\ Head(Upcoming(AheadDepth)) = CurrentBlock
  <1> DEFINE p == regionCursor * BlocksPerRegion(options) + regionBlockNext
             m == (RegionsForShard(options) + 1) * BlocksPerRegion(options)
  <1>1. /\ p \in PlacesFrom(options, cycle, regionCursor, regionBlockNext)
        /\ PlacedBlock(options, cycle, p) = CurrentBlock
        /\ \A q \in PlacesFrom(options, cycle, regionCursor, regionBlockNext) : p <= q
    BY WalkIsAtFirstPlace
  <1> HIDE DEF p
  <1>2. p \in Left /\ \A q \in Left : p <= q
    BY <1>1 DEF Left, OpenPlaces, InContinuation
  <1>3. m \in Nat /\ Left \in SUBSET (0 .. m) /\ Cardinality(Left) \in Nat
    BY LeftIsFinite
  <1> HIDE DEF m
  <1>4. \A k \in Left : Cardinality({ q \in Left : q <= k }) = 1 => k = p
    BY <1>2, <1>3, FirstRank
  <1>5. Len(Upcoming(AheadDepth)) \in Nat /\ Len(Upcoming(AheadDepth)) # 0
    BY <1>2, UpcomingIsSequence
  <1>6. 1 \in 1 .. Cardinality(Left) /\ 1 \in 1 .. Lesser(AheadDepth, Cardinality(Left))
    <2>1. Cardinality(Left) # 0
      BY <1>2, LeftIsFinite, FS_EmptySet
    <2> QED
      BY <1>3, <2>1, AheadAssumption, SMT DEF Lesser
  <1>7. Ranked(Left, 1) = p
    BY <1>4, <1>6, RankedIsLeft
  <1>8. Upcoming(AheadDepth)[1] = CurrentBlock
    BY <1>1, <1>6, <1>7, UpcomingIsScheduled DEF BlocksAhead
  <1>9. Upcoming(AheadDepth) \in Seq(0 .. BlockCount(options) - 1)
    <2> DEFINE U == Upcoming(AheadDepth)
               blocks == 0 .. BlockCount(options) - 1
    <2>1. U \in [1 .. Len(U) -> blocks] /\ Len(U) \in Nat
      BY UpcomingIsSequence
    <2> HIDE DEF U, blocks
    <2>2. U \in Seq(blocks)
      BY <2>1
    <2> QED
      BY <2>2 DEF U, blocks
  <1> QED
    BY <1>5, <1>8, <1>9

\* A block that a continuation runs over was not foretold.
LEMMA SkippingKeepsLeft ==
    ASSUME Invariant, SkipBlock
    PROVE  Left' = Left
  <1> DEFINE p == regionCursor * BlocksPerRegion(options) + regionBlockNext
  <1>1. /\ UNCHANGED <<options, cycle, regionCursor, continuationStart, continuationEnd>>
        /\ regionBlockNext' = regionBlockNext + 1
        /\ ~ RegionDone /\ InContinuation(CurrentBlock)
    BY DEF SkipBlock, regionVars, continuationVars
  <1>2. /\ PlacedBlock(options, cycle, p) = CurrentBlock
        /\ \A q : q \in PlacesFrom(options, cycle, regionCursor, regionBlockNext + 1)
                    <=> q \in PlacesFrom(options, cycle, regionCursor, regionBlockNext) /\ q # p
    BY <1>1, WalkIsAtFirstPlace
  <1> HIDE DEF p
  <1>3. OpenPlaces(options, cycle, regionCursor, regionBlockNext + 1, continuationStart, continuationEnd)
          = OpenPlaces(options, cycle, regionCursor, regionBlockNext, continuationStart, continuationEnd)
    BY <1>1, <1>2 DEF OpenPlaces, InContinuation
  <1> QED
    BY <1>1, <1>3 DEF Left

\* A region that is done leaves as many places as entering the next one.
LEMMA EnteringKeepsLeft ==
    ASSUME Invariant, EnterRegion
    PROVE  Left' = Left
  <1> DEFINE b == BlocksPerRegion(options)
             all == RegionsForShard(options)
             n == regionCursor
             j == regionBlockNext
  <1>1. /\ UNCHANGED <<options, cycle, continuationStart, continuationEnd>>
        /\ regionCursor' = n + 1 /\ regionBlockNext' = 0
        /\ j >= regionBlocks /\ n # all
    BY DEF EnterRegion, RegionDone, continuationVars
  <1>2. /\ options \in ValidOptions /\ cycle \in Nat /\ b \in Nat \ {0} /\ all \in Nat
        /\ n \in 0 .. all /\ n \in Nat /\ n + 1 \in Nat /\ j \in Nat /\ 0 \in Nat
    BY OpenedPool, SMT DEF Invariant
  <1>3. n > 0 => regionBlocks = RegionLength(options, ShardRegion(options, cycle, n - 1))
    BY DEF Invariant, OnSchedule
  <1>4. ASSUME NEW q \in PlacesFrom(options, cycle, n, j)
        PROVE  q \in PlacesFrom(options, cycle, n + 1, 0)
    <2>1. PICK m \in Greater(1, n) .. all :
            /\ m \in Nat /\ m >= 1 /\ m >= n
            /\ ShardRegion(options, cycle, m - 1) \in 0 .. RegionCount(options) - 1
            /\ \E k \in 0 .. RegionLength(options, ShardRegion(options, cycle, m - 1)) - 1 :
                 k \in 0 .. b - 1 /\ q = m * b + k /\ (m = n => j <= k)
      BY <1>2, PlaceInWalk
    <2>2. PICK k \in 0 .. RegionLength(options, ShardRegion(options, cycle, m - 1)) - 1 :
            k \in 0 .. b - 1 /\ q = m * b + k /\ (m = n => j <= k)
      BY <2>1
    <2>3. m # n
      <3> SUFFICES ASSUME m = n PROVE FALSE
        OBVIOUS
      <3>1. regionBlocks = RegionLength(options, ShardRegion(options, cycle, m - 1))
        BY <1>2, <1>3, <2>1, SMT
      <3>2. RegionLength(options, ShardRegion(options, cycle, m - 1)) \in 1 .. b
        BY <1>2, <2>1, RegionLiesInFile
      <3>3. k < regionBlocks /\ j <= k /\ k \in Int
        BY <1>2, <2>2, <3>1, <3>2, SMT
      <3> QED
        BY <1>1, <1>2, <3>1, <3>2, <3>3, SMT
    <2>4. m \in Greater(1, n + 1) .. all
      BY <1>2, <2>1, <2>3, SMT DEF Greater
    <2>5. 0 <= k
      BY <2>2, SMT
    <2> QED
      BY <1>2, <2>2, <2>4, <2>5, PlaceOfWalk
  <1>5. ASSUME NEW q \in PlacesFrom(options, cycle, n + 1, 0)
        PROVE  q \in PlacesFrom(options, cycle, n, j)
    <2>1. PICK m \in Greater(1, n + 1) .. all :
            /\ m \in Nat /\ m >= 1 /\ m >= n + 1
            /\ \E k \in 0 .. RegionLength(options, ShardRegion(options, cycle, m - 1)) - 1 :
                 q = m * b + k
      BY <1>2, PlaceInWalk
    <2>2. PICK k \in 0 .. RegionLength(options, ShardRegion(options, cycle, m - 1)) - 1 :
            q = m * b + k
      BY <2>1
    <2>3. m \in Greater(1, n) .. all /\ m # n
      BY <1>2, <2>1, SMT DEF Greater
    <2> QED
      BY <1>2, <2>2, <2>3, PlaceOfWalk
  <1>6. PlacesFrom(options, cycle, n + 1, 0) = PlacesFrom(options, cycle, n, j)
    BY <1>4, <1>5
  <1>7. OpenPlaces(options, cycle, n + 1, 0, continuationStart, continuationEnd) = Left
    BY <1>6 DEF OpenPlaces, Left
  <1> QED
    BY <1>1, <1>7 DEF Left

\* What a step of the walk may do to what is foretold.
ForetoldStep ==
    /\ pc = "walk" /\ pc' = "load" =>
           Upcoming(AheadDepth) # <<>> /\ block' = Head(Upcoming(AheadDepth))
    /\ pc = "walk" /\ pc' = "walk" /\ cycle' = cycle =>
           Upcoming(AheadDepth)' = Upcoming(AheadDepth)

\* Steps of the walk take the first block foretold, or pass what was not.
LEMMA StepsAreForetold ==
    ASSUME Invariant, Invariant', AheadNext
    PROVE  ForetoldStep
  <1>1. CASE WalkTake
    <2>1. pc' = "load" /\ ~ RegionDone /\ ~ InContinuation(CurrentBlock) /\ block' = CurrentBlock
      BY <1>1 DEF WalkTake, TakeBlock
    <2> QED
      BY <2>1, CurrentIsForetold DEF ForetoldStep
  <1>2. CASE WalkOn
    <2>1. pc' = "walk" /\ UNCHANGED <<options, cycle>>
      BY <1>2 DEF WalkOn, SkipBlock, EnterRegion
    <2>2. Left' = Left
      BY <1>2, SkippingKeepsLeft, EnteringKeepsLeft DEF WalkOn
    <2>3. Upcoming(AheadDepth) = BlocksAhead(options, cycle, Left)
      BY UpcomingIsScheduled
    <2>4. Invariant' => (Upcoming(AheadDepth) = BlocksAhead(options, cycle, Left))'
      BY UpcomingIsScheduled, PTL
    <2>5. BlocksAhead(options, cycle, Left)' = BlocksAhead(options, cycle, Left)
      BY <2>1, <2>2 DEF BlocksAhead, Ranked
    <2> QED
      BY <2>1, <2>3, <2>4, <2>5 DEF ForetoldStep
  <1>3. CASE WalkNextCycle
    <2>1. pc' = "walk" /\ cycle' = cycle + 1
      BY <1>3 DEF WalkNextCycle, NextCycle, StartCycle
    <2>2. cycle' # cycle
      BY <2>1, SMT DEF Invariant, CursorTypeOK
    <2> QED
      BY <2>1, <2>2 DEF ForetoldStep
  <1>4. CASE WalkEnds
    BY <1>4 DEF WalkEnds, Fails, ForetoldStep
  <1>5. ASSUME NEW slot \in Slots, KernelReads(slot)
        PROVE  ForetoldStep
    <2>1. UNCHANGED cursorVars /\ pc' = pc
      BY <1>5 DEF KernelReads, callVars
    <2> QED
      BY <2>1, UpcomingStays DEF ForetoldStep
  <1>6. CASE ~ (WalkTake \/ WalkOn \/ WalkNextCycle \/ WalkEnds \/ \E slot \in Slots : KernelReads(slot))
    <2>1. pc # "walk"
      <3>1. CASE \E slot \in Slots : Adopt(slot) \/ AdoptFails(slot) \/ Refuse(slot)
        BY <3>1 DEF Adopt, AdoptFails, Adopts, Refuse, Found
      <3>2. CASE \/ \E b \in Batches : EnterNextBatch(b) \/ ServeRest(b) \/ FillElsewhere(b)
                 \/ EnterNext \/ CallRefused \/ ServeNext \/ ServeBatch \/ Reset \/ ResetFails \/ Close
        BY <3>2 DEF EnterNextBatch, ServeRest, FillElsewhere, EnterNext, CallRefused, ServeNext,
           ServeBatch, Reset, ResetFails, Close, Calls
      <3>3. CASE SettleStale \/ IssueDone \/ IssueFound \/ Issue \/ Load \/ LoadFails \/ NoLineStarts
                   \/ LinesStart \/ LineContinues \/ LineFails
        BY <3>3 DEF SettleStale, IssueDone, IssueFound, Issue, Load, LoadFails, LoadsInto, NoLineStarts,
           LinesStart, LineContinues, LinesEnd, LineFails
      <3> QED
        BY <1>6, <3>1, <3>2, <3>3 DEF AheadNext
    <2> QED
      BY <2>1 DEF ForetoldStep
  <1> QED
    BY <1>1, <1>2, <1>3, <1>4, <1>5, <1>6

\* The blocks that NextBatch starts reads of are those the walk comes to, in its
\* order, for any layout of the file, seed and shard: until the cycle ends the
\* walk loads the first one foretold, and nothing foretold changes before.
THEOREM WalkTakesForetold == AheadSpec => WalkIsForetold
  <1>1. AheadInvariant /\ AheadInvariant' /\ [AheadNext]_aheadVars => [ForetoldStep]_aheadVars
    BY StepsAreForetold DEF AheadInvariant
  <1>2. [ForetoldStep]_aheadVars =>
          [/\ pc = "walk" /\ pc' = "load" =>
                  Upcoming(AheadDepth) # <<>> /\ block' = Head(Upcoming(AheadDepth))
           /\ pc = "walk" /\ pc' = "walk" /\ cycle' = cycle =>
                  Upcoming(AheadDepth)' = Upcoming(AheadDepth)]_aheadVars
    BY DEF ForetoldStep
  <1> QED
    BY <1>1, <1>2, AheadInvariantInitially, AheadInvariantIsKept, PTL DEF AheadSpec, WalkIsForetold
=============================================================================

------------------------ MODULE RetainedMemoryProofs ------------------------
(***************************************************************************)
(* What Open accepts, and the storage a pool retains, for every platform,  *)
(* every options and file Open is called with, any number of batches and   *)
(* whatever storage they bring: buffers hold what they are asked to hold   *)
(* and Stats keeps its own bound.                                          *)
(***************************************************************************)
EXTENDS RetainedMemory, PoolLayoutProofs

\* What later code relies on of the pool Open returned.
Sound(p, o) ==
    /\ o \in ValidOptions
    /\ BlocksPerRegion(o) * o.blockBytes <= Int64Max
    /\ BlocksPerRegion(o) > 0
    /\ BufferBytes(o.blockBytes + o.maxLineBytes + 3) <= p.intMax
    /\ o.blockBytes + o.maxLineBytes + 3 <= p.offsetMax

-----------------------------------------------------------------------------
(* Storage. *)

LEMMA SizesAreNumbers ==
    ASSUME NEW o \in ValidOptions
    PROVE  /\ o.blockBytes \in Nat \ {0}
           /\ o.maxLineBytes \in Nat \ {0}
           /\ o.regionBytes \in Nat \ {0}
           /\ o.fileSize \in Nat
           /\ o.fileSize < WordSize
  BY WordAssumption, SMT DEF ValidOptions, Words

\* No buffer is needed above what Open has checked.
LEMMA LimitFacts ==
    ASSUME NEW o \in ValidOptions
    PROVE  /\ BufferLimit(o) \in Nat
           /\ BufferLimit(o) >= 3
           /\ BufferLimit(o) <= o.blockBytes + o.maxLineBytes + 3
           /\ BufferLimit(o) <= o.fileSize + 3
           /\ MaxOffsets(o) \in 1 .. o.blockBytes + 1
  BY SizesAreNumbers, SMT DEF BufferLimit, MaxOffsets, Lesser

LEMMA BufferBytesGrow ==
    ASSUME NEW a \in Nat, NEW b \in Nat, a <= b
    PROVE  /\ BufferBytes(a) \in Nat /\ BufferBytes(b) \in Nat
           /\ a <= BufferBytes(a)
           /\ BufferBytes(a) <= BufferBytes(b)
           /\ BufferBytes(0) = 0
  BY StorageAssumption, SMT DEF BufferBytes

\* An int has room for a buffer and the two bytes resized adds.
LEMMA RoomForTerminator ==
    ASSUME NEW p \in Platforms, NEW o, Sound(p, o)
    PROVE  /\ BufferLimit(o) + 2 <= p.intMax
           /\ BufferLimit(o) <= p.offsetMax
           /\ p.intMax \in Nat /\ p.offsetMax \in Nat
  <1>1. /\ p.intMax \in Nat /\ p.offsetMax \in Nat
        /\ AlignedBytes < p.intMax
        /\ PageBytes >= 3 /\ PageBytes \in Nat /\ AlignedBytes \in Nat
    BY PlatformAssumption, StorageAssumption, OpeningAssumption, WordAssumption, SMT DEF Words
  <1> DEFINE longest == o.blockBytes + o.maxLineBytes + 3
  <1>2. /\ BufferLimit(o) \in Nat /\ BufferLimit(o) <= longest /\ longest \in Nat
    BY LimitFacts, SizesAreNumbers, SMT DEF Sound
  <1>3. BufferBytes(longest) <= p.intMax /\ longest <= p.offsetMax
    BY DEF Sound
  <1> HIDE DEF longest
  <1>4. longest + 2 <= p.intMax
    BY <1>1, <1>2, <1>3, SMT DEF BufferBytes
  <1> QED
    BY <1>1, <1>2, <1>3, <1>4, SMT

LEMMA AsIntFacts ==
    ASSUME NEW p \in Platforms, NEW value \in Int
    PROVE  /\ AsInt(p, value) \in Int
           /\ value \in 0 .. p.intMax => AsInt(p, value) = value
  <1>1. p.intMax \in Nat
    BY PlatformAssumption, OpeningAssumption, WordAssumption, SMT DEF Words
  <1> DEFINE words == 2 * (p.intMax + 1)
  <1>2. words \in Nat \ {0} /\ value + p.intMax + 1 \in Int
    BY <1>1, SMT
  <1>3. (value + p.intMax + 1) % words \in 0 .. words - 1
    BY <1>2, DivisionFacts
  <1> DEFINE wrapped == (value + p.intMax + 1) % words
  <1>4. wrapped \in Int
    BY <1>2, <1>3, SMT
  <1> HIDE DEF wrapped
  <1>5. AsInt(p, value) = IF value \in -(p.intMax + 1) .. p.intMax
                          THEN value ELSE wrapped - (p.intMax + 1)
    BY DEF AsInt, wrapped
  <1> QED
    BY <1>1, <1>4, <1>5, SMT

\* How far a block looks ahead of itself.
LEMMA LookaheadFacts ==
    ASSUME NEW o \in ValidOptions
    PROVE  /\ LookaheadBytes(o) \in Nat
           /\ LookaheadBytes(o) <= o.maxLineBytes + 2
           /\ LookaheadBytes(o) <= o.blockBytes
  <1>1. o.blockBytes \in Nat \ {0} /\ o.maxLineBytes \in Nat /\ o.blockBytes \in Int
    BY SizesAreNumbers, SMT
  <1>2. TailReadBytes \in Nat /\ LookaheadDivisor \in Nat \ {0}
    BY ReadAssumption
  <1> DEFINE q == o.blockBytes \div LookaheadDivisor
             r == o.blockBytes % LookaheadDivisor
  <1>3. q \in Int /\ r \in 0 .. LookaheadDivisor - 1 /\ o.blockBytes = LookaheadDivisor * q + r
    BY <1>1, <1>2, DivisionFacts
  <1> HIDE DEF q, r
  <1>4. q \in Nat
    BY <1>1, <1>2, <1>3, SMT
  <1>5. q <= o.blockBytes
    BY <1>1, <1>2, <1>3, <1>4, SMT
  <1>6. LookaheadBytes(o) = Lesser(Lesser(TailReadBytes, o.maxLineBytes + 2), q)
    BY DEF LookaheadBytes, q
  <1> QED
    BY <1>1, <1>2, <1>4, <1>5, <1>6, SMT DEF Lesser

\* resized returns a buffer that holds what is asked for, if any buffer of the
\* pool could, and never one above bufferLimit: whatever wraps around on the
\* way, the last test of resized catches it.
LEMMA ResizedHolds ==
    ASSUME NEW p \in Platforms, NEW o, Sound(p, o),
           NEW cap \in Nat, cap <= BufferLimit(o),
           NEW asks \in Nat, asks <= BufferLimit(o)
    PROVE  /\ Resized(p, o, cap, asks) \in Nat
           /\ asks <= Resized(p, o, cap, asks)
           /\ Resized(p, o, cap, asks) <= BufferLimit(o)
  <1>1. CASE cap >= asks
    BY <1>1, SMT DEF Resized
  <1>2. CASE ~ (cap >= asks)
    <2> DEFINE maximum  == BufferLimit(o)
               base     == Lesser(AsInt(p, o.blockBytes + 2), maximum)
               tail     == Greater(0, cap - base)
               doubled  == Greater(AsInt(p, 2 * tail), TailReadBytes)
               nextTail == IF doubled < tail \/ doubled > maximum - base
                           THEN maximum - base ELSE doubled
               first    == IF o.fileSize > o.blockBytes
                           THEN Lesser(maximum, AsInt(p, o.blockBytes + 2 + LookaheadBytes(o)))
                           ELSE 0
               more     == IF cap = 0 THEN first ELSE AsInt(p, base + nextTail)
               capacity == Greater(AsInt(p, asks + 2), more)
    <2>1. o \in ValidOptions /\ maximum \in Nat /\ maximum + 2 <= p.intMax
      BY LimitFacts, RoomForTerminator DEF Sound
    <2>2. o.blockBytes \in Nat /\ o.fileSize \in Nat /\ LookaheadBytes(o) \in Nat
          /\ TailReadBytes \in Nat /\ p.intMax \in Nat
      BY <2>1, SizesAreNumbers, LookaheadFacts, ReadAssumption, RoomForTerminator
    <2>3. base \in Int
      BY <2>1, <2>2, AsIntFacts, SMT DEF Lesser
    <2>4. tail \in Nat
      BY <2>3, SMT DEF Greater
    <2>5. doubled \in Int
      BY <2>2, <2>4, AsIntFacts, SMT DEF Greater
    <2>6. nextTail \in Int
      BY <2>1, <2>3, <2>4, <2>5, SMT
    <2>7. first \in Int
      BY <2>1, <2>2, AsIntFacts, SMT DEF Lesser
    <2>8. more \in Int
      BY <2>3, <2>6, <2>7, AsIntFacts, SMT
    <2>9. AsInt(p, asks + 2) = asks + 2
      BY <2>1, <2>2, AsIntFacts, SMT
    <2>10. Resized(p, o, cap, asks) =
              IF capacity > maximum \/ capacity < cap THEN maximum ELSE capacity
      BY <1>2 DEF Resized, GrownCapacity
    <2> HIDE DEF maximum, more
    <2>11. capacity \in Int /\ asks <= capacity
      BY <2>8, <2>9, SMT DEF Greater
    <2>12. asks <= maximum
      BY DEF maximum
    <2> HIDE DEF capacity
    <2> QED
      BY <2>1, <2>10, <2>11, <2>12, SMT DEF maximum
  <1> QED
    BY <1>1, <1>2

LEMMA OffsetsGrow ==
    ASSUME NEW maximum \in Nat \ {0}, NEW cap \in 0 .. maximum
    PROVE  GrownOffsets(maximum, cap) \in cap .. maximum
  <1> DEFINE share == maximum \div OffsetsShare
  <1>1. share \in Int
    BY StorageAssumption, DivisionFacts
  <1>2. GrownOffsets(maximum, cap) =
           IF cap >= maximum THEN cap
           ELSE IF cap = 0 THEN Lesser(maximum, Greater(FirstOffsets, share))
           ELSE LET doubled == Greater(2 * cap, FirstOffsets)
                IN  IF doubled >= maximum - 1 THEN maximum ELSE doubled
    BY DEF GrownOffsets
  <1> HIDE DEF share
  <1> QED
    BY <1>1, <1>2, StorageAssumption, SMT DEF Lesser, Greater

-----------------------------------------------------------------------------
(* What is read. *)

\* The read of a block ends within the file and fits in a buffer, and so does
\* the block with a terminator of two bytes.
LEMMA ReadFacts ==
    ASSUME NEW o \in ValidOptions, NEW b \in 0 .. BlockCount(o) - 1,
           NEW read, read = BlockReadRange(o, b, 0).readBytes,
           NEW end, end = BlockReadRange(o, b, 0).ownershipEnd
    PROVE  /\ b * o.blockBytes \in Nat
           /\ read \in Nat /\ read >= 2 /\ read <= BufferLimit(o)
           /\ b * o.blockBytes - 1 + read <= o.fileSize
           /\ end \in Nat /\ end <= o.blockBytes + 1
           /\ end + 2 <= BufferLimit(o)
           /\ read - 1 <= o.blockBytes + LookaheadBytes(o)
  <1> DEFINE start     == b * o.blockBytes
             base      == Lesser(o.blockBytes, o.fileSize - start)
             remaining == o.fileSize - start - base
             beyond    == Lesser(LookaheadBytes(o), remaining)
  <1>1. o.blockBytes \in Nat \ {0} /\ o.maxLineBytes \in Nat /\ o.fileSize \in Nat
    BY SizesAreNumbers
  <1>2. BlockCount(o) \in Nat /\ b \in Nat
    BY LayoutFacts, SMT
  <1>3. start < o.fileSize
    BY <1>1, CeilingQuotientCovers, SMT DEF BlockCount
  <1>4. start \in Nat
    BY <1>1, <1>2, ProductOrder, SMT
  <1>5. read = 1 + base + beyond /\ end = 1 + base
    BY SMT DEF BlockReadRange
  <1>6. LookaheadBytes(o) \in Nat /\ LookaheadBytes(o) <= o.maxLineBytes + 2
    BY LookaheadFacts
  <1> HIDE DEF start
  <1>7. /\ base \in Nat \ {0} /\ base <= o.blockBytes /\ base <= o.fileSize
        /\ remaining \in Nat /\ start + base + remaining = o.fileSize
    BY <1>1, <1>3, <1>4, SMT DEF Lesser
  <1> HIDE DEF base, remaining
  <1>8. beyond \in Nat /\ beyond <= LookaheadBytes(o) /\ beyond <= remaining
    BY <1>6, <1>7, SMT DEF Lesser
  <1> HIDE DEF beyond
  <1> QED
    BY <1>1, <1>4, <1>5, <1>6, <1>7, <1>8, SMT DEF BufferLimit, Lesser, start

\* Whole pages that cover a length cover no more than any whole pages do.
LEMMA PagesCover ==
    ASSUME NEW len \in Nat, NEW pages \in Nat, len <= pages * PageBytes
    PROVE  /\ PageCeiling(len) \in Nat
           /\ len <= PageCeiling(len)
           /\ PageCeiling(len) <= pages * PageBytes
  <1> DEFINE count == CeilingQuotient(len, PageBytes)
  <1>1. PageBytes \in Nat \ {0}
    BY StorageAssumption
  <1>2. /\ count \in 0 .. len
        /\ \A k \in 0 .. count - 1 : k * PageBytes < len
        /\ len <= count * PageBytes
    BY <1>1, CeilingQuotientCovers
  <1>3. PageCeiling(len) = count * PageBytes
    BY DEF PageCeiling
  <1> HIDE DEF count
  <1>4. count \in Nat
    BY <1>2, SMT
  <1>5. count <= pages
    <2>1. SUFFICES ASSUME pages < count
                   PROVE  FALSE
      BY <1>4, SMT
    <2>2. pages * PageBytes < len
      BY <1>2, <1>4, <2>1, SMT
    <2> QED
      BY <1>1, <2>2, ProductOrder, SMT
  <1>6. PageBytes * count <= PageBytes * pages /\ PageBytes * count \in Nat
    BY <1>1, <1>4, <1>5, ProductOrder
  <1> QED
    BY <1>1, <1>2, <1>3, <1>4, <1>6, SMT

\* A direct read asks for whole pages, which fit in a buffer all the same.
LEMMA DirectReadFits ==
    ASSUME NEW o \in ValidOptions, DirectAllowed(o),
           NEW read \in Nat, read >= 2, read - 1 <= o.blockBytes + LookaheadBytes(o)
    PROVE  /\ 1 + PageCeiling(read - 1) \in Nat
           /\ read <= 1 + PageCeiling(read - 1)
           /\ 1 + PageCeiling(read - 1) <= BufferLimit(o)
  <1> DEFINE q == o.blockBytes \div PageBytes
  <1>1. /\ o.blockBytes \in Nat \ {0} /\ o.maxLineBytes \in Nat /\ o.fileSize \in Nat
        /\ o.blockBytes \in Int
    BY SizesAreNumbers, SMT
  <1>2. PageBytes \in Nat \ {0}
    BY StorageAssumption
  <1>3. q \in Int /\ o.blockBytes = PageBytes * q + (o.blockBytes % PageBytes)
    BY <1>1, <1>2, DivisionFacts
  <1>4. /\ o.blockBytes % PageBytes = 0 /\ LookaheadBytes(o) = PageBytes
        /\ o.fileSize >= 4 * o.blockBytes
    BY DEF DirectAllowed
  <1>5. LookaheadBytes(o) <= o.maxLineBytes + 2 /\ LookaheadBytes(o) <= o.blockBytes
    BY LookaheadFacts
  <1> HIDE DEF q
  <1>6. o.blockBytes = PageBytes * q
    BY <1>3, <1>4, <1>2, SMT
  <1>7. q + 1 \in Nat
    BY <1>1, <1>2, <1>3, <1>6, SMT
  <1>8. (q + 1) * PageBytes = o.blockBytes + PageBytes
    BY <1>2, <1>3, <1>6, SMT
  <1>9. read - 1 \in Nat /\ read - 1 <= (q + 1) * PageBytes
    BY <1>4, <1>8, SMT
  <1>10. /\ PageCeiling(read - 1) \in Nat
         /\ read - 1 <= PageCeiling(read - 1)
         /\ PageCeiling(read - 1) <= (q + 1) * PageBytes
    BY <1>7, <1>9, PagesCover
  <1> QED
    BY <1>1, <1>2, <1>4, <1>5, <1>8, <1>10, SMT DEF BufferLimit, Lesser

-----------------------------------------------------------------------------
(* Open. *)

LEMMA AskedFacts ==
    ASSUME NEW p \in Platforms, NEW r \in Requests, ~ Refuses(p, r.options, r.file)
    PROVE  LET a == r.options
           IN  /\ a \in AskedOptions
               /\ r.file.size \in Words
               /\ a.mode \in {"ModeSequential", "ModeShuffled"}
               /\ AskedBlock(a) \in Nat \ {0} /\ AskedBlock(a) <= Int64Max
               /\ AskedLine(a) \in Nat \ {0} /\ AskedLine(a) <= Int64Max
               /\ AskedRegion(a) \in Nat \ {0} /\ AskedRegion(a) <= Int64Max
               /\ AskedShards(a) \in Nat \ {0} /\ AskedShards(a) <= Int64Max
               /\ a.shardIndex \in 0 .. AskedShards(a) - 1
               /\ Int64Max \in Nat /\ Int64Max < WordSize
  <1> DEFINE a == r.options
  <1>1. a \in AskedOptions /\ r.file \in AskedFiles
    BY MemoryAssumption
  <1>2. /\ Int64Max \in Nat \ {0} /\ Int64Max < WordSize
        /\ DefaultSequentialBufferBytes \in Nat \ {0} /\ DefaultSequentialBufferBytes <= Int64Max
        /\ DefaultBlockBytes \in Nat \ {0} /\ DefaultBlockBytes <= Int64Max
        /\ DefaultMaxLineBytes \in Nat \ {0} /\ DefaultMaxLineBytes <= Int64Max
        /\ DefaultRegionBytes \in Nat \ {0} /\ DefaultRegionBytes <= Int64Max
    BY OpeningAssumption, WordAssumption, SMT DEF Words
  <1>3. p.intMax \in Nat /\ p.intMax <= Int64Max
    BY <1>2, PlatformAssumption, SMT
  <1>4. ~ FileRefused(a, r.file) /\ ~ ShardsRefused(a) /\ ~ SizesRefused(p, a)
    BY DEF Refuses
  <1>5. AskedBlock(a) \in Nat \ {0} /\ AskedLine(a) \in Nat \ {0}
    BY <1>1, <1>2, SMT DEF AskedOptions, AskedBlock, AskedLine, PositiveOrDefault
  <1>6. AskedBlock(a) <= Int64Max /\ AskedLine(a) <= Int64Max
    <2>1. /\ ~ (AskedLine(a) > p.intMax - 2)
          /\ ~ (AskedBlock(a) > p.intMax - AskedLine(a) - 3)
      BY <1>4, Zenon DEF SizesRefused
    <2> QED
      BY <1>2, <1>3, <1>5, <2>1, SMT
  <1>7. AskedRegion(a) \in Nat \ {0} /\ AskedRegion(a) <= Int64Max
    BY <1>1, <1>2, <1>5, <1>6, SMT DEF AskedOptions, AskedRegion, PositiveOrDefault, Greater
  <1>8. AskedShards(a) \in Nat \ {0} /\ AskedShards(a) <= Int64Max
    BY <1>1, <1>2, SMT DEF AskedOptions, AskedShards, Greater
  <1>9. a.shardIndex \in 0 .. AskedShards(a) - 1
    BY <1>1, <1>4, <1>8, SMT DEF AskedOptions, ShardsRefused
  <1>10. r.file.size \in Words
    BY <1>1, <1>2, WordAssumption, SMT DEF AskedFiles, Words
  <1>11. a.mode \in {"ModeSequential", "ModeShuffled"}
    BY <1>4 DEF FileRefused
  <1> QED
    BY <1>1, <1>2, <1>5, <1>6, <1>7, <1>8, <1>9, <1>10, <1>11

\* Open returns pools the other modules may assume, and on whose sizes no later
\* arithmetic overflows.
LEMMA OpenedIsSound ==
    ASSUME NEW p \in Platforms, NEW r \in Requests, ~ Refuses(p, r.options, r.file),
           NEW o \in OpenedPools(r.options, r.file)
    PROVE  Sound(p, o)
  <1> DEFINE a == r.options
  <1>1. /\ a \in AskedOptions
        /\ r.file.size \in Words
        /\ a.mode \in {"ModeSequential", "ModeShuffled"}
        /\ AskedBlock(a) \in Nat \ {0} /\ AskedBlock(a) <= Int64Max
        /\ AskedLine(a) \in Nat \ {0} /\ AskedLine(a) <= Int64Max
        /\ AskedRegion(a) \in Nat \ {0} /\ AskedRegion(a) <= Int64Max
        /\ AskedShards(a) \in Nat \ {0} /\ AskedShards(a) <= Int64Max
        /\ a.shardIndex \in 0 .. AskedShards(a) - 1
        /\ Int64Max \in Nat /\ Int64Max < WordSize
    BY AskedFacts
  <1>2. PICK seed \in IF a.mode = "ModeSequential" THEN {0}
                       ELSE IF a.seed # 0 THEN {a.seed} ELSE Words \ {0} :
           o = [mode |-> a.mode, reuse |-> a.reuse, seed |-> seed, fileSize |-> r.file.size,
                blockBytes |-> AskedBlock(a), regionBytes |-> AskedRegion(a),
                maxLineBytes |-> AskedLine(a),
                shardCount |-> AskedShards(a), shardIndex |-> a.shardIndex]
    BY DEF OpenedPools
  <1>3. ~ ShardsRefused(a) /\ ~ SizesRefused(p, a) /\ ~ RegionRefused(a)
    BY DEF Refuses
  <1>4. seed \in Words /\ (a.mode = "ModeSequential" <=> seed = 0)
    <2>1. a.seed \in Words /\ 0 \in Words
      BY <1>1, WordAssumption, SMT DEF AskedOptions, Words
    <2> QED
      BY <1>2, <2>1
  <1>5. AskedRegion(a) >= AskedBlock(a)
    BY <1>1, <1>3, SMT DEF RegionRefused
  <1>6. a.mode = "ModeSequential" =>
           /\ AskedShards(a) = 1
           /\ AskedRegion(a) = Greater(DefaultRegionBytes, AskedBlock(a))
    BY <1>3 DEF ShardsRefused, AskedRegion
  <1>7. a.reuse \in BOOLEAN /\ (a.reuse => AskedShards(a) = 1)
    BY <1>1, <1>3, SMT DEF AskedOptions, ShardsRefused
  <1>8. o \in ValidOptions
    <2>1. /\ AskedBlock(a) \in Words \ {0} /\ AskedLine(a) \in Words \ {0}
          /\ AskedRegion(a) \in Words \ {0} /\ AskedShards(a) \in Words \ {0}
          /\ a.shardIndex \in Words /\ a.shardIndex < AskedShards(a)
      BY <1>1, WordAssumption, SMT DEF Words
    <2> QED
      BY <1>1, <1>2, <1>4, <1>5, <1>6, <1>7, <2>1 DEF ValidOptions
  <1>9. /\ BlocksPerRegion(o) \in Nat \ {0}
        /\ BlocksPerRegion(o) * o.blockBytes <= Int64Max
    <2> DEFINE q == AskedRegion(a) \div AskedBlock(a)
    <2>1. BlocksPerRegion(o) = q /\ o.blockBytes = AskedBlock(a)
      BY <1>2 DEF BlocksPerRegion
    <2>2. q \in Nat \ {0}
      BY <1>8, <2>1, LayoutFacts
    <2>3. AskedRegion(a) \in Int
      BY <1>1, SMT
    <2>4. /\ AskedRegion(a) % AskedBlock(a) \in 0 .. AskedBlock(a) - 1
          /\ AskedRegion(a) = AskedBlock(a) * q + (AskedRegion(a) % AskedBlock(a))
      BY <1>1, <2>3, DivisionFacts
    <2> DEFINE rest == AskedRegion(a) % AskedBlock(a)
    <2> HIDE DEF q, rest
    <2>5. q * AskedBlock(a) <= AskedRegion(a)
      BY <1>1, <2>2, <2>4, SMT DEF rest
    <2> QED
      BY <1>1, <2>1, <2>2, <2>5, SMT
  <1>10. /\ BufferBytes(o.blockBytes + o.maxLineBytes + 3) <= p.intMax
         /\ o.blockBytes + o.maxLineBytes + 3 <= p.offsetMax
    <2> DEFINE longest == AskedBlock(a) + AskedLine(a) + 3
    <2>1. o.blockBytes + o.maxLineBytes + 3 = longest
      BY <1>2
    <2>2. ~ (longest > p.offsetMax) /\ ~ (BufferBytes(longest) > p.intMax)
      BY <1>3 DEF SizesRefused
    <2>3. longest \in Nat /\ BufferBytes(longest) \in Nat
      BY <1>1, BufferBytesGrow, SMT
    <2>4. p.intMax \in Nat /\ p.offsetMax \in Nat
      BY <1>1, PlatformAssumption, SMT
    <2> HIDE DEF longest
    <2> QED
      BY <2>1, <2>2, <2>3, <2>4, SMT
  <1> QED
    BY <1>8, <1>9, <1>10, SMT DEF Sound

-----------------------------------------------------------------------------
(* The inductive invariant. *)

Numbers ==
    /\ platform \in Platforms
    /\ pc = "open" => asked \in Requests
    /\ into \in Batches \cup {NoBatch}
    /\ buffer \in Nat /\ length \in Nat /\ offsets \in Nat
    /\ limit \in Nat /\ block \in Nat
    /\ slots \in [Slots -> [capacity : Nat, length : Nat]]
    /\ batches \in [Batches -> [buffer : Nat, offsets : Nat]]
    /\ ahead \in {"none", "buffered", "direct"}
    /\ prefetching => ahead # "none"

Empty == [slot \in Slots |-> [capacity |-> 0, length |-> 0]]

\* Nothing is retained before the pool is open.
Unopened ==
    pc \in {"open", "refused"} =>
        /\ options = NoPool
        /\ buffer = 0 /\ length = 0 /\ offsets = 0
        /\ slots = Empty

\* No storage is larger than any the pool could need.
Bounded ==
    pc \notin {"open", "refused"} =>
        /\ Sound(platform, options)
        /\ buffer <= BufferLimit(options)
        /\ length <= buffer
        /\ offsets <= MaxOffsets(options)
        /\ \A slot \in Slots :
              /\ slots[slot].capacity <= BufferLimit(options)
              /\ slots[slot].length <= slots[slot].capacity
              /\ ahead = "none" => slots[slot].capacity = 0
        /\ ahead = "direct" => DirectAllowed(options)

Filling == {"ahead", "load", "index", "extend", "serve"}

\* What is true at the steps of a call: a batch being filled brings nothing too
\* large, and the block loaded ends within the file.
Stepwise ==
    /\ pc \in {"idle", "ahead", "load", "closed"} => length = 0
    /\ pc = "ahead" => into # NoBatch /\ ahead # "none"
    /\ pc \in Filling /\ into # NoBatch =>
          /\ batches[into].buffer <= BufferLimit(options)
          /\ batches[into].offsets <= MaxOffsets(options)
    /\ pc = "index" =>
          /\ block \in 0 .. BlockCount(options) - 1
          /\ length = BlockReadRange(options, block, 0).readBytes
    /\ pc = "extend" =>
          /\ block * options.blockBytes \in Nat
          /\ block * options.blockBytes - 1 + length <= options.fileSize
          /\ limit <= options.blockBytes + options.maxLineBytes + 2

Kept == Numbers /\ Unopened /\ Bounded /\ Stepwise

\* At first nothing is retained.
LEMMA KeptInitially == Init => Kept
  BY SMT DEF Init, Kept, Numbers, Unopened, Bounded, Stepwise, Filling, Empty, NoPool

LEMMA KeptByStutter ==
    ASSUME Kept, UNCHANGED memoryVars
    PROVE  Kept'
  BY DEF Kept, Numbers, Unopened, Bounded, Stepwise, Filling, Empty,
         memoryVars, openVars, blockVars

LEMMA OpenKeeps ==
    ASSUME Kept, Open
    PROVE  Kept'
  <1>1. CASE Refuses(platform, asked.options, asked.file)
    BY <1>1 DEF Open, Kept, Numbers, Unopened, Bounded, Stepwise, Filling, Empty, blockVars
  <1>2. CASE ~ Refuses(platform, asked.options, asked.file)
    <2>1. /\ options' \in OpenedPools(asked.options, asked.file)
          /\ ahead' \in {"none", "buffered", "direct"}
          /\ ahead' = "direct" => DirectAllowed(options')
          /\ prefetching' = (ahead' # "none")
          /\ pc' = "idle" /\ pc = "open"
          /\ UNCHANGED <<platform, buffer, length, offsets, slots, batches, blockVars>>
      BY <1>2 DEF Open
    <2>2. Sound(platform, options')
      BY <1>2, <2>1, OpenedIsSound DEF Kept, Numbers
    <2>3. Sound(platform, options)'
      BY <2>1, <2>2
    <2>4. /\ BufferLimit(options') \in Nat
          /\ MaxOffsets(options') \in Nat
      BY <2>2, LimitFacts, SizesAreNumbers, SMT DEF Sound
    <2>5. Numbers'
      BY <2>1 DEF Kept, Numbers, blockVars
    <2>6. Unopened' /\ Stepwise'
      BY <2>1 DEF Kept, Unopened, Stepwise, Filling
    <2>7. Bounded'
      BY <2>1, <2>3, <2>4, SMT DEF Kept, Unopened, Bounded, Empty
    <2> QED
      BY <2>5, <2>6, <2>7 DEF Kept
  <1> QED
    BY <1>1, <1>2

\* What every step of an open pool starts from.
LEMMA OpenFacts ==
    ASSUME Kept, pc \notin {"open", "refused"}
    PROVE  /\ platform \in Platforms
           /\ Sound(platform, options)
           /\ options \in ValidOptions
           /\ BufferLimit(options) \in Nat
           /\ MaxOffsets(options) \in Nat \ {0}
           /\ options.blockBytes \in Nat \ {0}
           /\ options.maxLineBytes \in Nat
           /\ options.fileSize \in Nat
           /\ BlockCount(options) \in Nat
           /\ buffer \in Nat /\ buffer <= BufferLimit(options)
  <1>1. platform \in Platforms /\ Sound(platform, options) /\ buffer <= BufferLimit(options)
        /\ buffer \in Nat
    BY DEF Kept, Numbers, Bounded
  <1>2. options \in ValidOptions
    BY <1>1 DEF Sound
  <1> QED
    BY <1>1, <1>2, LimitFacts, SizesAreNumbers, LayoutFacts, SMT

\* Entering, leaving and closing move no storage except what a batch must give up.
LEMMA CallsKeep ==
    ASSUME Kept,
           \/ EnterNext \/ Close \/ AheadDone \/ Loaded
           \/ \E b \in Batches : EnterNextBatch(b) \/ FillElsewhere(b)
           \/ \E slot \in Slots : Settle(slot)
    PROVE  Kept'
  <1>1. CASE EnterNext
    BY <1>1, SMT DEF EnterNext, Kept, Numbers, Unopened, Bounded, Stepwise, Filling, openVars
  <1>2. CASE Close
    <2>1. Numbers' /\ Unopened' /\ Stepwise'
      BY <1>2, SMT DEF Close, Kept, Numbers, Unopened, Stepwise, Filling, blockVars
    <2>2. Bounded'
      BY <1>2, OpenFacts, SMT DEF Close, Kept, Numbers, Bounded, Stepwise, blockVars
    <2> QED
      BY <2>1, <2>2 DEF Kept
  <1>3. CASE AheadDone
    BY <1>3, SMT DEF AheadDone, Kept, Numbers, Unopened, Bounded, Stepwise, Filling, openVars,
                     blockVars
  <1>4. CASE Loaded
    <2>1. pc \in {"load", "index", "extend"} /\ pc' \in {"serve", "load", "idle"}
      BY <1>4 DEF Loaded
    <2>2. Numbers' /\ Unopened'
      BY <1>4, <2>1 DEF Loaded, Kept, Numbers, Unopened, openVars
    <2>3. Bounded'
      BY <1>4, <2>1, SMT DEF Loaded, Kept, Numbers, Bounded, openVars
    <2>4. Stepwise'
      BY <1>4, <2>1 DEF Loaded, Kept, Stepwise, Filling, openVars
    <2> QED
      BY <2>2, <2>3, <2>4 DEF Kept
  <1>5. ASSUME NEW b \in Batches, EnterNextBatch(b)
        PROVE  Kept'
    <2>1. /\ Fitting(batches[b]).buffer \in Nat
          /\ Fitting(batches[b]).offsets \in Nat
          /\ Fitting(batches[b]).buffer <= BufferLimit(options)
          /\ Fitting(batches[b]).offsets <= MaxOffsets(options)
      BY <1>5, OpenFacts, SMT DEF EnterNextBatch, Kept, Numbers, Fitting
    <2>2. Fitting(batches[b]) \in [buffer : Nat, offsets : Nat]
      BY <2>1 DEF Fitting
    <2>3. Numbers'
      BY <1>5, <2>2 DEF EnterNextBatch, Kept, Numbers, openVars
    <2>4. Unopened' /\ Bounded'
      BY <1>5 DEF EnterNextBatch, Kept, Unopened, Bounded, openVars
    <2>5. batches'[b] = Fitting(batches[b])
      BY <1>5 DEF EnterNextBatch, Kept, Numbers
    <2>6. pc' = "ahead" => ahead' # "none" /\ into' # NoBatch
      BY <1>5, MemoryAssumption DEF EnterNextBatch, Kept, Numbers, openVars
    <2>7. Stepwise'
      BY <1>5, <2>1, <2>5, <2>6 DEF EnterNextBatch, Kept, Stepwise, Filling, openVars
    <2> QED
      BY <2>3, <2>4, <2>7 DEF Kept
  <1>6. ASSUME NEW b \in Batches, FillElsewhere(b)
        PROVE  Kept'
    <2>1. batches' \in [Batches -> [buffer : Nat, offsets : Nat]]
      BY <1>6, MemoryAssumption DEF FillElsewhere, Kept, Numbers
    <2> QED
      BY <1>6, <2>1 DEF FillElsewhere, Kept, Numbers, Unopened, Bounded, Stepwise, Filling,
                        openVars, blockVars
  <1>7. ASSUME NEW slot \in Slots, Settle(slot)
        PROVE  Kept'
    <2>1. Numbers'
      BY <1>7, SMT DEF Settle, Kept, Numbers, openVars, blockVars
    <2>2. Unopened' /\ Stepwise'
      BY <1>7 DEF Settle, Kept, Unopened, Stepwise, Filling, openVars, blockVars
    <2>3. Bounded'
      BY <1>7, SMT DEF Settle, Kept, Numbers, Bounded, openVars
    <2> QED
      BY <2>1, <2>2, <2>3 DEF Kept
  <1> QED
    BY <1>1, <1>2, <1>3, <1>4, <1>5, <1>6, <1>7

\* However a read ahead is made, it fits in a buffer and covers the block.
LEMMA AheadFits ==
    ASSUME Kept, pc \notin {"open", "refused"}, NEW b \in Block
    PROVE  /\ b \in 0 .. BlockCount(options) - 1
           /\ ReadBytesOf(b) \in Nat /\ ReadBytesOf(b) >= 2
           /\ ReadBytesOf(b) = BlockReadRange(options, b, 0).readBytes
           /\ ReadBytesOf(b) <= AheadBytes(b)
           /\ AheadBytes(b) \in Nat /\ AheadBytes(b) <= BufferLimit(options)
  <1>1. options \in ValidOptions /\ BufferLimit(options) \in Nat
    BY OpenFacts
  <1>2. b \in 0 .. BlockCount(options) - 1
    BY DEF Block
  <1> DEFINE read == ReadBytesOf(b)
  <1>3. read = BlockReadRange(options, b, 0).readBytes
    BY DEF ReadBytesOf
  <1>4. /\ read \in Nat /\ read >= 2 /\ read <= BufferLimit(options)
        /\ read - 1 <= options.blockBytes + LookaheadBytes(options)
    BY <1>1, <1>2, <1>3, ReadFacts
  <1> HIDE DEF read
  <1>5. CASE ahead = "direct"
    <2>1. DirectAllowed(options)
      BY <1>5 DEF Kept, Bounded
    <2>2. AheadBytes(b) = 1 + PageCeiling(read - 1)
      BY <1>5 DEF AheadBytes, read
    <2> QED
      BY <1>1, <1>2, <1>3, <1>4, <2>1, <2>2, DirectReadFits DEF read
  <1>6. CASE ahead # "direct"
    <2>1. AheadBytes(b) = read
      BY <1>6 DEF AheadBytes, read
    <2> QED
      BY <1>1, <1>2, <1>3, <1>4, <2>1, SMT DEF read
  <1> QED
    BY <1>5, <1>6

\* Whatever storage a read ahead is given, the slot keeps enough for it.
LEMMA IssueKeeps ==
    ASSUME Kept, NEW b \in Block, Issue(b)
    PROVE  Kept'
  <1>1. /\ pc = "ahead" /\ Idle # {} /\ UNCHANGED <<openVars, length, offsets, blockVars>>
        /\ into \in Batches /\ length = 0 /\ ahead # "none"
    BY DEF Issue, Kept, Numbers, Stepwise
  <1> DEFINE slot == CHOOSE s \in Idle : \A t \in Idle : s <= t
  <1>2. slot \in Slots
    <2>1. Idle \in SUBSET Nat /\ Idle \subseteq Slots
      BY SMT DEF Idle, Slots, AheadDepth
    <2>2. \E m \in Idle : \A x \in Idle : m <= x
      BY <1>1, <2>1, LeastElement
    <2> QED
      BY <2>1, <2>2
  <1> HIDE DEF slot
  <1> DEFINE Started(given, kept, asks) ==
                /\ Gives(slot, given)
                /\ slots' = [slots EXCEPT ![slot] =
                      [capacity |-> Resized(platform, options, kept, AheadBytes(b)),
                       length   |-> asks]]
                /\ \/ UNCHANGED <<prefetching, pc>>
                   \/ asks = 0 /\ prefetching' = FALSE /\ pc' = "load"
  <1>a. PICK given \in {slots[slot].capacity, batches[into].buffer, buffer} :
           \E kept \in {given} \cup (IF ahead = "direct" THEN {0} ELSE {}) :
              \E asks \in {AheadBytes(b), 0} : Started(given, kept, asks)
    BY DEF Issue, slot
  <1>b. PICK kept \in {given} \cup (IF ahead = "direct" THEN {0} ELSE {}) :
           \E asks \in {AheadBytes(b), 0} : Started(given, kept, asks)
    BY <1>a
  <1>3. PICK asks \in {AheadBytes(b), 0} : Started(given, kept, asks)
    BY <1>b
  <1>4. /\ platform \in Platforms /\ Sound(platform, options)
        /\ BufferLimit(options) \in Nat /\ MaxOffsets(options) \in Nat
        /\ buffer \in Nat /\ buffer <= BufferLimit(options)
    BY <1>1, OpenFacts, SMT
  <1>5. AheadBytes(b) \in Nat /\ AheadBytes(b) <= BufferLimit(options)
    BY <1>1, AheadFits
  <1>6. /\ slots[slot].capacity \in Nat /\ slots[slot].capacity <= BufferLimit(options)
        /\ batches[into].buffer \in Nat /\ batches[into].buffer <= BufferLimit(options)
    BY <1>1, <1>2 DEF Kept, Numbers, Bounded, Stepwise, Filling
  <1>7. kept \in Nat /\ kept <= BufferLimit(options)
    BY <1>a, <1>b, <1>4, <1>6, SMT
  <1> DEFINE grown == Resized(platform, options, kept, AheadBytes(b))
  <1>8. grown \in Nat /\ AheadBytes(b) <= grown /\ grown <= BufferLimit(options)
    BY <1>4, <1>5, <1>7, ResizedHolds
  <1>9. asks \in Nat /\ asks <= grown
    BY <1>3, <1>5, <1>8, SMT
  <1>10. slots' = [slots EXCEPT ![slot] = [capacity |-> grown, length |-> asks]]
    BY <1>3
  <1> HIDE DEF grown
  <1>11. /\ buffer' \in {0, buffer}
         /\ batches' \in {batches, [batches EXCEPT ![into].buffer = 0]}
    BY <1>3, Zenon DEF Gives
  <1>12. /\ batches' \in [Batches -> [buffer : Nat, offsets : Nat]]
         /\ batches'[into].buffer \in {0, batches[into].buffer}
         /\ batches'[into].offsets = batches[into].offsets
    BY <1>1, <1>11 DEF Kept, Numbers
  <1>13. pc' \in {"ahead", "load"} /\ (prefetching' => prefetching)
         /\ (pc' = "load" \/ pc' = pc)
    BY <1>1, <1>3
  <1>14. Numbers'
    BY <1>1, <1>2, <1>4, <1>8, <1>9, <1>10, <1>11, <1>12, <1>13
       DEF Kept, Numbers, openVars, blockVars
  <1>15. Unopened'
    BY <1>13 DEF Unopened
  <1>16. Bounded'
    <2>1. /\ buffer' <= BufferLimit(options) /\ length' <= buffer'
      BY <1>1, <1>4, <1>11, SMT
    <2>2. ASSUME NEW s \in Slots
          PROVE  /\ slots'[s].capacity <= BufferLimit(options)
                 /\ slots'[s].length <= slots'[s].capacity
      BY <1>1, <1>2, <1>8, <1>9, <1>10 DEF Kept, Numbers, Bounded
    <2> QED
      BY <1>1, <2>1, <2>2 DEF Kept, Bounded, openVars
  <1>17. Stepwise'
    <2>1. batches'[into].buffer <= BufferLimit(options)
      BY <1>4, <1>6, <1>12, SMT
    <2> QED
      BY <1>1, <1>12, <1>13, <2>1 DEF Kept, Stepwise, Filling, openVars, blockVars
  <1> QED
    BY <1>14, <1>15, <1>16, <1>17 DEF Kept

\* A block read now is put into a buffer grown for it.
LEMMA LoadKeeps ==
    ASSUME Kept, NEW b \in Block, LoadBlock(b)
    PROVE  Kept'
  <1>1. /\ pc = "load" /\ pc' = "index" /\ block' = b
        /\ buffer' = Resized(platform, options, buffer, ReadBytesOf(b))
        /\ length' = ReadBytesOf(b)
        /\ slots' \in {slots} \cup { [slots EXCEPT ![slot].length = 0] : slot \in Slots \ Idle }
        /\ UNCHANGED <<openVars, prefetching, offsets, batches, limit, into>>
    BY DEF LoadBlock, Resize
  <1>2. /\ platform \in Platforms /\ Sound(platform, options)
        /\ BufferLimit(options) \in Nat /\ BlockCount(options) \in Nat
        /\ buffer \in Nat /\ buffer <= BufferLimit(options)
    BY <1>1, OpenFacts
  <1>3. /\ b \in 0 .. BlockCount(options) - 1
        /\ ReadBytesOf(b) \in Nat /\ ReadBytesOf(b) <= BufferLimit(options)
        /\ ReadBytesOf(b) = BlockReadRange(options, b, 0).readBytes
    BY <1>1, <1>2, AheadFits, SMT
  <1>4. buffer' \in Nat /\ length' <= buffer' /\ buffer' <= BufferLimit(options)
    BY <1>1, <1>2, <1>3, ResizedHolds
  <1>5. /\ slots' \in [Slots -> [capacity : Nat, length : Nat]]
        /\ \A s \in Slots : /\ slots'[s].capacity = slots[s].capacity
                           /\ slots'[s].length \in {0, slots[s].length}
    BY <1>1 DEF Kept, Numbers
  <1>6. Numbers'
    BY <1>1, <1>2, <1>3, <1>4, <1>5, SMT DEF Kept, Numbers, openVars
  <1>7. Unopened' /\ Stepwise'
    BY <1>1, <1>3 DEF Kept, Unopened, Stepwise, Filling, openVars
  <1>8. \A s \in Slots : slots'[s].length <= slots'[s].capacity
    BY <1>1, <1>5, SMT DEF Kept, Numbers, Bounded
  <1>9. Bounded'
    BY <1>1, <1>4, <1>5, <1>8 DEF Kept, Bounded, openVars
  <1> QED
    BY <1>6, <1>7, <1>9 DEF Kept

\* The pool and a slot exchange their buffers.
LEMMA AdoptKeeps ==
    ASSUME Kept, NEW b \in Block, NEW slot \in Slots, AdoptBlock(b, slot)
    PROVE  Kept'
  <1>1. /\ pc = "load" /\ pc' = "index" /\ block' = b
        /\ slots[slot].length = AheadBytes(b)
        /\ buffer' = slots[slot].capacity /\ length' = ReadBytesOf(b)
        /\ slots' = [slots EXCEPT ![slot] = [capacity |-> buffer, length |-> 0]]
        /\ UNCHANGED <<openVars, prefetching, offsets, batches, limit, into>>
    BY DEF AdoptBlock
  <1>2. /\ BufferLimit(options) \in Nat /\ BlockCount(options) \in Nat
        /\ buffer \in Nat /\ buffer <= BufferLimit(options)
    BY <1>1, OpenFacts
  <1>3. /\ b \in 0 .. BlockCount(options) - 1
        /\ ReadBytesOf(b) \in Nat /\ ReadBytesOf(b) >= 2
        /\ ReadBytesOf(b) <= AheadBytes(b) /\ AheadBytes(b) \in Nat
        /\ ReadBytesOf(b) = BlockReadRange(options, b, 0).readBytes
    BY <1>1, AheadFits
  <1>4. /\ slots[slot].capacity \in Nat /\ slots[slot].capacity <= BufferLimit(options)
        /\ AheadBytes(b) <= slots[slot].capacity
        /\ ahead = "none" => slots[slot].capacity = 0
    BY <1>1 DEF Kept, Numbers, Bounded
  <1>5. ahead # "none" /\ length' <= buffer'
    BY <1>1, <1>3, <1>4, SMT
  <1>6. Numbers'
    BY <1>1, <1>2, <1>3, <1>4, SMT DEF Kept, Numbers, openVars
  <1>7. Unopened' /\ Stepwise'
    BY <1>1, <1>3 DEF Kept, Unopened, Stepwise, Filling, openVars
  <1>8. ASSUME NEW s \in Slots
        PROVE  /\ slots'[s].capacity <= BufferLimit(options)
               /\ slots'[s].length <= slots'[s].capacity
    BY <1>1, <1>2, SMT DEF Kept, Numbers, Bounded
  <1>9. Bounded'
    BY <1>1, <1>4, <1>5, <1>8 DEF Kept, Bounded, openVars
  <1> QED
    BY <1>6, <1>7, <1>9 DEF Kept

\* The offsets of a block's lines, and the line that runs into the next block.
LEMMA IndexKeeps ==
    ASSUME Kept, GrowOffsets \/ ContinueLine
    PROVE  Kept'
  <1>1. /\ pc = "index" /\ UNCHANGED <<openVars, prefetching, buffer, length, slots, batches,
                                        block, into>>
    BY DEF GrowOffsets, ContinueLine, blockVars
  <1>2. /\ options \in ValidOptions /\ MaxOffsets(options) \in Nat \ {0}
        /\ options.blockBytes \in Nat \ {0} /\ options.maxLineBytes \in Nat
    BY <1>1, OpenFacts
  <1>3. CASE GrowOffsets
    <2>1. offsets' = GrownOffsets(MaxOffsets(options), offsets) /\ pc' = pc /\ limit' = limit
      BY <1>3 DEF GrowOffsets, blockVars
    <2>2. offsets \in 0 .. MaxOffsets(options)
      BY <1>1, <1>2 DEF Kept, Numbers, Bounded
    <2>3. offsets' \in Nat /\ offsets' <= MaxOffsets(options)
      BY <1>2, <2>1, <2>2, OffsetsGrow, SMT
    <2>4. Numbers' /\ Unopened' /\ Stepwise'
      BY <1>1, <2>1, <2>3 DEF Kept, Numbers, Unopened, Stepwise, Filling, openVars
    <2>5. Bounded'
      BY <1>1, <2>1, <2>3 DEF Kept, Bounded, openVars
    <2> QED
      BY <2>4, <2>5 DEF Kept
  <1>4. CASE ContinueLine
    <2>1. PICK lineStart \in 1 .. OwnershipEnd - 1 :
             limit' = lineStart + options.maxLineBytes + 2
      BY <1>4 DEF ContinueLine
    <2>2. pc' = "extend" /\ offsets' = offsets
      BY <1>4 DEF ContinueLine
    <2>3. /\ block \in 0 .. BlockCount(options) - 1
          /\ length = BlockReadRange(options, block, 0).readBytes
      BY <1>1 DEF Kept, Stepwise
    <2>4. /\ block * options.blockBytes \in Nat
          /\ block * options.blockBytes - 1 + length <= options.fileSize
          /\ OwnershipEnd \in Nat /\ OwnershipEnd <= options.blockBytes + 1
      BY <1>2, <2>3, ReadFacts DEF OwnershipEnd
    <2>5. limit' \in Nat /\ limit' <= options.blockBytes + options.maxLineBytes + 2
      BY <1>2, <2>1, <2>4, SMT
    <2>6. Numbers' /\ Unopened'
      BY <1>1, <2>2, <2>5 DEF Kept, Numbers, Unopened, openVars
    <2>7. Stepwise'
      BY <1>1, <2>2, <2>4, <2>5 DEF Kept, Stepwise, Filling, openVars
    <2>8. Bounded'
      BY <1>1, <2>2 DEF Kept, Bounded, openVars
    <2> QED
      BY <2>6, <2>7, <2>8 DEF Kept
  <1> QED
    BY <1>3, <1>4

\* A buffer resized to a length no larger than bufferLimit.
LEMMA ResizeKeeps ==
    ASSUME Kept, pc \in {"index", "extend"}, NEW asks \in Nat, asks <= BufferLimit(options),
           Resize(asks), UNCHANGED <<openVars, prefetching, offsets, slots, batches, into>>,
           limit' \in Nat, block' \in Nat, pc' \in {"extend", "serve"}
    PROVE  Numbers' /\ Unopened' /\ Bounded' /\ length' = asks
  <1>1. buffer' = Resized(platform, options, buffer, asks) /\ length' = asks
    BY DEF Resize
  <1>2. /\ platform \in Platforms /\ Sound(platform, options)
        /\ buffer \in Nat /\ buffer <= BufferLimit(options)
    BY OpenFacts
  <1>3. buffer' \in Nat /\ length' <= buffer' /\ buffer' <= BufferLimit(options)
    BY <1>1, <1>2, ResizedHolds
  <1>4. Numbers' /\ Unopened'
    BY <1>1, <1>3 DEF Kept, Numbers, Unopened, openVars
  <1>5. Bounded'
    BY <1>1, <1>3 DEF Kept, Bounded, openVars
  <1> QED
    BY <1>1, <1>4, <1>5

\* The terminator of the last line fits behind a block and behind a line.
LEMMA TerminateKeeps ==
    ASSUME Kept, TerminateBlock \/ TerminateExtended
    PROVE  Kept'
  <1> DEFINE at == IF pc = "index" THEN OwnershipEnd ELSE length
  <1>1. pc \in {"index", "extend"} /\ Terminate(at)
    BY DEF TerminateBlock, TerminateExtended
  <1>2. /\ options \in ValidOptions /\ BufferLimit(options) \in Nat
        /\ options.blockBytes \in Nat /\ options.maxLineBytes \in Nat
        /\ options.fileSize \in Nat
    BY <1>1, OpenFacts
  <1>3. at \in Nat /\ at + 2 <= BufferLimit(options)
    <2>1. CASE pc = "index"
      <3>1. block \in 0 .. BlockCount(options) - 1
        BY <2>1 DEF Kept, Stepwise
      <3>2. OwnershipEnd \in Nat /\ OwnershipEnd + 2 <= BufferLimit(options)
        BY <1>2, <3>1, ReadFacts DEF OwnershipEnd
      <3> QED
        BY <2>1, <3>2
    <2>2. CASE pc = "extend"
      <3>1. /\ block * options.blockBytes \in Nat /\ length \in Nat /\ limit \in Nat
            /\ block * options.blockBytes - 1 + length <= options.fileSize
            /\ limit <= options.blockBytes + options.maxLineBytes + 2
        BY <2>2 DEF Kept, Numbers, Stepwise
      <3>2. length < limit
        BY <2>2 DEF TerminateBlock, TerminateExtended
      <3>3. length + 2 <= BufferLimit(options)
        BY <1>2, <3>1, <3>2, SMT DEF BufferLimit, Lesser
      <3> QED
        BY <2>2, <3>1, <3>3
    <2> QED
      BY <1>1, <2>1, <2>2
  <1> HIDE DEF at
  <1>4. PICK added \in {1, 2} : Resize(at + added)
    BY <1>1 DEF Terminate
  <1>5. /\ block' = 0 /\ limit' = 0 /\ pc' = "serve"
        /\ UNCHANGED <<openVars, prefetching, offsets, slots, batches, into>>
    BY <1>1 DEF Terminate
  <1>6. at + added \in Nat /\ at + added <= BufferLimit(options)
    BY <1>2, <1>3, SMT
  <1>7. Numbers' /\ Unopened' /\ Bounded'
    BY <1>1, <1>4, <1>5, <1>6, ResizeKeeps
  <1>8. Stepwise'
    BY <1>1, <1>5 DEF Kept, Stepwise, Filling, openVars
  <1> QED
    BY <1>7, <1>8 DEF Kept

\* A line is extended no further than its limit and the end of the file.
LEMMA ExtendKeeps ==
    ASSUME Kept, ExtendLine
    PROVE  Kept'
  <1> DEFINE start       == block * options.blockBytes
             absoluteEnd == start - 1 + length
             readBytes   == ExtendReadBytes(options, length, limit, absoluteEnd)
  <1>1. /\ pc = "extend" /\ length < limit /\ absoluteEnd < options.fileSize
        /\ Resize(length + readBytes) /\ pc' \in {"extend", "serve"}
        /\ UNCHANGED <<openVars, prefetching, offsets, slots, batches, blockVars>>
    BY DEF ExtendLine
  <1>2. /\ options \in ValidOptions /\ BufferLimit(options) \in Nat
        /\ options.blockBytes \in Nat /\ options.maxLineBytes \in Nat
        /\ options.fileSize \in Nat
    BY <1>1, OpenFacts
  <1>3. /\ start \in Nat /\ length \in Nat /\ limit \in Nat /\ block \in Nat
        /\ limit <= options.blockBytes + options.maxLineBytes + 2
    BY <1>1 DEF Kept, Numbers, Stepwise
  <1> HIDE DEF start
  <1>4. /\ readBytes \in Nat /\ length + readBytes <= limit
        /\ absoluteEnd + readBytes <= options.fileSize
    BY <1>1, <1>2, <1>3, ReadAssumption, SMT DEF ExtendReadBytes, Lesser, Greater
  <1> HIDE DEF readBytes
  <1>5. length + readBytes \in Nat /\ length + readBytes <= BufferLimit(options)
    BY <1>2, <1>3, <1>4, SMT DEF BufferLimit, Lesser
  <1>6. /\ limit' = limit /\ block' = block /\ into' = into
    BY <1>1 DEF blockVars
  <1>7. Numbers' /\ Unopened' /\ Bounded' /\ length' = length + readBytes
    BY <1>1, <1>3, <1>5, <1>6, ResizeKeeps
  <1>8. start - 1 + length' <= options.fileSize
    BY <1>2, <1>3, <1>4, <1>7, SMT
  <1>9. Stepwise'
    BY <1>1, <1>3, <1>6, <1>7, <1>8 DEF Kept, Stepwise, Filling, openVars, start
  <1> QED
    BY <1>7, <1>9 DEF Kept

\* The pool and the batch exchange their storage.
LEMMA ServeKeeps ==
    ASSUME Kept, Serve
    PROVE  Kept'
  <1>1. /\ pc = "serve" /\ pc' = "idle" /\ length' = 0 /\ limit' = 0 /\ block' = 0
        /\ into' = NoBatch /\ UNCHANGED <<openVars, prefetching, slots>>
    BY DEF Serve
  <1>2. Unopened' /\ Stepwise'
    BY <1>1 DEF Kept, Unopened, Stepwise, Filling
  <1>3. CASE into = NoBatch
    <2>1. UNCHANGED <<buffer, offsets, batches>>
      BY <1>3 DEF Serve
    <2> QED
      BY <1>1, <1>2, <2>1, SMT DEF Kept, Numbers, Bounded, openVars
  <1>4. CASE into # NoBatch
    <2>1. /\ buffer' = batches[into].buffer /\ offsets' = batches[into].offsets
          /\ batches' = [batches EXCEPT ![into] = [buffer |-> buffer, offsets |-> offsets]]
          /\ into \in Batches
      BY <1>4 DEF Serve, Kept, Numbers
    <2>2. /\ buffer' \in Nat /\ offsets' \in Nat
          /\ buffer' <= BufferLimit(options) /\ offsets' <= MaxOffsets(options)
      BY <1>1, <1>4, <2>1 DEF Kept, Numbers, Stepwise, Filling
    <2>3. Numbers'
      BY <1>1, <2>1, <2>2 DEF Kept, Numbers, openVars
    <2>4. Bounded'
      BY <1>1, <2>2, SMT DEF Kept, Bounded, openVars
    <2> QED
      BY <1>2, <2>3, <2>4 DEF Kept
  <1> QED
    BY <1>3, <1>4

\* Every step keeps the invariant.
LEMMA NextKeeps ==
    ASSUME Kept, [Next]_memoryVars
    PROVE  Kept'
  <1>1. CASE UNCHANGED memoryVars
    BY <1>1, KeptByStutter
  <1>2. CASE Open
    BY <1>2, OpenKeeps
  <1>3. CASE \/ EnterNext \/ Close \/ AheadDone \/ Loaded
             \/ \E b \in Batches : EnterNextBatch(b) \/ FillElsewhere(b)
             \/ \E slot \in Slots : Settle(slot)
    BY <1>3, CallsKeep
  <1>4. ASSUME NEW b \in Block, Issue(b) \/ LoadBlock(b)
        PROVE  Kept'
    BY <1>4, IssueKeeps, LoadKeeps
  <1>5. ASSUME NEW b \in Block, NEW slot \in Slots, AdoptBlock(b, slot)
        PROVE  Kept'
    BY <1>5, AdoptKeeps
  <1>6. CASE GrowOffsets \/ ContinueLine
    BY <1>6, IndexKeeps
  <1>7. CASE TerminateBlock \/ TerminateExtended
    BY <1>7, TerminateKeeps
  <1>8. CASE ExtendLine
    BY <1>8, ExtendKeeps
  <1>9. CASE Serve
    BY <1>9, ServeKeeps
  <1> QED
    BY <1>1, <1>2, <1>3, <1>4, <1>5, <1>6, <1>7, <1>8, <1>9 DEF Next

-----------------------------------------------------------------------------
(* The theorems. *)

LEMMA KeptAlways == Spec => []Kept
  <1>1. Init => Kept
    BY KeptInitially
  <1>2. Kept /\ [Next]_memoryVars => Kept'
    BY NextKeeps
  <1> QED
    BY <1>1, <1>2, PTL DEF Spec

\* Whatever Open is called with on whatever platform, the pool it returns is one
\* the other modules may assume, and none of the sizes that resized, Stats and
\* the walk later form from its options overflows (Open).
THEOREM OpenChecksEnough == Spec => []OpenedIsValid
  <1>1. Kept => OpenedIsValid
    BY DEF Kept, Unopened, Bounded, OpenedIsValid, Sound
  <1> QED
    BY <1>1, KeptAlways, PTL

\* resized always returns a buffer as long as asked, for blocks, lines that run
\* through blocks, added terminators and direct reads of whole pages, so that
\* slicing it cannot panic (resized, extendLineLocked, terminateLocked).
THEOREM LengthsFit == Spec => []BuffersHoldLengths
  <1>1. ASSUME Kept
        PROVE  BuffersHoldLengths
    <2>1. CASE pc \in {"open", "refused"}
      BY <1>1, <2>1, SMT DEF Kept, Unopened, BuffersHoldLengths, Empty
    <2>2. CASE pc \notin {"open", "refused"}
      <3>1. /\ BufferLimit(options) <= platform.offsetMax
            /\ platform.offsetMax \in Nat /\ BufferLimit(options) \in Nat
        BY <1>1, <2>2, OpenFacts, RoomForTerminator
      <3>2. /\ length \in Nat /\ buffer \in Nat /\ length <= buffer
            /\ buffer <= BufferLimit(options)
            /\ \A slot \in Slots : slots[slot].length <= slots[slot].capacity
        BY <1>1, <2>2 DEF Kept, Numbers, Bounded
      <3> QED
        BY <3>1, <3>2, SMT DEF BuffersHoldLengths
    <2> QED
      BY <2>1, <2>2
  <1> QED
    BY <1>1, KeptAlways, PTL

\* Stats.RetainedBytes never exceeds Stats.MaxRetainedBytes, however buffers move
\* between the pool, its reads ahead, its callers' batches and other pools (Stats,
\* nextBatchLocked, readAheadLocked, adoptLocked, resized, growOffsets).
THEOREM MemoryIsBounded == Spec => []RetainedWithinBound
  <1>1. ASSUME Kept
        PROVE  RetainedWithinBound
    <2>1. CASE pc \in {"open", "refused"}
      BY <1>1, <2>1 DEF Kept, Unopened, RetainedWithinBound
    <2>2. CASE pc \notin {"open", "refused"}
      <3> DEFINE longest == options.blockBytes + options.maxLineBytes + 3
                 each    == BufferBytes(longest)
      <3>1. /\ options \in ValidOptions /\ options.blockBytes \in Nat
            /\ options.maxLineBytes \in Nat
            /\ BufferLimit(options) \in Nat /\ BufferLimit(options) <= longest
            /\ MaxOffsets(options) \in Nat /\ MaxOffsets(options) <= options.blockBytes + 1
        BY <1>1, <2>2, OpenFacts, LimitFacts, SMT
      <3>2. /\ buffer \in Nat /\ buffer <= BufferLimit(options)
            /\ offsets \in Nat /\ offsets <= MaxOffsets(options)
            /\ \A slot \in Slots :
                  /\ slots[slot].capacity \in Nat
                  /\ slots[slot].capacity <= BufferLimit(options)
                  /\ ahead = "none" => slots[slot].capacity = 0
        BY <1>1, <2>2 DEF Kept, Numbers, Bounded
      <3>3. longest \in Nat
        BY <3>1, SMT
      <3> HIDE DEF longest
      <3>4. ASSUME NEW cap \in Nat, cap <= BufferLimit(options)
            PROVE  BufferBytes(cap) \in Nat /\ BufferBytes(cap) <= each
        <4>1. cap <= longest
          BY <3>1, <3>3, <3>4, SMT
        <4> QED
          BY <3>3, <3>4, <4>1, BufferBytesGrow
      <3>5. BufferBytes(0) = 0 /\ each \in Nat
        BY <3>3, BufferBytesGrow, SMT
      <3>6. BufferBytes(buffer) \in Nat /\ BufferBytes(buffer) <= each
        BY <3>2, <3>4
      <3>7. \A slot \in Slots :
               /\ BufferBytes(slots[slot].capacity) \in Nat
               /\ BufferBytes(slots[slot].capacity) <= each
               /\ ahead = "none" => BufferBytes(slots[slot].capacity) = 0
        BY <3>2, <3>4, <3>5
      <3>8. 1 \in Slots /\ 2 \in Slots /\ 3 \in Slots
        BY SMT DEF Slots, AheadDepth
      <3>9. /\ AheadRetained \in Nat
            /\ ahead = "none" => AheadRetained = 0
            /\ AheadRetained <= 3 * each
        <4> DEFINE first == BufferBytes(slots[1].capacity)
                   second == BufferBytes(slots[2].capacity)
                   third == BufferBytes(slots[3].capacity)
        <4>1. AheadRetained = first + second + third
          BY DEF AheadRetained
        <4>2. /\ first \in Nat /\ first <= each /\ (ahead = "none" => first = 0)
              /\ second \in Nat /\ second <= each /\ (ahead = "none" => second = 0)
              /\ third \in Nat /\ third <= each /\ (ahead = "none" => third = 0)
          BY <3>7, <3>8
        <4> HIDE DEF first, second, third, each
        <4> QED
          BY <3>5, <4>1, <4>2, SMT
      <3>10. MaxRetainedBytes = each * (IF ahead = "none" THEN 1 ELSE 4)
                                  + 4 * (options.blockBytes + 1)
        BY SMT DEF MaxRetainedBytes, AheadDepth, longest
      <3> HIDE DEF each
      <3>11. RetainedBytes <= MaxRetainedBytes
        BY <3>1, <3>2, <3>5, <3>6, <3>9, <3>10, SMT DEF RetainedBytes
      <3> QED
        BY <3>11 DEF RetainedWithinBound
    <2> QED
      BY <2>1, <2>2
  <1> QED
    BY <1>1, KeptAlways, PTL
=============================================================================

---------------------------- MODULE LinesProofs ----------------------------
(***************************************************************************)
(* The lines of one block, found and handed out.  Whatever the block       *)
(* holds, whichever backend looks for its lines and however often it runs  *)
(* out of room, the offsets are the ends of its lines, and nothing is      *)
(* written past the offsets' storage or makes that outgrow its bound.      *)
(*                                                                         *)
(* Batch.Next and Batch.Lines keep to the order of the pool, for blocks of *)
(* any number of lines, permuted or not.  The argument: in the order of a  *)
(* block each line follows from the one before by one Wrap, whatever the   *)
(* permutation; two of them make the step that Lines precomputes.          *)
(***************************************************************************)
EXTENDS LineIndex, BatchLines, PoolLayoutProofs

-----------------------------------------------------------------------------
(* Ends of lines, piece by piece. *)

\* There are no more line feeds than bytes.
LEMMA FeedsAreFew ==
    ASSUME NEW bytes, NEW from \in Nat, NEW to \in Nat, from <= to
    PROVE  /\ IsFiniteSet(LineFeeds(bytes, from, to))
           /\ Cardinality(LineFeeds(bytes, from, to)) \in 0 .. to - from
           /\ LineEnds(bytes, from, to) \in Seq(Nat)
           /\ Len(LineEnds(bytes, from, to)) = Cardinality(LineFeeds(bytes, from, to))
  <1> DEFINE feeds == LineFeeds(bytes, from, to)
  <1>1. feeds \in SUBSET (from .. to - 1)
    BY DEF LineFeeds
  <1>2. /\ IsFiniteSet(from .. to - 1)
        /\ Cardinality(from .. to - 1) = to - from
    <2>1. to - 1 \in Int /\ from \in Int
      BY SMT
    <2>2. /\ IsFiniteSet(from .. to - 1)
          /\ Cardinality(from .. to - 1) = IF from > to - 1 THEN 0 ELSE (to - 1) - from + 1
      BY <2>1, FS_Interval
    <2> QED
      BY <2>2, SMT
  <1>3. IsFiniteSet(feeds) /\ Cardinality(feeds) <= Cardinality(from .. to - 1)
    BY <1>1, <1>2, FS_Subset
  <1>4. Cardinality(feeds) \in Nat
    BY <1>3, FS_CardinalityType
  <1> HIDE DEF feeds
  <1>5. Cardinality(feeds) \in 0 .. to - from
    BY <1>2, <1>3, <1>4, SMT
  <1>6. LineEnds(bytes, from, to) \in Seq(Nat)
    BY LineEndsAreExact
  <1>7. Len(LineEnds(bytes, from, to)) = Cardinality(feeds)
    <2>1. DOMAIN LineEnds(bytes, from, to) = 1 .. Cardinality(feeds)
      BY DEF LineEnds, feeds
    <2> QED
      BY <1>4, <1>6, <2>1, LenProperties, SMT
  <1> QED
    BY <1>3, <1>5, <1>6, <1>7 DEF feeds

\* The end behind a line feed stands at that feed's rank.
LEMMA EndAtRank ==
    ASSUME NEW bytes, NEW from \in Nat, NEW to \in Nat, from <= to,
           NEW i \in LineFeeds(bytes, from, to),
           NEW k \in 1 .. Cardinality(LineFeeds(bytes, from, to)),
           Cardinality({ j \in LineFeeds(bytes, from, to) : j <= i }) = k
    PROVE  LineEnds(bytes, from, to)[k] = i + 1
  <1> DEFINE feeds == LineFeeds(bytes, from, to)
             rank(x) == Cardinality({ j \in feeds : j <= x })
             chosen == CHOOSE x \in feeds : rank(x) = k
  <1>1. feeds \in SUBSET (0 .. to)
    <2>1. feeds \in SUBSET (from .. to - 1)
      BY DEF LineFeeds
    <2>2. from .. to - 1 \subseteq 0 .. to
      BY SMT
    <2> HIDE DEF feeds
    <2> QED
      BY <2>1, <2>2
  <1>2. i \in feeds /\ rank(i) = k
    OBVIOUS
  <1>3. LineEnds(bytes, from, to)[k] = 1 + chosen
    BY DEF LineEnds
  <1> HIDE DEF feeds
  <1>4. chosen \in feeds /\ rank(chosen) = k
    BY <1>2
  <1>5. ASSUME NEW x \in feeds, NEW y \in feeds, x < y, rank(x) = k, rank(y) = k
        PROVE  FALSE
    <2>1. rank(x) < rank(y)
      BY <1>1, <1>5, RanksAscend
    <2> QED
      BY <1>5, <2>1, SMT
  <1> HIDE DEF chosen, rank
  <1>6. chosen = i
    <2>1. chosen \in Int /\ i \in Int
      BY <1>1, <1>2, <1>4, SMT
    <2>2. ~ (chosen < i) /\ ~ (i < chosen)
      BY <1>2, <1>4, <1>5
    <2> QED
      BY <2>1, <2>2, SMT
  <1>7. i \in Nat
    BY <1>1, <1>2, SMT
  <1> QED
    BY <1>3, <1>6, <1>7, SMT

LEMMA DisjointCount ==
    ASSUME NEW S, NEW T, IsFiniteSet(S), IsFiniteSet(T), S \cap T = {}
    PROVE  Cardinality(S \cup T) = Cardinality(S) + Cardinality(T)
  <1>1. Cardinality(S \cup T) = Cardinality(S) + Cardinality(T) - Cardinality(S \cap T)
    BY FS_Union
  <1>2. Cardinality(S \cap T) = 0
    BY FS_EmptySet
  <1>3. Cardinality(S) \in Nat /\ Cardinality(T) \in Nat
    BY FS_CardinalityType
  <1> DEFINE c == Cardinality(S \cup T)
             d == Cardinality(S \cap T)
  <1> HIDE DEF c, d
  <1>4. c = Cardinality(S) + Cardinality(T)
    <2>1. c = Cardinality(S) + Cardinality(T) - d /\ d = 0
      BY <1>1, <1>2 DEF c, d
    <2> QED
      BY <1>3, <2>1, SMT
  <1> QED
    BY <1>4 DEF c

\* The line ends of two adjoining pieces are those of the whole.
LEMMA EndsJoin ==
    ASSUME NEW bytes, NEW from \in Nat, NEW mid \in Nat, NEW to \in Nat, from <= mid, mid <= to
    PROVE  LineEnds(bytes, from, mid) \o LineEnds(bytes, mid, to) = LineEnds(bytes, from, to)
  <1> DEFINE A == LineFeeds(bytes, from, mid)
             B == LineFeeds(bytes, mid, to)
             C == LineFeeds(bytes, from, to)
             front == LineEnds(bytes, from, mid)
             rear == LineEnds(bytes, mid, to)
             whole == LineEnds(bytes, from, to)
             a == Cardinality(A)
             b == Cardinality(B)
  <1>1. /\ IsFiniteSet(A) /\ a \in Nat /\ front \in Seq(Nat) /\ Len(front) = a
        /\ IsFiniteSet(B) /\ b \in Nat /\ rear \in Seq(Nat) /\ Len(rear) = b
        /\ IsFiniteSet(C) /\ Cardinality(C) \in Nat /\ whole \in Seq(Nat) /\ Len(whole) = Cardinality(C)
    <2>1. from <= to
      BY SMT
    <2>2. /\ IsFiniteSet(A) /\ a \in 0 .. mid - from /\ front \in Seq(Nat) /\ Len(front) = a
          /\ IsFiniteSet(B) /\ b \in 0 .. to - mid /\ rear \in Seq(Nat) /\ Len(rear) = b
          /\ IsFiniteSet(C) /\ Cardinality(C) \in 0 .. to - from
          /\ whole \in Seq(Nat) /\ Len(whole) = Cardinality(C)
      BY <2>1, FeedsAreFew
    <2>3. \A n, m \in Int : n \in 0 .. m => n \in Nat
      BY SMT
    <2> HIDE DEF A, B, C, front, rear, whole, a, b
    <2> QED
      BY <2>2, SMT
  <1>2. /\ \A x \in A : x \in from .. mid - 1 /\ x \in Nat
        /\ \A x \in B : x \in mid .. to - 1 /\ x \in Nat
        /\ C = A \cup B
        /\ A \cap B = {}
        /\ A \in SUBSET (0 .. mid) /\ B \in SUBSET (0 .. to)
    <2>1. /\ A = { x \in from .. mid - 1 : At(bytes, x) = LF }
          /\ B = { x \in mid .. to - 1 : At(bytes, x) = LF }
          /\ C = { x \in from .. to - 1 : At(bytes, x) = LF }
      BY DEF LineFeeds
    <2>2. /\ \A x : x \in from .. to - 1 <=> x \in from .. mid - 1 \/ x \in mid .. to - 1
          /\ \A x : ~ (x \in from .. mid - 1 /\ x \in mid .. to - 1)
          /\ \A x \in from .. mid - 1 : x \in Nat /\ x \in 0 .. mid
          /\ \A x \in mid .. to - 1 : x \in Nat /\ x \in 0 .. to
      BY SMT
    <2> HIDE DEF A, B, C
    <2> QED
      BY <2>1, <2>2
  <1>3. Cardinality(C) = a + b
    <2>1. A \cap B = {} /\ C = A \cup B
      BY <1>2
    <2> HIDE DEF A, B, C
    <2> QED
      BY <1>1, <2>1, DisjointCount DEF a, b
  <1>4. ASSUME NEW k \in 1 .. a
        PROVE  front[k] = whole[k]
    <2>1. PICK i \in A : Cardinality({ j \in A : j <= i }) = k
      <3>1. mid \in Nat /\ A \in SUBSET (0 .. mid) /\ k \in 1 .. Cardinality(A)
        BY <1>2
      <3> HIDE DEF A
      <3> QED
        BY <3>1, RankIsMet
    <2>2. front[k] = i + 1
      BY <2>1, EndAtRank
    <2>3. { j \in C : j <= i } = { j \in A : j <= i }
      <3>1. \A j \in B : ~ (j <= i)
        <4>1. i \in from .. mid - 1
          BY <1>2
        <4>2. \A j \in B : j \in mid .. to - 1
          BY <1>2
        <4> HIDE DEF A, B
        <4> QED
          BY <4>1, <4>2, SMT
      <3>2. C = A \cup B
        BY <1>2
      <3> HIDE DEF A, B, C
      <3> QED
        BY <3>1, <3>2
    <2>4. i \in C /\ k \in 1 .. Cardinality(C) /\ from <= to
      <3>1. i \in C
        BY <1>2, <2>1
      <3> HIDE DEF A, B, C
      <3> QED
        BY <1>1, <1>3, <3>1, SMT
    <2>5. whole[k] = i + 1
      BY <2>1, <2>3, <2>4, EndAtRank
    <2> QED
      BY <2>2, <2>5
  <1>5. ASSUME NEW k \in 1 .. b
        PROVE  rear[k] = whole[a + k]
    <2>1. PICK i \in B : Cardinality({ j \in B : j <= i }) = k
      <3>1. to \in Nat /\ B \in SUBSET (0 .. to) /\ k \in 1 .. Cardinality(B)
        BY <1>2
      <3> HIDE DEF B
      <3> QED
        BY <3>1, RankIsMet
    <2>2. rear[k] = i + 1
      BY <2>1, EndAtRank
    <2> DEFINE upto == { j \in B : j <= i }
    <2>3. { j \in C : j <= i } = A \cup upto /\ A \cap upto = {}
      <3>1. \A j \in A : j <= i
        <4>1. i \in mid .. to - 1
          BY <1>2
        <4>2. \A j \in A : j \in from .. mid - 1
          BY <1>2
        <4> HIDE DEF A, B
        <4> QED
          BY <4>1, <4>2, SMT
      <3>2. C = A \cup B /\ A \cap B = {}
        BY <1>2
      <3> HIDE DEF A, B, C
      <3> QED
        BY <3>1, <3>2
    <2>4. Cardinality(A \cup upto) = a + k
      <3>1. IsFiniteSet(upto)
        <4>1. upto \in SUBSET B
          OBVIOUS
        <4> HIDE DEF B, upto
        <4> QED
          BY <1>1, <4>1, FS_Subset
      <3>2. Cardinality(upto) = k
        BY <2>1
      <3> HIDE DEF A, B, C, upto
      <3>3. Cardinality(A \cup upto) = Cardinality(A) + Cardinality(upto)
        BY <1>1, <2>3, <3>1, DisjointCount
      <3> QED
        BY <3>2, <3>3 DEF a
    <2>5. i \in C /\ a + k \in 1 .. Cardinality(C) /\ from <= to
      <3>1. i \in C
        BY <1>2, <2>1
      <3> HIDE DEF A, B, C, upto
      <3> QED
        BY <1>1, <1>3, <3>1, SMT DEF a, b
    <2>6. Cardinality({ j \in C : j <= i }) = a + k
      BY <2>3, <2>4
    <2>7. whole[a + k] = i + 1
      BY <2>5, <2>6, EndAtRank
    <2> QED
      BY <2>2, <2>7
  <1> HIDE DEF A, B, C, front, rear, whole, a, b
  <1>6. /\ front \o rear \in Seq(Nat)
        /\ Len(front \o rear) = Len(front) + Len(rear)
        /\ \A i \in 1 .. Len(front) + Len(rear) :
             (front \o rear)[i] = IF i <= Len(front) THEN front[i] ELSE rear[i - Len(front)]
    BY <1>1, ConcatProperties
  <1>7. Len(front \o rear) = Len(whole)
    BY <1>1, <1>3, <1>6, SMT
  <1>8. ASSUME NEW i \in 1 .. a + b
        PROVE  (front \o rear)[i] = whole[i]
    <2>1. CASE i <= a
      <3>1. i \in 1 .. a
        BY <1>1, <2>1, SMT
      <3>2. front[i] = whole[i]
        BY <1>4, <3>1
      <3> QED
        BY <1>1, <1>6, <2>1, <3>2
    <2>2. CASE ~ (i <= a)
      <3>1. i - a \in 1 .. b /\ a + (i - a) = i
        BY <1>1, <2>2, SMT
      <3>2. rear[i - a] = whole[i]
        BY <1>5, <3>1
      <3> QED
        BY <1>1, <1>6, <2>2, <3>2
    <2> QED
      BY <2>1, <2>2
  <1>9. \A i \in 1 .. Len(whole) : (front \o rear)[i] = whole[i]
    BY <1>1, <1>3, <1>8
  <1>10. front \o rear = whole
    BY <1>1, <1>6, <1>7, <1>9, SeqEqual
  <1> QED
    BY <1>10 DEF front, rear, whole

\* Bytes without a line feed, and bytes with one.
LEMMA NoEnd ==
    ASSUME NEW bytes, NEW from \in Nat, NEW to \in Nat, LineFeeds(bytes, from, to) = {}
    PROVE  LineEnds(bytes, from, to) = <<>>
  <1> QED
    BY FS_EmptySet, SMT DEF LineEnds

LEMMA OneEnd ==
    ASSUME NEW bytes, NEW from \in Nat, NEW feed \in Nat, from <= feed,
           LineFeeds(bytes, from, feed + 1) = {feed}
    PROVE  LineEnds(bytes, from, feed + 1) = <<feed + 1>>
  <1> DEFINE list == LineEnds(bytes, from, feed + 1)
  <1>1. Cardinality(LineFeeds(bytes, from, feed + 1)) = 1
    BY FS_Singleton
  <1>2. from <= feed + 1 /\ feed + 1 \in Nat
    BY SMT
  <1>3. list \in Seq(Nat) /\ Len(list) = 1
    BY <1>1, <1>2, FeedsAreFew
  <1>4. list[1] = feed + 1
    <2>1. feed \in LineFeeds(bytes, from, feed + 1) /\ 1 \in 1 .. Cardinality(LineFeeds(bytes, from, feed + 1))
      BY <1>1, SMT
    <2>2. { j \in LineFeeds(bytes, from, feed + 1) : j <= feed } = {feed}
      <3>1. feed <= feed
        BY SMT
      <3> QED
        BY <3>1
    <2>3. Cardinality({ j \in LineFeeds(bytes, from, feed + 1) : j <= feed }) = 1
      BY <2>2, FS_Singleton
    <2> QED
      BY <1>2, <2>1, <2>3, EndAtRank
  <1> HIDE DEF list
  <1>5. list = <<feed + 1>>
    BY <1>3, <1>4, SMT
  <1> QED
    BY <1>5 DEF list

-----------------------------------------------------------------------------
(* The carriage returns of a piece, and what a hint says of them. *)

\* A hint that misses no line ending in CR LF, ...
Notices(bytes, from, to, hint) ==
    \A i \in from .. to - 1 : At(bytes, i) = LF /\ At(bytes, i - 1) = CR => hint

\* ... one that misses no CR at all, ...
SeesAll(bytes, from, to, hint) == \A i \in from .. to - 1 : At(bytes, i) = CR => hint

\* ... and one that has a CR to show.
HasReason(bytes, from, to, hint) == hint => \E i \in from .. to - 1 : At(bytes, i) = CR

LEMMA HintIsAllowed ==
    ASSUME NEW bytes, NEW from \in Nat, NEW to \in Nat, NEW hint \in BOOLEAN,
           Notices(bytes, from, to, hint), HasReason(bytes, from, to, hint)
    PROVE  hint \in ReturnHints(bytes, from, to)
  <1> DEFINE returned == \E i \in LineFeeds(bytes, from, to) : At(bytes, i - 1) = CR
             some == \E i \in from .. to - 1 : At(bytes, i) = CR
  <1>1. returned => hint
    BY DEF Notices, LineFeeds
  <1>2. hint => some
    BY DEF HasReason
  <1>3. ReturnHints(bytes, from, to) = IF returned THEN {TRUE} ELSE IF some THEN BOOLEAN ELSE {FALSE}
    BY DEF ReturnHints
  <1> HIDE DEF returned, some
  <1>4. hint = TRUE \/ hint = FALSE
    OBVIOUS
  <1> QED
    BY <1>1, <1>2, <1>3, <1>4

-----------------------------------------------------------------------------
(* The room. *)

\* growOffsets grows what is below the bound, never above it.
LEMMA OffsetsGrowWithinBound ==
    ASSUME NEW bound \in Nat, NEW cap \in 0 .. bound
    PROVE  /\ GrownOffsets(bound, cap) \in cap .. bound
           /\ cap < bound => GrownOffsets(bound, cap) > cap
  <1>1. bound \div OffsetsShare \in Int
    BY StorageAssumption, DivisionFacts, SMT
  <1> DEFINE share == bound \div OffsetsShare
  <1>2. FirstOffsets \in Nat \ {0} /\ share \in Int
    BY <1>1, StorageAssumption
  <1>3. GrownOffsets(bound, cap) =
            IF cap >= bound THEN cap
            ELSE IF cap = 0 THEN Lesser(bound, Greater(FirstOffsets, share))
            ELSE IF Greater(2 * cap, FirstOffsets) >= bound - 1 THEN bound
                 ELSE Greater(2 * cap, FirstOffsets)
    BY DEF GrownOffsets
  <1> HIDE DEF share
  <1> QED
    BY <1>2, <1>3, SMT DEF Lesser, Greater

\* MaxGap looks at every gap.
LEMMA MaxGapExact ==
    ASSUME offsets \in Seq(Nat), Len(offsets) >= 1
    PROVE  MaxGap = Max({0} \cup Gaps(1, Len(offsets) - 1))
  <1> DEFINE last == Len(offsets) - 1
             lanes == IF backend = "scalar" \/ last < VectorLanes THEN WordLanes ELSE VectorLanes
             gaps == lanes * (last \div lanes)
  <1>1. last \in Nat /\ lanes \in Nat \ {0}
    BY IndexAssumption, LenProperties, SMT
  <1>2. gaps \in 0 .. last
    <2> HIDE DEF last, lanes
    <2> DEFINE q == last \div lanes
               r == last % lanes
               product == lanes * q
    <2>1. last \in Int
      BY <1>1, SMT
    <2>2. q \in Int /\ r \in 0 .. lanes - 1 /\ last = product + r
      BY <1>1, <2>1, DivisionFacts
    <2>3. q \in Nat
      BY <1>1, SMT
    <2> HIDE DEF q, r
    <2>4. product \in Nat
      BY <1>1, <2>3, SMT
    <2>5. product = gaps
      BY DEF q
    <2> HIDE DEF product, gaps
    <2> QED
      BY <1>1, <2>2, <2>4, <2>5, SMT
  <1>3. MaxGap = Max({0} \cup Gaps(1, gaps) \cup Gaps(gaps + 1, last))
    BY DEF MaxGap
  <1> HIDE DEF gaps, lanes
  <1>4. \A i : i \in 1 .. gaps \/ i \in gaps + 1 .. last <=> i \in 1 .. last
    BY <1>1, <1>2, SMT
  <1>5. {0} \cup Gaps(1, gaps) \cup Gaps(gaps + 1, last) = {0} \cup Gaps(1, last)
    <2> HIDE DEF last
    <2> QED
      BY <1>4 DEF Gaps
  <1> QED
    BY <1>3, <1>5

-----------------------------------------------------------------------------
(* The inductive invariant. *)

TypeInvariant ==
    /\ backend \in Backends
    /\ maximum \in Nat
    /\ buffer \in Seq(Byte) /\ Len(buffer) \in 2 .. maximum
    /\ capacity \in 0 .. maximum
    /\ offsets \in Seq(Nat) /\ Len(offsets) <= capacity
    /\ cr \in BOOLEAN
    /\ position \in Nat
    /\ ends \in [stored : Seq(Nat), consumed : Nat, cr : BOOLEAN, touched : Nat,
                 search : BOOLEAN, previous : Nat, run : Nat]
    /\ pc \in {"load", "index", "scalar", "kernel", "tail", "return", "done"}

Calling == pc \in {"scalar", "kernel", "tail", "return"}

\* Up to position the block is indexed.
Indexed ==
    /\ pc = "load" => offsets = <<>> /\ cr = FALSE /\ position = 0
    /\ pc = "index" \/ Calling =>
         /\ LineStart # NoLine
         /\ position \in LineStart .. end
         /\ offsets = <<LineStart>> \o LineEnds(buffer, LineStart, position)
         /\ Notices(buffer, LineStart, position, cr)
         /\ HasReason(buffer, LineStart, position, cr)

\* What Ends has found so far.  It cannot know of a CR in front of its source.
Found ==
    Calling =>
         /\ ends.consumed \in 0 .. SourceBytes
         /\ ends.stored = EndsIn(0, ends.consumed)
         /\ Notices(buffer, position + 1, position + ends.consumed, ends.cr)
         /\ HasReason(buffer, position, position + ends.consumed, ends.cr)
         /\ pc \in {"kernel", "tail"} => SeesAll(buffer, position, position + ends.consumed, ends.cr)

\* What it has written, and what a run of the vector kernel may write still.
Fits ==
    /\ Calling => RoomLeft >= 0 /\ ends.touched <= Room
    /\ pc = "kernel" =>
         /\ ends.run * KernelBytes <= RoomLeft
         /\ ends.run * KernelBytes <= SourceLeft

Finished ==
    pc = "done" /\ LineStart # NoLine =>
        LET found == <<LineStart>> \o LineEnds(buffer, LineStart, end)
        IN  /\ offsets = IF Last(found) < end THEN Append(found, end + 1) ELSE found
            /\ cr \in ReturnHints(buffer, LineStart, end)

IndexInvariant == TypeInvariant /\ Indexed /\ Found /\ Fits /\ Finished

LEMMA FirstFacts ==
    ASSUME TypeInvariant
    PROVE  /\ end \in Nat /\ end >= 2 /\ end <= maximum
           /\ LineStart \in Nat
           /\ LineStart # NoLine => LineStart \in 1 .. end - 1 /\ At(buffer, LineStart - 1) = LF
  <1>1. end \in Nat \ {0} /\ end >= 2 /\ end <= maximum
    BY LenProperties, SMT DEF TypeInvariant, end
  <1>2. LineStart # NoLine => LineStart \in 1 .. end - 1 /\ At(buffer, LineStart - 1) = LF
    BY <1>1, FirstLineIsFirst DEF LineStart
  <1>3. LineStart \in Nat
    BY <1>1, <1>2, SMT DEF NoLine
  <1> QED
    BY <1>1, <1>2, <1>3

\* No step changes the block.
LEMMA SameBlock ==
    ASSUME UNCHANGED blockVars
    PROVE  /\ backend' = backend /\ buffer' = buffer /\ maximum' = maximum
           /\ end' = end /\ LineStart' = LineStart
  BY DEF blockVars, end, LineStart

\* append has room for the offset whenever the bound allows one more.
LEMMA OneMoreFits ==
    ASSUME TypeInvariant, NEW offset \in Nat, Len(offsets) < maximum, AppendOffset(offset)
    PROVE  /\ capacity' \in 0 .. maximum
           /\ offsets' = Append(offsets, offset)
           /\ offsets' \in Seq(Nat)
           /\ Len(offsets') <= capacity'
  <1> DEFINE grown == IF Len(offsets) = capacity THEN GrownOffsets(maximum, capacity) ELSE capacity
  <1>1. /\ capacity' = IF Len(offsets) = grown THEN 2 * grown + 1 ELSE grown
        /\ offsets' = Append(offsets, offset)
    BY DEF AppendOffset
  <1>2. /\ maximum \in Nat /\ capacity \in 0 .. maximum
        /\ offsets \in Seq(Nat) /\ Len(offsets) <= capacity /\ Len(offsets) \in Nat
    BY LenProperties DEF TypeInvariant
  <1>3. /\ GrownOffsets(maximum, capacity) \in capacity .. maximum
        /\ capacity < maximum => GrownOffsets(maximum, capacity) > capacity
    BY <1>2, OffsetsGrowWithinBound
  <1>4. grown \in 0 .. maximum /\ Len(offsets) < grown
    BY <1>2, <1>3, SMT
  <1> HIDE DEF grown
  <1>5. capacity' = grown
    BY <1>1, <1>2, <1>4, SMT
  <1>6. offsets' \in Seq(Nat) /\ Len(offsets') = Len(offsets) + 1
    BY <1>1, <1>2, AppendProperties
  <1>7. Len(offsets') <= capacity'
    BY <1>2, <1>4, <1>5, <1>6, SMT
  <1> QED
    BY <1>1, <1>4, <1>5, <1>6, <1>7

LEMMA InitIndexed == IndexInit => IndexInvariant
  <1> SUFFICES ASSUME IndexInit PROVE IndexInvariant
    OBVIOUS
  <1>1. PICK b \in Blocks : buffer = b.buffer /\ maximum = b.maximum /\ capacity = b.capacity
    BY DEF IndexInit
  <1>2. /\ b.maximum \in Nat
        /\ b.buffer \in Seq(Byte) /\ Len(b.buffer) \in 2 .. b.maximum
        /\ b.capacity \in 0 .. b.maximum
    BY BlocksAssumption
  <1>3. /\ EndsCall \in [stored : Seq(Nat), consumed : Nat, cr : BOOLEAN, touched : Nat,
                         search : BOOLEAN, previous : Nat, run : Nat]
        /\ offsets \in Seq(Nat) /\ Len(offsets) = 0
    BY SMT DEF EndsCall, IndexInit
  <1>4. capacity >= 0
    BY <1>1, <1>2, SMT
  <1>5. TypeInvariant
    BY <1>1, <1>2, <1>3, <1>4 DEF TypeInvariant, IndexInit
  <1>6. pc = "load" /\ offsets = <<>> /\ cr = FALSE /\ position = 0
    BY DEF IndexInit
  <1> QED
    BY <1>5, <1>6 DEF IndexInvariant, Indexed, Found, Fits, Finished, Calling

LEMMA LoadIndexed ==
    ASSUME IndexInvariant, Load
    PROVE  IndexInvariant'
  <1> USE DEF IndexInvariant
  <1>1. UNCHANGED blockVars
    BY DEF Load
  <1>2. /\ backend' = backend /\ buffer' = buffer /\ maximum' = maximum
        /\ end' = end /\ LineStart' = LineStart
    BY <1>1, SameBlock
  <1>3. /\ cr' = cr /\ ends' = ends /\ offsets = <<>> /\ cr = FALSE
    BY DEF Load, Indexed
  <1>4. CASE LineStart = NoLine
    <2>1. pc' = "done" /\ UNCHANGED <<capacity, offsets, position>>
      BY <1>4 DEF Load
    <2>2. TypeInvariant'
      BY <1>2, <1>3, <2>1 DEF TypeInvariant
    <2> QED
      BY <1>2, <1>4, <2>1, <2>2 DEF Indexed, Found, Fits, Finished, Calling
  <1>5. CASE LineStart # NoLine
    <2>1. pc' = "index" /\ AppendOffset(LineStart) /\ position' = LineStart
      BY <1>5 DEF Load
    <2>2. LineStart \in 1 .. end - 1 /\ end \in Nat /\ LineStart \in Nat /\ maximum \in Nat /\ end <= maximum
      BY <1>5, FirstFacts DEF TypeInvariant
    <2>3. Len(offsets) < maximum
      BY <1>3, <2>2, SMT
    <2>4. /\ capacity' \in 0 .. maximum
          /\ offsets' = Append(offsets, LineStart)
          /\ offsets' \in Seq(Nat)
          /\ Len(offsets') <= capacity'
      BY <2>1, <2>2, <2>3, OneMoreFits
    <2>5. TypeInvariant'
      BY <1>2, <1>3, <2>1, <2>2, <2>4 DEF TypeInvariant
    <2>6. LineEnds(buffer, LineStart, LineStart) = <<>>
      <3>1. LineFeeds(buffer, LineStart, LineStart) = {}
        BY <2>2, SMT DEF LineFeeds
      <3> QED
        BY <2>2, <3>1, NoEnd
    <2>7. offsets' = <<LineStart>> \o LineEnds(buffer, LineStart, LineStart)
      <3>1. offsets' = <<LineStart>>
        BY <1>3, <2>4
      <3> QED
        BY <2>2, <2>6, <3>1, ConcatEmptySeq
    <2>8. /\ Notices(buffer, LineStart, LineStart, FALSE)
          /\ HasReason(buffer, LineStart, LineStart, FALSE)
      BY <2>2, SMT DEF Notices, HasReason
    <2>9. LineStart \in LineStart .. end
      BY <2>2, SMT
    <2> QED
      BY <1>2, <1>3, <1>5, <2>1, <2>5, <2>7, <2>8, <2>9 DEF Indexed, Found, Fits, Finished, Calling
  <1> QED
    BY <1>4, <1>5

LEMMA CallEndsIndexed ==
    ASSUME IndexInvariant, CallEnds
    PROVE  IndexInvariant'
  <1> USE DEF IndexInvariant
  <1>1. /\ UNCHANGED blockVars /\ offsets' = offsets /\ cr' = cr /\ position' = position
        /\ pc = "index" /\ position < end
        /\ ends' = EndsCall
        /\ capacity' = IF Room < KernelBytes THEN GrownOffsets(maximum, capacity) ELSE capacity
        /\ pc' \in {"scalar", "kernel", "tail"}
    BY DEF CallEnds
  <1>2. /\ backend' = backend /\ buffer' = buffer /\ maximum' = maximum
        /\ end' = end /\ LineStart' = LineStart
    BY <1>1, SameBlock
  <1>3. /\ maximum \in Nat /\ capacity \in 0 .. maximum
        /\ Len(offsets) <= capacity /\ Len(offsets) \in Nat
        /\ position \in Nat /\ end \in Nat
    BY LenProperties, FirstFacts DEF TypeInvariant
  <1>4. capacity' \in capacity .. maximum
    <2>1. GrownOffsets(maximum, capacity) \in capacity .. maximum
      BY <1>3, OffsetsGrowWithinBound
    <2> QED
      BY <1>1, <1>3, <2>1, SMT
  <1>5. /\ ends'.stored = <<>> /\ ends'.consumed = 0 /\ ends'.cr = FALSE
        /\ ends'.touched = 0 /\ ends'.run = 0
        /\ ends' \in [stored : Seq(Nat), consumed : Nat, cr : BOOLEAN, touched : Nat,
                      search : BOOLEAN, previous : Nat, run : Nat]
    BY <1>1, SMT DEF EndsCall
  <1>6. TypeInvariant'
    <2>1. capacity' \in 0 .. maximum /\ Len(offsets) <= capacity'
      BY <1>3, <1>4, SMT
    <2> QED
      BY <1>1, <1>2, <1>5, <2>1 DEF TypeInvariant
  <1>7. Indexed'
    <2>1. pc' # "load"
      BY <1>1
    <2> QED
      BY <1>1, <1>2, <2>1 DEF Indexed
  <1>8. Found'
    <2>1. LineEnds(buffer, position + 0, position + 0) = <<>>
      <3>1. LineFeeds(buffer, position + 0, position + 0) = {}
        BY <1>3, SMT DEF LineFeeds
      <3> QED
        BY <1>3, <3>1, NoEnd
    <2>2. EndsIn(0, ends.consumed)' = <<>>
      BY <1>1, <1>2, <1>5, <2>1 DEF EndsIn
    <2>3. /\ Notices(buffer, position + 1, position + 0, FALSE)
          /\ HasReason(buffer, position, position + 0, FALSE)
          /\ SeesAll(buffer, position, position + 0, FALSE)
      BY <1>3, SMT DEF Notices, HasReason, SeesAll
    <2>4. SourceBytes' = end - position /\ 0 \in 0 .. end - position
      BY <1>1, <1>2, <1>3, SMT DEF SourceBytes
    <2> QED
      BY <1>1, <1>2, <1>5, <2>2, <2>3, <2>4 DEF Found
  <1>9. Fits'
    <2>1. /\ Room' = capacity' - Len(offsets)
          /\ RoomLeft' = Room' - 0
          /\ SourceLeft' = (end - position) - 0
      <3>1. Len(<<>>) = 0
        OBVIOUS
      <3> QED
        BY <1>1, <1>2, <1>5, <3>1 DEF Room, RoomLeft, SourceLeft, SourceBytes
    <2>2. 0 * KernelBytes = 0
      BY IndexAssumption, SMT
    <2>3. RoomLeft' >= 0 /\ Room' >= 0 /\ SourceLeft' >= 0
      BY <1>1, <1>3, <1>4, <2>1, SMT
    <2> QED
      BY <1>5, <2>2, <2>3 DEF Fits
  <1>10. Finished'
    BY <1>1 DEF Finished
  <1> QED
    BY <1>6, <1>7, <1>8, <1>9, <1>10

\* A line that starts before a piece and ends at its first byte is noticed by
\* a look at the byte in front.
LEMMA HintsJoin ==
    ASSUME NEW bytes, NEW from \in Nat, NEW mid \in Nat, NEW to \in Nat, from <= mid, mid <= to,
           NEW first \in BOOLEAN, NEW second \in BOOLEAN,
           Notices(bytes, from, mid, first), HasReason(bytes, from, mid, first),
           Notices(bytes, mid + 1, to, second), HasReason(bytes, mid, to, second),
           from = mid => At(bytes, mid - 1) # CR
    PROVE  LET hint == first \/ second \/ At(bytes, mid - 1) = CR
           IN  Notices(bytes, from, to, hint) /\ HasReason(bytes, from, to, hint)
  <1> DEFINE hint == first \/ second \/ At(bytes, mid - 1) = CR
  <1>1. ASSUME NEW i \in from .. to - 1, At(bytes, i) = LF, At(bytes, i - 1) = CR
        PROVE  hint
    <2>1. CASE i < mid
      <3>1. i \in from .. mid - 1
        BY <2>1, SMT
      <3> QED
        BY <1>1, <3>1 DEF Notices
    <2>2. CASE i = mid
      BY <1>1, <2>2
    <2>3. CASE i > mid
      <3>1. i \in mid + 1 .. to - 1
        BY <2>3, SMT
      <3> QED
        BY <1>1, <3>1 DEF Notices
    <2> QED
      BY <2>1, <2>2, <2>3, SMT
  <1>2. ASSUME hint
        PROVE  \E i \in from .. to - 1 : At(bytes, i) = CR
    <2>1. CASE first
      <3>1. PICK i \in from .. mid - 1 : At(bytes, i) = CR
        BY <2>1 DEF HasReason
      <3>2. i \in from .. to - 1
        BY SMT
      <3> QED
        BY <3>1, <3>2
    <2>2. CASE second
      <3>1. PICK i \in mid .. to - 1 : At(bytes, i) = CR
        BY <2>2 DEF HasReason
      <3>2. i \in from .. to - 1
        BY SMT
      <3> QED
        BY <3>1, <3>2
    <2>3. CASE At(bytes, mid - 1) = CR
      <3>1. mid - 1 \in from .. to - 1
        BY <2>3, SMT
      <3> QED
        BY <2>3, <3>1
    <2> QED
      BY <1>2, <2>1, <2>2, <2>3
  <1> QED
    BY <1>1, <1>2 DEF Notices, HasReason

LEMMA TakeEndsIndexed ==
    ASSUME IndexInvariant, TakeEnds
    PROVE  IndexInvariant'
  <1> USE DEF IndexInvariant
  <1>1. /\ UNCHANGED blockVars /\ capacity' = capacity /\ ends' = ends
        /\ pc = "return" /\ pc' = "index"
        /\ offsets' = offsets \o ends.stored
        /\ cr' = (cr \/ ends.cr \/ FollowsReturn)
        /\ position' = position + ends.consumed
    BY DEF TakeEnds
  <1>2. /\ backend' = backend /\ buffer' = buffer /\ maximum' = maximum
        /\ end' = end /\ LineStart' = LineStart
    BY <1>1, SameBlock
  <1>3. /\ offsets \in Seq(Nat) /\ ends.stored \in Seq(Nat) /\ ends.consumed \in Nat
        /\ cr \in BOOLEAN /\ ends.cr \in BOOLEAN
        /\ capacity \in Nat /\ Len(offsets) \in Nat /\ Len(ends.stored) \in Nat
        /\ position \in Nat /\ end \in Nat
    <2>1. capacity \in Nat
      BY SMT DEF TypeInvariant
    <2> QED
      BY <2>1, LenProperties, FirstFacts DEF TypeInvariant
  <1>4. /\ LineStart # NoLine
        /\ position \in LineStart .. end
        /\ offsets = <<LineStart>> \o LineEnds(buffer, LineStart, position)
        /\ Notices(buffer, LineStart, position, cr)
        /\ HasReason(buffer, LineStart, position, cr)
    BY <1>1 DEF Indexed, Calling
  <1>5. /\ ends.consumed \in 0 .. end - position
        /\ ends.stored = LineEnds(buffer, position + 0, position + ends.consumed)
        /\ Notices(buffer, position + 1, position + ends.consumed, ends.cr)
        /\ HasReason(buffer, position, position + ends.consumed, ends.cr)
    BY <1>1 DEF Found, Calling, SourceBytes, EndsIn
  <1> DEFINE read == position + ends.consumed
  <1>6. /\ LineStart \in 1 .. end - 1 /\ At(buffer, LineStart - 1) = LF
        /\ LineStart \in Nat /\ read \in Nat
        /\ LineStart <= position /\ position <= read /\ read \in LineStart .. end
        /\ position + 0 = position
    <2>1. LineStart \in 1 .. end - 1 /\ At(buffer, LineStart - 1) = LF /\ LineStart \in Nat
      BY <1>4, FirstFacts
    <2> QED
      BY <1>3, <1>4, <1>5, <2>1, SMT
  <1>7. offsets' \in Seq(Nat) /\ Len(offsets') <= capacity
    <2>1. offsets' \in Seq(Nat) /\ Len(offsets') = Len(offsets) + Len(ends.stored)
      BY <1>1, <1>3, ConcatProperties
    <2>2. capacity - Len(offsets) - Len(ends.stored) >= 0
      BY <1>1 DEF Fits, Calling, RoomLeft, Room
    <2> QED
      BY <1>3, <2>1, <2>2, SMT
  <1>8. TypeInvariant'
    <2>1. cr' \in BOOLEAN
      BY <1>1
    <2> QED
      BY <1>1, <1>2, <1>6, <1>7, <2>1 DEF TypeInvariant
  <1>9. Indexed'
    <2> DEFINE done == LineEnds(buffer, LineStart, position)
               more == LineEnds(buffer, position, read)
               all == LineEnds(buffer, LineStart, read)
    <2>1. offsets' = <<LineStart>> \o all
      <3>1. /\ LineStart \in Nat /\ position \in Nat /\ read \in Nat
            /\ LineStart <= position /\ position <= read
        BY <1>3, <1>6
      <3>2. offsets = <<LineStart>> \o done /\ ends.stored = more
        BY <1>4, <1>5, <1>6
      <3>3. <<LineStart>> \in Seq(Nat)
        BY <1>6
      <3> HIDE DEF read
      <3>4. done \o more = all
        BY <3>1, EndsJoin
      <3>5. done \in Seq(Nat)
        BY <3>1, LineEndsAreExact
      <3>6. more \in Seq(Nat)
        BY <3>1, LineEndsAreExact
      <3> HIDE DEF done, more, all
      <3>7. (<<LineStart>> \o done) \o more = <<LineStart>> \o (done \o more)
        BY <3>3, <3>5, <3>6, ConcatAssociative
      <3> QED
        BY <1>1, <3>2, <3>4, <3>7
    <2>2. LineStart = position => At(buffer, position - 1) # CR
      BY <1>6 DEF LF, CR
    <2>3. /\ Notices(buffer, LineStart, read, cr \/ ends.cr \/ At(buffer, position - 1) = CR)
          /\ HasReason(buffer, LineStart, read, cr \/ ends.cr \/ At(buffer, position - 1) = CR)
      BY <1>3, <1>4, <1>5, <1>6, <2>2, HintsJoin
    <2>4. cr' = (cr \/ ends.cr \/ At(buffer, position - 1) = CR)
      BY <1>1 DEF FollowsReturn
    <2> QED
      BY <1>1, <1>2, <1>4, <1>6, <2>1, <2>3, <2>4 DEF Indexed
  <1> QED
    BY <1>1, <1>8, <1>9 DEF Found, Fits, Finished, Calling

\* Whoever needs room for the end of a line that goes on has it: there is no
\* line feed at the last byte then.
LEMMA OpenLineFits ==
    ASSUME NEW bytes, NEW from \in Nat \ {0}, NEW to \in Nat, from < to,
           NEW all, all = <<from>> \o LineEnds(bytes, from, to), Last(all) < to
    PROVE  Len(all) < to
  <1> DEFINE list == LineEnds(bytes, from, to)
             feeds == LineFeeds(bytes, from, to)
             n == Len(list)
  <1>1. /\ list \in Seq(Nat) /\ n = Cardinality(feeds)
        /\ n \in Nat
        /\ \A i, j \in 1 .. n : i < j => list[i] < list[j]
        /\ \A f \in feeds : \E k \in 1 .. n : list[k] = f + 1
    <2>1. from \in Nat /\ from <= to
      BY SMT
    <2>2. list \in Seq(Nat) /\ n = Cardinality(feeds)
      BY <2>1, FeedsAreFew
    <2> QED
      BY <2>1, <2>2, LineEndsAreExact, LenProperties
  <1> HIDE DEF list
  <1>2. /\ all \in Seq(Nat)
        /\ Len(all) = 1 + n
        /\ \A i \in 1 .. 1 + n : all[i] = IF i <= 1 THEN <<from>>[i] ELSE list[i - 1]
    <2>1. <<from>> \in Seq(Nat) /\ Len(<<from>>) = 1
      OBVIOUS
    <2>2. /\ <<from>> \o list \in Seq(Nat)
          /\ Len(<<from>> \o list) = Len(<<from>>) + n
          /\ \A i \in 1 .. Len(<<from>>) + n :
               (<<from>> \o list)[i] = IF i <= Len(<<from>>) THEN <<from>>[i] ELSE list[i - Len(<<from>>)]
      BY <1>1, <2>1, ConcatProperties
    <2> QED
      BY <2>1, <2>2 DEF list
  <1> HIDE DEF n, feeds
  <1>3. n >= 1 => Last(all) = list[n]
    <2> SUFFICES ASSUME n >= 1 PROVE Last(all) = list[n]
      OBVIOUS
    <2>1. Last(all) = all[1 + n]
      BY <1>2 DEF Last
    <2>2. 1 + n \in 1 .. 1 + n /\ ~ (1 + n <= 1) /\ (1 + n) - 1 = n
      BY <1>1, SMT
    <2> QED
      BY <1>2, <2>1, <2>2
  <1>4. ~ (to - 1 \in feeds)
    <2> SUFFICES ASSUME to - 1 \in feeds PROVE FALSE
      OBVIOUS
    <2>1. PICK k \in 1 .. n : list[k] = (to - 1) + 1
      BY <1>1
    <2>2. n >= 1 /\ n \in 1 .. n
      BY <1>1, SMT
    <2>3. list[k] \in Nat /\ list[n] \in Nat
      BY <1>1, <2>2, ElementOfSeq DEF n
    <2>4. k = n \/ list[k] < list[n]
      <3>1. k < n => list[k] < list[n]
        BY <1>1, <2>2
      <3> QED
        BY <1>1, <3>1, SMT
    <2> QED
      BY <1>3, <2>1, <2>2, <2>3, <2>4, SMT
  <1>5. feeds = LineFeeds(bytes, from, to - 1)
    <2>1. \A i : i \in from .. to - 1 <=> i \in from .. (to - 1) - 1 \/ i = to - 1
      BY SMT
    <2>2. feeds = { i \in from .. to - 1 : At(bytes, i) = LF }
      BY DEF feeds, LineFeeds
    <2>3. LineFeeds(bytes, from, to - 1) = { i \in from .. (to - 1) - 1 : At(bytes, i) = LF }
      BY DEF LineFeeds
    <2> QED
      BY <1>4, <2>1, <2>2, <2>3
  <1>6. Cardinality(feeds) \in 0 .. (to - 1) - from
    <2>1. to - 1 \in Nat /\ from \in Nat /\ from <= to - 1
      BY SMT
    <2>2. Cardinality(LineFeeds(bytes, from, to - 1)) \in 0 .. (to - 1) - from
      BY <2>1, FeedsAreFew
    <2> QED
      BY <1>5, <2>2
  <1>7. n \in 0 .. (to - 1) - from
    BY <1>1, <1>6
  <1> QED
    BY <1>2, <1>7, SMT

LEMMA FinishBlockIndexed ==
    ASSUME IndexInvariant, FinishBlock
    PROVE  IndexInvariant'
  <1> USE DEF IndexInvariant
  <1>1. /\ UNCHANGED blockVars /\ cr' = cr /\ position' = position /\ ends' = ends
        /\ pc = "index" /\ position >= end /\ pc' = "done"
    BY DEF FinishBlock
  <1>2. /\ backend' = backend /\ buffer' = buffer /\ maximum' = maximum
        /\ end' = end /\ LineStart' = LineStart
    BY <1>1, SameBlock
  <1>3. /\ LineStart # NoLine
        /\ position \in LineStart .. end
        /\ offsets = <<LineStart>> \o LineEnds(buffer, LineStart, position)
        /\ Notices(buffer, LineStart, position, cr)
        /\ HasReason(buffer, LineStart, position, cr)
    BY <1>1 DEF Indexed, Calling
  <1>4. /\ LineStart \in Nat \ {0} /\ LineStart < end /\ end \in Nat /\ end <= maximum
        /\ position = end /\ end + 1 \in Nat /\ maximum \in Nat
        /\ cr \in BOOLEAN
    <2>1. LineStart \in 1 .. end - 1 /\ end \in Nat /\ end <= maximum
      BY <1>3, FirstFacts
    <2>2. position \in Nat /\ maximum \in Nat /\ cr \in BOOLEAN
      BY DEF TypeInvariant
    <2> QED
      BY <1>1, <1>3, <2>1, <2>2, SMT
  <1> DEFINE found == <<LineStart>> \o LineEnds(buffer, LineStart, end)
  <1>5. offsets = found
    BY <1>3, <1>4
  <1>6. cr \in ReturnHints(buffer, LineStart, end)
    BY <1>3, <1>4, HintIsAllowed
  <1>7. CASE Last(offsets) < end
    <2>1. AppendOffset(end + 1)
      BY <1>7 DEF FinishBlock
    <2>2. Len(offsets) < end
      BY <1>4, <1>5, <1>7, OpenLineFits
    <2>3. Len(offsets) < maximum
      <3>1. Len(offsets) \in Nat
        BY LenProperties DEF TypeInvariant
      <3> QED
        BY <1>4, <2>2, <3>1, SMT
    <2>4. /\ capacity' \in 0 .. maximum
          /\ offsets' = Append(offsets, end + 1)
          /\ offsets' \in Seq(Nat)
          /\ Len(offsets') <= capacity'
      BY <1>4, <2>1, <2>3, OneMoreFits
    <2>5. TypeInvariant'
      BY <1>1, <1>2, <2>4 DEF TypeInvariant
    <2>6. Finished'
      BY <1>1, <1>2, <1>5, <1>6, <1>7, <2>4 DEF Finished
    <2> QED
      BY <1>1, <2>5, <2>6 DEF Indexed, Found, Fits, Calling
  <1>8. CASE ~ (Last(offsets) < end)
    <2>1. UNCHANGED <<capacity, offsets>>
      BY <1>8 DEF FinishBlock
    <2>2. TypeInvariant'
      BY <1>1, <1>2, <2>1 DEF TypeInvariant
    <2>3. Finished'
      BY <1>1, <1>2, <1>5, <1>6, <1>8, <2>1 DEF Finished
    <2> QED
      BY <1>1, <2>2, <2>3 DEF Indexed, Found, Fits, Calling
  <1> QED
    BY <1>7, <1>8

-----------------------------------------------------------------------------
(* Inside a call of Ends. *)

LEMMA CallFacts ==
    ASSUME IndexInvariant, Calling
    PROVE  /\ position \in Nat /\ end \in Nat /\ position <= end
           /\ SourceBytes \in Nat /\ SourceBytes = end - position
           /\ ends.consumed \in Nat /\ ends.consumed <= SourceBytes
           /\ SourceLeft = SourceBytes - ends.consumed /\ SourceLeft \in Nat
           /\ ends.stored \in Seq(Nat) /\ Len(ends.stored) \in Nat
           /\ Room \in Nat /\ RoomLeft \in Nat /\ RoomLeft = Room - Len(ends.stored)
           /\ ends.touched \in Nat /\ ends.touched <= Room
           /\ ends.cr \in BOOLEAN /\ ends.search \in BOOLEAN
           /\ ends.previous \in Nat /\ ends.run \in Nat
           /\ KernelBytes \in Nat /\ KernelBytes >= 4
  <1> USE DEF IndexInvariant
  <1>1. /\ ends.stored \in Seq(Nat) /\ ends.consumed \in Nat /\ ends.cr \in BOOLEAN
        /\ ends.touched \in Nat /\ ends.search \in BOOLEAN /\ ends.previous \in Nat
        /\ ends.run \in Nat /\ position \in Nat
    BY DEF TypeInvariant
  <1>2. /\ capacity \in Nat /\ Len(offsets) \in Nat /\ Len(offsets) <= capacity
        /\ Len(ends.stored) \in Nat /\ end \in Nat
    <2>1. capacity \in Nat
      BY SMT DEF TypeInvariant
    <2> QED
      BY <1>1, <2>1, LenProperties, FirstFacts DEF TypeInvariant
  <1>3. Room = capacity - Len(offsets) /\ RoomLeft = Room - Len(ends.stored)
    BY DEF Room, RoomLeft
  <1>4. RoomLeft >= 0 /\ ends.touched <= Room
    BY DEF Fits
  <1>5. Room \in Nat /\ RoomLeft \in Nat
    BY <1>2, <1>3, <1>4, SMT
  <1>6. position <= end
    <2>1. position \in LineStart .. end
      BY DEF Indexed
    <2> QED
      BY <1>1, <1>2, <2>1, SMT
  <1>7. ends.consumed \in 0 .. SourceBytes
    BY DEF Found
  <1>8. SourceBytes = end - position /\ SourceLeft = SourceBytes - ends.consumed
    BY DEF SourceBytes, SourceLeft
  <1>9. SourceBytes \in Nat /\ ends.consumed <= SourceBytes /\ SourceLeft \in Nat
    BY <1>1, <1>2, <1>6, <1>7, <1>8, SMT
  <1>10. KernelBytes \in Nat /\ KernelBytes >= 4
    BY IndexAssumption
  <1> QED
    BY <1>1, <1>2, <1>3, <1>4, <1>5, <1>6, <1>8, <1>9, <1>10

\* Ends that are appended to those stored.
LEMMA StoredJoin ==
    ASSUME IndexInvariant, Calling, NEW read \in Nat, ends.consumed <= read, read <= SourceBytes
    PROVE  /\ ends.stored \o EndsIn(ends.consumed, read) = EndsIn(0, read)
           /\ EndsIn(0, read) \in Seq(Nat)
           /\ EndsIn(ends.consumed, read) \in Seq(Nat)
           /\ Len(EndsIn(0, read)) = Len(ends.stored) + Len(EndsIn(ends.consumed, read))
           /\ Len(EndsIn(ends.consumed, read)) \in 0 .. read - ends.consumed
  <1> DEFINE from == position + 0
             mid == position + ends.consumed
             to == position + read
  <1>1. /\ from \in Nat /\ mid \in Nat /\ to \in Nat /\ from <= mid /\ mid <= to
        /\ to - mid = read - ends.consumed
    <2>1. position \in Nat /\ ends.consumed \in Nat
      BY CallFacts
    <2> QED
      BY <2>1, SMT
  <1>2. /\ ends.stored = LineEnds(buffer, from, mid)
        /\ EndsIn(ends.consumed, read) = LineEnds(buffer, mid, to)
        /\ EndsIn(0, read) = LineEnds(buffer, from, to)
    BY DEF IndexInvariant, Found, EndsIn
  <1> HIDE DEF from, mid, to
  <1>3. LineEnds(buffer, from, mid) \o LineEnds(buffer, mid, to) = LineEnds(buffer, from, to)
    BY <1>1, EndsJoin
  <1>4. /\ LineEnds(buffer, mid, to) \in Seq(Nat)
        /\ Len(LineEnds(buffer, mid, to)) = Cardinality(LineFeeds(buffer, mid, to))
        /\ Cardinality(LineFeeds(buffer, mid, to)) \in 0 .. to - mid
    BY <1>1, FeedsAreFew
  <1>5. LineEnds(buffer, from, mid) \in Seq(Nat)
    BY <1>1, LineEndsAreExact
  <1> DEFINE A == LineEnds(buffer, from, mid)
             B == LineEnds(buffer, mid, to)
  <1>6. A \o B \in Seq(Nat) /\ Len(A \o B) = Len(A) + Len(B)
    BY <1>4, <1>5, ConcatProperties
  <1> QED
    BY <1>1, <1>2, <1>3, <1>4, <1>6

\* A step of a call keeps the invariant when it stores the ends of what it
\* consumes, stays within the room and keeps the hint true.
LEMMA StepInCall ==
    ASSUME IndexInvariant, Calling,
           UNCHANGED <<blockVars, capacity, offsets, cr, position>>,
           ends' \in [stored : Seq(Nat), consumed : Nat, cr : BOOLEAN, touched : Nat,
                      search : BOOLEAN, previous : Nat, run : Nat],
           pc' \in {"scalar", "kernel", "tail", "return"},
           ends'.consumed <= SourceBytes,
           ends'.stored = EndsIn(0, ends'.consumed),
           Len(ends'.stored) <= Room,
           ends'.touched <= Room,
           Notices(buffer, position + 1, position + ends'.consumed, ends'.cr),
           HasReason(buffer, position, position + ends'.consumed, ends'.cr),
           pc' \in {"kernel", "tail"} =>
               SeesAll(buffer, position, position + ends'.consumed, ends'.cr),
           pc' = "kernel" =>
               /\ ends'.run * KernelBytes <= Room - Len(ends'.stored)
               /\ ends'.run * KernelBytes <= SourceBytes - ends'.consumed
    PROVE  IndexInvariant'
  <1>1. /\ backend' = backend /\ buffer' = buffer /\ maximum' = maximum
        /\ end' = end /\ LineStart' = LineStart
        /\ capacity' = capacity /\ offsets' = offsets /\ cr' = cr /\ position' = position
    BY SameBlock
  <1>2. TypeInvariant'
    <2>1. pc' \in {"load", "index", "scalar", "kernel", "tail", "return", "done"}
      OBVIOUS
    <2> QED
      BY <1>1, <2>1 DEF IndexInvariant, TypeInvariant
  <1>3. Indexed'
    <2>1. pc' # "load"
      OBVIOUS
    <2> QED
      BY <1>1, <2>1 DEF IndexInvariant, Indexed
  <1>4. /\ SourceBytes' = SourceBytes /\ Room' = Room
        /\ EndsIn(0, ends.consumed)' = EndsIn(0, ends'.consumed)
        /\ RoomLeft' = Room - Len(ends'.stored)
        /\ SourceLeft' = SourceBytes - ends'.consumed
    BY <1>1 DEF SourceBytes, Room, EndsIn, RoomLeft, SourceLeft
  <1>5. ends'.consumed \in 0 .. SourceBytes
    <2>1. ends'.consumed \in Nat /\ SourceBytes \in Nat
      BY CallFacts
    <2> QED
      BY <2>1, SMT
  <1>6. Found'
    BY <1>1, <1>4, <1>5 DEF Found
  <1>7. Fits'
    <2>1. RoomLeft' >= 0
      <3>1. Len(ends'.stored) \in Nat /\ Room \in Nat
        BY LenProperties, CallFacts
      <3> QED
        BY <1>4, <3>1, SMT
    <2> QED
      BY <1>4, <2>1 DEF Fits
  <1>8. Finished'
    BY DEF Finished
  <1> QED
    BY <1>2, <1>3, <1>6, <1>7, <1>8 DEF IndexInvariant

\* When only the place in the code, the search or the length of the run
\* changes, the rest still holds.
LEMMA IdleStepInCall ==
    ASSUME IndexInvariant, Calling,
           UNCHANGED <<blockVars, capacity, offsets, cr, position>>,
           NEW search \in BOOLEAN, NEW run \in Nat,
           ends' = [ends EXCEPT !.search = search, !.run = run],
           pc' \in {"scalar", "kernel", "tail", "return"},
           pc' \in {"kernel", "tail"} => pc \in {"kernel", "tail"},
           pc' = "kernel" => run * KernelBytes <= RoomLeft /\ run * KernelBytes <= SourceLeft
    PROVE  IndexInvariant'
  <1>1. /\ ends' \in [stored : Seq(Nat), consumed : Nat, cr : BOOLEAN, touched : Nat,
                      search : BOOLEAN, previous : Nat, run : Nat]
        /\ ends'.stored = ends.stored /\ ends'.consumed = ends.consumed /\ ends'.cr = ends.cr
        /\ ends'.touched = ends.touched /\ ends'.run = run
    BY DEF IndexInvariant, TypeInvariant
  <1>2. /\ ends.stored = EndsIn(0, ends.consumed)
        /\ Notices(buffer, position + 1, position + ends.consumed, ends.cr)
        /\ HasReason(buffer, position, position + ends.consumed, ends.cr)
        /\ pc \in {"kernel", "tail"} => SeesAll(buffer, position, position + ends.consumed, ends.cr)
    BY DEF IndexInvariant, Found
  <1>3. Len(ends.stored) <= Room
    BY CallFacts, SMT
  <1>4. /\ ends.consumed <= SourceBytes /\ ends.touched <= Room
        /\ RoomLeft = Room - Len(ends.stored) /\ SourceLeft = SourceBytes - ends.consumed
    BY CallFacts
  <1>5. pc' = "kernel" =>
               /\ ends'.run * KernelBytes <= Room - Len(ends'.stored)
               /\ ends'.run * KernelBytes <= SourceBytes - ends'.consumed
    BY <1>1, <1>4
  <1> QED
    BY <1>1, <1>2, <1>3, <1>4, <1>5, StepInCall

\* The scanner looks at the byte in front of each end it stores, and perhaps
\* at the last byte of what it consumes.
LEMMA SeenHints ==
    ASSUME IndexInvariant, Calling, NEW read \in Nat, ends.consumed < read,
           NEW seen, FeedsIn(ends.consumed, read) \subseteq seen,
           seen \subseteq FeedsIn(ends.consumed, read) \cup {read}
    PROVE  LET hint == ends.cr \/ \E i \in seen : Src(Greater(i - 1, 0)) = CR
           IN  /\ Notices(buffer, position + 1, position + read, hint)
               /\ HasReason(buffer, position, position + read, hint)
  <1> DEFINE more == \E i \in seen : Src(Greater(i - 1, 0)) = CR
             hint == ends.cr \/ more
             c == ends.consumed
  <1>1. /\ position \in Nat /\ c \in Nat /\ c < read
        /\ Notices(buffer, position + 1, position + c, ends.cr)
        /\ HasReason(buffer, position, position + c, ends.cr)
    BY CallFacts DEF IndexInvariant, Found
  <1>2. FeedsIn(c, read) = { i \in c .. read - 1 : At(buffer, position + i) = LF }
    BY DEF FeedsIn, Src
  <1>3. ASSUME NEW i \in position + 1 .. (position + read) - 1,
               At(buffer, i) = LF, At(buffer, i - 1) = CR
        PROVE  hint
    <2>1. CASE i < position + c
      <3>1. i \in position + 1 .. (position + c) - 1
        BY <1>1, <2>1, SMT
      <3> QED
        BY <1>1, <1>3, <3>1 DEF Notices
    <2>2. CASE ~ (i < position + c)
      <3> DEFINE k == i - position
      <3>1. k \in c .. read - 1 /\ k \in Int /\ k >= 1 /\ position + k = i /\ position + (k - 1) = i - 1
        BY <1>1, <2>2, SMT
      <3> HIDE DEF k
      <3>2. k \in seen
        BY <1>2, <1>3, <3>1
      <3>3. Greater(k - 1, 0) = k - 1
        BY <3>1, SMT DEF Greater
      <3>4. Src(Greater(k - 1, 0)) = CR
        BY <1>3, <3>1, <3>3 DEF Src
      <3> QED
        BY <3>2, <3>4
    <2> QED
      BY <2>1, <2>2
  <1>4. ASSUME hint
        PROVE  \E i \in position .. (position + read) - 1 : At(buffer, i) = CR
    <2>1. CASE ends.cr
      <3>1. PICK i \in position .. (position + c) - 1 : At(buffer, i) = CR
        BY <1>1, <2>1 DEF HasReason
      <3>2. i \in position .. (position + read) - 1
        BY <1>1, <3>1, SMT
      <3> QED
        BY <3>1, <3>2
    <2>2. CASE more
      <3>1. PICK i \in seen : Src(Greater(i - 1, 0)) = CR
        BY <2>2
      <3>2. (i \in c .. read - 1 /\ At(buffer, position + i) = LF) \/ i = read
        BY <1>2, <3>1
      <3>3. i \in 0 .. read /\ i \in Int
        BY <1>1, <3>2, SMT
      <3>4. i # 0
        <4> SUFFICES ASSUME i = 0 PROVE FALSE
          OBVIOUS
        <4>1. Greater(i - 1, 0) = 0 /\ i # read
          BY <1>1, SMT DEF Greater
        <4>2. At(buffer, position + 0) = CR /\ At(buffer, position + 0) = LF
          BY <3>1, <3>2, <4>1 DEF Src
        <4> QED
          BY <4>2 DEF LF, CR
      <3>5. Greater(i - 1, 0) = i - 1 /\ position + (i - 1) \in position .. (position + read) - 1
        BY <1>1, <3>3, <3>4, SMT DEF Greater
      <3>6. At(buffer, position + (i - 1)) = CR
        BY <3>1, <3>5 DEF Src
      <3> QED
        BY <3>5, <3>6
    <2> QED
      BY <1>4, <2>1, <2>2
  <1> QED
    BY <1>3, <1>4 DEF Notices, HasReason

\* The vector kernels look at every byte.
LEMMA AllHints ==
    ASSUME IndexInvariant, Calling, NEW read \in Nat, ends.consumed <= read,
           SeesAll(buffer, position, position + ends.consumed, ends.cr)
    PROVE  LET hint == ends.cr \/ HasReturn(ends.consumed, read)
           IN  /\ Notices(buffer, position + 1, position + read, hint)
               /\ HasReason(buffer, position, position + read, hint)
               /\ SeesAll(buffer, position, position + read, hint)
  <1> DEFINE c == ends.consumed
             hint == ends.cr \/ HasReturn(c, read)
  <1>1. /\ position \in Nat /\ c \in Nat /\ c <= read
        /\ HasReason(buffer, position, position + c, ends.cr)
    BY CallFacts DEF IndexInvariant, Found
  <1>2. HasReturn(c, read) <=> \E i \in c .. read - 1 : At(buffer, position + i) = CR
    BY DEF HasReturn, Src
  <1>3. ASSUME NEW i \in position .. (position + read) - 1, At(buffer, i) = CR
        PROVE  hint
    <2>1. CASE i < position + c
      <3>1. i \in position .. (position + c) - 1
        BY <1>1, <2>1, SMT
      <3> QED
        BY <1>3, <3>1 DEF SeesAll
    <2>2. CASE ~ (i < position + c)
      <3>1. i - position \in c .. read - 1 /\ position + (i - position) = i
        BY <1>1, <2>2, SMT
      <3> QED
        BY <1>2, <1>3, <3>1
    <2> QED
      BY <2>1, <2>2
  <1>4. ASSUME hint
        PROVE  \E i \in position .. (position + read) - 1 : At(buffer, i) = CR
    <2>1. CASE ends.cr
      <3>1. PICK i \in position .. (position + c) - 1 : At(buffer, i) = CR
        BY <1>1, <2>1 DEF HasReason
      <3>2. i \in position .. (position + read) - 1
        BY <1>1, <3>1, SMT
      <3> QED
        BY <3>1, <3>2
    <2>2. CASE HasReturn(c, read)
      <3>1. PICK i \in c .. read - 1 : At(buffer, position + i) = CR
        BY <1>2, <2>2
      <3>2. position + i \in position .. (position + read) - 1
        BY <1>1, <3>1, SMT
      <3> QED
        BY <3>1, <3>2
    <2> QED
      BY <1>4, <2>1, <2>2
  <1>5. ASSUME NEW i \in position + 1 .. (position + read) - 1, At(buffer, i - 1) = CR
        PROVE  hint
    <2>1. i - 1 \in position .. (position + read) - 1
      BY <1>1, SMT
    <2> QED
      BY <1>3, <1>5, <2>1
  <1> QED
    BY <1>3, <1>4, <1>5 DEF Notices, HasReason, SeesAll

LEMMA ExtremeElements ==
    ASSUME NEW m \in Nat, NEW S \in SUBSET (0 .. m), S # {}
    PROVE  /\ Max(S) \in S
           /\ Min(S) \in S
           /\ \A y \in S : Min(S) <= y
  <1>1. \A x \in S : x \in 0 .. m /\ x \in Nat
    BY SMT
  <1>2. \E x \in S : \A y \in S : x <= y
    <2>1. S \in SUBSET Nat
      BY <1>1
    <2> QED
      BY <2>1, LeastElement
  <1>3. \E x \in S : \A y \in S : x >= y
    <2> DEFINE T == { k \in 0 .. m : m - k \in S }
    <2>1. T \in SUBSET Nat
      BY SMT
    <2>2. T # {}
      <3>1. PICK x \in S : TRUE
        OBVIOUS
      <3>2. m - x \in 0 .. m /\ m - (m - x) = x
        BY <1>1, SMT
      <3> QED
        BY <3>1, <3>2
    <2>3. PICK k \in T : \A n \in T : k <= n
      BY <2>1, <2>2, LeastElement
    <2>4. k \in 0 .. m /\ m - k \in S
      OBVIOUS
    <2>5. ASSUME NEW y \in S
          PROVE  m - k >= y
      <3>1. m - y \in 0 .. m /\ m - (m - y) = y /\ y \in Nat
        BY <1>1, SMT
      <3>2. m - y \in T
        BY <3>1
      <3>3. k <= m - y
        BY <2>3, <3>2
      <3> QED
        BY <2>4, <3>1, <3>3, SMT
    <2> QED
      BY <2>4, <2>5
  <1> QED
    BY <1>2, <1>3 DEF Max, Min

LEMMA SearchLineIndexed ==
    ASSUME IndexInvariant, SearchLine
    PROVE  IndexInvariant'
  <1> DEFINE c == ends.consumed
             feeds == FeedsIn(c, SourceBytes)
             first == Min(feeds)
  <1>1. /\ UNCHANGED <<blockVars, capacity, offsets, cr, position>>
        /\ pc = "scalar" /\ SourceLeft > 0
        /\ IF RoomLeft = 0
           THEN EndsReturns
           ELSE IF feeds = {}
           THEN /\ ends' = [ends EXCEPT !.consumed = SourceBytes]
                /\ pc' = "return"
           ELSE /\ ends' = [ends EXCEPT
                      !.stored   = Append(@, position + first + 1),
                      !.touched  = Greater(@, Len(ends.stored) + 1),
                      !.cr       = @ \/ Src(Greater(first - 1, 0)) = CR,
                      !.search   = first - ends.previous >= SearchLineBytes,
                      !.consumed = first + 1,
                      !.previous = first + 1]
                /\ UNCHANGED pc
    BY DEF SearchLine, Scalar
  <1>2. Calling
    BY <1>1 DEF Calling
  <1>3. /\ position \in Nat /\ SourceBytes \in Nat
        /\ c \in Nat /\ c < SourceBytes
        /\ ends.stored \in Seq(Nat) /\ Len(ends.stored) \in Nat
        /\ Room \in Nat /\ RoomLeft \in Nat /\ RoomLeft = Room - Len(ends.stored)
        /\ ends.touched \in Nat /\ ends.touched <= Room
        /\ ends.cr \in BOOLEAN /\ ends.search \in BOOLEAN
        /\ ends.previous \in Nat /\ ends.run \in Nat
    <2>1. /\ c \in Nat /\ SourceBytes \in Nat /\ SourceLeft = SourceBytes - c
      BY <1>2, CallFacts
    <2>2. c < SourceBytes
      BY <1>1, <2>1, SMT
    <2> QED
      BY <1>2, <2>2, CallFacts
  <1>4. /\ feeds = { i \in c .. SourceBytes - 1 : At(buffer, position + i) = LF }
        /\ \A read : FeedsIn(c, read) = { i \in c .. read - 1 : At(buffer, position + i) = LF }
        /\ \A read : EndsIn(c, read) = LineEnds(buffer, position + c, position + read)
    BY DEF FeedsIn, Src, EndsIn
  <1>5. ends \in [stored : Seq(Nat), consumed : Nat, cr : BOOLEAN, touched : Nat,
                  search : BOOLEAN, previous : Nat, run : Nat]
    BY DEF IndexInvariant, TypeInvariant
  <1>6. CASE RoomLeft = 0
    <2>1. pc' = "return" /\ ends' = ends
      BY <1>1, <1>6 DEF EndsReturns
    <2>2. ends' = [ends EXCEPT !.search = ends.search, !.run = ends.run]
      BY <1>5, <2>1
    <2> QED
      BY <1>1, <1>2, <1>3, <2>1, <2>2, IdleStepInCall
  <1>7. CASE RoomLeft # 0 /\ feeds = {}
    <2>1. ends' = [ends EXCEPT !.consumed = SourceBytes] /\ pc' = "return"
      BY <1>1, <1>7
    <2>2. /\ ends'.consumed = SourceBytes /\ ends'.stored = ends.stored
          /\ ends'.cr = ends.cr /\ ends'.touched = ends.touched
          /\ ends' \in [stored : Seq(Nat), consumed : Nat, cr : BOOLEAN, touched : Nat,
                        search : BOOLEAN, previous : Nat, run : Nat]
      BY <1>3, <1>5, <2>1
    <2>3. EndsIn(0, SourceBytes) = ends.stored
      <3>1. EndsIn(c, SourceBytes) = <<>>
        <4>1. LineFeeds(buffer, position + c, position + SourceBytes) = {}
          <5> SUFFICES ASSUME NEW i \in position + c .. (position + SourceBytes) - 1,
                              At(buffer, i) = LF
                       PROVE  FALSE
            BY DEF LineFeeds
          <5>1. i - position \in c .. SourceBytes - 1 /\ position + (i - position) = i
            BY <1>3, SMT
          <5>2. i - position \in feeds
            BY <1>4, <5>1
          <5> QED
            BY <1>7, <5>2
        <4>2. position + c \in Nat /\ position + SourceBytes \in Nat
          BY <1>3, SMT
        <4> QED
          BY <1>4, <4>1, <4>2, NoEnd
      <3>2. ends.stored \o EndsIn(c, SourceBytes) = EndsIn(0, SourceBytes)
        <4>1. SourceBytes \in Nat /\ c <= SourceBytes /\ SourceBytes <= SourceBytes
          BY <1>3, SMT
        <4> QED
          BY <1>2, <4>1, StoredJoin
      <3>3. ends.stored \o <<>> = ends.stored
        BY <1>3, ConcatEmptySeq
      <3> QED
        BY <3>1, <3>2, <3>3
    <2>4. /\ Notices(buffer, position + 1, position + SourceBytes, ends.cr)
          /\ HasReason(buffer, position, position + SourceBytes, ends.cr)
      <3>1. LET hint == ends.cr \/ \E i \in {} : Src(Greater(i - 1, 0)) = CR
            IN  /\ Notices(buffer, position + 1, position + SourceBytes, hint)
                /\ HasReason(buffer, position, position + SourceBytes, hint)
        BY <1>2, <1>3, <1>7, SeenHints
      <3>2. (ends.cr \/ \E i \in {} : Src(Greater(i - 1, 0)) = CR) = ends.cr
        BY <1>3
      <3> QED
        BY <3>1, <3>2
    <2>5. SourceBytes <= SourceBytes /\ Len(ends.stored) <= Room
      BY <1>3, SMT
    <2> QED
      BY <1>1, <1>2, <1>3, <2>1, <2>2, <2>3, <2>4, <2>5, StepInCall
  <1>8. CASE RoomLeft # 0 /\ feeds # {}
    <2>1. /\ first \in feeds
          /\ \A y \in feeds : first <= y
      <3>1. feeds \in SUBSET (0 .. SourceBytes)
        <4>1. feeds \in SUBSET (c .. SourceBytes - 1)
          BY <1>4
        <4>2. c .. SourceBytes - 1 \subseteq 0 .. SourceBytes
          BY <1>3, SMT
        <4> HIDE DEF feeds
        <4> QED
          BY <4>1, <4>2
      <3> QED
        BY <1>3, <1>8, <3>1, ExtremeElements
    <2>2. first \in c .. SourceBytes - 1 /\ At(buffer, position + first) = LF
      BY <1>4, <2>1
    <2>3. ends' = [ends EXCEPT
                      !.stored   = Append(@, position + first + 1),
                      !.touched  = Greater(@, Len(ends.stored) + 1),
                      !.cr       = @ \/ Src(Greater(first - 1, 0)) = CR,
                      !.search   = first - ends.previous >= SearchLineBytes,
                      !.consumed = first + 1,
                      !.previous = first + 1]
          /\ pc' = pc
      BY <1>1, <1>8
    <2>4. \A i \in feeds : i \in c .. SourceBytes - 1
      BY <1>4
    <2>5. \A i \in c .. SourceBytes - 1 : At(buffer, position + i) = LF => i \in feeds
      BY <1>4
    <2> HIDE DEF first, feeds
    <2> DEFINE read == first + 1
    <2>6. /\ first \in Nat /\ read \in Nat /\ c < read /\ c <= read /\ read <= SourceBytes
          /\ position + first \in Nat /\ position + c <= position + first
          /\ position + read = (position + first) + 1
          /\ position + c \in Nat
          /\ Greater(ends.touched, Len(ends.stored) + 1) \in 0 .. Room
          /\ Len(ends.stored) + 1 <= Room
      BY <1>3, <1>8, <2>2, SMTT(30) DEF Greater
    <2>7. FeedsIn(c, read) = {first}
      <3>1. ASSUME NEW i \in c .. read - 1, At(buffer, position + i) = LF
            PROVE  i = first
        <4>1. i \in c .. SourceBytes - 1
          BY <1>3, <2>2, <2>6, SMT
        <4>2. first <= i
          BY <2>1, <2>5, <3>1, <4>1
        <4> QED
          BY <1>3, <2>6, <4>1, <4>2, SMT
      <3>2. first \in c .. read - 1
        BY <1>3, <2>2, <2>6, SMT
      <3>3. FeedsIn(c, read) = { i \in c .. read - 1 : At(buffer, position + i) = LF }
        BY <1>4
      <3> HIDE DEF read
      <3> QED
        BY <2>2, <3>1, <3>2, <3>3
    <2>8. EndsIn(c, read) = <<(position + first) + 1>>
      <3>1. LineFeeds(buffer, position + c, (position + first) + 1) = {position + first}
        <4>1. ASSUME NEW i \in position + c .. ((position + first) + 1) - 1, At(buffer, i) = LF
              PROVE  i = position + first
          <5>1. i - position \in c .. read - 1 /\ position + (i - position) = i
            BY <1>3, <2>6, SMT
          <5>2. i - position \in FeedsIn(c, read)
            BY <1>4, <4>1, <5>1
          <5>3. i - position = first
            BY <2>7, <5>2
          <5> QED
            BY <1>3, <5>1, <5>3
        <4>2. position + first \in position + c .. ((position + first) + 1) - 1
          BY <1>3, <2>6, SMT
        <4> QED
          BY <2>2, <4>1, <4>2 DEF LineFeeds
      <3>2. LineEnds(buffer, position + c, (position + first) + 1) = <<(position + first) + 1>>
        BY <2>6, <3>1, OneEnd
      <3> QED
        BY <1>4, <2>6, <3>2
    <2>9. /\ ends'.consumed = read
          /\ ends'.stored = Append(ends.stored, position + first + 1)
          /\ ends'.cr = (ends.cr \/ Src(Greater(first - 1, 0)) = CR)
          /\ ends'.touched = Greater(ends.touched, Len(ends.stored) + 1)
      BY <1>5, <2>3
    <2>10. ends'.stored = EndsIn(0, read) /\ Len(ends'.stored) <= Room
      <3>1. ends.stored \o EndsIn(c, read) = EndsIn(0, read)
        BY <1>2, <2>6, StoredJoin
      <3>2. position + first + 1 = (position + first) + 1 /\ (position + first) + 1 \in Nat
        BY <2>6, SMT
      <3>3. Append(ends.stored, (position + first) + 1) = ends.stored \o <<(position + first) + 1>>
        BY <1>3, <3>2, AppendIsConcat
      <3>4. Len(Append(ends.stored, (position + first) + 1)) = Len(ends.stored) + 1
        BY <1>3, <3>2, AppendProperties
      <3> QED
        BY <2>6, <2>8, <2>9, <3>1, <3>2, <3>3, <3>4
    <2>11. /\ Notices(buffer, position + 1, position + read, ends'.cr)
           /\ HasReason(buffer, position, position + read, ends'.cr)
      <3>1. LET hint == ends.cr \/ \E i \in {first} : Src(Greater(i - 1, 0)) = CR
            IN  /\ Notices(buffer, position + 1, position + read, hint)
                /\ HasReason(buffer, position, position + read, hint)
        BY <1>2, <2>6, <2>7, SeenHints
      <3>2. (ends.cr \/ \E i \in {first} : Src(Greater(i - 1, 0)) = CR)
              = (ends.cr \/ Src(Greater(first - 1, 0)) = CR)
        OBVIOUS
      <3> QED
        BY <2>9, <3>1, <3>2
    <2>12. ends' \in [stored : Seq(Nat), consumed : Nat, cr : BOOLEAN, touched : Nat,
                      search : BOOLEAN, previous : Nat, run : Nat]
      <3>1. Append(ends.stored, position + first + 1) \in Seq(Nat)
        <4>1. position + first + 1 \in Nat
          BY <1>3, <2>6, SMT
        <4> QED
          BY <1>3, <4>1, AppendProperties
      <3>2. Greater(ends.touched, Len(ends.stored) + 1) \in Nat
        BY <1>3, <2>6, SMT
      <3>3. /\ (ends.cr \/ Src(Greater(first - 1, 0)) = CR) \in BOOLEAN
            /\ (first - ends.previous >= SearchLineBytes) \in BOOLEAN
        BY <1>3
      <3> QED
        BY <1>5, <2>3, <2>6, <3>1, <3>2, <3>3
    <2>13. ends'.touched <= Room
      BY <1>3, <2>6, <2>9, SMT
    <2>14. pc' = "scalar"
      BY <1>1, <2>3
    <2> HIDE DEF read
    <2> QED
      BY <1>1, <1>2, <2>6, <2>9, <2>10, <2>11, <2>12, <2>13, <2>14, StepInCall
  <1> QED
    BY <1>6, <1>7, <1>8

LEMMA FeedsInAreFew ==
    ASSUME NEW from \in Nat, NEW to \in Nat, from <= to
    PROVE  /\ FeedsIn(from, to) \in SUBSET (0 .. to)
           /\ Cardinality(FeedsIn(from, to)) \in 0 .. to - from
  <1> DEFINE feeds == FeedsIn(from, to)
  <1>1. feeds \in SUBSET (from .. to - 1)
    BY DEF FeedsIn
  <1>2. from .. to - 1 \subseteq 0 .. to
    BY SMT
  <1>3. /\ IsFiniteSet(from .. to - 1)
        /\ Cardinality(from .. to - 1) = to - from
    <2>1. to - 1 \in Int /\ from \in Int
      BY SMT
    <2>2. /\ IsFiniteSet(from .. to - 1)
          /\ Cardinality(from .. to - 1) = IF from > to - 1 THEN 0 ELSE (to - 1) - from + 1
      BY <2>1, FS_Interval
    <2> QED
      BY <2>2, SMT
  <1>4. IsFiniteSet(feeds) /\ Cardinality(feeds) <= Cardinality(from .. to - 1)
    BY <1>1, <1>3, FS_Subset
  <1>5. Cardinality(feeds) \in Nat
    BY <1>4, FS_CardinalityType
  <1> HIDE DEF feeds
  <1>6. Cardinality(feeds) \in 0 .. to - from
    BY <1>3, <1>4, <1>5, SMT
  <1>7. feeds \in SUBSET (0 .. to)
    BY <1>1, <1>2
  <1> QED
    BY <1>6, <1>7 DEF feeds

LEMMA MaskBlockIndexed ==
    ASSUME IndexInvariant, MaskBlock
    PROVE  IndexInvariant'
  <1> DEFINE c == ends.consumed
             read == c + KernelBytes
             feeds == FeedsIn(c, read)
             count == Cardinality(feeds)
             seen == IF count < 2 THEN feeds \cup {read} ELSE feeds
  <1>1. /\ UNCHANGED <<blockVars, capacity, offsets, cr, position>>
        /\ pc = "scalar"
        /\ IF SourceLeft < KernelBytes
           THEN /\ ends' = [ends EXCEPT !.search = TRUE]
                /\ pc' = pc
           ELSE IF ~RoomForMask
           THEN EndsReturns
           ELSE /\ ends' = [ends EXCEPT
                      !.stored   = @ \o EndsIn(c, read),
                      !.touched  = Greater(@, Len(ends.stored) + Greater(2, count)),
                      !.cr       = @ \/ \E i \in seen : Src(Greater(i - 1, 0)) = CR,
                      !.search   = count < 2,
                      !.consumed = read,
                      !.previous = IF feeds = {} THEN @ ELSE Max(feeds) + 1]
                /\ pc' = pc
    BY DEF MaskBlock, Scalar
  <1>2. Calling
    BY <1>1 DEF Calling
  <1>3. /\ SourceBytes \in Nat /\ c \in Nat /\ SourceLeft = SourceBytes - c
        /\ ends.stored \in Seq(Nat) /\ Len(ends.stored) \in Nat
        /\ Room \in Nat /\ RoomLeft \in Nat /\ RoomLeft = Room - Len(ends.stored)
        /\ ends.touched \in Nat /\ ends.touched <= Room
        /\ ends.cr \in BOOLEAN /\ ends.search \in BOOLEAN
        /\ ends.previous \in Nat /\ ends.run \in Nat
        /\ KernelBytes \in Nat /\ KernelBytes >= 4
    BY <1>2, CallFacts
  <1>4. ends \in [stored : Seq(Nat), consumed : Nat, cr : BOOLEAN, touched : Nat,
                  search : BOOLEAN, previous : Nat, run : Nat]
    BY DEF IndexInvariant, TypeInvariant
  <1>5. CASE SourceLeft < KernelBytes
    <2>1. ends' = [ends EXCEPT !.search = TRUE, !.run = ends.run] /\ pc' = "scalar"
      BY <1>1, <1>4, <1>5
    <2> QED
      BY <1>1, <1>2, <1>3, <2>1, IdleStepInCall
  <1>6. CASE ~ (SourceLeft < KernelBytes) /\ ~RoomForMask
    <2>1. pc' = "return" /\ ends' = ends
      BY <1>1, <1>6 DEF EndsReturns
    <2>2. ends' = [ends EXCEPT !.search = ends.search, !.run = ends.run]
      BY <1>4, <2>1
    <2> QED
      BY <1>1, <1>2, <1>3, <2>1, <2>2, IdleStepInCall
  <1>7. CASE ~ (SourceLeft < KernelBytes) /\ RoomForMask
    <2>1. /\ ends' = [ends EXCEPT
                      !.stored   = @ \o EndsIn(c, read),
                      !.touched  = Greater(@, Len(ends.stored) + Greater(2, count)),
                      !.cr       = @ \/ \E i \in seen : Src(Greater(i - 1, 0)) = CR,
                      !.search   = count < 2,
                      !.consumed = read,
                      !.previous = IF feeds = {} THEN @ ELSE Max(feeds) + 1]
          /\ pc' = "scalar"
      BY <1>1, <1>7
    <2>2. /\ read \in Nat /\ c < read /\ c <= read /\ read <= SourceBytes /\ read - c = KernelBytes
          /\ RoomLeft >= KernelBytes
      BY <1>3, <1>7, SMTT(30) DEF RoomForMask
    <2>3. /\ feeds \in SUBSET (0 .. read) /\ count \in 0 .. KernelBytes
          /\ feeds \subseteq seen /\ seen \subseteq feeds \cup {read}
      <3> HIDE DEF read
      <3>1. /\ FeedsIn(c, read) \in SUBSET (0 .. read)
            /\ Cardinality(FeedsIn(c, read)) \in 0 .. read - c
        BY <1>3, <2>2, FeedsInAreFew
      <3> QED
        BY <2>2, <3>1
    <2>4. feeds # {} => Max(feeds) + 1 \in Nat
      <3> HIDE DEF read, feeds
      <3> SUFFICES ASSUME feeds # {} PROVE Max(feeds) + 1 \in Nat
        OBVIOUS
      <3>1. Max(feeds) \in feeds
        BY <2>2, <2>3, ExtremeElements
      <3>2. Max(feeds) \in 0 .. read
        BY <2>3, <3>1
      <3> QED
        BY <3>2, SMT
    <2> HIDE DEF read
    <2>5. /\ ends.stored \o EndsIn(c, read) = EndsIn(0, read)
          /\ EndsIn(0, read) \in Seq(Nat)
          /\ Len(EndsIn(0, read)) = Len(ends.stored) + Len(EndsIn(c, read))
          /\ Len(EndsIn(c, read)) \in 0 .. read - c
      BY <1>2, <2>2, StoredJoin
    <2>6. LET hint == ends.cr \/ \E i \in seen : Src(Greater(i - 1, 0)) = CR
          IN  /\ Notices(buffer, position + 1, position + read, hint)
              /\ HasReason(buffer, position, position + read, hint)
      <3> DEFINE looked == seen
      <3>1. FeedsIn(c, read) \subseteq looked /\ looked \subseteq FeedsIn(c, read) \cup {read}
        BY <2>3
      <3> HIDE DEF looked
      <3>2. LET hint == ends.cr \/ \E i \in looked : Src(Greater(i - 1, 0)) = CR
            IN  /\ Notices(buffer, position + 1, position + read, hint)
                /\ HasReason(buffer, position, position + read, hint)
        BY <1>2, <2>2, <3>1, SeenHints
      <3> QED
        BY <3>2 DEF looked
    <2> HIDE DEF feeds, count, seen
    <2>7. /\ Greater(ends.touched, Len(ends.stored) + Greater(2, count)) \in 0 .. Room
          /\ Len(EndsIn(0, read)) <= Room
      <3> DEFINE stored == Len(ends.stored)
                 more == Len(EndsIn(c, read))
      <3>1. /\ stored \in Nat /\ Room \in Nat /\ RoomLeft = Room - stored /\ RoomLeft >= KernelBytes
            /\ KernelBytes \in Nat /\ KernelBytes >= 4
            /\ ends.touched \in Nat /\ ends.touched <= Room
            /\ count \in 0 .. KernelBytes /\ more \in 0 .. KernelBytes
            /\ Len(EndsIn(0, read)) = stored + more
        BY <1>3, <2>2, <2>3, <2>5
      <3> HIDE DEF stored, more
      <3>2. Len(EndsIn(0, read)) <= Room
        BY <3>1, SMT
      <3>3. Greater(2, count) \in 0 .. KernelBytes
        BY <3>1, SMT DEF Greater
      <3>4. Greater(ends.touched, stored + Greater(2, count)) \in 0 .. Room
        BY <3>1, <3>3, SMT DEF Greater
      <3> QED
        BY <3>2, <3>4 DEF stored
    <2>8. /\ ends'.consumed = read
          /\ ends'.stored = EndsIn(0, read)
          /\ ends'.cr = (ends.cr \/ \E i \in seen : Src(Greater(i - 1, 0)) = CR)
          /\ ends'.touched = Greater(ends.touched, Len(ends.stored) + Greater(2, count))
      BY <1>4, <2>1, <2>5
    <2>9. ends' \in [stored : Seq(Nat), consumed : Nat, cr : BOOLEAN, touched : Nat,
                     search : BOOLEAN, previous : Nat, run : Nat]
      <3>1. Greater(ends.touched, Len(ends.stored) + Greater(2, count)) \in Nat
        BY <1>3, <2>7, SMT
      <3>2. /\ (ends.cr \/ \E i \in seen : Src(Greater(i - 1, 0)) = CR) \in BOOLEAN
            /\ (count < 2) \in BOOLEAN
        BY <1>3
      <3>3. (IF feeds = {} THEN ends.previous ELSE Max(feeds) + 1) \in Nat
        BY <1>3, <2>4
      <3>4. ends.stored \o EndsIn(c, read) \in Seq(Nat)
        BY <2>5
      <3> QED
        BY <1>4, <2>1, <2>2, <3>1, <3>2, <3>3, <3>4
    <2>10. ends'.touched <= Room
      BY <1>3, <2>7, <2>8, SMT
    <2> QED
      BY <1>1, <1>2, <2>1, <2>2, <2>6, <2>7, <2>8, <2>9, <2>10, StepInCall
  <1> QED
    BY <1>5, <1>6, <1>7

LEMMA ScalarDoneIndexed ==
    ASSUME IndexInvariant, ScalarDone
    PROVE  IndexInvariant'
  <1>1. /\ UNCHANGED <<blockVars, capacity, offsets, cr, position>>
        /\ pc = "scalar" /\ pc' = "return" /\ ends' = ends
    BY DEF ScalarDone, Scalar, EndsReturns
  <1>2. Calling
    BY <1>1 DEF Calling
  <1>3. ends.search \in BOOLEAN /\ ends.run \in Nat
    BY <1>2, CallFacts
  <1>4. ends' = [ends EXCEPT !.search = ends.search, !.run = ends.run]
    BY <1>1 DEF IndexInvariant, TypeInvariant
  <1> QED
    BY <1>1, <1>2, <1>3, <1>4, IdleStepInCall

\* The blocks of a run have room for all their bytes' ends, and are there.
LEMMA RunFits ==
    ASSUME IndexInvariant, Calling
    PROVE  /\ Run \in Nat
           /\ Run * KernelBytes <= RoomLeft
           /\ Run * KernelBytes <= SourceLeft
  <1> DEFINE q == RoomLeft \div KernelBytes
             w == SourceLeft \div KernelBytes
  <1>1. RoomLeft \in Nat /\ SourceLeft \in Nat /\ KernelBytes \in Nat \ {0}
    <2>1. RoomLeft \in Nat /\ SourceLeft \in Nat /\ KernelBytes \in Nat /\ KernelBytes >= 4
      BY CallFacts
    <2> QED
      BY <2>1, SMT
  <1>2. ASSUME NEW a \in Nat
        PROVE  a \div KernelBytes \in Nat /\ KernelBytes * (a \div KernelBytes) <= a
    <2> DEFINE d == a \div KernelBytes
               r == a % KernelBytes
               product == KernelBytes * d
    <2>1. a \in Int
      BY SMT
    <2>2. d \in Int /\ r \in 0 .. KernelBytes - 1 /\ a = product + r
      BY <1>1, <2>1, DivisionFacts
    <2>3. d \in Nat
      BY <1>1, SMT
    <2> HIDE DEF d, r
    <2>4. product \in Nat
      BY <1>1, <2>3, SMT
    <2> HIDE DEF product
    <2>5. product <= a
      BY <1>1, <2>2, <2>4, SMT
    <2> QED
      BY <2>3, <2>5 DEF product, d
  <1>3. q \in Nat /\ KernelBytes * q <= RoomLeft /\ w \in Nat /\ KernelBytes * w <= SourceLeft
    BY <1>1, <1>2
  <1> HIDE DEF q, w
  <1>4. ASSUME NEW n \in Nat, n <= q, n <= w
        PROVE  n * KernelBytes <= RoomLeft /\ n * KernelBytes <= SourceLeft
    <2> DEFINE product == KernelBytes * n
               most == KernelBytes * q
               whole == KernelBytes * w
    <2>1. product <= most /\ product \in Nat /\ most \in Nat
      BY <1>1, <1>3, <1>4, ProductOrder
    <2>2. product <= whole /\ whole \in Nat
      BY <1>1, <1>3, <1>4, ProductOrder
    <2>3. n * KernelBytes = product
      BY <1>1, SMT
    <2>4. most <= RoomLeft /\ whole <= SourceLeft
      BY <1>3
    <2> HIDE DEF product, most, whole
    <2>5. product <= RoomLeft /\ product <= SourceLeft
      BY <1>1, <2>1, <2>2, <2>4, SMT
    <2> QED
      BY <2>3, <2>5
  <1>5. Run = IF backend = "AVX" THEN Lesser(q, w)
              ELSE IF RoomLeft >= KernelBytes /\ w > 0 THEN 1 ELSE 0
    BY DEF Run, WholeLeft, q, w
  <1>6. CASE backend = "AVX"
    <2>1. Run \in Nat /\ Run <= q /\ Run <= w
      BY <1>3, <1>5, <1>6, SMT DEF Lesser
    <2> QED
      BY <1>4, <2>1
  <1>7. CASE backend # "AVX" /\ RoomLeft >= KernelBytes /\ w > 0
    <2>1. Run = 1
      BY <1>5, <1>7
    <2>2. 1 * KernelBytes = KernelBytes
      BY <1>1, SMT
    <2>3. KernelBytes <= SourceLeft
      <3> DEFINE whole == KernelBytes * w
                 once == KernelBytes * 1
      <3>1. 1 <= w /\ 1 \in Nat
        BY <1>3, <1>7, SMT
      <3>2. once <= whole /\ once \in Nat /\ whole \in Nat
        BY <1>1, <1>3, <3>1, ProductOrder
      <3>3. once = KernelBytes
        BY <1>1, SMT
      <3>4. whole <= SourceLeft
        BY <1>3
      <3> HIDE DEF once, whole
      <3> QED
        BY <1>1, <3>2, <3>3, <3>4, SMT
    <2>4. KernelBytes <= RoomLeft
      BY <1>1, <1>7, SMT
    <2> QED
      BY <2>1, <2>2, <2>3, <2>4
  <1>8. CASE backend # "AVX" /\ ~ (RoomLeft >= KernelBytes /\ w > 0)
    <2>1. Run = 0
      BY <1>5, <1>8
    <2>2. 0 * KernelBytes = 0
      BY <1>1, SMT
    <2>3. 0 <= RoomLeft /\ 0 <= SourceLeft
      BY <1>1, SMT
    <2> QED
      BY <2>1, <2>2, <2>3
  <1> QED
    BY <1>6, <1>7, <1>8

LEMMA ArmRunIndexed ==
    ASSUME IndexInvariant, ArmRun
    PROVE  IndexInvariant'
  <1>1. /\ UNCHANGED <<blockVars, capacity, offsets, cr, position>>
        /\ pc = "kernel" /\ pc' \in {"kernel", "tail"}
        /\ ends' = [ends EXCEPT !.run = Run]
    BY DEF ArmRun, Vector
  <1>2. Calling
    BY <1>1 DEF Calling
  <1>3. ends.search \in BOOLEAN
    BY <1>2, CallFacts
  <1>4. Run \in Nat /\ Run * KernelBytes <= RoomLeft /\ Run * KernelBytes <= SourceLeft
    BY <1>2, RunFits
  <1>5. ends' = [ends EXCEPT !.search = ends.search, !.run = Run]
    BY <1>1 DEF IndexInvariant, TypeInvariant
  <1> HIDE DEF Run
  <1> QED
    BY <1>1, <1>2, <1>3, <1>4, <1>5, IdleStepInCall

LEMMA KernelBlockIndexed ==
    ASSUME IndexInvariant, KernelBlock
    PROVE  IndexInvariant'
  <1> DEFINE c == ends.consumed
             read == c + KernelBytes
             count == Cardinality(FeedsIn(c, read))
             most == IF count > 2 THEN Greater(4, count) ELSE 2
             stored == Len(ends.stored)
             more == Len(EndsIn(c, read))
             rest == (ends.run - 1) * KernelBytes
  <1>1. /\ UNCHANGED <<blockVars, capacity, offsets, cr, position>>
        /\ pc = "kernel" /\ pc' = "kernel" /\ ends.run > 0
        /\ ends' = [ends EXCEPT
              !.stored   = @ \o EndsIn(c, read),
              !.touched  = Greater(@, stored + most),
              !.cr       = @ \/ HasReturn(c, read),
              !.consumed = read,
              !.run      = @ - 1]
    BY DEF KernelBlock, Vector
  <1>2. Calling
    BY <1>1 DEF Calling
  <1>3. /\ SourceBytes \in Nat /\ c \in Nat /\ SourceLeft = SourceBytes - c
        /\ ends.stored \in Seq(Nat) /\ stored \in Nat
        /\ Room \in Nat /\ RoomLeft = Room - stored
        /\ ends.touched \in Nat /\ ends.touched <= Room
        /\ ends.cr \in BOOLEAN /\ ends.run \in Nat
        /\ KernelBytes \in Nat /\ KernelBytes >= 4
    BY <1>2, CallFacts
  <1>4. ends \in [stored : Seq(Nat), consumed : Nat, cr : BOOLEAN, touched : Nat,
                  search : BOOLEAN, previous : Nat, run : Nat]
    BY DEF IndexInvariant, TypeInvariant
  <1>5. /\ rest \in Nat /\ rest + KernelBytes <= RoomLeft /\ rest + KernelBytes <= SourceLeft
        /\ ends.run - 1 \in Nat
    <2>1. ends.run * KernelBytes <= RoomLeft /\ ends.run * KernelBytes <= SourceLeft
      BY <1>1 DEF IndexInvariant, Fits
    <2>2. ends.run - 1 \in Nat /\ (ends.run - 1) + 1 = ends.run
      BY <1>1, <1>3, SMT
    <2>3. rest \in Nat /\ ((ends.run - 1) + 1) * KernelBytes = rest + KernelBytes
      BY <1>3, <2>2, BlockProduct
    <2> QED
      BY <2>1, <2>2, <2>3
  <1>6. SeesAll(buffer, position, position + c, ends.cr)
    BY <1>1, <1>2 DEF IndexInvariant, Found
  <1> HIDE DEF rest, stored
  <1>7. /\ read \in Nat /\ c <= read /\ read <= SourceBytes /\ read - c = KernelBytes
        /\ rest <= SourceBytes - read
    <2> DEFINE bytes == SourceBytes
               left == SourceLeft
               done == ends.consumed
    <2>1. /\ bytes \in Nat /\ done \in Nat /\ left = bytes - done /\ KernelBytes \in Nat
          /\ rest \in Nat /\ rest + KernelBytes <= left
      BY <1>3, <1>5
    <2> HIDE DEF bytes, left, done
    <2>2. /\ done + KernelBytes \in Nat /\ done <= done + KernelBytes
          /\ done + KernelBytes <= bytes /\ (done + KernelBytes) - done = KernelBytes
          /\ rest <= bytes - (done + KernelBytes)
      BY <2>1, SMT
    <2> QED
      BY <2>2 DEF bytes, done
  <1> HIDE DEF read
  <1>8. count \in 0 .. KernelBytes
    <2>1. Cardinality(FeedsIn(c, read)) \in 0 .. read - c
      BY <1>3, <1>7, FeedsInAreFew
    <2> QED
      BY <1>7, <2>1
  <1>9. /\ ends.stored \o EndsIn(c, read) = EndsIn(0, read)
        /\ EndsIn(0, read) \in Seq(Nat)
        /\ Len(EndsIn(0, read)) = stored + more
        /\ more \in 0 .. KernelBytes
    <2>1. /\ ends.stored \o EndsIn(c, read) = EndsIn(0, read)
          /\ EndsIn(0, read) \in Seq(Nat)
          /\ Len(EndsIn(0, read)) = Len(ends.stored) + Len(EndsIn(c, read))
          /\ Len(EndsIn(c, read)) \in 0 .. read - c
      BY <1>2, <1>7, StoredJoin
    <2> QED
      BY <1>7, <2>1 DEF stored
  <1>10. /\ Notices(buffer, position + 1, position + read, ends.cr \/ HasReturn(c, read))
         /\ HasReason(buffer, position, position + read, ends.cr \/ HasReturn(c, read))
         /\ SeesAll(buffer, position, position + read, ends.cr \/ HasReturn(c, read))
    BY <1>2, <1>6, <1>7, AllHints
  <1> HIDE DEF count, more
  <1>11. /\ Greater(ends.touched, stored + most) \in Nat
         /\ Greater(ends.touched, stored + most) <= Room
         /\ Len(EndsIn(0, read)) <= Room
         /\ rest <= Room - Len(EndsIn(0, read))
    <2>1. most \in 0 .. KernelBytes
      BY <1>3, <1>8, SMT DEF Greater
    <2> HIDE DEF most
    <2>2. Greater(ends.touched, stored + most) \in Nat /\ Greater(ends.touched, stored + most) <= Room
      BY <1>3, <1>5, <2>1, SMT DEF Greater
    <2>3. Len(EndsIn(0, read)) <= Room /\ rest <= Room - Len(EndsIn(0, read))
      <3> DEFINE all == Len(EndsIn(0, read))
      <3>1. all = stored + more /\ more \in 0 .. KernelBytes
        BY <1>9
      <3> HIDE DEF all
      <3>2. all <= Room /\ rest <= Room - all
        BY <1>3, <1>5, <3>1, SMT
      <3> QED
        BY <3>2 DEF all
    <2> QED
      BY <2>2, <2>3
  <1> HIDE DEF most
  <1>12. /\ ends'.consumed = read
         /\ ends'.stored = EndsIn(0, read)
         /\ ends'.cr = (ends.cr \/ HasReturn(c, read))
         /\ ends'.touched = Greater(ends.touched, stored + most)
         /\ ends'.run = ends.run - 1
    BY <1>1, <1>4, <1>9
  <1>13. ends' \in [stored : Seq(Nat), consumed : Nat, cr : BOOLEAN, touched : Nat,
                    search : BOOLEAN, previous : Nat, run : Nat]
    <2>1. (ends.cr \/ HasReturn(c, read)) \in BOOLEAN
      BY <1>3
    <2>2. ends.stored \o EndsIn(c, read) \in Seq(Nat)
      BY <1>9
    <2> QED
      BY <1>1, <1>4, <1>5, <1>7, <1>11, <2>1, <2>2
  <1>14. /\ ends'.run * KernelBytes <= Room - Len(ends'.stored)
         /\ ends'.run * KernelBytes <= SourceBytes - ends'.consumed
    BY <1>7, <1>11, <1>12 DEF rest
  <1> QED
    BY <1>1, <1>2, <1>7, <1>10, <1>11, <1>12, <1>13, <1>14, StepInCall

LEMMA TailBlockIndexed ==
    ASSUME IndexInvariant, TailBlock
    PROVE  IndexInvariant'
  <1> DEFINE c == ends.consumed
             count == Cardinality(FeedsIn(c, SourceBytes))
             stored == Len(ends.stored)
             more == Len(EndsIn(c, SourceBytes))
  <1>1. /\ UNCHANGED <<blockVars, capacity, offsets, cr, position>>
        /\ pc = "tail" /\ pc' = "return"
        /\ ends' = IF TailFits
                   THEN [ends EXCEPT
                           !.stored   = @ \o EndsIn(c, SourceBytes),
                           !.touched  = Greater(@, stored + count),
                           !.cr       = @ \/ HasReturn(c, SourceBytes),
                           !.consumed = SourceBytes]
                   ELSE ends
    BY DEF TailBlock, Vector
  <1>2. Calling
    BY <1>1 DEF Calling
  <1>3. /\ SourceBytes \in Nat /\ c \in Nat /\ SourceLeft = SourceBytes - c /\ SourceLeft \in Nat
        /\ ends.stored \in Seq(Nat) /\ stored \in Nat
        /\ Room \in Nat /\ RoomLeft = Room - stored
        /\ ends.touched \in Nat /\ ends.touched <= Room
        /\ ends.cr \in BOOLEAN /\ ends.search \in BOOLEAN /\ ends.run \in Nat
    BY <1>2, CallFacts
  <1>4. ends \in [stored : Seq(Nat), consumed : Nat, cr : BOOLEAN, touched : Nat,
                  search : BOOLEAN, previous : Nat, run : Nat]
    BY DEF IndexInvariant, TypeInvariant
  <1>5. CASE ~TailFits
    <2>1. ends' = [ends EXCEPT !.search = ends.search, !.run = ends.run]
      BY <1>1, <1>4, <1>5
    <2> QED
      BY <1>1, <1>2, <1>3, <2>1, IdleStepInCall
  <1>6. CASE TailFits
    <2>1. /\ SourceBytes - c <= RoomLeft /\ c <= SourceBytes /\ SourceBytes <= SourceBytes
      BY <1>3, <1>6, SMT DEF TailFits
    <2>2. count \in 0 .. SourceBytes - c
      BY <1>3, <2>1, FeedsInAreFew
    <2>3. SeesAll(buffer, position, position + c, ends.cr)
      BY <1>1, <1>2 DEF IndexInvariant, Found
    <2>4. /\ ends.stored \o EndsIn(c, SourceBytes) = EndsIn(0, SourceBytes)
          /\ EndsIn(0, SourceBytes) \in Seq(Nat)
          /\ Len(EndsIn(0, SourceBytes)) = stored + more
          /\ more \in 0 .. SourceBytes - c
      BY <1>2, <1>3, <2>1, StoredJoin
    <2>5. /\ Notices(buffer, position + 1, position + SourceBytes, ends.cr \/ HasReturn(c, SourceBytes))
          /\ HasReason(buffer, position, position + SourceBytes, ends.cr \/ HasReturn(c, SourceBytes))
      BY <1>2, <1>3, <2>1, <2>3, AllHints
    <2> HIDE DEF stored, count, more
    <2>6. /\ Greater(ends.touched, stored + count) \in Nat
          /\ Greater(ends.touched, stored + count) <= Room
      BY <1>3, <2>1, <2>2, SMT DEF Greater
    <2>7. Len(EndsIn(0, SourceBytes)) <= Room
      <3> DEFINE all == Len(EndsIn(0, SourceBytes))
      <3>1. all = stored + more
        BY <2>4
      <3> HIDE DEF all
      <3>2. all <= Room
        BY <1>3, <2>1, <2>4, <3>1, SMT
      <3> QED
        BY <3>2 DEF all
    <2>8. ends' = [ends EXCEPT
                           !.stored   = @ \o EndsIn(c, SourceBytes),
                           !.touched  = Greater(@, stored + count),
                           !.cr       = @ \/ HasReturn(c, SourceBytes),
                           !.consumed = SourceBytes]
      BY <1>1, <1>6
    <2>9. /\ ends'.consumed = SourceBytes
          /\ ends'.stored = EndsIn(0, SourceBytes)
          /\ ends'.cr = (ends.cr \/ HasReturn(c, SourceBytes))
          /\ ends'.touched = Greater(ends.touched, stored + count)
      BY <1>4, <2>4, <2>8
    <2>10. ends' \in [stored : Seq(Nat), consumed : Nat, cr : BOOLEAN, touched : Nat,
                      search : BOOLEAN, previous : Nat, run : Nat]
      <3>1. (ends.cr \/ HasReturn(c, SourceBytes)) \in BOOLEAN
        BY <1>3
      <3>2. ends.stored \o EndsIn(c, SourceBytes) \in Seq(Nat)
        BY <2>4
      <3> QED
        BY <1>3, <1>4, <2>6, <2>8, <3>1, <3>2
    <2> QED
      BY <1>1, <1>2, <2>1, <2>5, <2>6, <2>7, <2>9, <2>10, StepInCall
  <1> QED
    BY <1>5, <1>6

-----------------------------------------------------------------------------
(* The theorems. *)

LEMMA StutterIndexed ==
    ASSUME IndexInvariant, UNCHANGED indexVars
    PROVE  IndexInvariant'
  <1>1. /\ backend' = backend /\ buffer' = buffer /\ maximum' = maximum
        /\ end' = end /\ LineStart' = LineStart
        /\ capacity' = capacity /\ offsets' = offsets /\ cr' = cr /\ position' = position
        /\ ends' = ends /\ pc' = pc
    BY DEF indexVars, end, LineStart
  <1>2. TypeInvariant' /\ Indexed' /\ Finished'
    BY <1>1 DEF IndexInvariant, TypeInvariant, Indexed, Finished, Calling
  <1>3. /\ SourceBytes' = SourceBytes /\ Room' = Room /\ RoomLeft' = RoomLeft
        /\ SourceLeft' = SourceLeft
        /\ EndsIn(0, ends.consumed)' = EndsIn(0, ends.consumed)
    BY <1>1 DEF SourceBytes, Room, RoomLeft, SourceLeft, EndsIn
  <1>4. Found' /\ Fits'
    BY <1>1, <1>3 DEF IndexInvariant, Found, Fits, Calling
  <1> QED
    BY <1>2, <1>4 DEF IndexInvariant

\* What has been indexed is right, and what is written has room, at every
\* step of the loop around Ends and of Ends itself.
THEOREM IndexInvariantHolds == IndexSpec => []IndexInvariant
  <1>1. IndexInit => IndexInvariant
    BY InitIndexed
  <1>2. IndexInvariant /\ [IndexNext]_indexVars => IndexInvariant'
    <2> SUFFICES ASSUME IndexInvariant, [IndexNext]_indexVars
                 PROVE  IndexInvariant'
      OBVIOUS
    <2>1. CASE Load
      BY <2>1, LoadIndexed
    <2>2. CASE CallEnds
      BY <2>2, CallEndsIndexed
    <2>3. CASE TakeEnds
      BY <2>3, TakeEndsIndexed
    <2>4. CASE FinishBlock
      BY <2>4, FinishBlockIndexed
    <2>5. CASE SearchLine
      BY <2>5, SearchLineIndexed
    <2>6. CASE MaskBlock
      BY <2>6, MaskBlockIndexed
    <2>7. CASE ScalarDone
      BY <2>7, ScalarDoneIndexed
    <2>8. CASE ArmRun
      BY <2>8, ArmRunIndexed
    <2>9. CASE KernelBlock
      BY <2>9, KernelBlockIndexed
    <2>10. CASE TailBlock
      BY <2>10, TailBlockIndexed
    <2>11. CASE UNCHANGED indexVars
      BY <2>11, StutterIndexed
    <2> QED
      BY <2>1, <2>2, <2>3, <2>4, <2>5, <2>6, <2>7, <2>8, <2>9, <2>10, <2>11 DEF IndexNext
  <1> QED
    BY <1>1, <1>2, PTL DEF IndexSpec

\* indexBlockLocked finds the start of the first line and the end of every
\* line of a block of any size, with any backend and however often Ends stops
\* for room; no line that ends in CR LF goes unnoticed; and MaxGap is the
\* length of the longest line.
THEOREM LineEndsAreFound == IndexSpec => []OffsetsAreLineEnds
  <1>1. IndexInvariant => OffsetsAreLineEnds
    <2> SUFFICES ASSUME IndexInvariant, pc = "done", LineStart # NoLine
                 PROVE  LET found == <<LineStart>> \o LineEnds(buffer, LineStart, end)
                        IN  /\ offsets = IF Last(found) < end THEN Append(found, end + 1) ELSE found
                            /\ cr \in ReturnHints(buffer, LineStart, end)
                            /\ MaxGap = Max({0} \cup Gaps(1, Len(offsets) - 1))
      BY DEF OffsetsAreLineEnds
    <2> DEFINE found == <<LineStart>> \o LineEnds(buffer, LineStart, end)
    <2>1. /\ offsets = IF Last(found) < end THEN Append(found, end + 1) ELSE found
          /\ cr \in ReturnHints(buffer, LineStart, end)
      BY DEF IndexInvariant, Finished
    <2>2. offsets \in Seq(Nat) /\ TypeInvariant
      BY DEF IndexInvariant, TypeInvariant
    <2>3. Len(offsets) >= 1
      <3>1. LineStart \in Nat /\ end \in Nat
        BY <2>2, FirstFacts
      <3>2. <<LineStart>> \in Seq(Nat) /\ LineEnds(buffer, LineStart, end) \in Seq(Nat)
        <4>1. <<LineStart>> \in Seq(Nat)
          BY <3>1
        <4>2. LineEnds(buffer, LineStart, end) \in Seq(Nat)
          BY <3>1, LineEndsAreExact
        <4> QED
          BY <4>1, <4>2
      <3>3. /\ found \in Seq(Nat)
            /\ Len(found) = Len(<<LineStart>>) + Len(LineEnds(buffer, LineStart, end))
        BY <3>2, ConcatProperties
      <3>4. Len(LineEnds(buffer, LineStart, end)) \in Nat /\ Len(<<LineStart>>) = 1
        BY <3>2, LenProperties
      <3> HIDE DEF found
      <3>5. Len(found) >= 1
        BY <3>3, <3>4, SMT
      <3>6. Len(Append(found, end + 1)) = Len(found) + 1
        <4>1. end + 1 \in Nat
          BY <3>1, SMT
        <4> QED
          BY <3>3, <4>1, AppendProperties
      <3>7. Len(found) \in Nat
        BY <3>3, LenProperties
      <3>8. CASE Last(found) < end
        <4>1. Len(offsets) = Len(found) + 1
          BY <2>1, <3>6, <3>8
        <4> QED
          BY <3>5, <3>7, <4>1, SMT
      <3>9. CASE ~ (Last(found) < end)
        BY <2>1, <3>5, <3>9
      <3> QED
        BY <3>8, <3>9
    <2>4. MaxGap = Max({0} \cup Gaps(1, Len(offsets) - 1))
      BY <2>2, <2>3, MaxGapExact
    <2> QED
      BY <2>1, <2>4
  <1> QED
    BY <1>1, IndexInvariantHolds, PTL

\* Neither backend writes past the storage of the offsets, not even the ends
\* it stores without counting them, and the storage keeps growOffsets' bound.
THEOREM RoomIsEnough == IndexSpec => []RoomSuffices
  <1>1. IndexInvariant => RoomSuffices
    <2> SUFFICES ASSUME IndexInvariant PROVE RoomSuffices
      OBVIOUS
    <2>1. capacity \in 0 .. maximum /\ maximum \in Nat /\ Len(offsets) <= capacity
      BY DEF IndexInvariant, TypeInvariant
    <2>2. capacity <= maximum
      BY <2>1, SMT
    <2> QED
      BY <2>1, <2>2 DEF RoomSuffices, IndexInvariant, Fits, Calling
  <1> QED
    BY <1>1, IndexInvariantHolds, PTL

-----------------------------------------------------------------------------
(* A batch in the order of its pool. *)

\* The order the batch was given lies in its block, and each line of it is
\* the one that Batch.Next computes from the line before.
OrderIsWalk ==
    /\ lines \in Nat
    /\ back \in 0 .. lines
    /\ order \in Seq(0 .. lines - 1)
    /\ \A k \in 1 .. Len(order) - 1 : order[k + 1] = Wrap(order[k] - back, lines)

\* The batch's stored position, when these lines were taken.
StandsBehind(taken) ==
    /\ taken \in Seq(Nat)
    /\ Len(taken) <= Len(order)
    /\ \A k \in 1 .. Len(taken) : taken[k] = order[k]
    /\ remaining = Len(order) - Len(taken)
    /\ remaining > 0 => next = order[Len(taken) + 1]

\* The lines taken agree with the order.
TakenInOrder ==
    /\ given \in Seq(Nat)
    /\ Len(given) <= Len(order)
    /\ \A k \in 1 .. Len(given) : given[k] = order[k]

\* Where a loop that runs undisturbed stands, for each of its yields.
LoopStands ==
    /\ loop.lines = lines
    /\ loop.back = back
    /\ loop.remaining \in Nat
    /\ Len(given) > 0
    /\ yielding = "linear" =>
          /\ lines - back = 1
          /\ loop.next \in Nat
          /\ loop.index \in 0 .. loop.remaining - 1
          /\ loop.next + loop.remaining <= lines
          /\ order[Len(given)] = loop.next + loop.index
          /\ Len(order) - Len(given) = loop.remaining - 1 - loop.index
    /\ yielding = "first" =>
          /\ loop.remaining >= 2
          /\ loop.first = order[Len(given)]
          /\ loop.second = Wrap(loop.first - back, lines)
          /\ Len(order) - Len(given) = loop.remaining - 1
    /\ yielding = "second" =>
          /\ loop.remaining >= 2
          /\ Len(given) > 1
          /\ loop.first = order[Len(given) - 1]
          /\ loop.second = order[Len(given)]
          /\ Len(order) - Len(given) = loop.remaining - 2
    /\ yielding = "last" => Len(order) = Len(given)

\* The local variables of Lines.
Locals == [lines : Nat, back : Nat, calls : Nat, next : Int, remaining : Nat,
           index : Nat, first : Int, second : Int, given : Seq(Nat)]

BatchInvariant ==
    /\ yielding \in {"idle", "linear", "first", "second", "last"}
    /\ calls \in Nat
    /\ OrderIsWalk
    /\ TakenInOrder
    /\ yielding = "idle" => StandsBehind(given)
    /\ yielding # "idle" =>
          /\ loop \in Locals
          /\ loop.calls <= calls
          /\ StandsBehind(loop.given)
          /\ CallsMatch => LoopStands

-----------------------------------------------------------------------------
(* Arithmetic. *)

\* Stepping back from an index of a block stays in the block.
LEMMA WrapInBlock ==
    ASSUME NEW n \in Nat, NEW b \in 0 .. n, NEW i \in 0 .. n - 1
    PROVE  Wrap(i - b, n) \in 0 .. n - 1
  BY SMT DEF Wrap

\* The double step that Lines precomputes is two single steps.
LEMMA TwoOnIsTwoSteps ==
    ASSUME NEW l, NEW n \in Nat, NEW b \in 0 .. n, l.lines = n, l.back = b,
           NEW i \in 0 .. n - 1
    PROVE  TwoOn(l, i) = Wrap(Wrap(i - b, n) - b, n)
  BY SMT DEF TwoOn, BackTwice, Wrap

\* In a permuted block the next position is one Wrap away.
LEMMA PositionFollows ==
    ASSUME NEW b \in PoolBlocks, NEW k \in Nat
    PROVE  /\ Position(b, k) \in 0 .. b.lines - 1
           /\ Position(b, k + 1) = Wrap(Position(b, k) - (b.lines - b.step), b.lines)
  <1> DEFINE p == b.first + k * b.step
             q == p \div b.lines
             r == p % b.lines
  <1>1. /\ b.lines \in Nat \ {0}
        /\ b.step \in 0 .. b.lines
        /\ b.first \in Nat
    BY BatchAssumption, SMT DEF PoolBlocks
  <1>2. k * b.step \in Nat /\ (k + 1) * b.step = k * b.step + b.step
    <2>1. \A s \in Nat : k * s \in Nat /\ (k + 1) * s = k * s + s
      BY SMT
    <2> QED
      BY <1>1, <2>1
  <1>3. p \in Nat /\ b.first + (k + 1) * b.step = p + b.step
    BY <1>1, <1>2, SMT
  <1>4. q \in Int /\ r \in 0 .. b.lines - 1 /\ p = b.lines * q + r
    <2> HIDE DEF p
    <2>1. p \in Int
      BY <1>3, SMT
    <2> QED
      BY <1>1, <2>1, DivisionFacts
  <1>5. Position(b, k) = r /\ Position(b, k + 1) = (p + b.step) % b.lines
    BY <1>3 DEF Position
  <1> HIDE DEF p, q, r
  <1>6. CASE r + b.step < b.lines
    <2>1. b.lines * q \in Int
      BY <1>1, <1>4, SMT
    <2>2. /\ p + b.step = b.lines * q + (r + b.step)
          /\ r + b.step \in 0 .. b.lines - 1
          /\ p + b.step \in Int
      BY <1>1, <1>3, <1>4, <1>6, <2>1, SMT
    <2>3. (p + b.step) % b.lines = r + b.step
      BY <1>1, <1>4, <2>2, RemainderUnique
    <2> QED
      BY <1>1, <1>4, <1>5, <1>6, <2>3, SMT DEF Wrap
  <1>7. CASE r + b.step >= b.lines
    <2>1. b.lines * (q + 1) = b.lines * q + b.lines /\ b.lines * q \in Int
      BY <1>1, <1>4, SMT
    <2>2. /\ p + b.step = b.lines * (q + 1) + (r + b.step - b.lines)
          /\ r + b.step - b.lines \in 0 .. b.lines - 1
          /\ q + 1 \in Int
          /\ p + b.step \in Int
      BY <1>1, <1>3, <1>4, <1>7, <2>1, SMT
    <2>3. (p + b.step) % b.lines = r + b.step - b.lines
      BY <1>1, <2>2, RemainderUnique
    <2> QED
      BY <1>1, <1>4, <1>5, <1>7, <2>3, SMT DEF Wrap
  <1> QED
    BY <1>1, <1>4, <1>6, <1>7, SMT

-----------------------------------------------------------------------------
(* NextBatch. *)

\* What NextBatch fills in agrees with the order of the pool.
LEMMA FillsInOrder ==
    ASSUME BatchInvariant, NextBatch \/ NextBatchFails
    PROVE  /\ calls' = calls + 1 /\ calls' \in Nat
           /\ given' = <<>>
           /\ OrderIsWalk' /\ TakenInOrder' /\ StandsBehind(<<>>)'
  <1>1. CASE NextBatchFails
    BY <1>1, SMT DEF NextBatchFails, BatchInvariant, OrderIsWalk, TakenInOrder, StandsBehind
  <1>2. CASE NextBatch
    <2>1. PICK b \in PoolBlocks :
             /\ lines' = b.lines
             /\ back' = b.lines - b.step
             /\ next' = Position(b, b.taken)
             /\ remaining' = b.lines - b.taken
             /\ order' = [k \in 1 .. b.lines - b.taken |-> Position(b, b.taken + k - 1)]
      BY <1>2 DEF NextBatch
    <2>2. /\ b.lines \in Nat \ {0}
          /\ b.step \in 0 .. b.lines
          /\ b.taken \in 0 .. b.lines - 1
      BY BatchAssumption, SMT DEF PoolBlocks
    <2>3. \A k \in Nat : /\ Position(b, k) \in 0 .. b.lines - 1
                         /\ Position(b, k + 1) = Wrap(Position(b, k) - (b.lines - b.step), b.lines)
      BY PositionFollows
    <2> DEFINE count == b.lines - b.taken
    <2>4. count \in Nat \ {0}
      BY <2>2, SMT
    <2>5. \A k \in 1 .. count : b.taken + k - 1 \in Nat /\ Position(b, b.taken + k - 1) \in 0 .. b.lines - 1
      BY <2>2, <2>3, SMT
    <2>6. order' \in Seq(0 .. lines' - 1) /\ Len(order') = count
      <3>1. order' \in [1 .. count -> 0 .. lines' - 1]
        BY <2>1, <2>5
      <3>2. order' \in Seq(0 .. lines' - 1)
        BY <2>4, <3>1, SeqDef
      <3>3. DOMAIN order' = 1 .. count /\ DOMAIN order' = 1 .. Len(order') /\ Len(order') \in Nat
        BY <3>1, <3>2, LenProperties
      <3> HIDE DEF count
      <3>4. Len(order') = count
        BY <2>4, <3>3, SMT
      <3> QED
        BY <3>2, <3>4
    <2>7. \A k \in 1 .. count : order'[k] = Position(b, b.taken + k - 1)
      BY <2>1
    <2>8. \A k \in 1 .. count - 1 : order'[k + 1] = Wrap(order'[k] - back', lines')
      <3> TAKE k \in 1 .. count - 1
      <3>1. /\ k \in 1 .. count /\ k + 1 \in 1 .. count
            /\ b.taken + k - 1 \in Nat
            /\ b.taken + (k + 1) - 1 = (b.taken + k - 1) + 1
        BY <2>2, <2>4, SMT
      <3> QED
        BY <2>1, <2>3, <2>7, <3>1
    <2>9. OrderIsWalk'
      <3>1. lines' \in Nat /\ back' \in 0 .. lines'
        BY <2>1, <2>2, SMT
      <3>2. \A k \in 1 .. Len(order') - 1 : order'[k + 1] = Wrap(order'[k] - back', lines')
        BY <2>6, <2>8
      <3> QED
        BY <2>6, <3>1, <3>2 DEF OrderIsWalk
    <2>10. given' = <<>> /\ calls' = calls + 1 /\ calls' \in Nat
      BY <1>2 DEF NextBatch, BatchInvariant
    <2>11. TakenInOrder'
      BY <2>4, <2>6, <2>10, SMT DEF TakenInOrder
    <2>12. next' = order'[1]
      <3>1. 1 \in 1 .. count /\ b.taken + 1 - 1 = b.taken
        BY <2>2, <2>4, SMT
      <3> QED
        BY <2>1, <2>7, <3>1
    <2>13. StandsBehind(<<>>)'
      BY <2>1, <2>4, <2>6, <2>12, SMT DEF StandsBehind
    <2> QED
      BY <2>9, <2>10, <2>11, <2>13
  <1> QED
    BY <1>1, <1>2

\* Filling a batch outside of a loop.
LEMMA RefillPreserves ==
    ASSUME BatchInvariant, Refill
    PROVE  BatchInvariant'
  <1>1. yielding = "idle" /\ yielding' = "idle"
    BY DEF Refill
  <1>2. /\ calls' \in Nat /\ given' = <<>>
        /\ OrderIsWalk' /\ TakenInOrder' /\ StandsBehind(<<>>)'
    BY FillsInOrder DEF Refill
  <1>3. StandsBehind(given)'
    BY <1>2 DEF StandsBehind
  <1> QED
    BY <1>1, <1>2, <1>3 DEF BatchInvariant

\* Filling it from a loop's body: the loop's counter of calls is behind now.
LEMMA BodyRefillsPreserves ==
    ASSUME BatchInvariant, BodyRefills
    PROVE  BatchInvariant'
  <1>1. yielding # "idle" /\ yielding' = yielding /\ loop' = [loop EXCEPT !.given = <<>>]
    BY DEF BodyRefills
  <1>2. /\ calls' = calls + 1 /\ calls' \in Nat /\ given' = <<>>
        /\ OrderIsWalk' /\ TakenInOrder' /\ StandsBehind(<<>>)'
    BY FillsInOrder DEF BodyRefills
  <1>3. /\ loop \in Locals
        /\ loop.calls <= calls /\ calls \in Nat
    BY <1>1 DEF BatchInvariant
  <1>4. /\ loop' \in Locals
        /\ loop'.calls = loop.calls /\ loop.calls \in Nat
        /\ loop'.given = <<>>
    <2>1. <<>> \in Seq(Nat)
      OBVIOUS
    <2> QED
      BY <1>1, <1>3, <2>1 DEF Locals
  <1>5. loop'.calls <= calls' /\ ~ CallsMatch'
    BY <1>2, <1>3, <1>4, SMT DEF CallsMatch
  <1>6. StandsBehind(loop.given)'
    BY <1>2, <1>4 DEF StandsBehind
  <1> QED
    BY <1>1, <1>2, <1>4, <1>5, <1>6 DEF BatchInvariant

-----------------------------------------------------------------------------
(* Taking lines. *)

\* What the invariant says of lengths and indices.
LEMMA Bounds ==
    ASSUME OrderIsWalk, TakenInOrder
    PROVE  /\ lines \in Nat
           /\ back \in 0 .. lines
           /\ Len(order) \in Nat
           /\ Len(given) \in 0 .. Len(order)
           /\ \A k \in 1 .. Len(order) : order[k] \in 0 .. lines - 1
  <1>1. lines \in Nat /\ back \in 0 .. lines /\ order \in Seq(0 .. lines - 1)
    BY DEF OrderIsWalk
  <1>2. given \in Seq(Nat) /\ Len(given) <= Len(order)
    BY DEF TakenInOrder
  <1>3. Len(order) \in Nat /\ Len(given) \in Nat
    BY <1>1, <1>2, LenProperties
  <1>4. \A k \in 1 .. Len(order) : order[k] \in 0 .. lines - 1
    BY <1>1, ElementOfSeq
  <1> QED
    BY <1>1, <1>2, <1>3, <1>4, SMT

\* The line behind those taken may be taken.
LEMMA TakeNextLine ==
    ASSUME OrderIsWalk, TakenInOrder, Len(given) < Len(order),
           NEW index, index = order[Len(given) + 1],
           given' = Append(given, index), order' = order
    PROVE  TakenInOrder' /\ Len(given') = Len(given) + 1 /\ Len(given') \in Nat \ {0}
  <1>1. /\ Len(given) \in Nat /\ Len(order) \in Nat
        /\ index \in Nat
    <2>1. Len(given) + 1 \in 1 .. Len(order)
      BY Bounds, SMT
    <2> QED
      BY <2>1, Bounds, SMT
  <1>2. /\ given' \in Seq(Nat)
        /\ Len(given') = Len(given) + 1
        /\ \A k \in 1 .. Len(given) : given'[k] = given[k]
        /\ given'[Len(given) + 1] = index
    BY <1>1, SMT DEF TakenInOrder
  <1>3. \A k \in 1 .. Len(given') : given'[k] = order'[k]
    <2> TAKE k \in 1 .. Len(given')
    <2>1. k \in 1 .. Len(given) \/ k = Len(given) + 1
      BY <1>1, <1>2, SMT
    <2> QED
      BY <1>2, <2>1 DEF TakenInOrder
  <1> QED
    BY <1>1, <1>2, <1>3, SMT DEF TakenInOrder

\* In the order each line is one Wrap behind the line before.
LEMMA Following ==
    ASSUME OrderIsWalk, TakenInOrder, NEW k \in 1 .. Len(order), k < Len(order)
    PROVE  order[k + 1] = Wrap(order[k] - back, lines)
  <1>1. k \in 1 .. Len(order) - 1
    BY Bounds, SMT
  <1> QED
    BY <1>1 DEF OrderIsWalk

\* Batch.Next.
LEMMA NextPreserves ==
    ASSUME BatchInvariant, Next
    PROVE  BatchInvariant'
  <1>1. /\ yielding = "idle" /\ UNCHANGED <<lines, back, calls, yielding, loop, order>>
        /\ OrderIsWalk /\ TakenInOrder /\ StandsBehind(given) /\ calls \in Nat
    BY DEF Next, BatchInvariant
  <1>2. OrderIsWalk'
    BY <1>1 DEF OrderIsWalk
  <1>3. CASE remaining > 0
    <2>1. /\ remaining' = remaining - 1
          /\ next' = Wrap(next - back, lines)
          /\ given' = Append(given, next)
      BY <1>3 DEF Next
    <2>2. /\ remaining = Len(order) - Len(given)
          /\ next = order[Len(given) + 1]
          /\ Len(given) < Len(order)
      BY <1>1, <1>3, Bounds, SMT DEF StandsBehind
    <2>3. TakenInOrder' /\ Len(given') = Len(given) + 1
      BY <1>1, <2>1, <2>2, TakeNextLine
    <2>4. remaining' > 0 => next' = order'[Len(given') + 1]
      <3> SUFFICES ASSUME remaining' > 0
                   PROVE  next' = order'[Len(given') + 1]
        OBVIOUS
      <3>1. Len(given) + 1 \in 1 .. Len(order) /\ Len(given) + 1 < Len(order)
        BY <1>1, <2>1, <2>2, Bounds, SMT
      <3> QED
        BY <1>1, <2>1, <2>2, <2>3, <3>1, Following
    <2>5. remaining' = Len(order') - Len(given')
      BY <1>1, <2>1, <2>2, <2>3, Bounds, SMT
    <2>6. StandsBehind(given)'
      BY <2>3, <2>4, <2>5 DEF StandsBehind, TakenInOrder
    <2> QED
      BY <1>1, <1>2, <2>3, <2>6 DEF BatchInvariant
  <1>4. CASE ~ (remaining > 0)
    <2>1. UNCHANGED batchVars
      BY <1>1, <1>4 DEF Next, batchVars, positionVars
    <2> QED
      BY <1>1, <1>2, <2>1 DEF BatchInvariant, TakenInOrder, StandsBehind, batchVars, positionVars
  <1> QED
    BY <1>3, <1>4

-----------------------------------------------------------------------------
(* Batch.Lines. *)

\* A yield of the next line keeps the invariant, once the loop's own fields do.
LEMMA YieldPreserves ==
    ASSUME OrderIsWalk, TakenInOrder, calls \in Nat,
           UNCHANGED <<positionVars, calls, order>>,
           NEW label \in {"linear", "first", "second", "last"}, NEW index,
           Yield(label, index), Len(given) < Len(order), index = order[Len(given) + 1],
           loop' \in Locals, loop'.calls = calls, StandsBehind(loop'.given), LoopStands'
    PROVE  BatchInvariant'
  <1>1. /\ UNCHANGED <<lines, back, next, remaining, calls, order>>
        /\ yielding' = label /\ given' = Append(given, index)
    BY DEF positionVars, Yield
  <1>2. OrderIsWalk'
    BY <1>1 DEF OrderIsWalk
  <1>3. TakenInOrder'
    BY <1>1, TakeNextLine
  <1>4. StandsBehind(loop.given)'
    BY <1>1 DEF StandsBehind
  <1>5. loop'.calls <= calls'
    BY <1>1, SMT
  <1> QED
    BY <1>1, <1>2, <1>3, <1>4, <1>5 DEF BatchInvariant

\* A loop that stores the position behind the lines taken keeps the invariant.
LEMMA StopPreserves ==
    ASSUME BatchInvariant, NEW place, NEW left, Stop(place, left),
           left = Len(order) - Len(given),
           left > 0 => place = order[Len(given) + 1]
    PROVE  BatchInvariant'
  <1>1. /\ yielding' = "idle" /\ next' = place /\ remaining' = left
        /\ UNCHANGED <<lines, back, calls, loop, order, given>>
    BY DEF Stop
  <1>2. OrderIsWalk' /\ TakenInOrder' /\ calls' \in Nat
    BY <1>1 DEF BatchInvariant, OrderIsWalk, TakenInOrder
  <1>3. StandsBehind(given)'
    BY <1>1 DEF BatchInvariant, TakenInOrder, StandsBehind
  <1> QED
    BY <1>1, <1>2, <1>3 DEF BatchInvariant

\* What the invariant says of a loop whose batch was left alone.
LEMMA InLoop ==
    ASSUME BatchInvariant, NEW label, Resumes(label), label # "idle"
    PROVE  /\ yielding = label /\ calls = loop.calls /\ calls \in Nat
           /\ OrderIsWalk /\ TakenInOrder /\ StandsBehind(loop.given) /\ LoopStands
           /\ loop \in Locals
           /\ lines \in Nat /\ back \in 0 .. lines
           /\ Len(order) \in Nat /\ Len(given) \in 1 .. Len(order)
           /\ \A k \in 1 .. Len(order) : order[k] \in 0 .. lines - 1
  <1>1. /\ yielding = label /\ calls = loop.calls /\ calls \in Nat
        /\ OrderIsWalk /\ TakenInOrder /\ StandsBehind(loop.given) /\ LoopStands
        /\ loop \in Locals
    BY DEF BatchInvariant, Resumes, CallsMatch
  <1>2. Len(given) > 0
    BY <1>1 DEF LoopStands
  <1> QED
    BY <1>1, <1>2, Bounds, SMT

\* A loop begins with the line the batch stands at.
LEMMA BeginPreserves ==
    ASSUME BatchInvariant, Begin
    PROVE  BatchInvariant'
  <1> DEFINE label == CASE InFileOrder                      -> "linear"
                        [] ~ InFileOrder /\ remaining > 1 -> "first"
                        [] OTHER                            -> "last"
  <1>1. /\ yielding = "idle" /\ remaining > 0
        /\ loop' = [lines |-> lines, back |-> back, calls |-> calls, next |-> next,
                    remaining |-> remaining, index |-> 0,
                    first |-> next, second |-> Wrap(next - back, lines),
                    given |-> given]
        /\ Yield(label, next)
        /\ UNCHANGED <<positionVars, calls, order>>
    BY DEF Begin
  <1>2. OrderIsWalk /\ TakenInOrder /\ StandsBehind(given) /\ calls \in Nat
    BY <1>1 DEF BatchInvariant
  <1>3. /\ remaining = Len(order) - Len(given)
        /\ remaining \in Nat
        /\ next = order[Len(given) + 1]
        /\ Len(given) < Len(order)
        /\ Len(given) + 1 \in 1 .. Len(order)
        /\ next \in 0 .. lines - 1
    BY <1>1, <1>2, Bounds, SMT DEF StandsBehind
  <1>4. label \in {"linear", "first", "last"}
    OBVIOUS
  <1>5. /\ UNCHANGED <<lines, back, next, remaining, calls, order>>
        /\ yielding' = label /\ given' = Append(given, next)
    BY <1>1 DEF positionVars, Yield
  <1>6. TakenInOrder' /\ Len(given') = Len(given) + 1
    BY <1>2, <1>3, <1>5, TakeNextLine
  <1>7. loop' \in Locals /\ loop'.calls = calls /\ loop'.given = given
    <2>1. Wrap(next - back, lines) \in 0 .. lines - 1
      BY <1>2, <1>3, Bounds, WrapInBlock
    <2>2. lines \in Nat /\ back \in Nat /\ next \in Int /\ Wrap(next - back, lines) \in Int
          /\ given \in Seq(Nat)
      BY <1>2, <1>3, <2>1, Bounds, SMT DEF TakenInOrder
    <2> QED
      BY <1>1, <1>2, <1>3, <2>2 DEF Locals
  <1>8. LoopStands'
    <2>1. loop'.lines = lines' /\ loop'.back = back' /\ loop'.remaining \in Nat /\ Len(given') > 0
      BY <1>1, <1>2, <1>3, <1>5, <1>6, Bounds, SMT
    <2>2. ASSUME yielding' = "linear"
          PROVE  /\ lines' - back' = 1
                 /\ loop'.next \in Nat
                 /\ loop'.index \in 0 .. loop'.remaining - 1
                 /\ loop'.next + loop'.remaining <= lines'
                 /\ order'[Len(given')] = loop'.next + loop'.index
                 /\ Len(order') - Len(given') = loop'.remaining - 1 - loop'.index
      <3>1. InFileOrder
        BY <1>5, <2>2
      <3>2. /\ loop'.next = next /\ loop'.index = 0 /\ loop'.remaining = remaining
            /\ lines' = lines /\ back' = back /\ order' = order
        BY <1>1, <1>5
      <3>3. order'[Len(given')] = next
        BY <1>3, <1>6, <3>2
      <3> QED
        BY <1>1, <1>2, <1>3, <1>6, <3>1, <3>2, <3>3, Bounds, SMT DEF InFileOrder
    <2>3. ASSUME yielding' = "first"
          PROVE  /\ loop'.remaining >= 2
                 /\ loop'.first = order'[Len(given')]
                 /\ loop'.second = Wrap(loop'.first - back', lines')
                 /\ Len(order') - Len(given') = loop'.remaining - 1
      <3>1. remaining > 1
        BY <1>5, <2>3
      <3>2. loop'.first = next /\ loop'.remaining = remaining /\ loop'.second = Wrap(next - back, lines)
        BY <1>1
      <3> QED
        BY <1>2, <1>3, <1>5, <1>6, <3>1, <3>2, Bounds, SMT
    <2>4. yielding' # "second"
      BY <1>4, <1>5
    <2>5. ASSUME yielding' = "last"
          PROVE  Len(order') = Len(given')
      <3>1. ~ (remaining > 1)
        BY <1>5, <2>5
      <3> QED
        BY <1>1, <1>2, <1>3, <1>5, <1>6, <3>1, Bounds, SMT
    <2> QED
      BY <2>1, <2>2, <2>3, <2>4, <2>5 DEF LoopStands
  <1>9. StandsBehind(loop'.given)
    BY <1>2, <1>7
  <1> HIDE DEF label
  <1> QED
    BY <1>1, <1>2, <1>3, <1>4, <1>7, <1>8, <1>9, YieldPreserves

\* Behind a line of a block in file order.
LEMMA AfterLinearPreserves ==
    ASSUME BatchInvariant, NEW more \in BOOLEAN, AfterLinear(more)
    PROVE  BatchInvariant'
  <1>1. Resumes("linear")
    BY DEF AfterLinear
  <1>2. /\ yielding = "linear" /\ calls = loop.calls /\ calls \in Nat
        /\ OrderIsWalk /\ TakenInOrder /\ StandsBehind(loop.given) /\ LoopStands
        /\ loop \in Locals
        /\ lines \in Nat /\ back \in 0 .. lines
        /\ Len(order) \in Nat /\ Len(given) \in 1 .. Len(order)
    BY <1>1, InLoop
  <1>3. /\ loop.lines = lines /\ loop.back = back
        /\ lines - back = 1
        /\ loop.next \in Nat /\ loop.remaining \in Nat
        /\ loop.index \in 0 .. loop.remaining - 1
        /\ loop.next + loop.remaining <= lines
        /\ order[Len(given)] = loop.next + loop.index
        /\ Len(order) - Len(given) = loop.remaining - 1 - loop.index
    BY <1>2 DEF LoopStands
  <1>4. /\ lines \in Int /\ back \in Int
        /\ loop.next \in Int /\ loop.index \in Nat /\ loop.remaining \in Int
        /\ Len(given) \in Nat /\ Len(order) \in Int
    <2>1. lines \in Int /\ back \in Int /\ Len(given) \in Nat /\ Len(order) \in Int
      BY <1>2, SMT
    <2>2. loop.next \in Int /\ loop.index \in Nat /\ loop.remaining \in Int
      BY <1>3, SMT
    <2> QED
      BY <2>1, <2>2
  <1> DEFINE L == Len(given)
             M == Len(order)
             i == loop.index
             r == loop.remaining
             n == loop.next
  <1>5. /\ L \in Nat /\ M \in Int /\ i \in Nat /\ r \in Int /\ n \in Int
        /\ i + 1 <= r /\ n + r <= lines /\ M - L = (r - 1) - i
        /\ lines \in Int /\ back \in Int /\ lines - back = 1
    BY <1>3, <1>4, SMT
  <1> HIDE DEF L, M, i, r, n
  <1>6. ASSUME Len(given) < Len(order)
        PROVE  order[Len(given) + 1] = loop.next + loop.index + 1
    <2>1. order[Len(given) + 1] = Wrap(order[Len(given)] - back, lines)
      BY <1>2, <1>6, Following
    <2>2. L < M
      BY <1>6 DEF L, M
    <2>3. Wrap((n + i) - back, lines) = n + i + 1
      BY <1>5, <2>2, SMT DEF Wrap
    <2> QED
      BY <1>3, <2>1, <2>3 DEF n, i
  <1>7. CASE more /\ loop.index + 1 < loop.remaining
    <2>1. /\ loop' = [loop EXCEPT !.index = @ + 1]
          /\ Yield("linear", loop.next + loop.index + 1)
          /\ UNCHANGED <<positionVars, calls, order>>
      BY <1>7 DEF AfterLinear
    <2>2. Len(given) < Len(order)
      BY <1>2, <1>3, <1>7, SMT
    <2>3. loop.index + 1 \in Nat
      BY <1>3, SMT
    <2>4. /\ loop' \in Locals /\ loop'.calls = calls /\ loop'.given = loop.given
          /\ loop'.lines = lines /\ loop'.back = back
          /\ loop'.next = loop.next /\ loop'.remaining = loop.remaining
          /\ loop'.index = loop.index + 1
      BY <1>2, <1>3, <2>1, <2>3 DEF Locals
    <2>5. /\ UNCHANGED <<lines, back, order>> /\ yielding' = "linear"
          /\ given' = Append(given, loop.next + loop.index + 1)
      BY <2>1 DEF positionVars, Yield
    <2>6. order[Len(given) + 1] = loop.next + loop.index + 1
      BY <1>6, <2>2
    <2>7. Len(given') = Len(given) + 1
      BY <1>2, <2>2, <2>5, <2>6, TakeNextLine
    <2>8. LoopStands'
      <3>1. order'[Len(given')] = loop'.next + loop'.index
        BY <1>2, <1>3, <2>4, <2>5, <2>6, <2>7, SMT
      <3>2. /\ loop'.next + loop'.remaining <= lines'
            /\ lines' - back' = 1
            /\ loop'.next \in Nat /\ loop'.remaining \in Nat
            /\ loop'.lines = lines' /\ loop'.back = back'
        BY <1>3, <2>4, <2>5
      <3>3. /\ loop'.index \in 0 .. loop'.remaining - 1
            /\ Len(order') - Len(given') = loop'.remaining - 1 - loop'.index
            /\ Len(given') > 0
        <4>1. i + 1 < r
          BY <1>7 DEF i, r
        <4>2. i + 1 \in 0 .. r - 1 /\ M - (L + 1) = (r - 1) - (i + 1) /\ L + 1 > 0
          BY <1>5, <4>1, SMT
        <4> QED
          BY <2>4, <2>5, <2>7, <4>2 DEF L, M, i, r
      <3> QED
        BY <2>5, <3>1, <3>2, <3>3 DEF LoopStands
    <2>9. StandsBehind(loop'.given)
      BY <1>2, <2>4
    <2> QED
      BY <1>2, <2>1, <2>2, <2>4, <2>6, <2>8, <2>9, YieldPreserves
  <1>8. CASE ~ (more /\ loop.index + 1 < loop.remaining)
    <2>1. Stop(loop.next + 1 + loop.index, loop.remaining - 1 - loop.index)
      BY <1>8 DEF AfterLinear
    <2>2. loop.next + 1 + loop.index = loop.next + loop.index + 1
      BY <1>3, SMT
    <2>3. loop.remaining - 1 - loop.index = Len(order) - Len(given)
      BY <1>3
    <2>4. loop.remaining - 1 - loop.index > 0 => loop.next + 1 + loop.index = order[Len(given) + 1]
      <3>1. loop.remaining - 1 - loop.index > 0 => Len(given) < Len(order)
        BY <1>2, <2>3, SMT
      <3> QED
        BY <1>6, <2>2, <3>1
    <2> QED
      BY <2>1, <2>3, <2>4, StopPreserves
  <1> QED
    BY <1>7, <1>8

\* Behind the first line of two.
LEMMA AfterFirstPreserves ==
    ASSUME BatchInvariant, NEW more \in BOOLEAN, AfterFirst(more)
    PROVE  BatchInvariant'
  <1>1. Resumes("first")
    BY DEF AfterFirst
  <1>2. /\ yielding = "first" /\ calls = loop.calls /\ calls \in Nat
        /\ OrderIsWalk /\ TakenInOrder /\ StandsBehind(loop.given) /\ LoopStands
        /\ loop \in Locals
        /\ Len(order) \in Nat /\ Len(given) \in 1 .. Len(order)
    BY <1>1, InLoop
  <1>3. /\ loop.lines = lines /\ loop.back = back
        /\ loop.remaining \in Nat /\ loop.remaining >= 2
        /\ loop.first = order[Len(given)]
        /\ loop.second = Wrap(loop.first - back, lines)
        /\ Len(order) - Len(given) = loop.remaining - 1
    BY <1>2 DEF LoopStands
  <1>4. Len(given) < Len(order)
    BY <1>2, <1>3, SMT
  <1>5. loop.second = order[Len(given) + 1]
    BY <1>2, <1>3, <1>4, Following
  <1>6. CASE more
    <2>1. Yield("second", loop.second) /\ UNCHANGED <<positionVars, calls, loop, order>>
      BY <1>6 DEF AfterFirst
    <2>2. /\ UNCHANGED <<lines, back, order, loop>> /\ yielding' = "second"
          /\ given' = Append(given, loop.second)
      BY <2>1 DEF positionVars, Yield
    <2>3. Len(given') = Len(given) + 1
      BY <1>2, <1>4, <1>5, <2>2, TakeNextLine
    <2>4. Len(given') > 1 /\ Len(given') - 1 = Len(given)
          /\ Len(order) - Len(given') = loop.remaining - 2
      BY <1>2, <1>3, <2>3, SMT
    <2>5. Len(given') > 0
      BY <1>2, <2>3, SMT
    <2>6. loop'.second = order'[Len(given')]
      BY <1>5, <2>2, <2>3
    <2>7. LoopStands'
      BY <1>3, <2>2, <2>4, <2>5, <2>6 DEF LoopStands
    <2>8. loop' \in Locals /\ loop'.calls = calls /\ StandsBehind(loop'.given)
      BY <1>2, <2>2
    <2> QED
      BY <1>2, <1>4, <1>5, <2>1, <2>7, <2>8, YieldPreserves
  <1>7. CASE ~ more
    <2>1. Stop(loop.second, loop.remaining - 1)
      BY <1>7 DEF AfterFirst
    <2> QED
      BY <1>3, <1>5, <2>1, StopPreserves
  <1> QED
    BY <1>6, <1>7

\* Behind the second line of two.
LEMMA AfterSecondPreserves ==
    ASSUME BatchInvariant, NEW more \in BOOLEAN, AfterSecond(more)
    PROVE  BatchInvariant'
  <1>1. Resumes("second")
    BY DEF AfterSecond
  <1>2. /\ yielding = "second" /\ calls = loop.calls /\ calls \in Nat
        /\ OrderIsWalk /\ TakenInOrder /\ StandsBehind(loop.given) /\ LoopStands
        /\ loop \in Locals
        /\ lines \in Nat /\ back \in 0 .. lines
        /\ Len(order) \in Nat /\ Len(given) \in 1 .. Len(order)
        /\ \A k \in 1 .. Len(order) : order[k] \in 0 .. lines - 1
    BY <1>1, InLoop
  <1>3. /\ loop.lines = lines /\ loop.back = back
        /\ loop.remaining \in Nat /\ loop.remaining >= 2
        /\ Len(given) > 1
        /\ loop.first = order[Len(given) - 1]
        /\ loop.second = order[Len(given)]
        /\ Len(order) - Len(given) = loop.remaining - 2
    BY <1>2 DEF LoopStands
  <1>4. loop.second = Wrap(loop.first - back, lines)
    <2>1. Len(given) - 1 \in 1 .. Len(order) /\ Len(given) - 1 < Len(order)
          /\ (Len(given) - 1) + 1 = Len(given)
      BY <1>2, <1>3, SMT
    <2> QED
      BY <1>2, <1>3, <2>1, Following
  <1>5. \A i \in 0 .. lines - 1 : TwoOn(loop, i) = Wrap(Wrap(i - back, lines) - back, lines)
    BY <1>2, <1>3, TwoOnIsTwoSteps
  <1>6. ASSUME Len(given) < Len(order)
        PROVE  TwoOn(loop, loop.first) = order[Len(given) + 1]
    <2>1. Len(given) - 1 \in 1 .. Len(order)
      BY <1>2, <1>3, SMT
    <2>2. loop.first \in 0 .. lines - 1
      BY <1>2, <1>3, <2>1
    <2>3. order[Len(given) + 1] = Wrap(order[Len(given)] - back, lines)
      BY <1>2, <1>6, Following
    <2> QED
      BY <1>3, <1>4, <1>5, <2>2, <2>3
  <1>7. CASE more /\ loop.remaining > 2
    <2> DEFINE label == IF loop.remaining > 3 THEN "first" ELSE "last"
    <2>1. /\ loop' = [loop EXCEPT !.first = TwoOn(loop, @), !.second = TwoOn(loop, @),
                                  !.remaining = @ - 2]
          /\ Yield(label, TwoOn(loop, loop.first))
          /\ UNCHANGED <<positionVars, calls, order>>
      BY <1>7 DEF AfterSecond
    <2>2. Len(given) < Len(order)
      BY <1>2, <1>3, <1>7, SMT
    <2>3. TwoOn(loop, loop.first) = order[Len(given) + 1]
      BY <1>6, <2>2
    <2>4. /\ Len(given) + 1 \in 1 .. Len(order)
          /\ loop.second \in 0 .. lines - 1
      BY <1>2, <1>3, <2>2, SMT
    <2>5. TwoOn(loop, loop.second) = Wrap(TwoOn(loop, loop.first) - back, lines)
      <3>1. order[Len(given) + 1] = Wrap(loop.second - back, lines)
        BY <1>2, <1>3, <2>2, Following
      <3> QED
        BY <1>5, <2>3, <2>4, <3>1
    <2>6. TwoOn(loop, loop.first) \in 0 .. lines - 1
      BY <1>2, <2>3, <2>4
    <2>7. TwoOn(loop, loop.second) \in 0 .. lines - 1
      BY <1>2, <2>5, <2>6, WrapInBlock
    <2>8. /\ TwoOn(loop, loop.first) \in Int /\ TwoOn(loop, loop.second) \in Int
          /\ loop.remaining - 2 \in Nat
      BY <1>2, <1>3, <2>6, <2>7, SMT
    <2>9. /\ loop' \in Locals /\ loop'.calls = calls /\ loop'.given = loop.given
          /\ loop'.lines = lines /\ loop'.back = back
          /\ loop'.first = TwoOn(loop, loop.first)
          /\ loop'.second = TwoOn(loop, loop.second)
          /\ loop'.remaining = loop.remaining - 2
      BY <1>2, <1>3, <2>1, <2>8 DEF Locals
    <2>10. /\ UNCHANGED <<lines, back, order>> /\ yielding' = label
           /\ given' = Append(given, TwoOn(loop, loop.first))
      BY <2>1 DEF positionVars, Yield
    <2>11. Len(given') = Len(given) + 1 /\ Len(given') > 0
      BY <1>2, <2>2, <2>3, <2>10, TakeNextLine, SMT
    <2>12. loop'.first = order'[Len(given')]
      BY <2>3, <2>9, <2>10, <2>11
    <2>13. loop'.second = Wrap(loop'.first - back', lines')
      BY <2>5, <2>9, <2>10
    <2>14. Len(order') - Len(given') = loop'.remaining - 1
      BY <1>2, <1>3, <2>9, <2>10, <2>11, SMT
    <2>15. yielding' = "first" => loop'.remaining >= 2
      BY <1>3, <2>9, <2>10, SMT
    <2>16. yielding' = "last" => Len(order') = Len(given')
      <3>1. yielding' = "last" => loop.remaining = 3
        BY <1>3, <1>7, <2>10, SMT
      <3> QED
        BY <1>2, <2>9, <2>10, <2>11, <2>14, <3>1, SMT
    <2>17. yielding' \in {"first", "last"} /\ loop'.remaining \in Nat
      BY <2>8, <2>9, <2>10
    <2>18. LoopStands'
      BY <2>9, <2>10, <2>11, <2>12, <2>13, <2>14, <2>15, <2>16, <2>17 DEF LoopStands
    <2>19. StandsBehind(loop'.given) /\ label \in {"linear", "first", "second", "last"}
      BY <1>2, <2>9
    <2> HIDE DEF label
    <2> QED
      BY <1>2, <2>1, <2>2, <2>3, <2>9, <2>18, <2>19, YieldPreserves
  <1>8. CASE ~ (more /\ loop.remaining > 2)
    <2>1. Stop(TwoOn(loop, loop.first), loop.remaining - 2)
      BY <1>8 DEF AfterSecond
    <2>2. loop.remaining - 2 > 0 => TwoOn(loop, loop.first) = order[Len(given) + 1]
      <3>1. loop.remaining - 2 > 0 => Len(given) < Len(order)
        BY <1>2, <1>3, SMT
      <3> QED
        BY <1>6, <3>1
    <2> QED
      BY <1>3, <2>1, <2>2, StopPreserves
  <1> QED
    BY <1>7, <1>8

\* Behind the last of an odd number of lines.
LEMMA AfterLastPreserves ==
    ASSUME BatchInvariant, AfterLast
    PROVE  BatchInvariant'
  <1>1. Resumes("last") /\ Stop(loop.second, 0)
    BY DEF AfterLast
  <1>2. yielding = "last" /\ LoopStands /\ Len(order) \in Nat
    BY <1>1, InLoop
  <1>3. 0 = Len(order) - Len(given)
    BY <1>2, SMT DEF LoopStands
  <1> QED
    BY <1>1, <1>3, StopPreserves

\* A panic gives the position at the loop's beginning back.
LEMMA PanicPreserves ==
    ASSUME BatchInvariant, Panic
    PROVE  BatchInvariant'
  <1>1. /\ yielding # "idle" /\ yielding' = "idle" /\ given' = loop.given
        /\ UNCHANGED <<lines, back, next, remaining, calls, loop, order>>
    BY DEF Panic, positionVars
  <1>2. OrderIsWalk /\ StandsBehind(loop.given) /\ calls \in Nat
    BY <1>1 DEF BatchInvariant
  <1>3. OrderIsWalk' /\ TakenInOrder' /\ StandsBehind(given)'
    BY <1>1, <1>2 DEF OrderIsWalk, TakenInOrder, StandsBehind
  <1> QED
    BY <1>1, <1>2, <1>3 DEF BatchInvariant

-----------------------------------------------------------------------------
(* The theorems. *)

\* The zero batch is empty.
LEMMA InitHolds ==
    ASSUME BatchInit
    PROVE  BatchInvariant
  <1>1. <<>> \in Seq(Nat) /\ <<>> \in Seq(0 .. 0 - 1) /\ Len(<<>>) = 0
    BY EmptySeq
  <1>2. OrderIsWalk
    BY <1>1, SMT DEF BatchInit, OrderIsWalk
  <1>3. TakenInOrder
    BY <1>1, SMT DEF BatchInit, TakenInOrder
  <1>4. StandsBehind(given)
    BY <1>1, SMT DEF BatchInit, StandsBehind
  <1> QED
    BY <1>2, <1>3, <1>4 DEF BatchInit, BatchInvariant

\* Every operation on a batch, every answer of a loop's body and every panic
\* keep the invariant.
LEMMA StepPreserves ==
    ASSUME BatchInvariant, [BatchNext]_batchVars
    PROVE  BatchInvariant'
  <1>1. CASE UNCHANGED batchVars
    BY <1>1 DEF batchVars, positionVars, BatchInvariant, OrderIsWalk, TakenInOrder,
                StandsBehind, LoopStands, CallsMatch
  <1>2. CASE Refill
    BY <1>2, RefillPreserves
  <1>3. CASE Next
    BY <1>3, NextPreserves
  <1>4. CASE Begin
    BY <1>4, BeginPreserves
  <1>5. CASE \E more \in BOOLEAN : AfterLinear(more) \/ AfterFirst(more) \/ AfterSecond(more)
    BY <1>5, AfterLinearPreserves, AfterFirstPreserves, AfterSecondPreserves
  <1>6. CASE AfterLast
    BY <1>6, AfterLastPreserves
  <1>7. CASE Panic
    BY <1>7, PanicPreserves
  <1>8. CASE BodyRefills
    BY <1>8, BodyRefillsPreserves
  <1> QED
    BY <1>1, <1>2, <1>3, <1>4, <1>5, <1>6, <1>7, <1>8 DEF BatchNext

\* For every block and every mixture of Batch.Next, loops, early stops, panics
\* and refills: the lines come in the order of Pool.Next.
THEOREM LinesComeInPoolOrder == BatchSpec => []InPoolOrder
  <1>1. BatchInvariant => InPoolOrder
    <2> SUFFICES ASSUME BatchInvariant
                 PROVE  InPoolOrder
      OBVIOUS
    <2>1. OrderIsWalk /\ TakenInOrder
      BY DEF BatchInvariant
    <2>2. given \in Seq(Nat) /\ order \in Seq(0 .. lines - 1) /\ Len(given) <= Len(order)
          /\ \A k \in 1 .. Len(given) : given[k] = order[k]
      BY <2>1 DEF OrderIsWalk, TakenInOrder
    <2>3. SubSeq(given, 1, Len(given)) = SubSeq(order, 1, Len(given))
      BY <2>2, SMT
    <2> QED
      BY <2>2, <2>3 DEF InPoolOrder, IsPrefix
  <1> QED
    BY <1>1, InitHolds, StepPreserves, PTL DEF BatchSpec

\* Outside of a loop the batch stands at the first line not taken: a loop that
\* stopped early or panicked left the rest to be taken.
THEOREM PositionIsKept == BatchSpec => []PositionKept
  <1>1. BatchInvariant => PositionKept
    BY DEF BatchInvariant, StandsBehind, PositionKept
  <1> QED
    BY <1>1, InitHolds, StepPreserves, PTL DEF BatchSpec

=============================================================================

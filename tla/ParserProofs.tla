---------------------------- MODULE ParserProofs ----------------------------
(***************************************************************************)
(* Every tier of a parser parses alike, for every format and every input:  *)
(* what the short cut of the two strict formats takes is what the scalar   *)
(* parser makes of the same input; what isValidFast accepts is valid, so   *)
(* that a tier that asks it first refuses and accepts the same; and the    *)
(* plan's loop, whose locals stay in the input, starts from a proxy that   *)
(* was reset, so that nothing of the destination is left.  And a proxy a   *)
(* parser accepts is valid, so that a URL holds all of it.                 *)
(***************************************************************************)
EXTENDS ProxyParser, WellFoundedInduction, FiniteSetTheorems, SequenceTheorems, TLAPS

-----------------------------------------------------------------------------
(* Least and greatest places.                                              *)

\* A nonempty set of numbers has a least one, and Min is it.
LEMMA LeastNumber ==
    ASSUME NEW S \in SUBSET Nat, S # {}
    PROVE  \E m \in S : \A x \in S : m <= x
  <1>1. PICK m \in S : \A x \in S : ~ (<<x, m>> \in OpToRel(<, Nat))
    BY WFMin, NatLessThanWellFounded, Zenon
  <1>2. \A x \in S : ~ (x < m)
    BY <1>1, Zenon DEF OpToRel
  <1> QED
    BY <1>2, SMT

\* Min is the least of some numbers.
LEMMA MinIsLeast ==
    ASSUME NEW S \in SUBSET Nat, S # {}
    PROVE  Min(S) \in S /\ Min(S) \in Nat /\ \A x \in S : Min(S) <= x
  <1>1. \E m \in S : \A x \in S : m <= x
    BY LeastNumber
  <1>2. Min(S) \in S /\ \A x \in S : Min(S) <= x
    BY <1>1, Zenon DEF Min
  <1> QED
    BY <1>2

\* Max is the greatest of some numbers up to n.
LEMMA MaxIsGreatest ==
    ASSUME NEW n \in Nat, NEW S \in SUBSET (0 .. n), S # {}
    PROVE  Max(S) \in S /\ Max(S) \in Nat /\ \A x \in S : x <= Max(S)
  <1> DEFINE below == { k \in Nat : \E x \in S : k = n - x }
  <1>0. \A x \in S : x \in Nat /\ x <= n
    BY SMT
  <1>1. below \in SUBSET Nat /\ below # {}
    <2>1. PICK x \in S : TRUE
      OBVIOUS
    <2>2. n - x \in below
      BY <1>0, <2>1
    <2> QED
      BY <2>2
  <1>2. PICK k \in below : \A j \in below : k <= j
    BY <1>1, LeastNumber
  <1>3. PICK m \in S : k = n - m
    BY <1>2
  <1>4. \A x \in S : n - x \in below
    BY <1>0
  <1> HIDE DEF below
  <1>5. \A x \in S : x <= m
    <2> TAKE x \in S
    <2>1. k <= n - x
      BY <1>2, <1>4
    <2> QED
      BY <1>0, <1>3, <2>1, SMT
  <1>6. Max(S) \in S /\ \A x \in S : x <= Max(S)
    BY <1>5, Zenon DEF Max
  <1> QED
    BY <1>0, <1>6

-----------------------------------------------------------------------------
(* Texts and their parts.                                                  *)

\* IndexByte is the first place of a symbol, if there is one.
LEMMA IndexByteFinds ==
    ASSUME NEW s \in Text, NEW c, NEW from \in Nat
    PROVE  \/ /\ IndexByte(s, c, from) = Absent
              /\ \A k \in from + 1 .. Len(s) : s[k] # c
           \/ /\ IndexByte(s, c, from) \in from .. Len(s) - 1
              /\ s[IndexByte(s, c, from) + 1] = c
              /\ \A k \in from + 1 .. IndexByte(s, c, from) : s[k] # c
  <1> DEFINE places == { i \in from + 1 .. Len(s) : s[i] = c }
  <1>1. IndexByte(s, c, from) = (IF places # {} THEN Min(places) ELSE 0) - 1
    BY DEF IndexByte, SelectInSubSeq
  <1>2. Len(s) \in Nat /\ places \in SUBSET Nat
    BY DEF Text
  <1>3. CASE places = {}
    <2>1. IndexByte(s, c, from) = Absent
      BY <1>1, <1>3 DEF Absent
    <2> QED
      BY <2>1, <1>3
  <1>4. CASE places # {}
    <2>1. Min(places) \in places /\ \A x \in places : Min(places) <= x
      BY <1>2, <1>4, MinIsLeast
    <2> DEFINE m == Min(places)
    <2>2. m \in from + 1 .. Len(s) /\ s[m] = c
      BY <2>1
    <2>3. \A x \in from + 1 .. Len(s) : s[x] = c => m <= x
      BY <2>1
    <2>4. IndexByte(s, c, from) = m - 1
      BY <1>1, <1>4
    <2> HIDE DEF m
    <2>5. m \in Int /\ m - 1 \in from .. Len(s) - 1 /\ (m - 1) + 1 = m
      BY <2>2, <1>2, SMT
    <2>6. \A k \in from + 1 .. m - 1 : s[k] # c
      BY <2>3, <2>5, <1>2, SMT
    <2> QED
      BY <2>2, <2>4, <2>5, <2>6
  <1> QED
    BY <1>3, <1>4

\* What is cut from a text is a text: its length and its symbols.
LEMMA SliceIsText ==
    ASSUME NEW s \in Text, NEW from \in Nat, NEW to \in Nat, from <= to, to <= Len(s)
    PROVE  /\ Slice(s, from, to) \in Text
           /\ Len(Slice(s, from, to)) = to - from
           /\ \A i \in 1 .. to - from : Slice(s, from, to)[i] = s[from + i]
  <1>1. Slice(s, from, to) = SubSeq(s, from + 1, to)
    BY DEF Slice
  <1> QED
    BY <1>1, SMT DEF Text

\* The rest of a text is cut up to its end.
LEMMA RestIsSlice ==
    ASSUME NEW s \in Text, NEW from
    PROVE  Rest(s, from) = Slice(s, from, Len(s)) /\ Len(s) \in Nat
  BY DEF Rest, Slice, Text

\* Texts that agree everywhere are one.
LEMMA SameText ==
    ASSUME NEW s \in Text, NEW t \in Text, Len(s) = Len(t),
           \A i \in 1 .. Len(s) : s[i] = t[i]
    PROVE  s = t
  BY SMT DEF Text

\* A cut of a cut is a cut.
LEMMA SliceOfSlice ==
    ASSUME NEW s \in Text, NEW a \in Nat, NEW b \in Nat, NEW c \in Nat, NEW d \in Nat,
           a <= b, b <= Len(s), c <= d, d <= b - a
    PROVE  Slice(Slice(s, a, b), c, d) = Slice(s, a + c, a + d)
  <1> DEFINE mid == Slice(s, a, b)
             inner == Slice(mid, c, d)
             outer == Slice(s, a + c, a + d)
  <1>0. Len(s) \in Nat
    BY DEF Text
  <1>1. mid \in Text /\ Len(mid) = b - a /\ \A i \in 1 .. b - a : mid[i] = s[a + i]
    BY SliceIsText
  <1> HIDE DEF mid
  <1>2. d <= Len(mid)
    BY <1>1
  <1>3. inner \in Text /\ Len(inner) = d - c /\ \A i \in 1 .. d - c : inner[i] = mid[c + i]
    BY <1>1, <1>2, SliceIsText
  <1>4. /\ a + c \in Nat /\ a + d \in Nat /\ a + c <= a + d /\ (a + d) - (a + c) = d - c
        /\ \A i \in 1 .. d - c : c + i \in 1 .. b - a /\ a + (c + i) = (a + c) + i
    BY SMT
  <1>5. a + d <= Len(s)
    <2> DEFINE l == Len(s)
    <2> HIDE DEF l
    <2>1. b <= l /\ l \in Nat
      BY <1>0 DEF l
    <2>2. a + d <= l
      BY <2>1, SMT
    <2> QED
      BY <2>2 DEF l
  <1>6. /\ outer \in Text /\ Len(outer) = d - c
        /\ \A i \in 1 .. d - c : outer[i] = s[(a + c) + i]
    <2> DEFINE from == a + c
               to   == a + d
    <2>1. from \in Nat /\ to \in Nat /\ from <= to /\ to <= Len(s) /\ to - from = d - c
      BY <1>4, <1>5
    <2> HIDE DEF from, to
    <2>2. /\ Slice(s, from, to) \in Text /\ Len(Slice(s, from, to)) = to - from
          /\ \A i \in 1 .. to - from : Slice(s, from, to)[i] = s[from + i]
      BY <2>1, SliceIsText
    <2>3. outer = Slice(s, from, to)
      BY DEF from, to
    <2> HIDE DEF outer
    <2>4. \A i : s[from + i] = s[(a + c) + i]
      BY DEF from
    <2> QED
      BY <2>1, <2>2, <2>3, <2>4
  <1> HIDE DEF inner, outer
  <1>7. \A i \in 1 .. d - c : inner[i] = outer[i]
    BY <1>1, <1>3, <1>4, <1>6
  <1>8. inner = outer
    BY <1>3, <1>6, <1>7, SameText
  <1> QED
    BY <1>8 DEF inner, outer, mid

-----------------------------------------------------------------------------
(* Loops.                                                                  *)

\* What a loop over 1 .. n makes of the value base, round by round.
LoopRuns(D, n, base, step) ==
    \E f \in [0 .. n -> D] : f[0] = base /\ \A i \in 1 .. n : f[i] = step[i][f[i - 1]]

\* It exists: the least
\* number of rounds without it could not be.
LEMMA LoopExists ==
    ASSUME NEW D, NEW base \in D, NEW n \in Nat, NEW step \in [1 .. n -> [D -> D]]
    PROVE  LoopRuns(D, n, base, step)
  <1> DEFINE Rounds(m, f) ==
                 f \in [0 .. m -> D] /\ f[0] = base /\ \A i \in 1 .. m : f[i] = step[i][f[i - 1]]
             without == { m \in 0 .. n : ~ \E f : Rounds(m, f) }
  <1>1. Rounds(0, [i \in 0 .. 0 |-> base])
    BY SMT
  <1>2. ASSUME NEW m \in 1 .. n, NEW g, Rounds(m - 1, g)
        PROVE  \E f : Rounds(m, f)
    <2> DEFINE h == [i \in 0 .. m |-> IF i = m THEN step[m][g[m - 1]] ELSE g[i]]
    <2>1. g \in [0 .. m - 1 -> D] /\ g[0] = base /\ \A i \in 1 .. m - 1 : g[i] = step[i][g[i - 1]]
      BY <1>2
    <2>2. m - 1 \in 0 .. m - 1 /\ m \in Nat \ {0} /\ \A i \in 0 .. m : i # m => i \in 0 .. m - 1
      BY SMT
    <2>3. step[m] \in [D -> D] /\ g[m - 1] \in D
      BY <2>1, <2>2
    <2>4. h \in [0 .. m -> D]
      BY <2>1, <2>2, <2>3
    <2>5. h[0] = base
      BY <2>1, <2>2, SMT
    <2>6. \A i \in 1 .. m : h[i] = step[i][h[i - 1]]
      <3> TAKE i \in 1 .. m
      <3>1. i \in 0 .. m /\ i - 1 \in 0 .. m /\ i - 1 # m
        BY <2>2, SMT
      <3>2. h[i - 1] = g[i - 1]
        BY <3>1
      <3>3. CASE i = m
        BY <3>1, <3>2, <3>3
      <3>4. CASE i # m
        <4>1. i \in 1 .. m - 1
          BY <2>2, <3>4, SMT
        <4> QED
          BY <3>1, <3>2, <3>4, <4>1, <2>1
      <3> QED
        BY <3>3, <3>4
    <2> HIDE DEF h
    <2>7. Rounds(m, h)
      BY <2>4, <2>5, <2>6
    <2> QED
      BY <2>7, Zenon
  <1> HIDE DEF Rounds
  <1>3. without = {}
    <2> SUFFICES ASSUME without # {}
                 PROVE  FALSE
      OBVIOUS
    <2>1. without \in SUBSET Nat
      OBVIOUS
    <2>2. PICK m \in without : \A x \in without : m <= x
      BY <2>1, LeastNumber
    <2>3. m \in 0 .. n /\ m \in Nat /\ ~ \E f : Rounds(m, f)
      BY <2>2
    <2>4. m # 0
      BY <1>1, <2>3, Zenon
    <2>5. m - 1 \in 0 .. n /\ m \in 1 .. n /\ ~ (m <= m - 1)
      BY <2>3, <2>4, SMT
    <2>6. m - 1 \notin without
      BY <2>2, <2>5
    <2>7. PICK g : Rounds(m - 1, g)
      BY <2>5, <2>6
    <2> QED
      BY <2>3, <2>5, <2>7, <1>2, Zenon
  <1>4. \E f : Rounds(n, f)
    <2>1. n \in 0 .. n
      BY SMT
    <2> QED
      BY <1>3, <2>1
  <1> QED
    BY <1>4 DEF Rounds, LoopRuns

\* A loop that makes a number.
LEMMA NumberLoopExists ==
    ASSUME NEW n \in Nat, NEW base \in Nat, NEW step \in [1 .. n -> [Nat -> Nat]]
    PROVE  \E f \in [0 .. n -> Nat] :
               f[0] = base /\ \A i \in 1 .. n : f[i] = step[i][f[i - 1]]
  <1>1. LoopRuns(Nat, n, base, step)
    BY LoopExists, Zenon
  <1> QED
    BY <1>1, Zenon DEF LoopRuns

-----------------------------------------------------------------------------
(* How many bytes a text has.                                              *)

\* No symbol is shorter than a byte.
LEMMA SymbolHasBytes ==
    ASSUME NEW c
    PROVE  SymbolBytes(c) \in Nat /\ SymbolBytes(c) >= 1
  BY DEF SymbolBytes, WordBytes

\* The sums that Bytes forms.
ByteSums(s, f) ==
    /\ f \in [0 .. Len(s) -> Nat] /\ f[0] = 0 /\ f[Len(s)] = Bytes(s)
    /\ \A i \in 1 .. Len(s) : f[i] = f[i - 1] + SymbolBytes(s[i])

\* Bytes adds the symbols up one by one.
LEMMA BytesAreSums ==
    ASSUME NEW s \in Text
    PROVE  \E f : ByteSums(s, f)
  <1> DEFINE n == Len(s)
             Upto(f) == f = [i \in 0 .. n |-> IF i = 0 THEN 0 ELSE f[i - 1] + SymbolBytes(s[i])]
             step == [i \in 1 .. n |-> [x \in Nat |-> x + SymbolBytes(s[i])]]
             sums == CHOOSE f : Upto(f)
  <1>1. n \in Nat
    BY DEF Text
  <1>2. Bytes(s) = sums[n]
    BY Zenon DEF Bytes
  <1> HIDE DEF n
  <1>3. \E f \in [0 .. n -> Nat] : f[0] = 0 /\ \A i \in 1 .. n : f[i] = step[i][f[i - 1]]
    <2>1. step \in [1 .. n -> [Nat -> Nat]]
      BY SymbolHasBytes
    <2> HIDE DEF step
    <2>2. 0 \in Nat
      OBVIOUS
    <2> QED
      BY <1>1, <2>1, <2>2, NumberLoopExists
  <1>4. PICK f \in [0 .. n -> Nat] : f[0] = 0 /\ \A i \in 1 .. n : f[i] = step[i][f[i - 1]]
    BY <1>3
  <1>5. \A i \in 1 .. n : i - 1 \in 0 .. n /\ i \in 0 .. n /\ i # 0
    BY <1>1, SMT
  <1>6. \A i \in 1 .. n : f[i] = f[i - 1] + SymbolBytes(s[i])
    BY <1>4, <1>5
  <1>7. Upto(f)
    <2>1. \A i \in 0 .. n : i # 0 => i \in 1 .. n
      BY <1>1, SMT
    <2>2. \A i \in 0 .. n : f[i] = IF i = 0 THEN 0 ELSE f[i - 1] + SymbolBytes(s[i])
      BY <1>4, <1>6, <2>1
    <2> QED
      BY <2>2
  <1>8. \A g : Upto(g) => g = f
    <2> SUFFICES ASSUME NEW g, Upto(g)
                 PROVE  g = f
      OBVIOUS
    <2> DEFINE different == { i \in 0 .. n : g[i] # f[i] }
    <2>1. \A i \in 0 .. n : g[i] = IF i = 0 THEN 0 ELSE g[i - 1] + SymbolBytes(s[i])
      OBVIOUS
    <2>2. different = {}
      <3> SUFFICES ASSUME different # {}
                   PROVE  FALSE
        OBVIOUS
      <3>1. different \in SUBSET Nat
        OBVIOUS
      <3>2. PICK i \in different : \A x \in different : i <= x
        BY <3>1, LeastNumber
      <3>3. i \in 0 .. n /\ i \in Nat /\ g[i] # f[i]
        BY <3>2
      <3>4. i # 0
        BY <2>1, <3>3, <1>4
      <3>5. i - 1 \in 0 .. n /\ ~ (i <= i - 1) /\ i \in 1 .. n
        BY <3>3, <3>4, <1>1, SMT
      <3>6. g[i - 1] = f[i - 1]
        BY <3>2, <3>5
      <3> QED
        BY <2>1, <3>3, <3>4, <3>5, <3>6, <1>6
    <2>3. \A i \in 0 .. n : g[i] = f[i]
      BY <2>2
    <2>4. g = [i \in 0 .. n |-> g[i]] /\ f = [i \in 0 .. n |-> f[i]]
      BY <1>4
    <2> QED
      BY <2>3, <2>4
  <1> HIDE DEF Upto
  <1>9. sums = f
    BY <1>7, <1>8, Zenon
  <1> QED
    BY <1>2, <1>4, <1>6, <1>9 DEF ByteSums, n

\* A part of a text has as many bytes fewer as it leaves out, at least one for
\* each symbol.
LEMMA BytesOfPart ==
    ASSUME NEW s \in Text, NEW from \in Nat, NEW to \in Nat, from <= to, to <= Len(s)
    PROVE  /\ Bytes(Slice(s, from, to)) \in Nat
           /\ Bytes(s) \in Nat
           /\ Bytes(s) >= Len(s)
           /\ Bytes(Slice(s, from, to)) >= to - from
           /\ Bytes(Slice(s, from, to)) + (Len(s) - (to - from)) <= Bytes(s)
  <1> DEFINE part == Slice(s, from, to)
             n    == to - from
  <1>1. /\ part \in Text /\ Len(part) = n /\ n \in Nat /\ Len(s) \in Nat
        /\ \A i \in 1 .. n : part[i] = s[from + i]
    <2>1. Len(s) \in Nat /\ n \in Nat
      BY SMT DEF Text
    <2> QED
      BY <2>1, SliceIsText
  <1>2. PICK f : ByteSums(s, f)
    BY BytesAreSums
  <1>3. PICK g : ByteSums(part, g)
    BY <1>1, BytesAreSums
  <1> HIDE DEF part, n
  <1> DEFINE big == Len(s)
  <1>4. /\ f \in [0 .. big -> Nat] /\ f[0] = 0 /\ f[big] = Bytes(s)
        /\ \A i \in 1 .. big : f[i] = f[i - 1] + SymbolBytes(s[i])
    BY <1>2 DEF ByteSums
  <1>5. /\ g \in [0 .. n -> Nat] /\ g[0] = 0 /\ g[n] = Bytes(part)
        /\ \A i \in 1 .. n : g[i] = g[i - 1] + SymbolBytes(part[i])
    BY <1>1, <1>3 DEF ByteSums
  <1>6. big \in Nat /\ to \in 0 .. big /\ from \in 0 .. big /\ n \in Nat /\ to = from + n
    BY <1>1, SMT DEF n
  <1> HIDE DEF big
  <1>7. \A i \in 1 .. n : g[i] = g[i - 1] + SymbolBytes(s[from + i])
    BY <1>1, <1>5
  \* Both sums grow alike,
  <1>8. \A i \in 0 .. n : f[from + i] = f[from] + g[i]
    <2> DEFINE wrong == { i \in 0 .. n : f[from + i] # f[from] + g[i] }
    <2> SUFFICES ASSUME wrong # {}
                 PROVE  FALSE
      OBVIOUS
    <2>1. wrong \in SUBSET Nat
      OBVIOUS
    <2>2. PICK i \in wrong : \A x \in wrong : i <= x
      BY <2>1, LeastNumber
    <2>3. i \in 0 .. n /\ f[from + i] # f[from] + g[i]
      BY <2>2
    <2>4. f[from] \in Nat
      BY <1>4, <1>6
    <2>5. i # 0
      <3>1. from + 0 = from /\ f[from] + 0 = f[from]
        BY <2>4, <1>6, SMT
      <3> QED
        BY <2>3, <3>1, <1>5
    <2>6. i \in 1 .. n /\ i - 1 \in 0 .. n /\ ~ (i <= i - 1) /\ i \in 0 .. n
      BY <2>3, <2>5, <1>6, SMT
    <2>7. f[from + (i - 1)] = f[from] + g[i - 1]
      BY <2>2, <2>6
    <2>8. from + i \in 1 .. big /\ (from + i) - 1 = from + (i - 1)
      BY <2>6, <1>6, SMT
    <2>9. f[from + i] = f[from + (i - 1)] + SymbolBytes(s[from + i])
      BY <2>8, <1>4
    <2>10. g[i] = g[i - 1] + SymbolBytes(s[from + i])
      BY <2>6, <1>7
    <2>11. g[i - 1] \in Nat /\ SymbolBytes(s[from + i]) \in Nat
      BY <2>6, <1>5, SymbolHasBytes
    <2> DEFINE gi == g[i - 1]
               ff == f[from]
               sb == SymbolBytes(s[from + i])
    <2>12. f[from + i] = (ff + gi) + sb /\ g[i] = gi + sb
      BY <2>7, <2>9, <2>10
    <2>13. gi \in Nat /\ ff \in Nat /\ sb \in Nat
      BY <2>4, <2>11
    <2> HIDE DEF gi, ff, sb
    <2>14. (ff + gi) + sb = ff + (gi + sb)
      BY <2>13, SMT
    <2> QED
      BY <2>3, <2>12, <2>14 DEF ff
  \* and each symbol adds at least one.
  <1>9. \A i, j \in 0 .. big : i <= j => f[j] >= f[i] + (j - i)
    <2> DEFINE wrong == { k \in 0 .. big : \E i \in 0 .. big : i <= k /\ ~ (f[k] >= f[i] + (k - i)) }
    <2> SUFFICES ASSUME wrong # {}
                 PROVE  FALSE
      OBVIOUS
    <2>1. wrong \in SUBSET Nat
      OBVIOUS
    <2>2. PICK k \in wrong : \A x \in wrong : k <= x
      BY <2>1, LeastNumber
    <2>3. k \in 0 .. big /\ \E i \in 0 .. big : i <= k /\ ~ (f[k] >= f[i] + (k - i))
      BY <2>2
    <2>4. PICK i \in 0 .. big : i <= k /\ ~ (f[k] >= f[i] + (k - i))
      BY <2>3
    <2>5. f[k] \in Nat /\ f[i] \in Nat
      BY <2>3, <2>4, <1>4
    <2>6. i # k
      BY <2>3, <2>4, <2>5, SMT
    <2>7. k \in 1 .. big /\ k - 1 \in 0 .. big /\ i <= k - 1 /\ ~ (k <= k - 1)
      BY <2>3, <2>4, <2>6, <1>6, SMT
    <2>8. f[k - 1] >= f[i] + ((k - 1) - i)
      BY <2>2, <2>7
    <2>9. f[k] = f[k - 1] + SymbolBytes(s[k]) /\ f[k - 1] \in Nat
      BY <2>7, <1>4
    <2>10. SymbolBytes(s[k]) \in Nat /\ SymbolBytes(s[k]) >= 1
      BY SymbolHasBytes
    <2> DEFINE fk == f[k]
               fp == f[k - 1]
               fi == f[i]
               sb == SymbolBytes(s[k])
    <2>11. /\ fk = fp + sb /\ fp >= fi + ((k - 1) - i) /\ ~ (fk >= fi + (k - i))
           /\ fk \in Nat /\ fp \in Nat /\ fi \in Nat /\ sb \in Nat /\ sb >= 1
           /\ k \in Int /\ i \in Int
      BY <2>3, <2>4, <2>5, <2>8, <2>9, <2>10
    <2> HIDE DEF fk, fp, fi, sb
    <2> QED
      BY <2>11, SMT
  <1> DEFINE a == f[from]
             b == f[to]
             c == f[big]
  <1>10. /\ b = a + g[n] /\ a >= 0 + from /\ b >= a + n /\ c >= b + (big - to)
         /\ a \in Nat /\ b \in Nat /\ c \in Nat /\ c >= 0 + big
    <2>1. n \in 0 .. n /\ 0 \in 0 .. big /\ big \in 0 .. big /\ from <= to
          /\ 0 <= from /\ to <= big /\ to - from = n /\ from - 0 = from /\ big - 0 = big
      BY <1>6, SMT
    <2>2. b = a + g[n]
      BY <2>1, <1>6, <1>8
    <2>3. a >= f[0] + (from - 0) /\ b >= a + (to - from) /\ c >= b + (big - to)
          /\ c >= f[0] + (big - 0)
      BY <2>1, <1>6, <1>9
    <2> QED
      BY <2>1, <2>2, <2>3, <1>4, <1>6
  <1>11. g[n] \in Nat
    <2>1. n \in 0 .. n
      BY <1>6, SMT
    <2> QED
      BY <2>1, <1>5
  <1> DEFINE d == g[n]
  <1>12. Bytes(s) = c /\ Bytes(part) = d
    BY <1>4, <1>5
  <1> HIDE DEF a, b, c, d
  <1>13. d + (big - n) <= c /\ d >= n /\ c >= big /\ c \in Nat /\ d \in Nat
    BY <1>6, <1>10, <1>11, SMT DEF d
  <1> QED
    BY <1>12, <1>13 DEF part, n, big

-----------------------------------------------------------------------------
(* The number that digits say.                                             *)

\* The numbers that Number forms.
DigitSums(s, f) ==
    /\ f \in [0 .. Len(s) -> Nat] /\ f[0] = 0 /\ f[Len(s)] = Number(s)
    /\ \A i \in 1 .. Len(s) : f[i] = 10 * f[i - 1] + DigitValue[s[i]]

\* What a digit says.
LEMMA DigitIsSmall ==
    ASSUME NEW c \in Digits
    PROVE  DigitValue[c] \in 0 .. 9 /\ (c = "0" => DigitValue[c] = 0)
  BY DEF Digits, DigitValue

\* Number reads the digits one by one.
LEMMA NumbersAreSums ==
    ASSUME NEW s \in Text, AllIn(s, Digits)
    PROVE  \E f : DigitSums(s, f)
  <1> DEFINE n == Len(s)
             Upto(f) == f = [i \in 0 .. n |-> IF i = 0 THEN 0 ELSE 10 * f[i - 1] + DigitValue[s[i]]]
             step == [i \in 1 .. n |-> [x \in Nat |-> 10 * x + DigitValue[s[i]]]]
             sums == CHOOSE f : Upto(f)
  <1>1. n \in Nat
    BY DEF Text
  <1>2. Number(s) = sums[n]
    BY Zenon DEF Number
  <1>3. \A i \in 1 .. n : DigitValue[s[i]] \in Nat
    BY DigitIsSmall DEF AllIn
  <1> HIDE DEF n
  <1>4. \E f \in [0 .. n -> Nat] : f[0] = 0 /\ \A i \in 1 .. n : f[i] = step[i][f[i - 1]]
    <2>1. step \in [1 .. n -> [Nat -> Nat]]
      BY <1>3
    <2> HIDE DEF step
    <2>2. 0 \in Nat
      OBVIOUS
    <2> QED
      BY <1>1, <2>1, <2>2, NumberLoopExists
  <1>5. PICK f \in [0 .. n -> Nat] : f[0] = 0 /\ \A i \in 1 .. n : f[i] = step[i][f[i - 1]]
    BY <1>4
  <1>6. \A i \in 1 .. n : i - 1 \in 0 .. n /\ i \in 0 .. n /\ i # 0
    BY <1>1, SMT
  <1>7. \A i \in 1 .. n : f[i] = 10 * f[i - 1] + DigitValue[s[i]]
    BY <1>5, <1>6
  <1>8. Upto(f)
    <2>1. \A i \in 0 .. n : i # 0 => i \in 1 .. n
      BY <1>1, SMT
    <2>2. \A i \in 0 .. n : f[i] = IF i = 0 THEN 0 ELSE 10 * f[i - 1] + DigitValue[s[i]]
      BY <1>5, <1>7, <2>1
    <2> QED
      BY <2>2
  <1>9. \A g : Upto(g) => g = f
    <2> SUFFICES ASSUME NEW g, Upto(g)
                 PROVE  g = f
      OBVIOUS
    <2> DEFINE different == { i \in 0 .. n : g[i] # f[i] }
    <2>1. \A i \in 0 .. n : g[i] = IF i = 0 THEN 0 ELSE 10 * g[i - 1] + DigitValue[s[i]]
      OBVIOUS
    <2>2. different = {}
      <3> SUFFICES ASSUME different # {}
                   PROVE  FALSE
        OBVIOUS
      <3>1. different \in SUBSET Nat
        OBVIOUS
      <3>2. PICK i \in different : \A x \in different : i <= x
        BY <3>1, LeastNumber
      <3>3. i \in 0 .. n /\ i \in Nat /\ g[i] # f[i]
        BY <3>2
      <3>4. i # 0
        BY <2>1, <3>3, <1>5
      <3>5. i - 1 \in 0 .. n /\ ~ (i <= i - 1) /\ i \in 1 .. n
        BY <3>3, <3>4, <1>1, SMT
      <3>6. g[i - 1] = f[i - 1]
        BY <3>2, <3>5
      <3> QED
        BY <2>1, <3>3, <3>4, <3>5, <3>6, <1>7
    <2>3. \A i \in 0 .. n : g[i] = f[i]
      BY <2>2
    <2>4. g = [i \in 0 .. n |-> g[i]] /\ f = [i \in 0 .. n |-> f[i]]
      BY <1>5
    <2> QED
      BY <2>3, <2>4
  <1> HIDE DEF Upto
  <1>10. sums = f
    BY <1>8, <1>9, Zenon
  <1> QED
    BY <1>2, <1>5, <1>7, <1>10 DEF DigitSums, n

\* A digit is at most 9.
LEMMA NumberOfDigit ==
    ASSUME NEW s \in Text, AllIn(s, Digits), Len(s) = 1
    PROVE  Number(s) \in 0 .. 9
  <1>1. PICK f : DigitSums(s, f)
    BY NumbersAreSums
  <1>2. f[0] = 0 /\ f[1] = Number(s) /\ f[1] = 10 * f[0] + DigitValue[s[1]]
    <2>1. 1 \in 1 .. Len(s) /\ 1 - 1 = 0
      BY SMT
    <2> QED
      BY <1>1, <2>1 DEF DigitSums
  <1>3. DigitValue[s[1]] \in 0 .. 9
    BY DigitIsSmall DEF AllIn
  <1> QED
    BY <1>2, <1>3, SMT

\* Leading zeros do not count.
LEMMA LeadingZeros ==
    ASSUME NEW s \in Text, AllIn(s, Digits), NEW z \in 0 .. Len(s),
           \A i \in 1 .. z : s[i] = "0"
    PROVE  Number(Rest(s, z)) = Number(s)
  <1> DEFINE part == Rest(s, z)
             n    == Len(s) - z
  <1>1. /\ part \in Text /\ Len(part) = n /\ n \in Nat /\ Len(s) \in Nat /\ z \in Nat
        /\ \A i \in 1 .. n : part[i] = s[z + i]
    <2>1. Len(s) \in Nat /\ z \in Nat /\ z <= Len(s) /\ n \in Nat /\ Len(s) <= Len(s)
      BY SMT DEF Text
    <2>2. part = Slice(s, z, Len(s))
      BY <2>1, RestIsSlice
    <2> HIDE DEF part
    <2> QED
      BY <2>1, <2>2, SliceIsText
  <1>2. AllIn(part, Digits)
    <2>1. \A i \in 1 .. n : z + i \in 1 .. Len(s)
      BY <1>1, SMT
    <2> QED
      BY <1>1, <2>1 DEF AllIn
  <1>3. PICK f : DigitSums(s, f)
    BY NumbersAreSums
  <1>4. PICK g : DigitSums(part, g)
    BY <1>1, <1>2, NumbersAreSums
  <1> HIDE DEF part, n
  <1> DEFINE big == Len(s)
  <1>5. /\ f \in [0 .. big -> Nat] /\ f[0] = 0 /\ f[big] = Number(s)
        /\ \A i \in 1 .. big : f[i] = 10 * f[i - 1] + DigitValue[s[i]]
    BY <1>3 DEF DigitSums
  <1>6. /\ g \in [0 .. n -> Nat] /\ g[0] = 0 /\ g[n] = Number(part)
        /\ \A i \in 1 .. n : g[i] = 10 * g[i - 1] + DigitValue[s[z + i]]
    BY <1>1, <1>4 DEF DigitSums
  <1>7. big \in Nat /\ z \in 0 .. big /\ n \in Nat /\ big = z + n
    BY <1>1, SMT DEF n
  <1> HIDE DEF big
  <1>8. \A i \in 0 .. z : f[i] = 0
    <2> DEFINE wrong == { i \in 0 .. z : f[i] # 0 }
    <2> SUFFICES ASSUME wrong # {}
                 PROVE  FALSE
      OBVIOUS
    <2>1. wrong \in SUBSET Nat
      OBVIOUS
    <2>2. PICK i \in wrong : \A x \in wrong : i <= x
      BY <2>1, LeastNumber
    <2>3. i \in 0 .. z /\ f[i] # 0
      BY <2>2
    <2>4. i # 0
      BY <2>3, <1>5
    <2>5. i \in 1 .. z /\ i \in 1 .. big /\ i - 1 \in 0 .. z /\ ~ (i <= i - 1)
      BY <2>3, <2>4, <1>7, SMT
    <2>6. f[i - 1] = 0
      BY <2>2, <2>5
    <2>7. DigitValue[s[i]] = 0
      <3>1. s[i] = "0" /\ "0" \in Digits
        BY <2>5 DEF Digits
      <3> QED
        BY <3>1, DigitIsSmall
    <2>8. f[i] = 10 * f[i - 1] + DigitValue[s[i]]
      BY <2>5, <1>5
    <2>9. f[i] = 0
      BY <2>6, <2>7, <2>8, SMT
    <2> QED
      BY <2>3, <2>9
  <1>9. \A i \in 0 .. n : f[z + i] = g[i]
    <2> DEFINE wrong == { i \in 0 .. n : f[z + i] # g[i] }
    <2> SUFFICES ASSUME wrong # {}
                 PROVE  FALSE
      OBVIOUS
    <2>1. wrong \in SUBSET Nat
      OBVIOUS
    <2>2. PICK i \in wrong : \A x \in wrong : i <= x
      BY <2>1, LeastNumber
    <2>3. i \in 0 .. n /\ f[z + i] # g[i]
      BY <2>2
    <2>4. i # 0
      <3>1. z + 0 = z /\ z \in 0 .. z
        BY <1>7, SMT
      <3> QED
        BY <2>3, <3>1, <1>6, <1>8
    <2>5. i \in 1 .. n /\ i - 1 \in 0 .. n /\ ~ (i <= i - 1)
      BY <2>3, <2>4, <1>7, SMT
    <2>6. f[z + (i - 1)] = g[i - 1]
      BY <2>2, <2>5
    <2>7. z + i \in 1 .. big /\ (z + i) - 1 = z + (i - 1)
      BY <2>5, <1>7, SMT
    <2>8. f[z + i] = 10 * f[z + (i - 1)] + DigitValue[s[z + i]]
      BY <2>7, <1>5
    <2> QED
      BY <2>3, <2>5, <2>6, <2>8, <1>6
  <1>10. f[big] = g[n]
    <2>1. n \in 0 .. n
      BY <1>7, SMT
    <2> QED
      BY <2>1, <1>7, <1>9
  <1> QED
    BY <1>5, <1>6, <1>10 DEF part

-----------------------------------------------------------------------------
(* The parts of a text between one symbol and the next.                    *)

\* A part ends where the next such symbol, or the text, does.
LEMMA PartIsSlice ==
    ASSUME NEW s \in Text, NEW c, NEW first \in 1 .. Len(s) + 1
    PROVE  \E end \in first - 1 .. Len(s) :
               /\ Part(s, c, first) = Slice(s, first - 1, end)
               /\ \A i \in first .. end : s[i] # c
               /\ end < Len(s) => s[end + 1] = c
  <1> DEFINE ends == { i \in Places(s, c) : i >= first }
             n    == Len(s)
  <1>1. n \in Nat /\ first \in Nat /\ first >= 1 /\ first <= n + 1
    BY SMT DEF Text
  <1>2. /\ ends = { i \in first .. n : s[i] = c }
        /\ ends \in SUBSET Nat
    BY <1>1, SMT DEF Places
  <1>3. Part(s, c, first) = SubSeq(s, first, IF ends = {} THEN n ELSE Min(ends) - 1)
    BY DEF Part
  <1> HIDE DEF ends, n
  <1>4. (first - 1) + 1 = first
    BY <1>1, SMT
  <1>5. CASE ends = {}
    <2>1. Part(s, c, first) = Slice(s, first - 1, n)
      BY <1>3, <1>4, <1>5 DEF Slice
    <2>2. n \in first - 1 .. n /\ ~ (n < n)
      BY <1>1, SMT
    <2>3. \A i \in first .. n : s[i] # c
      BY <1>2, <1>5
    <2> QED
      BY <2>1, <2>2, <2>3 DEF n
  <1>6. CASE ends # {}
    <2> DEFINE m == Min(ends)
    <2>1. m \in ends /\ \A x \in ends : m <= x
      BY <1>2, <1>6, MinIsLeast
    <2>2. Part(s, c, first) = Slice(s, first - 1, m - 1)
      BY <1>3, <1>4, <1>6 DEF Slice
    <2> HIDE DEF m
    <2>3. m \in first .. n /\ s[m] = c
      BY <1>2, <2>1
    <2>4. m - 1 \in first - 1 .. n /\ (m - 1) + 1 = m
      BY <1>1, <2>3, SMT
    <2>5. \A i \in first .. m - 1 : s[i] # c
      <3>1. \A i \in first .. m - 1 : i \in first .. n /\ ~ (m <= i)
        BY <1>1, <2>3, SMT
      <3> QED
        BY <1>2, <2>1, <3>1
    <2> QED
      BY <2>2, <2>3, <2>4, <2>5 DEF n
  <1> QED
    BY <1>5, <1>6

\* Every part begins with the text or behind such a symbol.
LEMMA PartsAreSlices ==
    ASSUME NEW s \in Text, NEW c, NEW part \in Parts(s, c)
    PROVE  \E from, to \in 0 .. Len(s) :
               /\ from <= to
               /\ part = Slice(s, from, to)
               /\ from # 0 => s[from] = c
               /\ to < Len(s) => s[to + 1] = c
               /\ \A i \in from + 1 .. to : s[i] # c
  <1>1. PICK first \in {1} \cup { i + 1 : i \in Places(s, c) } : part = Part(s, c, first)
    BY DEF Parts
  <1>2. Len(s) \in Nat
    BY DEF Text
  <1>3. first \in 1 .. Len(s) + 1 /\ (first # 1 => s[first - 1] = c)
    <2>1. CASE first = 1
      BY <1>2, <2>1, SMT
    <2>2. CASE first # 1
      <3>1. PICK i \in Places(s, c) : first = i + 1
        BY <1>1, <2>2
      <3>2. i \in 1 .. Len(s) /\ s[i] = c
        BY <3>1 DEF Places
      <3>3. first - 1 = i /\ first \in 1 .. Len(s) + 1
        BY <1>2, <3>1, <3>2, SMT
      <3> QED
        BY <3>2, <3>3
    <2> QED
      BY <2>1, <2>2
  <1>4. PICK end \in first - 1 .. Len(s) :
               /\ Part(s, c, first) = Slice(s, first - 1, end)
               /\ \A i \in first .. end : s[i] # c
               /\ end < Len(s) => s[end + 1] = c
    BY <1>3, PartIsSlice
  <1>5. /\ first - 1 \in 0 .. Len(s) /\ end \in 0 .. Len(s) /\ first - 1 <= end
        /\ (first - 1) + 1 = first /\ (first - 1 # 0 => first # 1)
    BY <1>2, <1>3, <1>4, SMT
  <1> QED
    BY <1>1, <1>3, <1>4, <1>5

-----------------------------------------------------------------------------
(* Hosts that are IPv4 addresses.                                          *)

\* No digit, dot or hyphen is a scheme's name.
LEMMA FoldedNames == DOMAIN Folded = {"HTTP", "Socks5"}
  BY DEF Folded

\* Neither a digit nor a dot is a word, so each is one byte.
LEMMA DigitsAreNoWords ==
    ASSUME NEW c \in Digits \cup {"."}
    PROVE  c \notin Words
  <1>1. Words = {"http", "https", "socks4", "socks4a", "socks5", "socks5h", "HTTP", "Socks5"}
    BY FoldedNames DEF Words, Schemes
  <1> QED
    BY <1>1 DEF Digits

\* A text without schemes' names has a byte for each symbol.
LEMMA PlainBytes ==
    ASSUME NEW s \in Text, \A i \in 1 .. Len(s) : s[i] \notin Words
    PROVE  Bytes(s) = Len(s)
  <1> DEFINE n == Len(s)
  <1>1. n \in Nat
    BY DEF Text
  <1>2. PICK f : ByteSums(s, f)
    BY BytesAreSums
  <1>3. /\ f \in [0 .. n -> Nat] /\ f[0] = 0 /\ f[n] = Bytes(s)
        /\ \A i \in 1 .. n : f[i] = f[i - 1] + 1
    BY <1>2 DEF ByteSums, SymbolBytes
  <1> HIDE DEF n
  <1>4. \A i \in 0 .. n : f[i] = i
    <2> DEFINE wrong == { i \in 0 .. n : f[i] # i }
    <2> SUFFICES ASSUME wrong # {}
                 PROVE  FALSE
      OBVIOUS
    <2>1. wrong \in SUBSET Nat
      OBVIOUS
    <2>2. PICK i \in wrong : \A x \in wrong : i <= x
      BY <2>1, LeastNumber
    <2>3. i \in 0 .. n /\ f[i] # i
      BY <2>2
    <2>4. i # 0
      BY <2>3, <1>3
    <2>5. i \in 1 .. n /\ i - 1 \in 0 .. n /\ ~ (i <= i - 1) /\ (i - 1) + 1 = i
      BY <2>3, <2>4, <1>1, SMT
    <2>6. f[i - 1] = i - 1
      BY <2>2, <2>5
    <2> QED
      BY <2>3, <2>5, <2>6, <1>3
  <1>5. n \in 0 .. n
    BY <1>1, SMT
  <1> QED
    BY <1>3, <1>4, <1>5 DEF n

\* What isOctet takes is what an address may have between its dots.
LEMMA OctetsAreLiteral ==
    ASSUME NEW s \in Text, AllIn(s, Digits), isOctet(s)
    PROVE  /\ s # <<>> /\ Len(s) \in 1 .. 3 /\ Len(s) <= 3
           /\ Len(s) > 1 => s[1] # "0"
           /\ Number(s) <= 255
  <1>1. Len(s) \in 1 .. 3 /\ Len(s) <= 3 /\ (Len(s) > 1 => s[1] # "0")
    <2>1. Len(s) = 1 \/ (Len(s) \in 2 .. 3 /\ s[1] # "0")
      BY DEF isOctet
    <2>2. Len(s) \in Nat
      BY DEF Text
    <2> DEFINE n == Len(s)
    <2>3. n \in Nat /\ (n = 1 \/ (n \in 2 .. 3 /\ s[1] # "0"))
      BY <2>1, <2>2
    <2> HIDE DEF n
    <2>4. n \in 1 .. 3 /\ n <= 3 /\ (n > 1 => s[1] # "0")
      BY <2>3, SMT
    <2> QED
      BY <2>4 DEF n
  <1>2. s # <<>>
    <2>1. Len(<<>>) = 0
      OBVIOUS
    <2> QED
      BY <1>1, <2>1, SMT
  <1>3. Number(s) <= 255
    <2>1. CASE Len(s) = 1
      <3>1. Number(s) \in 0 .. 9
        BY <2>1, NumberOfDigit
      <3> QED
        BY <3>1, SMT
    <2>2. CASE Len(s) # 1
      BY <2>2 DEF isOctet
    <2> QED
      BY <2>1, <2>2
  <1> QED
    BY <1>1, <1>2, <1>3

\* Three places in a row are three.
LEMMA ThreePlaces ==
    ASSUME NEW f \in Nat, NEW g \in Nat, NEW h \in Nat, f < g, g < h
    PROVE  Cardinality({f, g, h}) = 3
  <1>1. IsFiniteSet({h}) /\ Cardinality({h}) = 1
    BY FS_Singleton
  <1>2. g \notin {h} /\ f \notin {g, h}
    BY SMT
  <1>3. {g, h} = {h} \cup {g} /\ {f, g, h} = {g, h} \cup {f}
    OBVIOUS
  <1>4. IsFiniteSet({g, h}) /\ Cardinality({g, h}) = 2
    BY <1>1, <1>2, <1>3, FS_AddElement
  <1>5. Cardinality({f, g, h}) = 3
    BY <1>2, <1>3, <1>4, FS_AddElement
  <1> QED
    BY <1>5

\* The part of a host between two dots, or a dot and an end.
LEMMA DigitsBetweenDots ==
    ASSUME NEW host \in Text, AllIn(host, Digits \cup {"."}),
           NEW from \in 0 .. Len(host), NEW to \in 0 .. Len(host), from <= to,
           \A i \in from + 1 .. to : host[i] # "."
    PROVE  Slice(host, from, to) \in Text /\ AllIn(Slice(host, from, to), Digits)
  <1> DEFINE s == Slice(host, from, to)
  <1>1. from \in Nat /\ to \in Nat /\ to <= Len(host) /\ Len(host) \in Nat
    BY SMT DEF Text
  <1>2. s \in Text /\ Len(s) = to - from /\ \A i \in 1 .. to - from : s[i] = host[from + i]
    BY <1>1, SliceIsText
  <1> HIDE DEF s
  <1>3. \A i \in 1 .. to - from : from + i \in from + 1 .. to /\ from + i \in 1 .. Len(host)
    BY <1>1, SMT
  <1>4. \A i \in 1 .. Len(s) : s[i] \in Digits
    BY <1>2, <1>3 DEF AllIn
  <1> QED
    BY <1>2, <1>4 DEF AllIn, s

\* Three dots with an octet before, between and behind them are an address,
\* and an address is a valid host.
LEMMA OctetsAreValidHost ==
    ASSUME NEW host \in Text, AllIn(host, Digits \cup {"."}), Len(host) <= 15,
           NEW f \in 1 .. Len(host), NEW g \in 1 .. Len(host), NEW h \in 1 .. Len(host),
           f < g, g < h, Places(host, ".") = {f, g, h},
           isOctet(Slice(host, 0, f - 1)), isOctet(Slice(host, f, g - 1)),
           isOctet(Slice(host, g, h - 1)), isOctet(Slice(host, h, Len(host)))
    PROVE  IsValidHost(host) /\ ~ Contains(host, ":")
  <1> DEFINE n == Len(host)
  <1>1. n \in Nat /\ f \in 1 .. n /\ g \in 1 .. n /\ h \in 1 .. n /\ f < g /\ g < h /\ n <= 15
    BY SMT DEF Text
  <1>2. \A i \in 1 .. n : host[i] = "." <=> i \in {f, g, h}
    BY DEF Places
  <1>3. \A part \in Parts(host, ".") :
            /\ part \in Text /\ AllIn(part, Digits)
            /\ part # <<>> /\ Len(part) \in 1 .. 3 /\ Len(part) <= 3
            /\ Len(part) > 1 => part[1] # "0"
            /\ Number(part) <= 255
    <2> TAKE part \in Parts(host, ".")
    <2>1. PICK from, to \in 0 .. n :
               /\ from <= to
               /\ part = Slice(host, from, to)
               /\ from # 0 => host[from] = "."
               /\ to < n => host[to + 1] = "."
               /\ \A i \in from + 1 .. to : host[i] # "."
      BY PartsAreSlices
    <2>2. part \in Text /\ AllIn(part, Digits)
      BY <2>1, DigitsBetweenDots
    <2> HIDE DEF n
    <2>3. /\ from = 0 \/ from = f \/ from = g \/ from = h
          /\ to = n \/ to + 1 = f \/ to + 1 = g \/ to + 1 = h
      <3>1. from # 0 => from \in 1 .. n
        BY <1>1, <2>1, SMT
      <3>2. to # n => to < n /\ to + 1 \in 1 .. n
        BY <1>1, <2>1, SMT
      <3> QED
        BY <1>2, <2>1, <3>1, <3>2
    <2>4. \A i \in {f, g, h} : ~ (from + 1 <= i /\ i <= to)
      <3>1. \A i \in 1 .. n : from + 1 <= i /\ i <= to => i \in from + 1 .. to
        BY <2>1, SMT
      <3> QED
        BY <1>1, <1>2, <2>1, <3>1
    <2>5. \/ from = 0 /\ to = f - 1
          \/ from = f /\ to = g - 1
          \/ from = g /\ to = h - 1
          \/ from = h /\ to = n
      <3>1. ~ (from + 1 <= f /\ f <= to) /\ ~ (from + 1 <= g /\ g <= to)
            /\ ~ (from + 1 <= h /\ h <= to)
        BY <2>4
      <3> QED
        BY <1>1, <2>1, <2>3, <3>1, SMT
    <2>6. isOctet(part)
      BY <2>1, <2>5 DEF n
    <2> QED
      BY <2>2, <2>6, OctetsAreLiteral
  <1>4. isIPv4Literal(host)
    <2>1. Cardinality(Places(host, ".")) = 3
      BY <1>1, ThreePlaces
    <2> QED
      BY <1>3, <2>1, Zenon DEF isIPv4Literal
  <1>5. h < n
    <2> DEFINE octet == Slice(host, h, n)
    <2>1. Len(octet) = n - h
      <3>1. h \in Nat /\ n \in Nat /\ h <= n /\ n <= Len(host)
        BY <1>1, SMT
      <3> QED
        BY <3>1, SliceIsText
    <2>2. Len(octet) = 1 \/ Len(octet) \in 2 .. 3
      BY DEF isOctet
    <2> HIDE DEF octet, n
    <2> QED
      BY <1>1, <2>1, <2>2, SMT
  <1>6. Last(host) # "."
    <2>1. n \in 1 .. n /\ n \notin {f, g, h}
      BY <1>1, <1>5, SMT
    <2> QED
      BY <1>2, <2>1 DEF Last
  <1>7. host # <<>>
    BY <1>1, SMT
  <1>8. ~ Contains(host, ":")
    BY DEF Contains, AllIn, Digits
  <1>9. Bytes(host) <= maxDNSNameLength
    <2>1. \A i \in 1 .. n : host[i] \notin Words
      BY DigitsAreNoWords DEF AllIn
    <2>2. Bytes(host) = n
      BY <2>1, PlainBytes
    <2> QED
      BY <1>1, <2>2, SMT DEF maxDNSNameLength
  <1>10. AllIn(host, Alnum \cup {"-", "."})
    BY DEF AllIn, Alnum
  <1>11. \A label \in Parts(host, ".") : isValidHostLabel(label)
    <2> TAKE label \in Parts(host, ".")
    <2>1. label \in Text /\ AllIn(label, Digits) /\ Len(label) \in 1 .. 3 /\ label # <<>>
      BY <1>3
    <2>2. Bytes(label) = Len(label)
      <3>1. \A i \in 1 .. Len(label) : label[i] \notin Words
        BY <2>1, DigitsAreNoWords DEF AllIn
      <3> QED
        BY <2>1, <3>1, PlainBytes
    <2>3. label[1] # "-" /\ label[Len(label)] # "-"
      <3>1. 1 \in 1 .. Len(label) /\ Len(label) \in 1 .. Len(label)
        BY <2>1, SMT
      <3> QED
        BY <2>1, <3>1 DEF AllIn, Digits
    <2>4. Bytes(label) <= maxDNSLabelLength
      BY <2>1, <2>2, SMT DEF maxDNSLabelLength
    <2> QED
      BY <2>1, <2>3, <2>4 DEF isValidHostLabel, Last
  <1> QED
    BY <1>4, <1>6, <1>7, <1>8, <1>9, <1>10, <1>11 DEF IsValidHost

\* The lengths isOctet takes.
LEMMA OctetLength ==
    ASSUME NEW s \in Text, isOctet(s)
    PROVE  Len(s) \in 1 .. 3
  <1> DEFINE n == Len(s)
  <1>1. n = 1 \/ n \in 2 .. 3
    BY DEF isOctet
  <1>2. n \in Nat
    BY DEF Text
  <1> HIDE DEF n
  <1>3. n \in 1 .. 3
    BY <1>1, <1>2, SMT
  <1> QED
    BY <1>3 DEF n

\* A host that isIPv4 takes from its first word and its last is an address: the
\* second dot from the front is the second from the end, so there are three.
LEMMA FastAddressIsHost ==
    ASSUME NEW host \in Text, isIPv4(host)
    PROVE  IsValidHost(host) /\ ~ Contains(host, ":")
  <1> DEFINE n         == Len(host)
             dots      == Bitmap(host, {"."})
             Least(S)  == IF S = {} THEN 8 ELSE Min(S)
             firstDots == dots \cap 0 .. 7
             lastDots  == { n - 1 - i : i \in dots \cap (n - 8) .. (n - 1) }
             a         == Least(firstDots)
             b         == Least(firstDots \ {a})
             d         == Least(lastDots)
             c         == Least(lastDots \ {d})
  <1>1. /\ n \in 7 .. 15 /\ AllIn(host, Digits \cup {"."})
        /\ IF n = 7 THEN dots = {1, 3, 5}
           ELSE /\ b + c + 1 = n
                /\ isOctet(Slice(host, 0, a))
                /\ isOctet(Slice(host, a + 1, b))
                /\ isOctet(Slice(host, n - c, n - d - 1))
                /\ isOctet(Slice(host, n - d, n))
    BY DEF isIPv4
  <1>2. \A i \in 1 .. n : host[i] = "." <=> i - 1 \in dots
    <2>1. \A i \in 1 .. n : i - 1 \in 0 .. n - 1 /\ (i - 1) + 1 = i
      BY <1>1, SMT
    <2> QED
      BY <2>1 DEF Bitmap
  <1>3. dots \subseteq 0 .. n - 1
    BY DEF Bitmap
  <1>4. n \in Nat /\ n <= 15 /\ n \in 7 .. 15
    <2>1. n \in 7 .. 15
      BY <1>1, Zenon
    <2> HIDE DEF n
    <2> QED
      BY <2>1, SMT
  <1> HIDE DEF dots
  <1>5. CASE n = 7
    <2>1. \A i \in 1 .. n : i - 1 \in dots <=> i \in {2, 4, 6}
      BY <1>1, <1>5, SMT
    <2>2. Places(host, ".") = {2, 4, 6}
      <3>1. {2, 4, 6} \subseteq 1 .. n
        BY <1>5, SMT
      <3> QED
        BY <1>2, <2>1, <3>1 DEF Places
    <2>3. \A i \in {0, 2, 4, 6} : isOctet(Slice(host, i, i + 1))
      <3> TAKE i \in {0, 2, 4, 6}
      <3>1. i \in Nat /\ i + 1 \in Nat /\ i <= i + 1 /\ i + 1 <= Len(host) /\ (i + 1) - i = 1
        BY <1>5, SMT
      <3>2. Len(Slice(host, i, i + 1)) = 1
        BY <3>1, SliceIsText
      <3> QED
        BY <3>2 DEF isOctet
    <2>4. /\ isOctet(Slice(host, 0, 2 - 1)) /\ isOctet(Slice(host, 2, 4 - 1))
          /\ isOctet(Slice(host, 4, 6 - 1)) /\ isOctet(Slice(host, 6, Len(host)))
      <3>1. 2 - 1 = 0 + 1 /\ 4 - 1 = 2 + 1 /\ 6 - 1 = 4 + 1 /\ Len(host) = 6 + 1
        BY <1>5
      <3> QED
        BY <2>3, <3>1
    <2>5. 2 \in 1 .. Len(host) /\ 4 \in 1 .. Len(host) /\ 6 \in 1 .. Len(host) /\ Len(host) <= 15
          /\ 2 < 4 /\ 4 < 6
      BY <1>5, SMT
    <2> QED
      BY <1>1, <2>2, <2>4, <2>5, OctetsAreValidHost
  <1>6. CASE n # 7
    <2>1. n \in 8 .. 15
      BY <1>4, <1>6, SMT
    <2>2. \A S \in SUBSET Nat :
              \/ S = {} /\ Least(S) = 8
              \/ Least(S) \in S /\ Least(S) \in Nat /\ \A x \in S : Least(S) <= x
      BY MinIsLeast
    <2>3. firstDots \in SUBSET Nat /\ lastDots \in SUBSET Nat
      <3>1. \A i \in (n - 8) .. (n - 1) : n - 1 - i \in Nat
        BY <1>4, SMT
      <3> QED
        BY <3>1
    <2>4. \A i \in firstDots : i \in 0 .. 7 /\ i \in dots
      OBVIOUS
    <2>5. \A j \in lastDots : j \in 0 .. 7 /\ n - 1 - j \in dots
      <3> TAKE j \in lastDots
      <3>1. PICK i \in dots \cap (n - 8) .. (n - 1) : j = n - 1 - i
        OBVIOUS
      <3>2. i \in dots /\ i \in Int /\ n - 1 - j = i /\ j \in 0 .. 7
        <4>1. i \in (n - 8) .. (n - 1)
          BY <3>1
        <4> QED
          BY <1>4, <3>1, <4>1, SMT
      <3> QED
        BY <3>2
    <2>6. /\ \A i \in dots : i <= 7 => i \in firstDots
          /\ \A i \in dots : i >= n - 8 => n - 1 - i \in lastDots
      <3>1. \A i \in dots : (i <= 7 => i \in 0 .. 7) /\ (i >= n - 8 => i \in (n - 8) .. (n - 1))
        BY <1>3, <1>4, SMT
      <3> QED
        BY <3>1
    <2>7. \/ firstDots = {} /\ a = 8
          \/ a \in firstDots /\ a \in Nat /\ \A x \in firstDots : a <= x
      BY <2>2, <2>3
    <2>8. \/ firstDots \ {a} = {} /\ b = 8
          \/ b \in firstDots \ {a} /\ b \in Nat /\ \A x \in firstDots \ {a} : b <= x
      BY <2>2, <2>3
    <2>9. \/ lastDots = {} /\ d = 8
          \/ d \in lastDots /\ d \in Nat /\ \A x \in lastDots : d <= x
      BY <2>2, <2>3
    <2>10. \/ lastDots \ {d} = {} /\ c = 8
           \/ c \in lastDots \ {d} /\ c \in Nat /\ \A x \in lastDots \ {d} : c <= x
      BY <2>2, <2>3
    <2>11. /\ b + c + 1 = n
           /\ isOctet(Slice(host, 0, a)) /\ isOctet(Slice(host, a + 1, b))
           /\ isOctet(Slice(host, n - c, n - d - 1)) /\ isOctet(Slice(host, n - d, n))
      BY <1>1, <1>6
    <2> HIDE DEF a, b, c, d
    <2>12. \A from, to \in Nat :
               from <= to /\ to <= n /\ isOctet(Slice(host, from, to)) => to - from \in 1 .. 3
      <3> SUFFICES ASSUME NEW from \in Nat, NEW to \in Nat, from <= to, to <= n,
                          isOctet(Slice(host, from, to))
                   PROVE  to - from \in 1 .. 3
        OBVIOUS
      <3>1. Slice(host, from, to) \in Text /\ Len(Slice(host, from, to)) = to - from
        BY SliceIsText
      <3> QED
        BY <3>1, OctetLength
    <2> HIDE DEF firstDots, lastDots, n, Least
    <2>13. a \in 1 .. 3 /\ a \in firstDots
      <3>1. a \in 0 .. 8
        BY <2>4, <2>7, SMT
      <3>2. a \in Nat /\ 0 \in Nat /\ 0 <= a /\ a <= n /\ a - 0 = a
        BY <2>1, <3>1, SMT
      <3>3. a \in 1 .. 3
        BY <2>11, <2>12, <3>2
      <3> QED
        BY <2>7, <3>3, SMT
    <2>14. b \in a + 2 .. a + 4 /\ b \in firstDots
      <3>1. b \in 0 .. 8 /\ a < b
        BY <2>4, <2>7, <2>8, <2>13, SMT
      <3>2. a + 1 \in Nat /\ b \in Nat /\ a + 1 <= b /\ b <= n
        BY <2>1, <2>13, <3>1, SMT
      <3>3. b - (a + 1) \in 1 .. 3
        BY <2>11, <2>12, <3>2
      <3>4. b \in a + 2 .. a + 4 /\ b # 8
        BY <2>13, <3>2, <3>3, SMT
      <3> QED
        BY <2>8, <3>4
    <2>15. d \in 1 .. 3 /\ d \in lastDots
      <3>1. d \in 0 .. 8
        BY <2>5, <2>9, SMT
      <3>2. n - d \in Nat /\ n \in Nat /\ n - d <= n /\ n <= n /\ n - (n - d) = d
        BY <2>1, <3>1, SMT
      <3>3. d \in 1 .. 3
        BY <2>11, <2>12, <3>2
      <3> QED
        BY <2>9, <3>3, SMT
    <2>16. c \in d + 2 .. d + 4 /\ c \in lastDots
      <3>1. c \in 0 .. 8 /\ d < c
        BY <2>5, <2>9, <2>10, <2>15, SMT
      <3>2. n - c \in Nat /\ n - d - 1 \in Nat /\ n - c <= n - d - 1 /\ n - d - 1 <= n
            /\ (n - d - 1) - (n - c) = c - d - 1
        BY <2>1, <2>15, <3>1, SMT
      <3>3. c - d - 1 \in 1 .. 3
        BY <2>11, <2>12, <3>2
      <3>4. c \in d + 2 .. d + 4 /\ c # 8
        BY <2>15, <3>1, <3>3, SMT
      <3> QED
        BY <2>10, <3>4
    <2>17. a \in dots /\ b \in dots /\ n - 1 - d \in dots
      BY <2>4, <2>5, <2>13, <2>14, <2>15
    <2>18. \A i \in dots : i = a \/ i = b \/ i = n - 1 - d
      <3> TAKE i \in dots
      <3>1. i \in Nat /\ i <= n - 1
        BY <1>3, <2>1, SMT
      <3>2. CASE i < b
        <4>1. i \in firstDots
          BY <2>4, <2>6, <2>14, <3>1, <3>2, SMT
        <4>2. i = a
          <5>1. i # a => i \in firstDots \ {a}
            BY <4>1
          <5>2. \A x \in firstDots \ {a} : b <= x
            BY <2>8, <2>14
          <5>3. i # a => b <= i
            BY <5>1, <5>2
          <5> QED
            BY <3>1, <3>2, <5>3, <2>14, <2>13, SMT
        <4> QED
          BY <4>2
      <3>3. CASE i > b
        <4>1. i >= n - 8
          BY <2>1, <2>11, <2>13, <2>14, <2>15, <2>16, <3>1, <3>3, SMT
        <4>2. n - 1 - i \in lastDots
          BY <2>6, <4>1
        <4>3. n - 1 - i = d
          <5>1. n - 1 - i # d => n - 1 - i \in lastDots \ {d}
            BY <4>2
          <5>2. \A x \in lastDots \ {d} : c <= x
            BY <2>10, <2>16
          <5>3. n - 1 - i # d => c <= n - 1 - i
            BY <5>1, <5>2
          <5> QED
            BY <2>1, <2>11, <2>13, <2>14, <2>15, <2>16, <3>1, <3>3, <5>3, SMT
        <4> QED
          BY <2>1, <2>15, <3>1, <4>3, SMT
      <3> QED
        BY <2>13, <2>14, <3>1, <3>2, <3>3, SMT
    <2> DEFINE f == a + 1
               g == b + 1
               h == n - d
    <2>19. /\ f \in 1 .. n /\ g \in 1 .. n /\ h \in 1 .. n /\ f < g /\ g < h /\ n <= 15
           /\ f - 1 = a /\ g - 1 = b /\ h - 1 = n - 1 - d /\ h - 1 = n - d - 1 /\ g = n - c
      BY <2>1, <2>11, <2>13, <2>14, <2>15, <2>16, SMT
    <2>20. Places(host, ".") = {f, g, h}
      <3>1. \A i \in 1 .. n : host[i] = "." <=> i \in {f, g, h}
        <4> TAKE i \in 1 .. n
        <4>1. host[i] = "." <=> i - 1 \in dots
          BY <1>2
        <4>2. i - 1 \in dots <=> i - 1 = a \/ i - 1 = b \/ i - 1 = n - 1 - d
          BY <2>17, <2>18
        <4>3. (i - 1 = a <=> i = f) /\ (i - 1 = b <=> i = g) /\ (i - 1 = n - 1 - d <=> i = h)
          BY <2>1, <2>13, <2>14, <2>15, SMT
        <4> QED
          BY <4>1, <4>2, <4>3
      <3>2. Places(host, ".") = { i \in 1 .. n : host[i] = "." }
        BY DEF Places, n
      <3> HIDE DEF f, g, h
      <3> QED
        BY <3>1, <3>2, <2>19
    <2>21. /\ isOctet(Slice(host, 0, f - 1)) /\ isOctet(Slice(host, f, g - 1))
           /\ isOctet(Slice(host, g, h - 1)) /\ isOctet(Slice(host, h, n))
      <3>1. f = a + 1 /\ h = n - d
        OBVIOUS
      <3> QED
        BY <2>11, <2>19, <3>1
    <2> HIDE DEF f, g, h
    <2> QED
      BY <1>1, <2>19, <2>20, <2>21, OctetsAreValidHost DEF n
  <1> QED
    BY <1>5, <1>6

-----------------------------------------------------------------------------
(* Hosts that are names.                                                   *)

\* A short text of a name's bytes, in which no dot or hyphen is at an end or
\* beside a dot.
NameShape(host) ==
    /\ Len(host) >= 1 /\ Bytes(host) <= maxHostNameLen /\ AllIn(host, NameBytes)
    /\ \A i \in 1 .. Len(host) : host[i] \in Edge =>
         i # 1 /\ i # Len(host) /\ host[i - 1] # "." /\ host[i + 1] # "."

\* A host of that shape that does not end in a number is valid: no label is
\* empty, too long, or has a hyphen at an end.
LEMMA NamesAreHosts ==
    ASSUME NEW host \in Text, NameShape(host), ~ EndsInNumber(host)
    PROVE  IsValidHost(host) /\ ~ Contains(host, ":")
  <1> DEFINE n == Len(host)
  <1>1. n \in Nat \ {0}
    <2>1. n \in Nat /\ n >= 1
      BY DEF NameShape, Text
    <2> QED
      BY <2>1, SMT
  <1>2. /\ Bytes(host) <= maxHostNameLen
        /\ \A i \in 1 .. n : host[i] \in NameBytes
        /\ \A i \in 1 .. n : host[i] \in Edge =>
             i # 1 /\ i # n /\ host[i - 1] # "." /\ host[i + 1] # "."
    BY DEF NameShape, AllIn
  <1>3. 1 \in 1 .. n /\ n \in 1 .. n
    BY <1>1, SMT
  <1>4. host[1] \notin Edge /\ host[n] \notin Edge
    BY <1>2, <1>3
  <1>5. Last(host) # "." /\ host # <<>>
    <2>1. host[n] # "."
      BY <1>4 DEF Edge
    <2>2. Len(<<>>) = 0
      OBVIOUS
    <2> QED
      BY <1>1, <2>1, <2>2 DEF Last
  <1>6. ~ Contains(host, ":")
    <2>1. ":" \notin NameBytes
      BY FoldedNames DEF NameBytes, Alnum, Digits, HexLetters, Words, Schemes
    <2> QED
      BY <1>2, <2>1 DEF Contains
  <1>7. AllIn(host, Alnum \cup {"-", "."})
    BY <1>2 DEF AllIn, NameBytes
  <1>8. Bytes(host) \in Nat
    <2>1. 0 \in Nat /\ n \in Nat /\ 0 <= n /\ n <= n
      BY <1>1, SMT
    <2> QED
      BY <2>1, BytesOfPart
  <1>9. Bytes(host) <= maxDNSNameLength
    BY <1>2, <1>8, SMT DEF maxHostNameLen, maxDNSNameLength
  <1>10. \A label \in Parts(host, ".") : isValidHostLabel(label)
    <2> TAKE label \in Parts(host, ".")
    <2>1. PICK from, to \in 0 .. n :
               /\ from <= to
               /\ label = Slice(host, from, to)
               /\ from # 0 => host[from] = "."
               /\ to < n => host[to + 1] = "."
               /\ \A i \in from + 1 .. to : host[i] # "."
      BY PartsAreSlices
    <2>2. from \in Nat /\ to \in Nat /\ to <= n
      BY <1>1, <2>1, SMT
    <2>3. label \in Text /\ Len(label) = to - from /\ \A i \in 1 .. to - from : label[i] = host[from + i]
      BY <2>1, <2>2, SliceIsText
    <2>4. Bytes(label) \in Nat /\ Bytes(label) <= Bytes(host)
      <3>1. /\ Bytes(label) \in Nat
            /\ Bytes(label) + (n - (to - from)) <= Bytes(host)
        BY <2>1, <2>2, BytesOfPart
      <3> DEFINE part == Bytes(label)
                 all  == Bytes(host)
      <3>2. part \in Nat /\ all \in Nat /\ part + (n - (to - from)) <= all
        BY <3>1, <1>8
      <3> HIDE DEF part, all, n
      <3>3. part <= all
        BY <1>1, <2>1, <2>2, <3>2, SMT
      <3> QED
        BY <3>2, <3>3 DEF part, all
    <2>5. Bytes(label) <= maxDNSLabelLength
      BY <1>2, <1>8, <2>4, SMT DEF maxHostNameLen, maxDNSLabelLength
    \* A dot before the label is not before an edge,
    <2>6. from < n /\ host[from + 1] \notin Edge
      <3>1. CASE from = 0
        <4>1. from + 1 = 1 /\ from < n
          BY <1>1, <3>1, SMT
        <4> QED
          BY <1>4, <4>1
      <3>2. CASE from # 0
        <4>1. from \in 1 .. n /\ host[from] = "."
          BY <2>1, <2>2, <3>2, SMT
        <4>2. from # n
          BY <1>2, <4>1 DEF Edge
        <4>3. from + 1 \in 1 .. n /\ (from + 1) - 1 = from /\ from < n
          BY <1>1, <4>1, <4>2, SMT
        <4>4. host[from + 1] \notin Edge
          BY <1>2, <4>1, <4>3
        <4> QED
          BY <4>3, <4>4
      <3> QED
        BY <3>1, <3>2
    <2>7. from < to
      <3>1. CASE from = to
        <4>1. host[from + 1] = "."
          BY <2>1, <2>6, <3>1
        <4> QED
          BY <2>6, <4>1 DEF Edge
      <3> QED
        BY <2>1, <2>2, <3>1, SMT
    \* nor is one behind it behind an edge.
    <2>8. host[to] \notin Edge
      <3>1. CASE to = n
        BY <1>4, <3>1
      <3>2. CASE to # n
        <4>1. to < n /\ to \in 1 .. n
          BY <1>1, <2>1, <2>2, <2>7, <3>2, SMT
        <4> QED
          BY <1>2, <2>1, <4>1
      <3> QED
        BY <3>1, <3>2
    <2>9. label[1] # "-" /\ label[Len(label)] # "-" /\ label # <<>>
      <3>1. /\ 1 \in 1 .. to - from /\ to - from \in 1 .. to - from
            /\ from + (to - from) = to /\ to - from # 0
        BY <2>2, <2>7, SMT
      <3>2. label[1] = host[from + 1] /\ label[Len(label)] = host[to]
        BY <2>3, <3>1
      <3> QED
        BY <2>3, <2>6, <2>8, <3>1, <3>2 DEF Edge
    <2> QED
      BY <2>5, <2>9 DEF isValidHostLabel, Last
  <1>11. ~ isDigitLabel(LastPart(host, "."))
    BY DEF EndsInNumber
  <1> QED
    BY <1>5, <1>6, <1>7, <1>9, <1>10, <1>11 DEF IsValidHost

\* Two neighbours are in one of the words that IsHostName loads.
LEMMA NeighboursShareWord ==
    ASSUME NEW n \in Nat, NEW i \in 0 .. n - 1, NEW j \in i .. i + 1, j < n
    PROVE  \E word \in NameWords(n) : i \in word /\ j \in word
  <1>1. CASE n <= 8
    <2>1. i \in 0 .. n - 1 /\ j \in 0 .. n - 1
      BY SMT
    <2> QED
      BY <1>1, <2>1 DEF NameWords
  <1>2. CASE n > 8
    <2>1. NameWords(n) = { k .. k + 7 : k \in {0, n - 8} \cup { m \in 1 .. n - 9 : m % 7 = 0 } }
      <3>1. ~ (n <= 8)
        BY <1>2, SMT
      <3> QED
        BY <3>1 DEF NameWords
    <2>2. CASE i <= 6
      <3>1. i \in 0 .. 0 + 7 /\ j \in 0 .. 0 + 7
        BY <2>2, SMT
      <3> QED
        BY <2>1, <3>1
    <2>3. CASE i >= n - 8
      <3>1. i \in n - 8 .. (n - 8) + 7 /\ j \in n - 8 .. (n - 8) + 7
        BY <2>3, SMT
      <3> QED
        BY <2>1, <3>1
    <2>4. CASE i > 6 /\ i < n - 8
      <3> DEFINE k == 7 * (i \div 7)
      <3>1. k \in 1 .. n - 9 /\ k % 7 = 0 /\ i \in k .. k + 7 /\ j \in k .. k + 7
        BY <2>4, SMT
      <3> HIDE DEF k
      <3> QED
        BY <2>1, <3>1
    <2> QED
      BY <2>2, <2>3, <2>4, SMT
  <1> QED
    BY <1>1, <1>2, SMT

\* What IsHostName takes word by word has the shape of a name.
LEMMA HostNameHasShape ==
    ASSUME NEW host \in Text, IsHostName(host)
    PROVE  NameShape(host)
  <1> DEFINE n == Len(host)
  <1>1. n \in Nat
    BY DEF Text
  <1>2. Bytes(host) \in 1 .. maxHostNameLen
    BY DEF IsHostName
  <1>3. \A word \in NameWords(n) : \A i \in word :
            /\ host[i + 1] \in NameBytes
            /\ host[i + 1] \in Edge =>
                 /\ i # 0 /\ i # n - 1
                 /\ \A j \in {i - 1, i + 1} \cap word : host[j + 1] # "."
    BY DEF IsHostName, ValidNameWord
  <1>4. n >= 1
    <2>1. n = 0 => Bytes(host) = 0
      BY PlainBytes, SMT
    <2>2. Bytes(host) # 0
      BY <1>2, SMT DEF maxHostNameLen
    <2> QED
      BY <1>1, <2>1, <2>2, SMT
  <1>5. Bytes(host) <= maxHostNameLen
    BY <1>2, SMT DEF maxHostNameLen
  <1>6. \A i \in 1 .. n : i - 1 \in 0 .. n - 1 /\ (i - 1) + 1 = i /\ i - 1 \in i - 1 .. (i - 1) + 1 /\ i - 1 < n
    BY <1>1, SMT
  <1>7. AllIn(host, NameBytes)
    <2> SUFFICES ASSUME NEW i \in 1 .. n
                 PROVE  host[i] \in NameBytes
      BY DEF AllIn
    <2>1. PICK word \in NameWords(n) : i - 1 \in word
      BY <1>1, <1>6, NeighboursShareWord
    <2> QED
      BY <1>3, <1>6, <2>1
  <1>8. \A i \in 1 .. n : host[i] \in Edge =>
             i # 1 /\ i # n /\ host[i - 1] # "." /\ host[i + 1] # "."
    <2> SUFFICES ASSUME NEW i \in 1 .. n, host[i] \in Edge
                 PROVE  i # 1 /\ i # n /\ host[i - 1] # "." /\ host[i + 1] # "."
      OBVIOUS
    <2>1. i # 1 /\ i # n
      <3>1. PICK word \in NameWords(n) : i - 1 \in word
        BY <1>1, <1>6, NeighboursShareWord
      <3>2. i - 1 # 0 /\ i - 1 # n - 1
        BY <1>3, <1>6, <3>1
      <3> QED
        BY <1>1, <3>2, SMT
    <2>2. host[i + 1] # "."
      <3> DEFINE p == i - 1
      <3>1. p \in 0 .. n - 1 /\ i \in p .. p + 1 /\ i < n /\ p + 1 = i
        BY <1>1, <2>1, SMT
      <3> HIDE DEF p
      <3>2. PICK word \in NameWords(n) : p \in word /\ i \in word
        BY <1>1, <3>1, NeighboursShareWord
      <3>3. i \in {p - 1, p + 1} \cap word
        BY <3>1, <3>2
      <3> QED
        BY <1>3, <3>1, <3>2, <3>3
    <2>3. host[i - 1] # "."
      <3> DEFINE q == i - 2
                 p == i - 1
      <3>1. q \in 0 .. n - 1 /\ p \in q .. q + 1 /\ p < n /\ p + 1 = i /\ q = p - 1 /\ q + 1 = p
        BY <1>1, <2>1, SMT
      <3>2. i - 1 = p
        OBVIOUS
      <3> HIDE DEF p, q
      <3>3. PICK word \in NameWords(n) : q \in word /\ p \in word
        BY <1>1, <3>1, NeighboursShareWord
      <3>4. q \in {p - 1, p + 1} \cap word
        BY <3>1, <3>3
      <3>5. host[q + 1] # "."
        BY <1>3, <3>1, <3>3, <3>4
      <3> QED
        BY <3>1, <3>2, <3>5
    <2> QED
      BY <2>1, <2>2, <2>3
  <1> QED
    BY <1>4, <1>5, <1>7, <1>8 DEF NameShape

\* So has what the bitmaps of an index show as a name: the dots and hyphens of
\* the host, shifted, meet none of its dots.
LEMMA IndexedNameHasShape ==
    ASSUME NEW input \in Text, NEW start \in Nat, NEW hostEnd \in Nat,
           start < hostEnd, hostEnd < Len(input), Bytes(input) <= MaxLen,
           IndexedName(input, start, hostEnd)
    PROVE  NameShape(Slice(input, start, hostEnd))
  <1> DEFINE host  == Slice(input, start, hostEnd)
             n     == hostEnd - start
             range == start .. hostEnd - 1
             dots  == Bitmap(input, {"."}) \cap range
             edges == Bitmap(input, Edge) \cap range
             beside == { i + 1 : i \in dots } \cup { i - 1 : i \in dots } \cup {start, hostEnd - 1}
  <1>1. Len(input) \in Nat /\ n \in Nat /\ n >= 1 /\ hostEnd <= Len(input) /\ start <= hostEnd
    <2>1. Len(input) \in Nat
      BY DEF Text
    <2> QED
      BY <2>1, SMT
  <1>2. host \in Text /\ Len(host) = n /\ \A i \in 1 .. n : host[i] = input[start + i]
    BY <1>1, SliceIsText
  <1>3. range \subseteq edges \cup Bitmap(input, Alnum) /\ edges \cap beside = {}
    BY DEF IndexedName
  <1>4. \A i \in 1 .. n : /\ (start + i) - 1 \in range /\ (start + i) - 1 \in 0 .. Len(input) - 1
                          /\ ((start + i) - 1) + 1 = start + i
    BY <1>1, SMT
  <1>5. /\ \A k \in 0 .. Len(input) - 1 : k \in Bitmap(input, {"."}) <=> input[k + 1] = "."
        /\ \A k \in 0 .. Len(input) - 1 : k \in Bitmap(input, Edge) <=> input[k + 1] \in Edge
        /\ \A k \in 0 .. Len(input) - 1 : k \in Bitmap(input, Alnum) <=> input[k + 1] \in Alnum
    BY DEF Bitmap
  <1> DEFINE Place(i) == (start + i) - 1
  <1>6. \A i \in 1 .. n : /\ host[i] = "." <=> Place(i) \in dots
                          /\ host[i] \in Edge <=> Place(i) \in edges
    BY <1>2, <1>4, <1>5
  <1>7. \A i \in 1 .. n : host[i] \in Edge \cup Alnum
    <2> TAKE i \in 1 .. n
    <2>1. Place(i) \in edges \cup Bitmap(input, Alnum)
      BY <1>3, <1>4
    <2>2. Place(i) \in 0 .. Len(input) - 1 /\ Place(i) + 1 = start + i
      BY <1>4
    <2> DEFINE k == Place(i)
    <2> HIDE DEF Place, k
    <2>3. k \in 0 .. Len(input) - 1 /\ k + 1 = start + i
          /\ (k \in Bitmap(input, Edge) \/ k \in Bitmap(input, Alnum))
      BY <2>1, <2>2 DEF k
    <2>4. input[k + 1] \in Edge \/ input[k + 1] \in Alnum
      BY <1>5, <2>3
    <2> QED
      BY <1>2, <2>3, <2>4
  <1>8. AllIn(host, NameBytes)
    BY <1>2, <1>7 DEF AllIn, NameBytes, Edge
  <1>9. \A i \in 1 .. n : host[i] \in Edge =>
             i # 1 /\ i # n /\ host[i - 1] # "." /\ host[i + 1] # "."
    <2> SUFFICES ASSUME NEW i \in 1 .. n, host[i] \in Edge
                 PROVE  i # 1 /\ i # n /\ host[i - 1] # "." /\ host[i + 1] # "."
      OBVIOUS
    <2>1. Place(i) \in edges
      BY <1>6
    <2>2. Place(i) \notin beside
      BY <1>3, <2>1
    <2>3. i # 1 /\ i # n
      <3>1. Place(i) # start /\ Place(i) # hostEnd - 1
        BY <2>2
      <3> QED
        BY <1>1, <3>1, SMT
    <2>4. host[i + 1] # "."
      <3>1. i + 1 \in 1 .. n /\ Place(i + 1) - 1 = Place(i)
        BY <1>1, <2>3, SMT
      <3>2. Place(i + 1) \notin dots
        BY <2>2, <3>1
      <3> QED
        BY <1>6, <3>1, <3>2
    <2>5. host[i - 1] # "."
      <3>1. i - 1 \in 1 .. n /\ Place(i - 1) + 1 = Place(i)
        BY <1>1, <2>3, SMT
      <3>2. Place(i - 1) \notin dots
        BY <2>2, <3>1
      <3> QED
        BY <1>6, <3>1, <3>2
    <2> QED
      BY <2>3, <2>4, <2>5
  <1>10. Bytes(host) <= maxHostNameLen
    <2>1. Bytes(host) \in Nat /\ Bytes(input) \in Nat
          /\ Bytes(host) + (Len(input) - n) <= Bytes(input)
      BY <1>1, BytesOfPart
    <2> DEFINE part == Bytes(host)
               all  == Bytes(input)
               big  == Len(input)
    <2>2. part \in Nat /\ all \in Nat /\ part + (big - n) <= all /\ all <= 64 /\ big \in Nat
          /\ hostEnd < big
      BY <1>1, <2>1 DEF MaxLen
    <2> HIDE DEF part, all, big
    <2>3. part <= 63
      BY <2>2, SMT
    <2> QED
      BY <2>3 DEF maxHostNameLen, part
  <1> QED
    BY <1>1, <1>2, <1>8, <1>9, <1>10 DEF NameShape

-----------------------------------------------------------------------------
(* A host and a port.                                                      *)

\* Up to five digits that say a number from 1 to 65535 are a port, with zeros
\* in front or not.
LEMMA PortsAreValid ==
    ASSUME NEW port \in Text, Len(port) \in 1 .. maxPortDigits, AllIn(port, Digits),
           Number(port) \in PortNumbers
    PROVE  isValidPort(port)
  <1> DEFINE n      == Len(port)
             others == { i \in 1 .. n - 1 : port[i] # "0" }
             first  == IF others # {} THEN Min(others) ELSE 0
             z      == IF first = 0 THEN n - 1 ELSE first - 1
             trimmed == Rest(port, z)
  <1>1. n \in Nat /\ n \in 1 .. 5
    BY DEF Text, maxPortDigits
  <1>2. (IF first = 0 THEN Rest(port, n - 1) ELSE Rest(port, first - 1)) = trimmed
    OBVIOUS
  <1>3. z \in 0 .. n - 1 /\ \A i \in 1 .. z : port[i] = "0"
    <2>1. CASE others = {}
      <3>1. z = n - 1
        BY <2>1
      <3>2. n - 1 \in 0 .. n - 1
        BY <1>1, SMT
      <3> HIDE DEF z
      <3> QED
        BY <2>1, <3>1, <3>2
    <2>2. CASE others # {}
      <3> DEFINE m == Min(others)
      <3>0. others \in SUBSET Nat
        BY <1>1, SMT
      <3> HIDE DEF others
      <3>1. m \in others /\ \A x \in others : m <= x
        BY <2>2, <3>0, MinIsLeast
      <3> USE DEF others
      <3> HIDE DEF m
      <3>2. m \in 1 .. n - 1 /\ first = m
        BY <2>2, <3>1 DEF m
      <3>3. z = m - 1
        <4>1. m # 0
          BY <3>2, SMT
        <4> QED
          BY <3>2, <4>1
      <3> HIDE DEF z, first
      <3>4. m - 1 \in 0 .. n - 1 /\ \A i \in 1 .. m - 1 : i \in 1 .. n - 1 /\ ~ (m <= i)
        BY <1>1, <3>2, SMT
      <3> QED
        BY <3>1, <3>3, <3>4
    <2> QED
      BY <2>1, <2>2
  <1> HIDE DEF z, first
  <1>4. Number(trimmed) = Number(port)
    <2>1. z \in 0 .. Len(port)
      BY <1>1, <1>3, SMT
    <2> QED
      BY <1>3, <2>1, LeadingZeros
  <1>5. trimmed \in Text /\ Len(trimmed) = n - z /\ \A i \in 1 .. n - z : trimmed[i] = port[z + i]
    <2>1. trimmed = Slice(port, z, n)
      BY RestIsSlice
    <2>2. z \in Nat /\ z <= n /\ n <= Len(port)
      BY <1>1, <1>3, SMT
    <2> HIDE DEF trimmed
    <2> QED
      BY <1>1, <2>1, <2>2, SliceIsText
  <1>6. AllIn(trimmed, Digits)
    <2>1. \A i \in 1 .. n - z : z + i \in 1 .. n
      BY <1>1, <1>3, SMT
    <2> HIDE DEF trimmed
    <2> QED
      BY <1>5, <2>1 DEF AllIn
  <1>7. Len(trimmed) \in 1 .. 5
    <2> HIDE DEF trimmed, n
    <2>1. n - z \in 1 .. 5
      BY <1>1, <1>3, SMT
    <2> QED
      BY <1>5, <2>1
  <1>8. port # <<>>
    <2>1. Len(<<>>) = 0
      OBVIOUS
    <2> QED
      BY <1>1, <2>1, SMT
  <1> HIDE DEF trimmed
  <1>9. first = SelectInSubSeq(port, 1, Len(port) - 1, LAMBDA c : c # "0")
    BY DEF SelectInSubSeq, first
  <1> QED
    BY <1>2, <1>4, <1>6, <1>7, <1>8, <1>9 DEF isValidPort

\* Max of two numbers.
LEMMA MaxOfTwo ==
    ASSUME NEW a \in Int, NEW b \in Int
    PROVE  Max({a, b}) \in {a, b} /\ Max({a, b}) >= a /\ Max({a, b}) >= b
  <1>1. \E x \in {a, b} : \A y \in {a, b} : x >= y
    <2>1. CASE a >= b
      BY <2>1, SMT
    <2>2. CASE ~ (a >= b)
      BY <2>2, SMT
    <2> QED
      BY <2>1, <2>2
  <1>2. Max({a, b}) \in {a, b} /\ \A y \in {a, b} : Max({a, b}) >= y
    BY <1>1, Zenon DEF Max
  <1> QED
    BY <1>2

\* What isHostPort takes is a valid host, one ':' and a valid port.
LEMMA HostPortIsValid ==
    ASSUME NEW input \in Text, NEW start \in Nat, NEW indexed,
           indexed => Bytes(input) <= MaxLen,
           isHostPort(input, start, indexed)
    PROVE  validateHostnamePort(Rest(input, start)) = "ok"
  <1> DEFINE n         == Len(input)
             portLimit == Max({start, n - maxPortDigits - 1})
             starts    == { k \in portLimit .. n : \A i \in k .. n - 1 : input[i + 1] \in Digits }
             portStart == Min(starts)
             hostEnd   == portStart - 1
             host      == Slice(input, start, hostEnd)
             port      == Rest(input, portStart)
             hnp       == Rest(input, start)
  <1>1. /\ start < n /\ input[start + 1] # "["
        /\ n - portStart \in 1 .. maxPortDigits
        /\ hostEnd > start /\ input[hostEnd + 1] = ":"
        /\ Number(port) \in PortNumbers
        /\ \/ isIPv4(host)
           \/ /\ ~ EndsInNumber(host)
              /\ IF indexed THEN IndexedName(input, start, hostEnd) ELSE IsHostName(host)
    BY DEF isHostPort
  <1>2. n \in Nat
    BY DEF Text
  <1>3. portLimit \in Nat /\ portLimit <= n
    <2>1. n - maxPortDigits - 1 \in Int /\ start \in Int
      BY <1>2, SMT DEF maxPortDigits
    <2>2. portLimit \in {start, n - maxPortDigits - 1} /\ portLimit >= start
      BY <2>1, MaxOfTwo
    <2> HIDE DEF portLimit
    <2>3. portLimit \in Int
      BY <2>1, <2>2
    <2> QED
      BY <1>1, <1>2, <2>2, <2>3, SMT DEF maxPortDigits
  <1> HIDE DEF portLimit
  <1>4. portStart \in portLimit .. n /\ \A i \in portStart .. n - 1 : input[i + 1] \in Digits
    <2>1. n \in starts
      <3>1. n \in portLimit .. n /\ \A i \in n .. n - 1 : FALSE
        BY <1>2, <1>3, SMT
      <3> QED
        BY <3>1
    <2>2. starts \in SUBSET Nat
      BY <1>3, SMT
    <2>3. portStart \in starts
      BY <2>1, <2>2, MinIsLeast
    <2> HIDE DEF portStart
    <2> QED
      BY <2>3
  <1> HIDE DEF portStart
  <1>5. /\ portStart \in Nat /\ hostEnd \in Nat /\ start < hostEnd /\ hostEnd < n
        /\ hostEnd + 1 = portStart /\ n - portStart \in 1 .. 5 /\ portStart < n
    <2>1. hostEnd > start
      BY <1>1
    <2>2. n - portStart \in 1 .. 5
      BY <1>1 DEF maxPortDigits
    <2> HIDE DEF n
    <2> QED
      BY <1>2, <1>3, <1>4, <2>1, <2>2, SMT
  <1>6. input[portStart] = ":"
    BY <1>1, <1>5
  <1>7. host \in Text /\ Len(host) = hostEnd - start
        /\ \A i \in 1 .. hostEnd - start : host[i] = input[start + i]
    <2>1. start <= hostEnd /\ hostEnd <= n
      BY <1>2, <1>5, SMT
    <2> QED
      BY <1>5, <2>1, SliceIsText
  <1>8. port \in Text /\ Len(port) = n - portStart
        /\ \A i \in 1 .. n - portStart : port[i] = input[portStart + i]
    <2>1. portStart <= n /\ n <= n /\ port = Slice(input, portStart, n)
      BY <1>2, <1>5, RestIsSlice, SMT
    <2> HIDE DEF port
    <2> QED
      BY <1>2, <1>5, <2>1, SliceIsText
  <1>9. hnp \in Text /\ Len(hnp) = n - start
        /\ \A i \in 1 .. n - start : hnp[i] = input[start + i]
    <2>1. start <= n /\ n <= n /\ hnp = Slice(input, start, n)
      BY <1>1, <1>2, RestIsSlice, SMT
    <2> HIDE DEF hnp
    <2> QED
      BY <1>2, <2>1, SliceIsText
  <1>10. IsValidHost(host) /\ ~ Contains(host, ":")
    <2>1. CASE isIPv4(host)
      BY <1>7, <2>1, FastAddressIsHost
    <2>2. CASE ~ isIPv4(host)
      <3>1. /\ ~ EndsInNumber(host)
            /\ IF indexed THEN IndexedName(input, start, hostEnd) ELSE IsHostName(host)
        BY <1>1, <2>2
      <3>2. NameShape(host)
        <4>1. CASE indexed
          BY <1>5, <3>1, <4>1, IndexedNameHasShape
        <4>2. CASE ~ indexed
          BY <1>7, <3>1, <4>2, HostNameHasShape
        <4> QED
          BY <4>1, <4>2
      <3> QED
        BY <1>7, <3>1, <3>2, NamesAreHosts
    <2> QED
      BY <2>1, <2>2
  <1>11. isValidPort(port)
    <2>1. AllIn(port, Digits)
      <3>1. \A i \in 1 .. n - portStart :
                (portStart + i) - 1 \in portStart .. n - 1 /\ ((portStart + i) - 1) + 1 = portStart + i
        BY <1>2, <1>5, SMT
      <3>2. \A i \in 1 .. n - portStart : input[portStart + i] \in Digits
        BY <1>4, <3>1
      <3> HIDE DEF port
      <3> QED
        BY <1>8, <3>2 DEF AllIn
    <2>2. Len(port) \in 1 .. maxPortDigits /\ Number(port) \in PortNumbers
      BY <1>1, <1>8
    <2> HIDE DEF port
    <2> QED
      BY <1>8, <2>1, <2>2, PortsAreValid
  <1> HIDE DEF host, port, hnp
  <1> DEFINE c == hostEnd - start
  <1>12. /\ c \in Nat /\ c > 0 /\ c + 1 \in 1 .. n - start /\ start + (c + 1) = portStart
         /\ n - start >= 3
         /\ \A i \in 1 .. c : i \in 1 .. n - start /\ i \in 1 .. hostEnd - start
         /\ \A i \in c + 2 .. n - start : i \in 1 .. n - start /\ start + i - 1 \in portStart .. n - 1
         /\ \A i \in c + 2 .. n - start : (start + i - 1) + 1 = start + i
    BY <1>2, <1>5, SMT
  <1>13. hnp[c + 1] = ":"
    BY <1>6, <1>9, <1>12
  <1>14. \A i \in 1 .. c : hnp[i] # ":"
    <2> TAKE i \in 1 .. c
    <2>1. hnp[i] = host[i] /\ i \in 1 .. Len(host)
      BY <1>7, <1>9, <1>12
    <2> QED
      BY <1>10, <2>1 DEF Contains
  <1>15. \A i \in c + 2 .. n - start : hnp[i] # ":"
    <2> TAKE i \in c + 2 .. n - start
    <2>1. hnp[i] = input[start + i]
      BY <1>9, <1>12
    <2>2. input[start + i] \in Digits
      BY <1>4, <1>12
    <2> QED
      BY <2>1, <2>2 DEF Digits
  <1> HIDE DEF c
  <1>16. IndexByte(hnp, ":", 0) = c
    <2> DEFINE k == IndexByte(hnp, ":", 0)
    <2>1. \/ /\ k = Absent
             /\ \A i \in 0 + 1 .. Len(hnp) : hnp[i] # ":"
          \/ /\ k \in 0 .. Len(hnp) - 1
             /\ hnp[k + 1] = ":"
             /\ \A i \in 0 + 1 .. k : hnp[i] # ":"
      BY <1>9, IndexByteFinds
    <2> HIDE DEF k
    <2>2. c + 1 \in 0 + 1 .. Len(hnp)
      BY <1>9, <1>12
    <2>3. k \in 0 .. Len(hnp) - 1 /\ hnp[k + 1] = ":" /\ \A i \in 0 + 1 .. k : hnp[i] # ":"
      BY <1>13, <2>1, <2>2
    <2>4. k \in Nat /\ k \in 0 .. n - start - 1
      BY <1>2, <1>9, <2>3, SMT
    <2>5. ~ (k < c)
      <3>1. k < c => k + 1 \in 1 .. c
        BY <1>12, <2>4, SMT
      <3> QED
        BY <1>14, <2>3, <3>1
    <2>6. ~ (k > c)
      <3>1. k > c => c + 1 \in 0 + 1 .. k
        BY <1>12, <2>4, SMT
      <3> QED
        BY <1>13, <2>3, <3>1
    <2>7. k = c
      BY <1>12, <2>4, <2>5, <2>6, SMT
    <2> QED
      BY <2>7 DEF k
  <1>17. IndexByte(hnp, ":", c + 1) = Absent
    <2>1. c + 1 \in Nat /\ (c + 1) + 1 = c + 2
      BY <1>12, SMT
    <2> DEFINE k == IndexByte(hnp, ":", c + 1)
    <2>2. \/ k = Absent
          \/ k \in c + 1 .. Len(hnp) - 1 /\ hnp[k + 1] = ":"
      BY <1>9, <2>1, IndexByteFinds
    <2> HIDE DEF k
    <2>3. k \in c + 1 .. Len(hnp) - 1 => k + 1 \in c + 2 .. n - start
      BY <1>2, <1>9, <1>12, SMT
    <2> QED
      BY <1>15, <2>2, <2>3 DEF k
  <1>18. /\ hnp = Slice(input, start, n) /\ n - start \in Nat /\ n <= Len(input)
         /\ start <= n /\ start + 0 = start /\ start + c = hostEnd
         /\ start + (n - start) = n /\ c <= n - start /\ c + 1 <= n - start
         /\ 0 <= c /\ c + 1 \in Nat /\ n - start <= n - start
    <2>1. hnp = Slice(input, start, n)
      BY RestIsSlice DEF hnp
    <2>2. n - start \in Nat /\ start <= n /\ start + 0 = start /\ start + c = hostEnd
          /\ start + (n - start) = n /\ c <= n - start /\ c + 1 <= n - start
          /\ 0 <= c /\ c + 1 \in Nat /\ n - start <= n - start
      BY <1>2, <1>5, <1>12, SMT DEF c
    <2> QED
      BY <1>2, <2>1, <2>2
  <1>19. Slice(hnp, 0, c) = host /\ Rest(hnp, c + 1) = port
    <2>1. Slice(hnp, 0, c) = Slice(input, start, hostEnd)
      BY <1>2, <1>12, <1>18, SliceOfSlice
    <2>2. Slice(hnp, c + 1, n - start) = Slice(input, portStart, n)
      <3> DEFINE l == n - start
                 d == c + 1
      <3>1. d \in Nat /\ l \in Nat /\ d <= l /\ l <= n - start /\ start <= n /\ n <= Len(input)
        BY <1>18
      <3>2. start + d = portStart /\ start + l = n /\ hnp = Slice(input, start, n)
        BY <1>12, <1>18
      <3> HIDE DEF l, d
      <3>3. Slice(hnp, d, l) = Slice(input, start + d, start + l)
        BY <1>2, <3>1, <3>2, SliceOfSlice
      <3>4. Slice(hnp, d, l) = Slice(input, portStart, n)
        BY <3>2, <3>3
      <3> QED
        BY <3>4 DEF d, l
    <2>3. Rest(hnp, c + 1) = Slice(hnp, c + 1, n - start)
      BY <1>9, RestIsSlice
    <2>4. port = Slice(input, portStart, n)
      BY RestIsSlice DEF port
    <2> QED
      BY <2>1, <2>2, <2>3, <2>4 DEF host
  <1>20. hnp[1] # "[" /\ hnp # <<>> /\ ~ (Bytes(hnp) < 2)
    <2>1. 1 \in 1 .. n - start
      BY <1>12, SMT
    <2>2. hnp[1] # "["
      BY <1>1, <1>9, <2>1
    <2>3. hnp # <<>>
      <3>1. Len(<<>>) = 0
        OBVIOUS
      <3> QED
        BY <1>9, <1>12, <3>1, SMT
    <2>4. Bytes(hnp) \in Nat /\ Bytes(hnp) >= Len(hnp)
      <3>1. 0 \in Nat /\ 0 <= 0 /\ 0 <= Len(hnp)
        BY <1>2, <1>9, <1>12, SMT
      <3> QED
        BY <1>9, <3>1, BytesOfPart
    <2>5. ~ (Bytes(hnp) < 2)
      <3> DEFINE b == Bytes(hnp)
                 l == n - start
      <3>1. b \in Nat /\ b >= l /\ l >= 3 /\ l \in Int
        BY <1>2, <1>9, <1>12, <2>4
      <3> HIDE DEF b, l
      <3>2. ~ (b < 2)
        BY <3>1, SMT
      <3> QED
        BY <3>2 DEF b
    <2> QED
      BY <2>2, <2>3, <2>5
  <1>21. SplitHostnamePort(hnp) = [host |-> host, port |-> port, bracketed |-> FALSE, ok |-> TRUE]
    <2>1. c # Absent
      BY <1>12, SMT DEF Absent
    <2> QED
      BY <1>16, <1>17, <1>19, <1>20, <2>1, Zenon DEF SplitHostnamePort
  <1>22. host # <<>>
    <2>1. Len(<<>>) = 0
      OBVIOUS
    <2>2. Len(host) = c /\ c # 0
      BY <1>7, <1>12, SMT DEF c
    <2> QED
      BY <2>1, <2>2
  <1>23. validateHostnamePort(hnp) = "ok"
    <2> DEFINE pair == [host |-> host, port |-> port, bracketed |-> FALSE, ok |-> TRUE]
    <2>1. pair.host = host /\ pair.port = port /\ pair.bracketed = FALSE /\ pair.ok = TRUE
      OBVIOUS
    <2>2. SplitHostnamePort(hnp) = pair
      BY <1>21
    <2> HIDE DEF pair
    <2> QED
      BY <1>10, <1>11, <1>20, <1>22, <2>1, <2>2, Zenon DEF validateHostnamePort
  <1> QED
    BY <1>23 DEF hnp

-----------------------------------------------------------------------------
(* What a short cut takes is valid.                                        *)

\* A host that is not joined lies in the input.
HostIsCut(input, p) ==
    (p.host # <<>> /\ p.hostAt # Absent) =>
        /\ p.hostAt \in Nat /\ p.hostAt + Len(p.host) <= Len(input)
        /\ p.host = Slice(input, p.hostAt, p.hostAt + Len(p.host))

\* An empty text has no bytes.
LEMMA NothingHasNoBytes == Bytes(<<>>) = 0
  <1>1. <<>> \in Text /\ \A i \in 1 .. Len(<<>>) : <<>>[i] \notin Words
    BY SMT DEF Text
  <1>2. Bytes(<<>>) = Len(<<>>)
    BY <1>1, PlainBytes
  <1> QED
    BY <1>2

\* A pair of credentials a short cut takes is one Validate takes.
LEMMA PairIsValid ==
    ASSUME NEW scheme, NEW username \in Text, NEW password \in Text,
           username # <<>> \/ password # <<>> =>
               /\ isCredentialPair(scheme, username, password)
               /\ scheme \in {<<"http">>, <<"https">>} => ~ Contains(username, ":")
               /\ isPrintableASCII(username) /\ isPrintableASCII(password)
    PROVE  IsValidCredentialsFor(scheme, username, password)
  <1>1. CASE username = <<>> /\ password = <<>>
    <2>1. Bytes(username) <= maxCredentialLength /\ Bytes(password) <= maxCredentialLength
      BY <1>1, NothingHasNoBytes DEF maxCredentialLength
    <2>2. isPrintableASCII(<<>>) /\ ~ Contains(<<>>, ":")
      BY SMT DEF isPrintableASCII, Contains
    <2> QED
      BY <1>1, <2>1, <2>2, Zenon DEF IsValidCredentialsFor, IsValidCredentials
  <1>2. CASE ~ (username = <<>> /\ password = <<>>)
    <2>1. /\ isCredentialPair(scheme, username, password)
          /\ scheme \in {<<"http">>, <<"https">>} => ~ Contains(username, ":")
          /\ isPrintableASCII(username) /\ isPrintableASCII(password)
      BY <1>2
    <2>2. /\ Bytes(username) <= maxCredentialLength /\ Bytes(password) <= maxCredentialLength
          /\ password # <<>> =>
               username # <<>> /\ scheme \notin {<<"socks4">>, <<"socks4a">>}
      BY <2>1, Zenon DEF isCredentialPair
    <2> QED
      BY <2>1, <2>2, Zenon DEF IsValidCredentialsFor, IsValidCredentials
  <1> QED
    BY <1>1, <1>2

\* The short cut accepts none but valid proxies: whatever isValidFast takes, with
\* the index or without it, Validate takes too.
LEMMA FastProxyIsValid ==
    ASSUME NEW input \in Text, NEW p \in Texts, HostIsCut(input, p), NEW indexed,
           indexed => Bytes(input) <= MaxLen,
           isValidFast(input, p, indexed)
    PROVE  Validate(p) = "ok"
  <1>0. /\ p.scheme \in Text /\ p.host \in Text /\ p.hostAt \in Int
        /\ p.username \in Text /\ p.password \in Text
    BY DEF Texts
  <1>1. /\ IsValidScheme(p.scheme)
        /\ p.username # <<>> \/ p.password # <<>> =>
             /\ isCredentialPair(p.scheme, p.username, p.password)
             /\ p.scheme \in {<<"http">>, <<"https">>} => ~ Contains(p.username, ":")
             /\ isPrintableASCII(p.username) /\ isPrintableASCII(p.password)
        /\ IF indexed /\ p.host # <<>> /\ p.hostAt # Absent
           THEN isHostPort(Slice(input, 0, p.hostAt + Len(p.host)), p.hostAt, TRUE)
           ELSE isHostPort(p.host, 0, FALSE)
    BY Zenon DEF isValidFast
  <1>2. IsValidCredentialsFor(p.scheme, p.username, p.password)
    BY <1>0, <1>1, PairIsValid
  <1>3. validateHostnamePort(p.host) = "ok"
    <2>1. CASE indexed /\ p.host # <<>> /\ p.hostAt # Absent
      <3> DEFINE at   == p.hostAt
                 end  == p.hostAt + Len(p.host)
                 upto == Slice(input, 0, end)
      <3>1. /\ at \in Nat /\ end <= Len(input) /\ p.host = Slice(input, at, end)
            /\ isHostPort(upto, at, TRUE)
        BY <1>1, <2>1 DEF HostIsCut
      <3>2. /\ end \in Nat /\ at <= end /\ 0 \in Nat /\ 0 <= end /\ end - 0 = end
            /\ 0 + at = at /\ 0 + end = end /\ end <= end
        <4>1. Len(p.host) \in Nat
          BY <1>0 DEF Text
        <4> HIDE DEF at
        <4> QED
          BY <3>1, <4>1, SMT DEF at
      <3>3. Len(input) \in Nat
        BY DEF Text
      <3> HIDE DEF at, end
      <3>4. upto \in Text /\ Len(upto) = end - 0
        BY <3>1, <3>2, SliceIsText
      <3>5. Len(upto) = end
        BY <3>2, <3>4
      <3>6. TRUE => Bytes(upto) <= MaxLen
        <4> DEFINE b == Bytes(upto)
                   B == Bytes(input)
                   l == Len(input)
        <4>1. B <= MaxLen
          BY <2>1
        <4>2. b \in Nat /\ B \in Nat /\ b + (l - (end - 0)) <= B
          BY <3>1, <3>2, BytesOfPart
        <4>3. l \in Nat /\ end <= l
          BY <3>1, <3>3
        <4> HIDE DEF b, B, l
        <4>4. b <= MaxLen
          BY <3>2, <4>1, <4>2, <4>3, SMT DEF MaxLen
        <4> QED
          BY <4>4 DEF b
      <3>7. validateHostnamePort(Rest(upto, at)) = "ok"
        <4> HIDE DEF upto
        <4> QED
          BY <3>1, <3>4, <3>6, HostPortIsValid
      <3>8. Rest(upto, at) = Slice(upto, at, end)
        <4> HIDE DEF upto
        <4> QED
          BY <3>4, <3>5, RestIsSlice
      <3>9. Slice(upto, at, end) = Slice(input, 0 + at, 0 + end)
        <4>1. end <= end - 0
          BY <3>2
        <4> QED
          BY <3>1, <3>2, <4>1, SliceOfSlice
      <3> QED
        BY <3>1, <3>2, <3>7, <3>8, <3>9
    <2>2. CASE ~ (indexed /\ p.host # <<>> /\ p.hostAt # Absent)
      <3>1. isHostPort(p.host, 0, FALSE)
        BY <1>1, <2>2
      <3>2. validateHostnamePort(Rest(p.host, 0)) = "ok"
        BY <1>0, <3>1, HostPortIsValid
      <3>3. Rest(p.host, 0) = p.host
        <4> DEFINE h == p.host
        <4> HIDE DEF h
        <4>1. h \in Text /\ Len(h) \in Nat /\ 0 \in Nat /\ 0 <= Len(h) /\ Len(h) <= Len(h)
              /\ Len(h) - 0 = Len(h) /\ \A i \in 1 .. Len(h) : 0 + i = i
          <5>1. h \in Text /\ Len(h) \in Nat
            BY <1>0 DEF h, Text
          <5> QED
            BY <5>1, SMT
        <4>2. Rest(h, 0) = Slice(h, 0, Len(h))
          BY <4>1, RestIsSlice
        <4>3. /\ Slice(h, 0, Len(h)) \in Text /\ Len(Slice(h, 0, Len(h))) = Len(h) - 0
              /\ \A i \in 1 .. Len(h) - 0 : Slice(h, 0, Len(h))[i] = h[0 + i]
          BY <4>1, SliceIsText
        <4>4. \A i \in 1 .. Len(h) : Slice(h, 0, Len(h))[i] = h[i]
          BY <4>1, <4>3
        <4>5. Slice(h, 0, Len(h)) = h
          BY <4>1, <4>3, <4>4, SameText
        <4> QED
          BY <4>2, <4>5 DEF h
      <3> QED
        BY <3>2, <3>3
    <2> QED
      BY <2>1, <2>2
  <1> QED
    BY <1>1, <1>2, <1>3, Zenon DEF Validate, FirstOf

-----------------------------------------------------------------------------
(* The short cut of the two strict formats.                                *)

\* Find is the first place of a text, if there is one.
LEMMA FindFinds ==
    ASSUME NEW s \in Text, NEW t \in Text, NEW from \in Nat
    PROVE  \/ Find(s, t, from) = Absent
           \/ /\ Find(s, t, from) \in from .. Len(s) - Len(t)
              /\ Find(s, t, from) \in Nat
              /\ Find(s, t, from) + Len(t) <= Len(s)
              /\ Slice(s, Find(s, t, from), Find(s, t, from) + Len(t)) = t
  <1> DEFINE found == { i \in from .. Len(s) - Len(t) : Slice(s, i, i + Len(t)) = t }
  <1>1. Find(s, t, from) = IF found = {} THEN Absent ELSE Min(found)
    BY DEF Find
  <1>2. Len(s) \in Nat /\ Len(t) \in Nat
    BY DEF Text
  <1>3. CASE found = {}
    BY <1>1, <1>3
  <1>4. CASE found # {}
    <2>1. found \in SUBSET Nat
      BY <1>2, SMT
    <2> DEFINE m == Min(found)
    <2>2. m \in found
      BY <1>4, <2>1, MinIsLeast
    <2>3. Find(s, t, from) = m
      BY <1>1, <1>4
    <2> HIDE DEF m
    <2>4. m \in from .. Len(s) - Len(t) /\ Slice(s, m, m + Len(t)) = t
      BY <2>2
    <2>5. m \in Nat /\ m + Len(t) <= Len(s)
      BY <1>2, <2>4, SMT
    <2> QED
      BY <2>3, <2>4, <2>5
  <1> QED
    BY <1>3, <1>4

\* What stands behind a scheme.
LEMMA SeparatorIsText == schemeSeparator \in Text /\ Len(schemeSeparator) = 3
  <1>1. ":" \in Symbols /\ "/" \in Symbols
    BY TextsAssumption
  <1>2. ASSUME NEW S, NEW a \in S, NEW b \in S, NEW c \in S
        PROVE  <<a, b, c>> \in Seq(S) /\ Len(<<a, b, c>>) = 3
    OBVIOUS
  <1>3. <<":", "/", "/">> \in Seq(Symbols) /\ Len(<<":", "/", "/">>) = 3
    BY <1>1, <1>2
  <1> QED
    BY <1>3 DEF schemeSeparator, Text

\* The lines whose scheme a short cut reads begin with it and "://".
BeginsWithScheme(input) ==
    /\ Len(input) >= 4 /\ IsValidScheme(Slice(input, 0, 1))
    /\ Slice(input, 1, 4) = <<":", "/", "/">>

\* A scheme at the front of the input is where the scalar parser finds it.
LEMMA SchemeIsFound ==
    ASSUME NEW input \in Text, BeginsWithScheme(input)
    PROVE  /\ Find(input, schemeSeparator, 0) = 1
           /\ schemeOf(Slice(input, 0, 1)) = Slice(input, 0, 1)
  <1> DEFINE found == { i \in 0 .. Len(input) - 3 : Slice(input, i, i + 3) = schemeSeparator }
             scheme == Slice(input, 0, 1)
             n == Len(input)
  <1>1. n \in Nat /\ n >= 4
    BY DEF Text, BeginsWithScheme
  <1>2. Find(input, schemeSeparator, 0) = IF found = {} THEN Absent ELSE Min(found)
    BY SeparatorIsText DEF Find
  <1>3. scheme \in Text /\ Len(scheme) = 1 /\ scheme[1] = input[1]
    <2> HIDE DEF n
    <2>1. 0 \in Nat /\ 1 \in Nat /\ 0 <= 1 /\ 1 <= n /\ 1 - 0 = 1 /\ 1 \in 1 .. 1 /\ 0 + 1 = 1
      BY <1>1, SMT
    <2>2. scheme \in Text /\ Len(scheme) = 1 - 0 /\ \A i \in 1 .. 1 - 0 : scheme[i] = input[0 + i]
      BY <2>1, SliceIsText DEF n
    <2> HIDE DEF scheme
    <2> QED
      BY <2>1, <2>2
  <1>4. scheme[1] \in Schemes
    BY DEF BeginsWithScheme, IsValidScheme
  <1>5. 1 \in found
    <2>1. 1 \in 0 .. n - 3 /\ 1 + 3 = 4
      <3> HIDE DEF n
      <3> QED
        BY <1>1, SMT
    <2> QED
      BY <2>1 DEF BeginsWithScheme, schemeSeparator
  <1>6. 0 \notin found
    <2>0. 0 + 3 = 3
      OBVIOUS
    <2> SUFFICES ASSUME Slice(input, 0, 3) = schemeSeparator
                 PROVE  FALSE
      BY <2>0
    <2> DEFINE front == Slice(input, 0, 3)
    <2>1. front[1] = input[1]
      <3> HIDE DEF n
      <3>1. 0 \in Nat /\ 3 \in Nat /\ 0 <= 3 /\ 3 <= n /\ 1 \in 1 .. 3 - 0 /\ 0 + 1 = 1
        BY <1>1, SMT
      <3>2. \A i \in 1 .. 3 - 0 : front[i] = input[0 + i]
        BY <3>1, SliceIsText DEF n
      <3> HIDE DEF front
      <3> QED
        BY <3>1, <3>2
    <2>2. front[1] = ":"
      BY DEF schemeSeparator
    <2> QED
      BY <1>3, <1>4, <2>1, <2>2 DEF Schemes
  <1>7. Min(found) = 1
    <2>1. found \in SUBSET Nat
      OBVIOUS
    <2> DEFINE m == Min(found)
    <2>2. m \in found /\ m \in Nat /\ m <= 1
      BY <1>5, <2>1, MinIsLeast
    <2> HIDE DEF m, found
    <2>3. m # 0
      BY <1>6, <2>2
    <2>4. m = 1
      BY <2>2, <2>3, SMT
    <2> QED
      BY <2>4 DEF m
  <1>8. schemeOf(scheme) = scheme
    <2>1. IsValidScheme(scheme)
      BY DEF BeginsWithScheme
    <2> HIDE DEF scheme
    <2> QED
      BY <2>1, Zenon DEF schemeOf, ParseScheme
  <1> QED
    BY <1>2, <1>5, <1>7, <1>8

\* Min of two numbers.
LEMMA MinOfTwo ==
    ASSUME NEW a \in Int, NEW b \in Int
    PROVE  Min({a, b}) \in {a, b} /\ Min({a, b}) <= a /\ Min({a, b}) <= b
  <1>1. \E x \in {a, b} : \A y \in {a, b} : x <= y
    <2>1. CASE a <= b
      BY <2>1, SMT
    <2>2. CASE ~ (a <= b)
      BY <2>2, SMT
    <2> QED
      BY <2>1, <2>2
  <1>2. Min({a, b}) \in {a, b} /\ \A y \in {a, b} : Min({a, b}) <= y
    BY <1>1, Zenon DEF Min
  <1> QED
    BY <1>2

\* The words loaded on the way to a byte cover every byte before it.
LEMMA ScanCovers ==
    ASSUME NEW n \in Nat, NEW from \in Nat, NEW found \in Nat, from <= found, found < n,
           NEW i \in from .. found - 1
    PROVE  i \in Scanned(n, from, found)
  <1> DEFINE At(j) == Max({0, Min({j, n - 8})})
             q == (found - from) \div 8
             last == from + 8 * q
  <1>1. \A j \in Nat : /\ At(j) \in Nat /\ At(j) <= j
                       /\ At(j) + 7 >= j + 7 \/ At(j) + 7 >= n - 1
    <2> TAKE j \in Nat
    <2> DEFINE m == Min({j, n - 8})
    <2>1. j \in Int /\ n - 8 \in Int
      BY SMT
    <2>2. m \in {j, n - 8} /\ m <= j
      BY <2>1, MinOfTwo
    <2> HIDE DEF m
    <2>3. m \in Int /\ 0 \in Int
      BY <2>1, <2>2
    <2> DEFINE x == Max({0, m})
    <2>4. x \in {0, m} /\ x >= 0 /\ x >= m
      BY <2>3, MaxOfTwo
    <2> HIDE DEF x
    <2>5. x \in Nat /\ x <= j /\ (x + 7 >= j + 7 \/ x + 7 >= n - 1)
      BY <2>1, <2>2, <2>3, <2>4, SMT
    <2> QED
      BY <2>5 DEF x, m
  <1>2. q \in Nat /\ 8 * q <= found - from /\ found - from < 8 * q + 8
    <2> DEFINE d == found - from
    <2>1. d \in Nat
      BY SMT
    <2> HIDE DEF d
    <2>2. d \div 8 \in Nat /\ 8 * (d \div 8) <= d /\ d < 8 * (d \div 8) + 8
      BY <2>1, SMT
    <2> QED
      BY <2>2 DEF d
  <1> HIDE DEF q
  <1>3. last \in Nat /\ last + 7 >= found
    BY <1>2, SMT
  <1> HIDE DEF last
  <1>4. /\ At(from) <= from /\ At(from) \in Nat /\ At(last) \in Nat
        /\ At(last) + 7 >= last + 7 \/ At(last) + 7 >= n - 1
    BY <1>1, <1>3
  <1>5. Scanned(n, from, found) = At(from) .. At(last) + 7
    BY DEF Scanned, last, q
  <1> HIDE DEF At
  <1> DEFINE a == At(from)
             b == At(last)
  <1>6. a <= from /\ a \in Nat /\ b \in Nat /\ (b + 7 >= last + 7 \/ b + 7 >= n - 1)
    BY <1>4
  <1>7. Scanned(n, from, found) = a .. b + 7
    BY <1>5
  <1> HIDE DEF a, b
  <1> QED
    BY <1>3, <1>6, <1>7, SMT

\* The short cut shows both credentials to be printable.
LEMMA CredentialsArePrintable ==
    ASSUME NEW input \in Text, NEW start \in Nat, NEW u \in Nat, NEW p \in Nat, NEW indexed,
           start <= u, u < p, p < Len(input),
           IF indexed THEN Bitmap(input, Unprintable) \cap start .. p - 1 = {}
                      ELSE scanCredentials(input, start, u, p)
    PROVE  isPrintableASCII(Slice(input, start, u)) /\ isPrintableASCII(Slice(input, u + 1, p))
  <1> DEFINE n == Len(input)
  <1>1. n \in Nat
    BY DEF Text
  <1>2. \A i \in (start .. u - 1) \cup (u + 1 .. p - 1) : input[i + 1] \notin Unprintable
    <2> TAKE i \in (start .. u - 1) \cup (u + 1 .. p - 1)
    <2>0. i \in start .. p - 1 /\ i \in 0 .. n - 1 /\ i < n
      <3> HIDE DEF n
      <3> QED
        BY <1>1, SMT DEF n
    <2>1. CASE indexed
      <3>1. i \notin Bitmap(input, Unprintable)
        BY <2>0, <2>1
      <3> QED
        BY <2>0, <3>1 DEF Bitmap
    <2>2. CASE ~ indexed
      <3>1. scanCredentials(input, start, u, p)
        BY <2>2
      <3>2. i \in Scanned(n, start, u) \cup Scanned(n, u + 1, p)
        <4>1. CASE i \in start .. u - 1
          <5>1. u < n
            <6> HIDE DEF n
            <6> QED
              BY <1>1, SMT DEF n
          <5> QED
            BY <1>1, <4>1, <5>1, ScanCovers
        <4>2. CASE i \in u + 1 .. p - 1
          <5>1. u + 1 \in Nat /\ u + 1 <= p
            BY SMT
          <5> QED
            BY <1>1, <4>2, <5>1, ScanCovers
        <4> QED
          BY <4>1, <4>2
      <3> QED
        BY <2>0, <3>1, <3>2, Zenon DEF scanCredentials
    <2> QED
      BY <2>1, <2>2
  <1>3. ASSUME NEW from \in Nat, NEW to \in Nat, from <= to, to <= n,
               \A i \in from .. to - 1 : input[i + 1] \notin Unprintable
        PROVE  isPrintableASCII(Slice(input, from, to))
    <2> DEFINE part == Slice(input, from, to)
    <2>1. Len(part) = to - from /\ \A i \in 1 .. to - from : part[i] = input[from + i]
      BY <1>3, SliceIsText
    <2> HIDE DEF part
    <2>2. \A i \in 1 .. to - from :
              (from + i) - 1 \in from .. to - 1 /\ ((from + i) - 1) + 1 = from + i
      BY SMT
    <2>3. \A i \in 1 .. to - from : input[from + i] \notin Unprintable
      BY <1>3, <2>2
    <2>4. isPrintableASCII(part)
      BY <2>1, <2>3 DEF isPrintableASCII
    <2> QED
      BY <2>4 DEF part
  <1>4. u <= n /\ p <= n /\ u + 1 \in Nat /\ u + 1 <= p
    <2> HIDE DEF n
    <2> QED
      BY <1>1, SMT DEF n
  <1>5. isPrintableASCII(Slice(input, start, u))
    BY <1>2, <1>3, <1>4
  <1>6. isPrintableASCII(Slice(input, u + 1, p))
    BY <1>2, <1>3, <1>4
  <1> QED
    BY <1>5, <1>6

\* What the short cut of the strict formats takes, or refuses, is taken or
\* refused in the same way without it.
LEMMA StrictFastAgrees ==
    ASSUME NEW input \in Text, NEW credentials \in BOOLEAN, NEW tier,
           parseStrictFast(input, credentials, tier).handled
    PROVE  Result(parseStrictFast(input, credentials, tier).proxy,
                  parseStrictFast(input, credentials, tier).err)
             = IF credentials THEN parseStrictFullCredentials(input)
               ELSE parseStrictSchemeHostPort(input)
  <1> DEFINE n == Len(input)
             fast == parseStrictFast(input, credentials, tier)
             scheme == Slice(input, 0, 1)
             indexed == Build(input, tier)
             usernameEnd == IndexByte(input, ":", 4)
             passwordEnd == IF usernameEnd = Absent THEN Absent
                            ELSE IndexByte(input, "@", usernameEnd + 1)
             username == Slice(input, 4, usernameEnd)
             password == Slice(input, usernameEnd + 1, passwordEnd)
             printable == IF indexed
                          THEN Bitmap(input, Unprintable) \cap 4 .. passwordEnd - 1 = {}
                          ELSE scanCredentials(input, 4, usernameEnd, passwordEnd)
             Cut(host, u, p) == [scheme |-> scheme, host |-> Rest(input, host), hostAt |-> host,
                                 username |-> u, password |-> p]
             Taken(host, u, p) == [handled |-> TRUE, err |-> NoError, proxy |-> Cut(host, u, p)]
             Refused(delim) == [handled |-> TRUE, err |-> Failure("ErrSubseqDelimNotFound", delim),
                                proxy |-> ZeroProxy]
             begins == Bytes(input) >= 10 /\ Len(input) >= 4
                       /\ IsValidScheme(scheme) /\ Slice(input, 1, 4) = <<":", "/", "/">>
  <1>1. fast = IF ~ begins THEN Declined
               ELSE IF ~ credentials
               THEN IF isHostPort(input, 4, FALSE) THEN Taken(4, <<>>, <<>>) ELSE Declined
               ELSE IF passwordEnd = Absent
               THEN Refused(IF usernameEnd = Absent THEN <<":">> ELSE <<"@">>)
               ELSE IF /\ printable /\ isCredentialPair(scheme, username, password)
                       /\ isHostPort(input, passwordEnd + 1, indexed)
               THEN Taken(passwordEnd + 1, username, password)
               ELSE Declined
    BY Zenon DEF parseStrictFast
  <1>2. ~ Declined.handled
    BY DEF Declined
  <1>3. begins
    <2> HIDE DEF begins
    <2> QED
      BY <1>1, <1>2
  <1>4. Find(input, schemeSeparator, 0) = 1 /\ schemeOf(scheme) = scheme
    BY <1>3, SchemeIsFound DEF BeginsWithScheme
  <1>5. n \in Nat /\ 4 <= n
    BY <1>3 DEF Text
  <1>6. scheme \in Text
    <2>1. 0 \in Nat /\ 1 \in Nat /\ 0 <= 1 /\ 1 <= n
      <3> HIDE DEF n
      <3> QED
        BY <1>5, SMT
    <2> QED
      BY <2>1, SliceIsText
  <1>7. <<>> \in Text
    BY DEF Text
  <1>8. CASE ~ credentials
    <2> DEFINE made == Cut(4, <<>>, <<>>)
    <2>1. isHostPort(input, 4, FALSE) /\ fast = Taken(4, <<>>, <<>>)
      <3> HIDE DEF begins, Taken
      <3> QED
        BY <1>1, <1>2, <1>3, <1>8
    <2>2. fast.proxy = made /\ fast.err = NoError
      <3> HIDE DEF Cut, made
      <3>1. made = Cut(4, <<>>, <<>>)
        BY DEF made
      <3> HIDE DEF fast
      <3> QED
        BY <2>1, <3>1
    <2>3. Validate(made) = "ok"
      <3>1. validateHostnamePort(made.host) = "ok"
        BY <2>1, HostPortIsValid
      <3>2. IsValidCredentialsFor(scheme, <<>>, <<>>)
        BY <1>6, <1>7, PairIsValid
      <3>3. /\ made.scheme = scheme /\ made.username = <<>> /\ made.password = <<>>
            /\ IsValidScheme(scheme)
        BY <1>3
      <3> HIDE DEF made, scheme
      <3> QED
        BY <3>1, <3>2, <3>3, Zenon DEF Validate, FirstOf
    <2>4. Validated(made) = Result(made, NoError)
      <3> HIDE DEF made
      <3> QED
        BY <2>3, Zenon DEF Validated
    <2>5. 1 # Absent /\ 1 + 3 = 4
      BY DEF Absent
    <2>6. made = [ZeroProxy EXCEPT !.scheme = schemeOf(Slice(input, 0, 1)),
                                   !.host = Rest(input, 4), !.hostAt = 4]
      <3>1. [ZeroProxy EXCEPT !.scheme = schemeOf(scheme)]
              = [scheme |-> scheme, host |-> <<>>, hostAt |-> Absent,
                 username |-> <<>>, password |-> <<>>]
        <4> HIDE DEF scheme
        <4> QED
          BY <1>4, SMT DEF ZeroProxy
      <3>2. ASSUME NEW s, NEW h, NEW a
            PROVE  [[scheme |-> s, host |-> <<>>, hostAt |-> a,
                     username |-> <<>>, password |-> <<>>] EXCEPT !.host = h]
                     = [scheme |-> s, host |-> h, hostAt |-> a,
                        username |-> <<>>, password |-> <<>>]
        BY SMT
      <3>3. ASSUME NEW s, NEW h, NEW a, NEW b
            PROVE  [[scheme |-> s, host |-> h, hostAt |-> a,
                     username |-> <<>>, password |-> <<>>] EXCEPT !.hostAt = b]
                     = [scheme |-> s, host |-> h, hostAt |-> b,
                        username |-> <<>>, password |-> <<>>]
        BY SMT
      <3> DEFINE host == Rest(input, 4)
                 one == [scheme |-> scheme, host |-> <<>>, hostAt |-> Absent,
                         username |-> <<>>, password |-> <<>>]
                 two == [scheme |-> scheme, host |-> host, hostAt |-> Absent,
                         username |-> <<>>, password |-> <<>>]
      <3> HIDE DEF host
      <3>4. [one EXCEPT !.host = host] = two
        BY <3>2
      <3>5. [two EXCEPT !.hostAt = 4] = made
        BY <3>3 DEF host
      <3> HIDE DEF one, two, made
      <3>6. made = [[[ZeroProxy EXCEPT !.scheme = schemeOf(scheme)] EXCEPT !.host = host]
                      EXCEPT !.hostAt = 4]
        BY <3>1, <3>4, <3>5, Zenon DEF one
      <3> QED
        BY <3>6 DEF host
    <2>7. parseStrictSchemeHostPort(input) = Validated(made)
      <3> DEFINE at == Find(input, schemeSeparator, 0)
      <3>1. at # Absent /\ at = 1 /\ at + 3 = 4
        BY <1>4, <2>5
      <3>2. parseStrictSchemeHostPort(input)
              = IF at = Absent
                THEN Result(ZeroProxy, Failure("ErrSubseqDelimNotFound", schemeSeparator))
                ELSE Validated([ZeroProxy EXCEPT
                                  !.scheme = schemeOf(Slice(input, 0, at)),
                                  !.host = Rest(input, at + 3), !.hostAt = at + 3])
        BY Zenon DEF parseStrictSchemeHostPort
      <3> HIDE DEF made, at
      <3> QED
        BY <2>6, <3>1, <3>2
    <2> QED
      BY <1>8, <2>2, <2>4, <2>7, Zenon DEF fast
  <1>9. CASE credentials
    <2>1. parseStrictFullCredentials(input)
            = LET pe == IndexByte(input, "@", usernameEnd + 1)
                  NotFound(delim) == Result(ZeroProxy, Failure("ErrSubseqDelimNotFound", delim))
              IN  IF usernameEnd = Absent THEN NotFound(<<":">>)
                  ELSE IF pe = Absent THEN NotFound(<<"@">>)
                  ELSE Validated([scheme |-> scheme,
                                  host |-> Rest(input, pe + 1), hostAt |-> pe + 1,
                                  username |-> username,
                                  password |-> Slice(input, usernameEnd + 1, pe)])
      <3>1. 1 # Absent /\ 1 + 3 = 4
        BY DEF Absent
      <3> HIDE DEF scheme
      <3> QED
        BY <1>4, <3>1 DEF parseStrictFullCredentials, scheme
    <2>2. CASE passwordEnd = Absent
      <3>1. fast = Refused(IF usernameEnd = Absent THEN <<":">> ELSE <<"@">>)
        <4> HIDE DEF begins, Taken, Refused, passwordEnd, printable
        <4> QED
          BY <1>1, <1>2, <1>3, <1>9, <2>2
      <3>2. Result(fast.proxy, fast.err)
              = Result(ZeroProxy, Failure("ErrSubseqDelimNotFound",
                                          IF usernameEnd = Absent THEN <<":">> ELSE <<"@">>))
        <4> HIDE DEF fast, usernameEnd
        <4> QED
          BY <3>1
      <3>3. CASE usernameEnd = Absent
        <4> HIDE DEF usernameEnd, username, fast, scheme
        <4> QED
          BY <1>9, <2>1, <3>2, <3>3 DEF fast
      <3>4. CASE usernameEnd # Absent
        <4>1. IndexByte(input, "@", usernameEnd + 1) = Absent
          BY <2>2, <3>4
        <4> HIDE DEF usernameEnd, username, fast, scheme
        <4> QED
          BY <1>9, <2>1, <3>2, <3>4, <4>1 DEF fast
      <3> QED
        BY <3>3, <3>4
    <2>3. CASE passwordEnd # Absent
      <3> DEFINE made == Cut(passwordEnd + 1, username, password)
      <3>1. /\ printable /\ isCredentialPair(scheme, username, password)
            /\ isHostPort(input, passwordEnd + 1, indexed)
            /\ fast = Taken(passwordEnd + 1, username, password)
        <4> HIDE DEF begins, Taken, Refused, passwordEnd, printable, username, password, indexed
        <4> QED
          BY <1>1, <1>2, <1>3, <1>9, <2>3
      <3>2. fast.proxy = made /\ fast.err = NoError
        <4> HIDE DEF Cut, made
        <4>1. made = Cut(passwordEnd + 1, username, password)
          BY DEF made
        <4> HIDE DEF fast, passwordEnd, username, password
        <4> QED
          BY <3>1, <4>1
      <3>3. usernameEnd # Absent /\ passwordEnd = IndexByte(input, "@", usernameEnd + 1)
        BY <2>3
      <3>4. /\ usernameEnd \in Nat /\ 4 <= usernameEnd /\ usernameEnd < n
            /\ \A k \in 5 .. usernameEnd : input[k] # ":"
        <4>1. 4 \in Nat /\ 4 + 1 = 5
          OBVIOUS
        <4>2. usernameEnd \in 4 .. n - 1 /\ \A k \in 4 + 1 .. usernameEnd : input[k] # ":"
          <5> HIDE DEF passwordEnd
          <5> QED
            BY <3>3, <4>1, IndexByteFinds
        <4> HIDE DEF usernameEnd, passwordEnd
        <4>3. usernameEnd \in Nat /\ 4 <= usernameEnd /\ usernameEnd < n
          BY <1>5, <4>2, SMT
        <4> QED
          BY <4>1, <4>2, <4>3
      <3> HIDE DEF usernameEnd
      <3>5. passwordEnd \in Nat /\ usernameEnd < passwordEnd /\ passwordEnd < n
        <4>1. usernameEnd + 1 \in Nat
          BY <3>4
        <4>2. passwordEnd \in usernameEnd + 1 .. n - 1
          BY <2>3, <3>3, <4>1, IndexByteFinds
        <4> HIDE DEF passwordEnd, n
        <4> QED
          BY <1>5, <3>4, <4>2, SMT
      <3> HIDE DEF passwordEnd
      <3>6. isPrintableASCII(username) /\ isPrintableASCII(password)
        <4>1. 4 \in Nat
          OBVIOUS
        <4> QED
          BY <3>1, <3>4, <3>5, <4>1, CredentialsArePrintable
      <3>7. username \in Text /\ password \in Text /\ ~ Contains(username, ":")
        <4>1. /\ 4 \in Nat /\ usernameEnd <= n /\ usernameEnd + 1 \in Nat
              /\ usernameEnd + 1 <= passwordEnd /\ passwordEnd <= n
              /\ \A i \in 1 .. usernameEnd - 4 : 4 + i \in 5 .. usernameEnd
          <5> HIDE DEF n
          <5> QED
            BY <1>5, <3>4, <3>5, SMT
        <4>2. /\ username \in Text /\ Len(username) = usernameEnd - 4
              /\ \A i \in 1 .. usernameEnd - 4 : username[i] = input[4 + i]
          BY <3>4, <4>1, SliceIsText
        <4>3. password \in Text
          BY <3>5, <4>1, SliceIsText
        <4> HIDE DEF username
        <4>4. \A i \in 1 .. usernameEnd - 4 : username[i] # ":"
          BY <3>4, <4>1, <4>2
        <4> QED
          BY <4>2, <4>3, <4>4 DEF Contains
      <3>8. Validate(made) = "ok"
        <4>1. validateHostnamePort(made.host) = "ok"
          <5>1. passwordEnd + 1 \in Nat
            BY <3>5
          <5>2. indexed => Bytes(input) <= MaxLen
            <6> DEFINE b == Bytes(input)
            <6> HIDE DEF b
            <6>1. indexed => b \in 1 .. MaxLen
              BY DEF Build, b
            <6> QED
              BY <6>1, SMT DEF MaxLen, b
          <5> HIDE DEF indexed
          <5> QED
            BY <3>1, <5>1, <5>2, HostPortIsValid
        <4>2. IsValidCredentialsFor(scheme, username, password)
          <5> HIDE DEF scheme, username, password
          <5> QED
            BY <3>1, <3>6, <3>7, PairIsValid
        <4>3. /\ made.scheme = scheme /\ made.username = username /\ made.password = password
              /\ IsValidScheme(scheme)
          BY <1>3
        <4> HIDE DEF made, scheme, username, password
        <4> QED
          BY <4>1, <4>2, <4>3, Zenon DEF Validate, FirstOf
      <3>9. Validated(made) = Result(made, NoError)
        <4> HIDE DEF made
        <4> QED
          BY <3>8, Zenon DEF Validated
      <3>10. parseStrictFullCredentials(input) = Validated(made)
        BY <2>1, <2>3, <3>3, Zenon
      <3> QED
        BY <1>9, <3>2, <3>9, <3>10, Zenon DEF fast
    <2> QED
      BY <2>2, <2>3
  <1> QED
    BY <1>8, <1>9

-----------------------------------------------------------------------------
(* Plans.                                                                  *)

\* Two loops that start alike and go on alike from any value of D are one.
LoopsAlike(D, n, step, f, g) ==
    /\ f \in [0 .. n -> D] /\ g[0] = f[0]
    /\ \A i \in 1 .. n : f[i] = step[i][f[i - 1]]
    /\ \A i \in 1 .. n : g[i - 1] \in D => g[i] = step[i][g[i - 1]]

SameUpTo(n, f, g) == \A i \in 0 .. n : g[i] = f[i]

\* Loops with the same start and the same rounds reach the same.
LEMMA LoopIsUnique ==
    ASSUME NEW D, NEW n \in Nat, NEW step, NEW f, NEW g, LoopsAlike(D, n, step, f, g)
    PROVE  SameUpTo(n, f, g)
  <1> USE DEF LoopsAlike, SameUpTo
  <1> DEFINE different == { i \in 0 .. n : g[i] # f[i] }
  <1> SUFFICES ASSUME different # {}
               PROVE  FALSE
    OBVIOUS
  <1>1. different \in SUBSET Nat
    OBVIOUS
  <1>2. PICK i \in different : \A x \in different : i <= x
    BY <1>1, LeastNumber
  <1>3. i \in 0 .. n /\ i \in Nat /\ g[i] # f[i]
    BY <1>2
  <1>4. i # 0
    BY <1>3
  <1>5. i - 1 \in 0 .. n /\ ~ (i <= i - 1) /\ i \in 1 .. n
    BY <1>3, <1>4, SMT
  <1>6. g[i - 1] = f[i - 1]
    BY <1>2, <1>5
  <1>7. f[i - 1] \in D
    BY <1>5
  <1> QED
    BY <1>3, <1>5, <1>6, <1>7

\* A part of a sequence is a sequence, be it empty.
LEMMA SubTextIsText ==
    ASSUME NEW S, NEW s \in Seq(S), NEW m \in Nat, m >= 1, NEW n \in Int, n <= Len(s)
    PROVE  SubSeq(s, m, n) \in Seq(S)
  <1>1. Len(s) \in Nat /\ \A i \in 1 .. Len(s) : s[i] \in S
    OBVIOUS
  <1> DEFINE l == Len(s)
  <1> HIDE DEF l
  <1>2. \A i \in m .. n : i \in 1 .. l
    <2>1. n <= l /\ l \in Nat
      BY <1>1 DEF l
    <2> QED
      BY <2>1, SMT
  <1>3. \A i \in m .. n : s[i] \in S
    BY <1>1, <1>2 DEF l
  <1>4. m \in Int
    OBVIOUS
  <1> QED
    BY <1>3, <1>4, SubSeqProperties

Operated == [field : {"none"} \cup Verbs, delim : Text, consume : BOOLEAN, credentialEnd : Nat]

\* An operation that expects a delimiter.
LEMMA DelimiterIsOperation ==
    ASSUME NEW text \in Text
    PROVE  Delimiter(text) \in Operated
  BY SMT DEF Delimiter, Operated

\* An operation that captures a field.
LEMMA CaptureIsOperation ==
    ASSUME NEW verb \in Verbs
    PROVE  Capture(verb) \in Operated
  <1>1. <<>> \in Text
    BY DEF Text
  <1> QED
    BY <1>1, SMT DEF Capture, Operated

\* What is read at a place of the format is an operation.
LEMMA OperationIsTyped ==
    ASSUME NEW format \in Text, NEW i \in 1 .. Len(format)
    PROVE  Operation(format, i).op \in Operated /\ Operation(format, i).next \in Nat \ {0}
  <1> DEFINE n == Len(format)
             percents == { k \in i .. n : format[k] = "%" }
             percent == IF percents # {} THEN Min(percents) ELSE 0
             end == IF percent = 0 THEN n + 1 ELSE percent
  <1>1. n \in Nat
    BY DEF Text
  <1>2. Operation(format, i)
          = IF format[i] # "%" THEN [op |-> Delimiter(SubSeq(format, i, end - 1)), next |-> end]
            ELSE IF i = n THEN [op |-> Wrong, next |-> n + 1]
            ELSE IF format[i + 1] = "%" THEN [op |-> Delimiter(<<"%">>), next |-> i + 2]
            ELSE IF format[i + 1] \in Verbs THEN [op |-> Capture(format[i + 1]), next |-> i + 2]
            ELSE [op |-> Wrong, next |-> n + 1]
    BY DEF Operation, SelectInSubSeq
  <1>3. end \in 1 .. n + 1
    <2>1. CASE percents = {}
      <3>1. end = n + 1
        BY <2>1
      <3> HIDE DEF end, n
      <3> QED
        BY <1>1, <3>1, SMT
    <2>2. CASE percents # {}
      <3>1. percents \in SUBSET Nat
        <4> HIDE DEF n
        <4> QED
          BY <1>1, SMT
      <3>2. Min(percents) \in percents
        BY <2>2, <3>1, MinIsLeast
      <3> DEFINE m == Min(percents)
      <3>3. m \in i .. n
        BY <3>2
      <3>4. percent = m
        BY <2>2
      <3> HIDE DEF m, n, percent
      <3>5. m # 0 /\ m \in 1 .. n + 1
        BY <1>1, <3>3, SMT
      <3> QED
        BY <3>4, <3>5
    <2> QED
      BY <2>1, <2>2
  <1> HIDE DEF end
  <1>4. Delimiter(SubSeq(format, i, end - 1)) \in Operated
    <2>1. i \in Nat /\ i >= 1 /\ end - 1 \in Int /\ end - 1 <= n
      <3> HIDE DEF n
      <3> QED
        BY <1>1, <1>3, SMT
    <2>2. SubSeq(format, i, end - 1) \in Text
      BY <2>1, SubTextIsText DEF Text
    <2> QED
      BY <2>2, DelimiterIsOperation
  <1>5. Wrong \in Operated
    <2>1. <<>> \in Text
      BY DEF Text
    <2> QED
      BY <2>1, DelimiterIsOperation DEF Wrong
  <1>6. Delimiter(<<"%">>) \in Operated
    <2>1. "%" \in Symbols
      BY TextsAssumption
    <2>2. ASSUME NEW S, NEW a \in S
          PROVE  <<a>> \in Seq(S)
      OBVIOUS
    <2>3. <<"%">> \in Text
      BY <2>1, <2>2 DEF Text
    <2> QED
      BY <2>3, DelimiterIsOperation
  <1>7. /\ end \in Nat \ {0} /\ n + 1 \in Nat \ {0} /\ i + 2 \in Nat \ {0}
    <2> HIDE DEF n
    <2> QED
      BY <1>1, <1>3, SMT
  <1> HIDE DEF n
  <1>8. \A op \in Operated, next \in Nat \ {0} :
            [op |-> op, next |-> next].op \in Operated
            /\ [op |-> op, next |-> next].next \in Nat \ {0}
    OBVIOUS
  <1>9. CASE format[i] # "%"
    BY <1>2, <1>4, <1>7, <1>8, <1>9
  <1>10. CASE format[i] = "%" /\ i = n
    BY <1>2, <1>5, <1>7, <1>8, <1>10
  <1>11. CASE format[i] = "%" /\ i # n /\ format[i + 1] = "%"
    BY <1>2, <1>6, <1>7, <1>8, <1>11
  <1>12. CASE format[i] = "%" /\ i # n /\ format[i + 1] # "%" /\ format[i + 1] \in Verbs
    <2>1. Capture(format[i + 1]) \in Operated
      BY <1>12, CaptureIsOperation
    <2> QED
      BY <1>2, <1>7, <1>8, <1>12, <2>1
  <1>13. CASE format[i] = "%" /\ i # n /\ format[i + 1] # "%" /\ format[i + 1] \notin Verbs
    BY <1>2, <1>5, <1>7, <1>8, <1>13
  <1> QED
    BY <1>9, <1>10, <1>11, <1>12, <1>13

\* What the loop that reads a format has at hand.
PlanState == [plan : Seq(Operated), next : Nat \ {0}]

\* What is read of a whole format is a sequence of them.
LEMMA PlansAreTyped ==
    ASSUME NEW format \in Text
    PROVE  Operations(format) \in Seq(Operated)
  <1> DEFINE n == Len(format)
             Read(st) == IF st.next > n THEN st
                         ELSE [plan |-> Append(st.plan, Operation(format, st.next).op),
                               next |-> Operation(format, st.next).next]
             base == [plan |-> <<>>, next |-> 1]
             Rounds(g) == g = [k \in 0 .. n |-> IF k = 0 THEN base ELSE Read(g[k - 1])]
             step == [k \in 1 .. n |-> [st \in PlanState |-> Read(st)]]
             after == CHOOSE g : Rounds(g)
  <1>1. n \in Nat
    BY DEF Text
  <1>2. Operations(format) = after[n].plan
    BY Zenon DEF Operations
  <1>3. base \in PlanState
    <2>1. <<>> \in Seq(Operated) /\ 1 \in Nat \ {0}
      OBVIOUS
    <2> QED
      BY <2>1 DEF PlanState
  <1>4. ASSUME NEW st \in PlanState
        PROVE  Read(st) \in PlanState
    <2>1. st.plan \in Seq(Operated) /\ st.next \in Nat \ {0}
      BY DEF PlanState
    <2>2. CASE st.next > n
      BY <2>2
    <2>3. CASE ~ (st.next > n)
      <3> DEFINE at == st.next
      <3>1. at \in 1 .. n
        <4>1. at \in Nat \ {0} /\ ~ (at > n)
          BY <2>1, <2>3
        <4> HIDE DEF at, n
        <4> QED
          BY <1>1, <4>1, SMT
      <3>2. Operation(format, at).op \in Operated /\ Operation(format, at).next \in Nat \ {0}
        BY <3>1, OperationIsTyped
      <3> DEFINE op == Operation(format, at).op
                 next == Operation(format, at).next
      <3>3. Append(st.plan, op) \in Seq(Operated)
        <4> HIDE DEF op
        <4>1. op \in Operated
          BY <3>2 DEF op
        <4> QED
          BY <2>1, <4>1
      <3>4. Read(st) = [plan |-> Append(st.plan, op), next |-> next]
        BY <2>3
      <3>5. next \in Nat \ {0}
        BY <3>2
      <3> HIDE DEF op, next, Read
      <3> QED
        BY <3>3, <3>4, <3>5 DEF PlanState
    <2> QED
      BY <2>2, <2>3
  <1> HIDE DEF base, n
  <1>5. step \in [1 .. n -> [PlanState -> PlanState]]
    <2> HIDE DEF Read
    <2> QED
      BY <1>4
  <1>6. PICK f \in [0 .. n -> PlanState] :
            f[0] = base /\ \A i \in 1 .. n : f[i] = step[i][f[i - 1]]
    <2> HIDE DEF step
    <2>1. LoopRuns(PlanState, n, base, step)
      BY <1>1, <1>3, <1>5, LoopExists
    <2> QED
      BY <2>1, Zenon DEF LoopRuns
  <1> HIDE DEF Read
  <1>7. \A i \in 1 .. n : i \in 0 .. n /\ i # 0 /\ i - 1 \in 0 .. n
    BY <1>1, SMT
  <1>8. \A i \in 1 .. n : f[i] = Read(f[i - 1])
    BY <1>6, <1>7
  <1>9. Rounds(f)
    <2>1. \A k \in 0 .. n : k # 0 => k \in 1 .. n
      BY <1>1, SMT
    <2>2. \A k \in 0 .. n : f[k] = IF k = 0 THEN base ELSE Read(f[k - 1])
      BY <1>6, <1>8, <2>1
    <2>3. f = [k \in 0 .. n |-> f[k]]
      BY <1>6
    <2> QED
      BY <2>2, <2>3
  <1>10. Rounds(after)
    <2> HIDE DEF Rounds
    <2> QED
      BY <1>9, Zenon
  <1> HIDE DEF after
  <1>11. after[0] = base /\ \A i \in 1 .. n : after[i] = Read(after[i - 1])
    <2>1. \A k \in 0 .. n : after[k] = IF k = 0 THEN base ELSE Read(after[k - 1])
      BY <1>10, Zenon
    <2>2. 0 \in 0 .. n
      BY <1>1, SMT
    <2> QED
      BY <1>7, <2>1, <2>2
  <1>12. \A i \in 1 .. n : after[i - 1] \in PlanState => after[i] = step[i][after[i - 1]]
    BY <1>11
  <1> HIDE DEF step
  <1>13. after[0] = f[0]
    BY <1>6, <1>11
  <1>14. \A i \in 0 .. n : after[i] = f[i]
    <2>1. LoopsAlike(PlanState, n, step, f, after)
      BY <1>6, <1>12, <1>13 DEF LoopsAlike
    <2>2. SameUpTo(n, f, after)
      BY <1>1, <2>1, LoopIsUnique, Zenon
    <2> QED
      BY <2>2 DEF SameUpTo
  <1>15. n \in 0 .. n
    BY <1>1, SMT
  <1>16. after[n] \in PlanState
    BY <1>6, <1>14, <1>15
  <1> QED
    BY <1>2, <1>16 DEF PlanState

\* Linking leaves an operation's field as it was.
LEMMA LinkedIsTyped ==
    ASSUME NEW plan \in Seq(Operated)
    PROVE  Linked(plan) \in Seq(Operated)
  <1> DEFINE n == Len(plan)
             delims(k) == { i \in k .. n : plan[i].field = "none" }
             ends(k) == { i \in k .. n : plan[i].field = "none" /\ plan[i].delim = <<"@">> }
             next(k) == IF delims(k) # {} THEN Min(delims(k)) ELSE 0
             credentialEnd(k) == IF ends(k) # {} THEN Min(ends(k)) ELSE 0
             link(k) == IF plan[k].field = "none" THEN plan[k]
                        ELSE [field |-> plan[k].field,
                              delim |-> IF next(k) = 0 THEN <<>> ELSE plan[next(k)].delim,
                              consume |-> next(k) = k + 1,
                              credentialEnd |-> credentialEnd(k)]
  <1>1. Linked(plan) = [k \in 1 .. n |-> link(k)]
    BY DEF Linked, SelectInSubSeq
  <1>2. n \in Nat /\ \A k \in 1 .. n : plan[k] \in Operated
    OBVIOUS
  <1>3. ASSUME NEW k \in 1 .. n
        PROVE  link(k) \in Operated
    <2>1. plan[k] \in Operated
      BY <1>2
    <2>2. plan[k].field \in {"none"} \cup Verbs
      BY <2>1 DEF Operated
    <2>3. delims(k) \in SUBSET Nat /\ ends(k) \in SUBSET Nat
      <3> HIDE DEF n
      <3> QED
        BY <1>2, SMT
    <2>4. (IF next(k) = 0 THEN <<>> ELSE plan[next(k)].delim) \in Text
      <3>1. <<>> \in Text
        BY DEF Text
      <3>2. CASE delims(k) = {}
        BY <3>1, <3>2
      <3>3. CASE delims(k) # {}
        <4>1. Min(delims(k)) \in delims(k)
          BY <2>3, <3>3, MinIsLeast
        <4>2. next(k) = Min(delims(k)) /\ next(k) \in k .. n
          BY <3>3, <4>1
        <4> HIDE DEF next, n
        <4>3. next(k) \in 1 .. n
          BY <1>2, <4>2, SMT
        <4>4. plan[next(k)].delim \in Text
          BY <1>2, <4>3 DEF Operated
        <4> QED
          BY <3>1, <4>4
      <3> QED
        BY <3>2, <3>3
    <2>5. credentialEnd(k) \in Nat
      <3>1. CASE ends(k) = {}
        BY <3>1
      <3>2. CASE ends(k) # {}
        <4>1. Min(ends(k)) \in Nat
          BY <2>3, <3>2, MinIsLeast
        <4> HIDE DEF ends
        <4> QED
          BY <3>2, <4>1
      <3> QED
        BY <3>1, <3>2
    <2>6. (next(k) = k + 1) \in BOOLEAN
      OBVIOUS
    <2>7. \A field \in {"none"} \cup Verbs, delim \in Text, consume \in BOOLEAN, ce \in Nat :
              [field |-> field, delim |-> delim, consume |-> consume, credentialEnd |-> ce]
                \in Operated
      BY DEF Operated
    <2> HIDE DEF next, credentialEnd, n
    <2>8. [field |-> plan[k].field,
           delim |-> IF next(k) = 0 THEN <<>> ELSE plan[next(k)].delim,
           consume |-> next(k) = k + 1,
           credentialEnd |-> credentialEnd(k)] \in Operated
      BY <2>2, <2>4, <2>5, <2>6, <2>7, Zenon
    <2> QED
      BY <2>1, <2>8
  <1> HIDE DEF link, n
  <1>4. [k \in 1 .. n |-> link(k)] \in [1 .. n -> Operated]
    BY <1>3
  <1>5. \A S : \A m \in Nat : \A s \in [1 .. m -> S] : s \in Seq(S)
    OBVIOUS
  <1> QED
    BY <1>1, <1>2, <1>4, <1>5

\* What New makes of a format.
LEMMA ParsersAreTyped ==
    ASSUME NEW f \in Formats, NEW strict \in BOOLEAN
    PROVE  /\ New(f, strict).plan \in Seq(Operated)
           /\ New(f, strict).strict = strict
           /\ New(f, strict).kind \in {"generic", "strictSchemeHostPort", "strictFullCredentials"}
           /\ ~ strict => New(f, strict).kind = "generic"
  <1>1. f \in Text
    BY TextsAssumption
  <1> DEFINE kind == detectParserKind(f, strict)
             plan == IF kind = "generic" THEN Linked(Operations(f)) ELSE <<>>
  <1>2. New(f, strict)
          = [format |-> f, strict |-> strict, kind |-> kind, plan |-> plan,
             hasScheme |-> \E k \in DOMAIN plan : plan[k].field = "t",
             ok |-> Wrong \notin {plan[k] : k \in DOMAIN plan}]
    BY Zenon DEF New
  <1>3. plan \in Seq(Operated)
    <2>1. Linked(Operations(f)) \in Seq(Operated)
      BY <1>1, PlansAreTyped, LinkedIsTyped
    <2> QED
      BY <2>1
  <1>4. /\ kind \in {"generic", "strictSchemeHostPort", "strictFullCredentials"}
        /\ ~ strict => kind = "generic"
    BY Zenon DEF detectParserKind
  <1> HIDE DEF plan, kind
  <1>5. /\ New(f, strict).plan = plan /\ New(f, strict).strict = strict
        /\ New(f, strict).kind = kind
    BY <1>2
  <1> QED
    BY <1>3, <1>4, <1>5

-----------------------------------------------------------------------------
(* The locals of the plan's parser.                                        *)

Kinds == {"none", "ErrMismatchDelim", "ErrSubseqDelimNotFound", "ErrSchemeNotParsed"}
Failures == [kind : Kinds, delim : Text, pos : Nat]

LocalState ==
    [next : Nat, pos : Nat, proxy : Texts, hostStart : Int, hostEnd : Int,
     hostParsed : BOOLEAN, schemeParsed : BOOLEAN, emptyHost : BOOLEAN, emptyPort : BOOLEAN,
     err : Failures]

\* What of st the proofs are about.
Holds(st, pos, p, start, end) ==
    /\ st \in LocalState /\ st.next \in Nat
    /\ st.pos = pos /\ st.proxy = p /\ st.hostStart = start /\ st.hostEnd = end

\* The locals hold what they hold.
LEMMA HoldsOfItself ==
    ASSUME NEW st \in LocalState
    PROVE  /\ Holds(st, st.pos, st.proxy, st.hostStart, st.hostEnd)
           /\ st.next \in Nat /\ st.pos \in Nat /\ st.proxy \in Texts
           /\ st.hostStart \in Int /\ st.hostEnd \in Int
  BY DEF LocalState, Holds

\* Setting one of the locals keeps the others: the next operation,
LEMMA SetNext ==
    ASSUME NEW st, NEW o, NEW p, NEW s, NEW e, Holds(st, o, p, s, e), NEW v \in Nat
    PROVE  Holds([st EXCEPT !.next = v], o, p, s, e)
  BY DEF Holds, LocalState

\* the offset reached,
LEMMA SetPos ==
    ASSUME NEW st, NEW o, NEW p, NEW s, NEW e, Holds(st, o, p, s, e), NEW v \in Nat
    PROVE  Holds([st EXCEPT !.pos = v], v, p, s, e)
  BY DEF Holds, LocalState

\* the proxy,
LEMMA SetProxy ==
    ASSUME NEW st, NEW o, NEW p, NEW s, NEW e, Holds(st, o, p, s, e), NEW v \in Texts
    PROVE  Holds([st EXCEPT !.proxy = v], o, v, s, e)
  BY DEF Holds, LocalState

\* where the last host begins
LEMMA SetHostStart ==
    ASSUME NEW st, NEW o, NEW p, NEW s, NEW e, Holds(st, o, p, s, e), NEW v \in Int
    PROVE  Holds([st EXCEPT !.hostStart = v], o, p, v, e)
  BY DEF Holds, LocalState

\* and ends,
LEMMA SetHostEnd ==
    ASSUME NEW st, NEW o, NEW p, NEW s, NEW e, Holds(st, o, p, s, e), NEW v \in Int
    PROVE  Holds([st EXCEPT !.hostEnd = v], o, p, s, v)
  BY DEF Holds, LocalState

\* whether there was a host,
LEMMA SetHostParsed ==
    ASSUME NEW st, NEW o, NEW p, NEW s, NEW e, Holds(st, o, p, s, e), NEW v \in BOOLEAN
    PROVE  Holds([st EXCEPT !.hostParsed = v], o, p, s, e)
  BY DEF Holds, LocalState

\* or a scheme,
LEMMA SetSchemeParsed ==
    ASSUME NEW st, NEW o, NEW p, NEW s, NEW e, Holds(st, o, p, s, e), NEW v \in BOOLEAN
    PROVE  Holds([st EXCEPT !.schemeParsed = v], o, p, s, e)
  BY DEF Holds, LocalState

\* whether a host was empty,
LEMMA SetEmptyHost ==
    ASSUME NEW st, NEW o, NEW p, NEW s, NEW e, Holds(st, o, p, s, e), NEW v \in BOOLEAN
    PROVE  Holds([st EXCEPT !.emptyHost = v], o, p, s, e)
  BY DEF Holds, LocalState

\* or a port,
LEMMA SetEmptyPort ==
    ASSUME NEW st, NEW o, NEW p, NEW s, NEW e, Holds(st, o, p, s, e), NEW v \in BOOLEAN
    PROVE  Holds([st EXCEPT !.emptyPort = v], o, p, s, e)
  BY DEF Holds, LocalState

\* and the error.
LEMMA SetErr ==
    ASSUME NEW st, NEW o, NEW p, NEW s, NEW e, Holds(st, o, p, s, e), NEW v \in Failures
    PROVE  Holds([st EXCEPT !.err = v], o, p, s, e)
  BY DEF Holds, LocalState

\* The fields of a proxy are texts.
LEMMA FieldsOfTexts ==
    ASSUME NEW p \in Texts
    PROVE  /\ p.scheme \in Text /\ p.host \in Text /\ p.hostAt \in Int
           /\ p.username \in Text /\ p.password \in Text
  BY DEF Texts

\* Setting a field but the host leaves the host where it lies.
LEMMA SetCredentials ==
    ASSUME NEW p \in Texts, NEW v \in Text
    PROVE  /\ [p EXCEPT !.scheme = v] \in Texts
           /\ [p EXCEPT !.scheme = v].host = p.host /\ [p EXCEPT !.scheme = v].hostAt = p.hostAt
           /\ [p EXCEPT !.username = v] \in Texts
           /\ [p EXCEPT !.username = v].host = p.host
           /\ [p EXCEPT !.username = v].hostAt = p.hostAt
           /\ [p EXCEPT !.password = v] \in Texts
           /\ [p EXCEPT !.password = v].host = p.host
           /\ [p EXCEPT !.password = v].hostAt = p.hostAt
  BY DEF Texts

WithHost(p, v, at) == [p EXCEPT !.host = v, !.hostAt = at]

\* Setting the host and where it lies.
LEMMA SetHost ==
    ASSUME NEW p \in Texts, NEW v \in Text, NEW at \in Int
    PROVE  /\ WithHost(p, v, at) \in Texts
           /\ WithHost(p, v, at).host = v
           /\ WithHost(p, v, at).hostAt = at
  BY DEF Texts, WithHost

\* The locals lie within the input.
InInput(input, pos, p, start, end) ==
    /\ pos <= Len(input) /\ HostIsCut(input, p)
    /\ start # Absent => start \in Nat /\ end \in Nat /\ start <= end /\ end <= Len(input)

Cursors(input) ==
    { st \in LocalState : InInput(input, st.pos, st.proxy, st.hostStart, st.hostEnd) }

\* Locals that stay in the input,
LEMMA HoldsInInput ==
    ASSUME NEW input, NEW st, NEW o, NEW p, NEW s, NEW e, Holds(st, o, p, s, e),
           InInput(input, o, p, s, e)
    PROVE  st \in Cursors(input)
  BY Zenon DEF Holds, Cursors

\* and what they hold.
LEMMA CursorsHold ==
    ASSUME NEW input \in Text, NEW st \in Cursors(input)
    PROVE  /\ Holds(st, st.pos, st.proxy, st.hostStart, st.hostEnd)
           /\ InInput(input, st.pos, st.proxy, st.hostStart, st.hostEnd)
           /\ st.next \in Nat /\ st.pos \in Nat /\ st.proxy \in Texts
           /\ st.hostStart \in Int /\ st.hostEnd \in Int
           /\ Len(input) \in Nat /\ st.pos <= Len(input) /\ HostIsCut(input, st.proxy)
  <1>1. st \in LocalState /\ InInput(input, st.pos, st.proxy, st.hostStart, st.hostEnd)
    BY DEF Cursors
  <1>2. Len(input) \in Nat
    BY DEF Text
  <1> QED
    BY <1>1, <1>2, HoldsOfItself DEF InInput

\* A host that was cut out of the input lies where it says.
LEMMA HostCutOut ==
    ASSUME NEW input \in Text, NEW from \in Nat, NEW to \in Nat, from <= to, to <= Len(input),
           NEW p, p.host = Slice(input, from, to), p.hostAt = from
    PROVE  HostIsCut(input, p)
  <1>1. Len(Slice(input, from, to)) = to - from
    BY SliceIsText
  <1>2. from + (to - from) = to
    BY SMT
  <1> DEFINE l == Len(p.host)
  <1>3. from + l = to
    BY <1>1, <1>2
  <1> HIDE DEF l
  <1>4. from + l <= Len(input) /\ p.host = Slice(input, from, from + l)
    BY <1>3
  <1> QED
    BY <1>4 DEF HostIsCut, l

\* What is cut from the input is a text.
LEMMA CutIsText ==
    ASSUME NEW input \in Text, NEW from \in Nat, NEW to \in Nat, from <= to, to <= Len(input)
    PROVE  Slice(input, from, to) \in Text
  BY SliceIsText

\* Joining a port to the host leaves the proxy a text, and its host where it says.
LEMMA JoinedKeeps ==
    ASSUME NEW input \in Text, NEW from \in Nat, NEW to \in Nat, from <= to, to <= Len(input),
           NEW p \in Texts, HostIsCut(input, p)
    PROVE  /\ Joined(p, Slice(input, from, to), from) \in Texts
           /\ HostIsCut(input, Joined(p, Slice(input, from, to), from))
  <1> DEFINE val == Slice(input, from, to)
             glued == p.host \o <<":">> \o val
  <1>1. val \in Text
    BY CutIsText
  <1>2. Joined(p, val, from)
          = IF p.host = <<>> THEN [p EXCEPT !.host = val, !.hostAt = from]
            ELSE IF val = <<>> THEN p
            ELSE [p EXCEPT !.host = glued, !.hostAt = Absent]
    BY DEF Joined
  <1>3. CASE p.host = <<>>
    <2> DEFINE q == WithHost(p, val, from)
    <2>0. from \in Int
      OBVIOUS
    <2>1. q \in Texts /\ q.host = val /\ q.hostAt = from
      <3> HIDE DEF val
      <3> QED
        BY <1>1, <2>0, SetHost
    <2>2. Joined(p, val, from) = q
      BY <1>2, <1>3 DEF WithHost
    <2> HIDE DEF q
    <2>3. HostIsCut(input, q)
      BY <2>1, HostCutOut
    <2> QED
      BY <2>1, <2>2, <2>3
  <1>4. CASE p.host # <<>> /\ val = <<>>
    <2>1. Joined(p, val, from) = p
      <3> HIDE DEF val
      <3> QED
        BY <1>2, <1>4
    <2> QED
      BY <2>1
  <1>5. CASE p.host # <<>> /\ val # <<>>
    <2> DEFINE q == WithHost(p, glued, Absent)
    <2>1. glued \in Text
      <3>1. p.host \in Text /\ ":" \in Symbols
        BY FieldsOfTexts, TextsAssumption
      <3>2. ASSUME NEW S, NEW a \in S, NEW s \in Seq(S), NEW t \in Seq(S)
            PROVE  s \o <<a>> \o t \in Seq(S)
        OBVIOUS
      <3> HIDE DEF val
      <3> QED
        BY <1>1, <3>1, <3>2 DEF Text
    <2>2. Absent \in Int
      BY DEF Absent
    <2> HIDE DEF glued
    <2>3. q \in Texts /\ q.hostAt = Absent
      BY <2>1, <2>2, SetHost
    <2>4. Joined(p, val, from) = q
      BY <1>2, <1>5 DEF WithHost
    <2> HIDE DEF q
    <2>5. HostIsCut(input, q)
      BY <2>3 DEF HostIsCut
    <2> QED
      BY <2>3, <2>4, <2>5
  <1> QED
    BY <1>3, <1>4, <1>5

\* A scheme is a text, folded or not.
LEMMA SchemeIsText ==
    ASSUME NEW s \in Text
    PROVE  schemeOf(s) \in Text
  <1>1. CASE ParseScheme(s) = <<>> \/ ParseScheme(s) = s
    BY <1>1 DEF schemeOf
  <1>2. CASE ~ (ParseScheme(s) = <<>> \/ ParseScheme(s) = s)
    <2>1. s[1] \in DOMAIN Folded /\ ParseScheme(s) = <<Folded[s[1]]>>
      BY <1>2, Zenon DEF ParseScheme
    <2>2. Folded[s[1]] \in {"http", "socks5"}
      BY <2>1, FoldedNames DEF Folded
    <2>3. Folded[s[1]] \in Symbols
      BY <2>2, TextsAssumption DEF Words, Schemes
    <2>4. ASSUME NEW S, NEW a \in S
          PROVE  <<a>> \in Seq(S)
      OBVIOUS
    <2>5. <<Folded[s[1]]>> \in Text
      BY <2>3, <2>4 DEF Text
    <2> QED
      BY <1>2, <2>1, <2>5 DEF schemeOf
  <1> QED
    BY <1>1, <1>2

\* A field put into the proxy leaves its host in the input, unless it is joined.
LEMMA AssignKeeps ==
    ASSUME NEW input \in Text, NEW from \in Nat, NEW to \in Nat, from <= to, to <= Len(input),
           NEW p \in Texts, HostIsCut(input, p), NEW field \in Verbs
    PROVE  /\ assignField(p, field, Slice(input, from, to), from) \in Texts
           /\ HostIsCut(input, assignField(p, field, Slice(input, from, to), from))
  <1> DEFINE val == Slice(input, from, to)
             q == assignField(p, field, val, from)
  <1>1. val \in Text /\ schemeOf(val) \in Text
    BY CutIsText, SchemeIsText
  <1>2. ASSUME NEW r \in Texts, r.host = p.host, r.hostAt = p.hostAt
        PROVE  HostIsCut(input, r)
    BY <1>2 DEF HostIsCut
  <1>3. CASE field = "t"
    <2> DEFINE r == [p EXCEPT !.scheme = schemeOf(val)]
    <2>1. q = r
      BY <1>3, Zenon DEF assignField
    <2>2. r \in Texts /\ r.host = p.host /\ r.hostAt = p.hostAt
      <3> HIDE DEF val
      <3> QED
        BY <1>1, SetCredentials
    <2> HIDE DEF r
    <2>3. HostIsCut(input, r)
      BY <1>2, <2>2
    <2> QED
      BY <2>1, <2>2, <2>3
  <1>4. CASE field \in {"h", "d"}
    <2>1. q = Joined(p, val, from)
      BY <1>4 DEF assignField
    <2> QED
      BY <2>1, JoinedKeeps
  <1>5. CASE field = "u"
    <2> DEFINE r == [p EXCEPT !.username = val]
    <2>1. q = r
      BY <1>5 DEF assignField
    <2>2. r \in Texts /\ r.host = p.host /\ r.hostAt = p.hostAt
      <3> HIDE DEF val
      <3> QED
        BY <1>1, SetCredentials
    <2> HIDE DEF r
    <2>3. HostIsCut(input, r)
      BY <1>2, <2>2
    <2> QED
      BY <2>1, <2>2, <2>3
  <1>6. CASE field = "p"
    <2> DEFINE r == [p EXCEPT !.password = val]
    <2>1. q = r
      BY <1>6 DEF assignField
    <2>2. r \in Texts /\ r.host = p.host /\ r.hostAt = p.hostAt
      <3> HIDE DEF val
      <3> QED
        BY <1>1, SetCredentials
    <2> HIDE DEF r
    <2>3. HostIsCut(input, r)
      BY <1>2, <2>2
    <2> QED
      BY <2>1, <2>2, <2>3
  <1>7. field \in {"t", "h", "d", "u", "p"}
    BY DEF Verbs
  <1> HIDE DEF q, val
  <1>8. q \in Texts /\ HostIsCut(input, q)
    BY <1>3, <1>4, <1>5, <1>6, <1>7 DEF q, val
  <1> QED
    BY <1>8 DEF q, val

-----------------------------------------------------------------------------
(* What the operations of a plan do to the locals.                         *)

\* An error the loop may stop with.
LEMMA FailureIsTyped ==
    ASSUME NEW kind \in Kinds, NEW delim \in Text, NEW pos \in Nat
    PROVE  [kind |-> kind, delim |-> delim, pos |-> pos] \in Failures
  BY DEF Failures

\* The fields of an operation.
LEMMA OperationFields ==
    ASSUME NEW op \in Operated
    PROVE  /\ op.field \in {"none"} \cup Verbs /\ op.delim \in Text
           /\ op.consume \in BOOLEAN /\ op.credentialEnd \in Nat
           /\ Len(op.delim) \in Nat
  <1>1. op.field \in {"none"} \cup Verbs /\ op.delim \in Text
        /\ op.consume \in BOOLEAN /\ op.credentialEnd \in Nat
    BY DEF Operated
  <1> QED
    BY <1>1 DEF Text

\* A delimiter, matched or not, leaves the locals in the input.
LEMMA ExpectKeeps ==
    ASSUME NEW input \in Text, NEW st \in Cursors(input), NEW op \in Operated, NEW parser
    PROVE  Expect(parser, input, st, op) \in Cursors(input)
  <1> DEFINE end == st.pos + Len(op.delim)
             matched == end <= Len(input) /\ Slice(input, st.pos, end) = op.delim
             next == st.next + 1
             failed == [kind |-> "ErrMismatchDelim", delim |-> op.delim, pos |-> st.pos]
             moved == [st EXCEPT !.next = next]
  <1>1. /\ Holds(st, st.pos, st.proxy, st.hostStart, st.hostEnd)
        /\ InInput(input, st.pos, st.proxy, st.hostStart, st.hostEnd)
        /\ st.next \in Nat /\ st.pos \in Nat
    BY CursorsHold
  <1>2. op.delim \in Text /\ Len(op.delim) \in Nat
    BY OperationFields
  <1>3. next \in Nat /\ end \in Nat
    BY <1>1, <1>2
  <1>4. failed \in Failures
    <2>1. "ErrMismatchDelim" \in Kinds
      BY DEF Kinds
    <2> QED
      BY <1>1, <1>2, <2>1, FailureIsTyped
  <1>5. Expect(parser, input, st, op)
          = IF matched THEN [moved EXCEPT !.pos = end]
            ELSE IF parser.strict THEN [st EXCEPT !.err = failed]
            ELSE moved
    BY DEF Expect
  <1> HIDE DEF next, end, failed, moved
  <1>6. Holds(moved, st.pos, st.proxy, st.hostStart, st.hostEnd)
    BY <1>1, <1>3, SetNext DEF moved
  <1>7. CASE matched
    <2>1. Holds([moved EXCEPT !.pos = end], end, st.proxy, st.hostStart, st.hostEnd)
      BY <1>3, <1>6, SetPos
    <2>2. InInput(input, end, st.proxy, st.hostStart, st.hostEnd)
      BY <1>1, <1>7 DEF InInput
    <2>3. [moved EXCEPT !.pos = end] \in Cursors(input)
      BY <2>1, <2>2, HoldsInInput
    <2> QED
      BY <1>5, <1>7, <2>3
  <1>8. CASE ~ matched
    <2>1. Holds([st EXCEPT !.err = failed], st.pos, st.proxy, st.hostStart, st.hostEnd)
      BY <1>1, <1>4, SetErr
    <2>2. [st EXCEPT !.err = failed] \in Cursors(input) /\ moved \in Cursors(input)
      BY <1>1, <1>6, <2>1, HoldsInInput
    <2> HIDE DEF matched
    <2> QED
      BY <1>5, <1>8, <2>2
  <1> QED
    BY <1>7, <1>8

\* So does a lenient field whose delimiter is missing.
LEMMA TakeUnendedKeeps ==
    ASSUME NEW input \in Text, NEW st \in Cursors(input), NEW op \in Operated,
           op.field \in Verbs
    PROVE  TakeUnended(input, st, op) \in Cursors(input)
  <1> DEFINE start == st.pos
             n == Len(input)
             at == IndexByte(input, "@", start)
             after == [st EXCEPT !.next = st.next + 1]
             Assigned(end) == assignField(after.proxy, op.field, Slice(input, start, end), start)
             To(end) == [[after EXCEPT !.proxy = Assigned(end)] EXCEPT !.pos = end]
  <1>1. /\ Holds(st, start, st.proxy, st.hostStart, st.hostEnd)
        /\ InInput(input, start, st.proxy, st.hostStart, st.hostEnd)
        /\ st.next \in Nat /\ start \in Nat /\ st.proxy \in Texts
        /\ n \in Nat /\ start <= n /\ HostIsCut(input, st.proxy)
        /\ st.hostStart \in Int /\ st.hostEnd \in Int
    BY CursorsHold
  <1>2. Holds(after, start, st.proxy, st.hostStart, st.hostEnd) /\ after.proxy = st.proxy
    <2>1. st.next + 1 \in Nat
      BY <1>1
    <2>2. Holds(after, start, st.proxy, st.hostStart, st.hostEnd)
      BY <1>1, <2>1, SetNext
    <2> QED
      BY <2>2 DEF Holds
  <1>3. after \in Cursors(input)
    BY <1>1, <1>2, HoldsInInput
  <1>4. TakeUnended(input, st, op)
          = CASE op.field = "h" ->
                   [[[To(n) EXCEPT !.hostStart = start] EXCEPT !.hostEnd = n]
                      EXCEPT !.hostParsed = To(n).hostParsed \/ start < n]
              [] op.field = "u" -> IF at # Absent THEN To(at)
                                   ELSE IF op.delim = <<":">> THEN To(n) ELSE after
              [] op.field = "p" -> IF at # Absent THEN To(at) ELSE after
              [] OTHER -> To(n)
    BY DEF TakeUnended
  <1> HIDE DEF after, n
  <1>5. ASSUME NEW end \in Nat, start <= end, end <= n
        PROVE  /\ Holds(To(end), end, Assigned(end), st.hostStart, st.hostEnd)
               /\ HostIsCut(input, Assigned(end))
    <2>1. Assigned(end) \in Texts /\ HostIsCut(input, Assigned(end))
      <3>1. end <= Len(input)
        BY <1>5 DEF n
      <3> QED
        BY <1>1, <1>2, <1>5, <3>1, AssignKeeps
    <2> DEFINE q == Assigned(end)
               mid == [after EXCEPT !.proxy = q]
    <2>2. q \in Texts
      BY <2>1
    <2> HIDE DEF q, Assigned
    <2>3. Holds(mid, start, q, st.hostStart, st.hostEnd)
      BY <1>2, <2>2, SetProxy
    <2>4. To(end) = [mid EXCEPT !.pos = end]
      BY DEF q
    <2> HIDE DEF mid, To
    <2>5. Holds(To(end), end, q, st.hostStart, st.hostEnd)
      BY <1>5, <2>3, <2>4, SetPos
    <2> QED
      BY <2>1, <2>5 DEF q
  <1> HIDE DEF To, Assigned
  <1>6. ASSUME NEW end \in Nat, start <= end, end <= n
        PROVE  To(end) \in Cursors(input)
    <2>1. InInput(input, end, Assigned(end), st.hostStart, st.hostEnd)
      BY <1>1, <1>5, <1>6 DEF InInput, n
    <2> QED
      BY <1>5, <1>6, <2>1, HoldsInInput
  <1>7. n \in Nat /\ start <= n /\ n <= n /\ start \in Int /\ start \in Nat
    BY <1>1 DEF n
  <1>8. at # Absent => at \in Nat /\ start <= at /\ at <= n
    <2>1. at = Absent \/ at \in start .. n - 1
      BY <1>1, IndexByteFinds DEF n
    <2> HIDE DEF at, start
    <2> QED
      BY <1>7, <2>1, SMT
  <1>9. CASE op.field = "h"
    <2> DEFINE s1 == To(n)
               s2 == [s1 EXCEPT !.hostStart = start]
               s3 == [s2 EXCEPT !.hostEnd = n]
               parsed == s1.hostParsed \/ start < n
               s4 == [s3 EXCEPT !.hostParsed = parsed]
               q == Assigned(n)
    <2>1. Holds(s1, n, q, st.hostStart, st.hostEnd) /\ HostIsCut(input, q)
      BY <1>5, <1>7
    <2>2. TakeUnended(input, st, op) = s4
      BY <1>4, <1>9
    <2>3. parsed \in BOOLEAN
      OBVIOUS
    <2>4. n \in Int
      BY <1>7
    <2> HIDE DEF s1, parsed, q
    <2>5. Holds(s2, n, q, start, st.hostEnd)
      BY <1>7, <2>1, SetHostStart
    <2> HIDE DEF s2
    <2>6. Holds(s3, n, q, start, n)
      BY <2>4, <2>5, SetHostEnd
    <2> HIDE DEF s3
    <2>7. Holds(s4, n, q, start, n)
      BY <2>3, <2>6, SetHostParsed
    <2> HIDE DEF s4
    <2>8. InInput(input, n, q, start, n)
      BY <1>1, <1>7, <2>1 DEF InInput, n
    <2> QED
      BY <2>2, <2>7, <2>8, HoldsInInput
  <1>10. CASE op.field = "u"
    <2>1. TakeUnended(input, st, op)
            = IF at # Absent THEN To(at) ELSE IF op.delim = <<":">> THEN To(n) ELSE after
      BY <1>4, <1>10
    <2>2. To(n) \in Cursors(input) /\ (at # Absent => To(at) \in Cursors(input))
      BY <1>6, <1>7, <1>8
    <2> QED
      BY <1>3, <2>1, <2>2
  <1>11. CASE op.field = "p"
    <2>1. TakeUnended(input, st, op) = IF at # Absent THEN To(at) ELSE after
      BY <1>4, <1>11
    <2>2. at # Absent => To(at) \in Cursors(input)
      BY <1>6, <1>8
    <2> QED
      BY <1>3, <2>1, <2>2
  <1>12. CASE op.field \in {"t", "d"}
    <2>1. TakeUnended(input, st, op) = To(n)
      BY <1>4, <1>12
    <2>2. To(n) \in Cursors(input)
      BY <1>6, <1>7
    <2> QED
      BY <2>1, <2>2
  <1> QED
    BY <1>9, <1>10, <1>11, <1>12 DEF Verbs

\* A field cut out up to end keeps the locals in the input.
LEMMA TakeFieldKeeps ==
    ASSUME NEW input \in Text, NEW st \in Cursors(input), NEW op \in Operated,
           op.field \in Verbs, NEW end \in Nat, st.pos <= end, end + Len(op.delim) <= Len(input)
    PROVE  TakeField(input, st, op, end) \in Cursors(input)
  <1> DEFINE start == st.pos
             n == Len(input)
             value == Slice(input, start, end)
             ahead == st.next + (IF op.consume THEN 2 ELSE 1)
             pos == end + (IF op.consume THEN Len(op.delim) ELSE 0)
             moved == [st EXCEPT !.next = ahead]
             after == [moved EXCEPT !.pos = pos]
             adjacent == st.hostStart # Absent /\ st.hostEnd + 1 = start
                         /\ input[st.hostEnd + 1] = ":"
  <1>1. /\ Holds(st, start, st.proxy, st.hostStart, st.hostEnd)
        /\ InInput(input, start, st.proxy, st.hostStart, st.hostEnd)
        /\ st.next \in Nat /\ start \in Nat /\ st.proxy \in Texts
        /\ n \in Nat /\ start <= n /\ HostIsCut(input, st.proxy)
        /\ st.hostStart \in Int /\ st.hostEnd \in Int
    BY CursorsHold
  <1>2. /\ ahead \in Nat /\ pos \in Nat /\ pos <= n /\ end <= n /\ start <= end
    <2> DEFINE l == Len(op.delim)
    <2>1. l \in Nat
      BY OperationFields
    <2> HIDE DEF l, start, n
    <2>2. end + l <= n /\ start <= end
      BY DEF l, n, start
    <2>3. CASE op.consume
      <3>1. ahead = st.next + 2 /\ pos = end + l
        BY <2>3 DEF l
      <3> HIDE DEF ahead, pos
      <3> QED
        BY <1>1, <2>1, <2>2, <3>1, SMT
    <2>4. CASE ~ op.consume
      <3>1. ahead = st.next + 1 /\ pos = end + 0
        BY <2>4
      <3> HIDE DEF ahead, pos
      <3> QED
        BY <1>1, <2>1, <2>2, <3>1, SMT
    <2> QED
      BY <2>3, <2>4
  <1>3. TakeField(input, st, op, end)
          = CASE op.field = "h" ->
                   [[[[[after EXCEPT !.proxy = [after.proxy EXCEPT !.host = value, !.hostAt = start]]
                         EXCEPT !.emptyHost = @ \/ value = <<>>]
                        EXCEPT !.hostParsed = value # <<>>]
                       EXCEPT !.hostStart = start]
                      EXCEPT !.hostEnd = end]
              [] op.field = "d" ->
                   [[after EXCEPT !.emptyPort = @ \/ value = <<>>]
                      EXCEPT !.proxy = IF adjacent
                                       THEN [@ EXCEPT !.host = Slice(input, st.hostStart, end),
                                                      !.hostAt = st.hostStart]
                                       ELSE Joined(@, value, start)]
              [] OTHER ->
                   [[after EXCEPT !.proxy = assignField(after.proxy, op.field, value, start)]
                      EXCEPT !.schemeParsed = @ \/ (op.field = "t" /\ value # <<>>)]
    BY Zenon DEF TakeField
  <1> HIDE DEF ahead, pos
  <1>4. Holds(after, pos, st.proxy, st.hostStart, st.hostEnd) /\ after.proxy = st.proxy
    <2>1. Holds(moved, start, st.proxy, st.hostStart, st.hostEnd)
      BY <1>1, <1>2, SetNext
    <2> HIDE DEF moved
    <2>2. Holds(after, pos, st.proxy, st.hostStart, st.hostEnd)
      BY <1>2, <2>1, SetPos
    <2> QED
      BY <2>2 DEF Holds
  <1> HIDE DEF after
  <1>5. value \in Text /\ end <= Len(input) /\ start \in Int /\ end \in Int
    <2>1. end <= Len(input)
      BY <1>2
    <2> QED
      BY <1>1, <1>2, <2>1, CutIsText
  <1>6. CASE op.field = "h"
    <2> DEFINE q == WithHost(after.proxy, value, start)
               s1 == [after EXCEPT !.proxy = q]
               empty == s1.emptyHost \/ value = <<>>
               s2 == [s1 EXCEPT !.emptyHost = empty]
               parsed == value # <<>>
               s3 == [s2 EXCEPT !.hostParsed = parsed]
               s4 == [s3 EXCEPT !.hostStart = start]
               s5 == [s4 EXCEPT !.hostEnd = end]
    <2>1. TakeField(input, st, op, end) = s5
      BY <1>3, <1>6 DEF WithHost
    <2>2. q \in Texts /\ q.host = value /\ q.hostAt = start
      <3> DEFINE p == after.proxy
      <3>1. p \in Texts /\ value \in Text /\ start \in Int
        BY <1>1, <1>4, <1>5
      <3> HIDE DEF value, start, p
      <3>2. /\ WithHost(p, value, start) \in Texts
            /\ WithHost(p, value, start).host = value
            /\ WithHost(p, value, start).hostAt = start
        BY <3>1, SetHost
      <3> QED
        BY <3>2 DEF p
    <2>3. empty \in BOOLEAN /\ parsed \in BOOLEAN
      OBVIOUS
    <2> HIDE DEF q, empty, parsed
    <2>4. HostIsCut(input, q)
      BY <1>1, <1>2, <1>5, <2>2, HostCutOut
    <2>5. Holds(s1, pos, q, st.hostStart, st.hostEnd)
      BY <1>4, <2>2, SetProxy
    <2> HIDE DEF s1
    <2>6. Holds(s2, pos, q, st.hostStart, st.hostEnd)
      BY <2>3, <2>5, SetEmptyHost
    <2> HIDE DEF s2
    <2>7. Holds(s3, pos, q, st.hostStart, st.hostEnd)
      BY <2>3, <2>6, SetHostParsed
    <2> HIDE DEF s3
    <2>8. Holds(s4, pos, q, start, st.hostEnd)
      BY <1>5, <2>7, SetHostStart
    <2> HIDE DEF s4
    <2>9. Holds(s5, pos, q, start, end)
      BY <1>5, <2>8, SetHostEnd
    <2> HIDE DEF s5
    <2>10. InInput(input, pos, q, start, end)
      BY <1>1, <1>2, <1>5, <2>4 DEF InInput
    <2> QED
      BY <2>1, <2>9, <2>10, HoldsInInput
  <1>7. CASE op.field = "d"
    <2> DEFINE s1 == [after EXCEPT !.emptyPort = after.emptyPort \/ value = <<>>]
               q == IF adjacent THEN WithHost(s1.proxy, Slice(input, st.hostStart, end), st.hostStart)
                    ELSE Joined(s1.proxy, value, start)
               s2 == [s1 EXCEPT !.proxy = q]
    <2>1. TakeField(input, st, op, end) = s2
      <3> HIDE DEF adjacent, value
      <3> QED
        BY <1>3, <1>7 DEF WithHost
    <2>2. Holds(s1, pos, st.proxy, st.hostStart, st.hostEnd) /\ s1.proxy = st.proxy
      <3>1. (after.emptyPort \/ value = <<>>) \in BOOLEAN
        OBVIOUS
      <3>2. Holds(s1, pos, st.proxy, st.hostStart, st.hostEnd)
        BY <1>4, <3>1, SetEmptyPort
      <3> QED
        BY <3>2 DEF Holds
    <2> HIDE DEF s1
    <2>3. q \in Texts /\ HostIsCut(input, q)
      <3>1. CASE adjacent
        <4> DEFINE hs == st.hostStart
                   he == st.hostEnd
                   whole == Slice(input, hs, end)
        <4>1. hs \in Nat /\ he \in Nat /\ hs <= he /\ he + 1 = start
          BY <1>1, <3>1 DEF InInput
        <4>2. hs <= end
          <5> HIDE DEF hs, he, start
          <5> QED
            BY <1>1, <1>2, <4>1, SMT
        <4>3. whole \in Text
          BY <1>5, <4>1, <4>2, CutIsText
        <4> DEFINE r == WithHost(st.proxy, whole, hs)
        <4>4. q = r
          BY <2>2, <3>1
        <4>5. r \in Texts /\ r.host = whole /\ r.hostAt = hs
          <5>1. hs \in Int
            BY <1>1
          <5> DEFINE p == st.proxy
          <5>2. p \in Texts
            BY <1>1
          <5> HIDE DEF whole, p, hs
          <5>3. /\ WithHost(p, whole, hs) \in Texts
                /\ WithHost(p, whole, hs).host = whole
                /\ WithHost(p, whole, hs).hostAt = hs
            BY <4>3, <5>1, <5>2, SetHost
          <5> QED
            BY <5>3 DEF p
        <4> HIDE DEF r
        <4>6. HostIsCut(input, r)
          BY <1>5, <4>1, <4>2, <4>5, HostCutOut
        <4> QED
          BY <4>4, <4>5, <4>6
      <3>2. CASE ~ adjacent
        <4>1. q = Joined(st.proxy, value, start)
          BY <2>2, <3>2
        <4> QED
          BY <1>1, <1>2, <1>5, <4>1, JoinedKeeps
      <3> QED
        BY <3>1, <3>2
    <2> HIDE DEF q
    <2>4. Holds(s2, pos, q, st.hostStart, st.hostEnd)
      BY <2>2, <2>3, SetProxy
    <2> HIDE DEF s2
    <2>5. InInput(input, pos, q, st.hostStart, st.hostEnd)
      BY <1>1, <1>2, <2>3 DEF InInput
    <2> QED
      BY <2>1, <2>4, <2>5, HoldsInInput
  <1>8. CASE op.field \in {"t", "u", "p"}
    <2> DEFINE q == assignField(after.proxy, op.field, value, start)
               s1 == [after EXCEPT !.proxy = q]
               parsed == s1.schemeParsed \/ (op.field = "t" /\ value # <<>>)
               s2 == [s1 EXCEPT !.schemeParsed = parsed]
    <2>1. TakeField(input, st, op, end) = s2
      <3> HIDE DEF adjacent, value
      <3> QED
        BY <1>3, <1>8
    <2>2. q \in Texts /\ HostIsCut(input, q)
      BY <1>1, <1>2, <1>4, <1>5, AssignKeeps
    <2>3. parsed \in BOOLEAN
      OBVIOUS
    <2> HIDE DEF q, parsed
    <2>4. Holds(s1, pos, q, st.hostStart, st.hostEnd)
      BY <1>4, <2>2, SetProxy
    <2> HIDE DEF s1
    <2>5. Holds(s2, pos, q, st.hostStart, st.hostEnd)
      BY <2>3, <2>4, SetSchemeParsed
    <2> HIDE DEF s2
    <2>6. InInput(input, pos, q, st.hostStart, st.hostEnd)
      BY <1>1, <1>2, <2>2 DEF InInput
    <2> QED
      BY <2>1, <2>5, <2>6, HoldsInInput
  <1> QED
    BY <1>6, <1>7, <1>8 DEF Verbs

\* A field's delimiter, if it is found, lies in the input behind the field's start.
LEMMA FieldEndIsIn ==
    ASSUME NEW input \in Text, NEW op \in Operated, NEW start \in Nat, op.delim # <<>>
    PROVE  \/ FieldEnd(input, op, start) = Absent
           \/ /\ FieldEnd(input, op, start) \in Nat
              /\ start <= FieldEnd(input, op, start)
              /\ FieldEnd(input, op, start) + Len(op.delim) <= Len(input)
  <1> DEFINE bracketed == op.field = "h" /\ start < Len(input) /\ input[start + 1] = "["
             close == IndexByte(input, "]", start)
             from == IF bracketed /\ close # Absent THEN close + 1 ELSE start
             idx == Find(input, op.delim, from)
  <1>1. FieldEnd(input, op, start) = idx
    BY DEF FieldEnd
  <1>2. op.delim \in Text /\ Len(op.delim) \in Nat /\ Len(input) \in Nat
    BY OperationFields DEF Text
  <1>3. close = Absent \/ close \in start .. Len(input) - 1
    BY IndexByteFinds
  <1> HIDE DEF close, bracketed
  <1>4. from \in Nat /\ start <= from
    <2>1. CASE bracketed /\ close # Absent
      <3>1. from = close + 1 /\ close \in start .. Len(input) - 1
        BY <1>3, <2>1
      <3> HIDE DEF from
      <3> QED
        BY <1>2, <3>1, SMT
    <2>2. CASE ~ (bracketed /\ close # Absent)
      <3>1. from = start
        BY <2>2
      <3> HIDE DEF from
      <3> QED
        BY <3>1
    <2> QED
      BY <2>1, <2>2
  <1> HIDE DEF from
  <1>5. \/ idx = Absent
        \/ /\ idx \in from .. Len(input) - Len(op.delim) /\ idx \in Nat
           /\ idx + Len(op.delim) <= Len(input)
    BY <1>2, <1>4, FindFinds
  <1> HIDE DEF idx
  <1>6. idx \in from .. Len(input) - Len(op.delim) => start <= idx
    BY <1>2, <1>4, SMT
  <1> QED
    BY <1>1, <1>5, <1>6

\* So does the capture of a field.
LEMMA CaptureKeeps ==
    ASSUME NEW input \in Text, NEW st \in Cursors(input), NEW op \in Operated,
           op.field \in Verbs, NEW parser
    PROVE  CaptureField(parser, input, st, op) \in Cursors(input)
  <1> DEFINE start == st.pos
             n == Len(input)
             inCredentials == ~ parser.strict /\ op.field \in {"u", "p"} /\ op.credentialEnd # 0
             at == IF inCredentials THEN IndexByte(input, "@", start) ELSE Absent
             idx == FieldEnd(input, op, start)
             only == IsUsernameOnly(parser, input, st, op, at, idx)
             beyond == op.credentialEnd + 1
             skipped == [st EXCEPT !.next = beyond]
             named == [[st.proxy EXCEPT !.username = Slice(input, start, at)]
                         EXCEPT !.password = <<>>]
             failure == Failure("ErrSubseqDelimNotFound", op.delim)
             end == IF op.delim = <<>> THEN n ELSE idx
  <1>1. /\ Holds(st, start, st.proxy, st.hostStart, st.hostEnd)
        /\ InInput(input, start, st.proxy, st.hostStart, st.hostEnd)
        /\ st.next \in Nat /\ start \in Nat /\ st.proxy \in Texts
        /\ n \in Nat /\ start <= n /\ HostIsCut(input, st.proxy)
    BY CursorsHold
  <1>2. op.delim \in Text /\ Len(op.delim) \in Nat /\ op.credentialEnd \in Nat /\ beyond \in Nat
    BY OperationFields
  <1>3. CaptureField(parser, input, st, op)
          = IF inCredentials /\ at = Absent THEN skipped
            ELSE IF only
            THEN [[[st EXCEPT !.proxy = named] EXCEPT !.pos = at + 1] EXCEPT !.next = beyond]
            ELSE IF op.delim # <<>> /\ idx = Absent
            THEN IF parser.strict THEN [st EXCEPT !.err = failure] ELSE TakeUnended(input, st, op)
            ELSE TakeField(input, st, op, end)
    BY Zenon DEF CaptureField
  <1>4. skipped \in Cursors(input)
    <2>1. Holds(skipped, start, st.proxy, st.hostStart, st.hostEnd)
      <3> HIDE DEF beyond
      <3> QED
        BY <1>1, <1>2, SetNext
    <2> QED
      BY <1>1, <2>1, HoldsInInput
  <1>5. ASSUME only
        PROVE  [[[st EXCEPT !.proxy = named] EXCEPT !.pos = at + 1] EXCEPT !.next = beyond]
                 \in Cursors(input)
    <2>1. at # Absent
      BY <1>5 DEF IsUsernameOnly
    <2>2. at = IndexByte(input, "@", start)
      BY <2>1
    <2>3. at \in start .. n - 1
      BY <1>1, <2>1, <2>2, IndexByteFinds
    <2> HIDE DEF at
    <2>4. at \in Nat /\ start <= at /\ at <= n /\ at + 1 \in Nat /\ at + 1 <= n
      <3> HIDE DEF start, n
      <3> QED
        BY <1>1, <2>3, SMT
    <2>5. named \in Texts /\ HostIsCut(input, named)
      <3> DEFINE p == st.proxy
                 value == Slice(input, start, at)
                 q == [p EXCEPT !.username = value]
                 r == [q EXCEPT !.password = <<>>]
      <3>1. p \in Texts /\ HostIsCut(input, p)
        BY <1>1
      <3>2. value \in Text /\ <<>> \in Text
        <4>1. <<>> \in Text
          BY DEF Text
        <4> QED
          BY <1>1, <2>4, <4>1, CutIsText
      <3> HIDE DEF value, p
      <3>3. q \in Texts /\ q.host = p.host /\ q.hostAt = p.hostAt
        BY <3>1, <3>2, SetCredentials
      <3> HIDE DEF q
      <3>4. r \in Texts /\ r.host = q.host /\ r.hostAt = q.hostAt
        BY <3>2, <3>3, SetCredentials
      <3>5. named = r
        BY DEF q, value, p
      <3> HIDE DEF r
      <3>6. HostIsCut(input, r)
        BY <3>1, <3>3, <3>4 DEF HostIsCut
      <3> QED
        BY <3>4, <3>5, <3>6
    <2> DEFINE q == named
               s1 == [st EXCEPT !.proxy = q]
               s2 == [s1 EXCEPT !.pos = at + 1]
               s3 == [s2 EXCEPT !.next = beyond]
    <2>6. [[[st EXCEPT !.proxy = named] EXCEPT !.pos = at + 1] EXCEPT !.next = beyond] = s3
      OBVIOUS
    <2>7. q \in Texts /\ HostIsCut(input, q)
      BY <2>5
    <2> HIDE DEF q, named, beyond
    <2>8. Holds(s1, start, q, st.hostStart, st.hostEnd)
      BY <1>1, <2>7, SetProxy
    <2> HIDE DEF s1
    <2>9. Holds(s2, at + 1, q, st.hostStart, st.hostEnd)
      BY <2>4, <2>8, SetPos
    <2> HIDE DEF s2
    <2>10. Holds(s3, at + 1, q, st.hostStart, st.hostEnd)
      BY <1>2, <2>9, SetNext
    <2> HIDE DEF s3
    <2>11. InInput(input, at + 1, q, st.hostStart, st.hostEnd)
      BY <1>1, <2>4, <2>7 DEF InInput
    <2>12. s3 \in Cursors(input)
      BY <2>10, <2>11, HoldsInInput
    <2> QED
      BY <2>6, <2>12
  <1>6. [st EXCEPT !.err = failure] \in Cursors(input)
    <2>1. failure \in Failures
      <3>1. "ErrSubseqDelimNotFound" \in Kinds /\ 0 \in Nat
        BY DEF Kinds
      <3> QED
        BY <1>2, <3>1, FailureIsTyped DEF Failure
    <2> HIDE DEF failure
    <2>2. Holds([st EXCEPT !.err = failure], start, st.proxy, st.hostStart, st.hostEnd)
      BY <1>1, <2>1, SetErr
    <2> QED
      BY <1>1, <2>2, HoldsInInput
  <1>7. TakeUnended(input, st, op) \in Cursors(input)
    BY TakeUnendedKeeps
  <1>8. ASSUME ~ (op.delim # <<>> /\ idx = Absent)
        PROVE  TakeField(input, st, op, end) \in Cursors(input)
    <2>1. end \in Nat /\ start <= end /\ end + Len(op.delim) <= n
      <3>1. CASE op.delim = <<>>
        <4>1. end = n /\ Len(op.delim) = 0
          BY <3>1
        <4> HIDE DEF end, n, start
        <4> QED
          BY <1>1, <4>1
      <3>2. CASE op.delim # <<>>
        <4>1. end = idx /\ idx # Absent
          BY <1>8, <3>2
        <4>2. idx \in Nat /\ start <= idx /\ idx + Len(op.delim) <= n
          BY <1>1, <3>2, <4>1, FieldEndIsIn
        <4> HIDE DEF end, idx
        <4> QED
          BY <4>1, <4>2
      <3> QED
        BY <3>1, <3>2
    <2> HIDE DEF end
    <2> QED
      BY <2>1, TakeFieldKeeps
  <1> HIDE DEF inCredentials, at, idx, only, beyond, skipped, named, failure, end
  <1> QED
    BY <1>3, <1>4, <1>5, <1>6, <1>7, <1>8

\* So does a round of the loop.
LEMMA StepKeeps ==
    ASSUME NEW input \in Text, NEW st \in Cursors(input), NEW parser,
           parser.plan \in Seq(Operated), NEW k \in 1 .. Len(parser.plan)
    PROVE  Step(parser, input, st, k) \in Cursors(input)
  <1> DEFINE op == parser.plan[k]
  <1>1. op \in Operated
    OBVIOUS
  <1>2. Step(parser, input, st, k)
          = IF st.next # k \/ st.err # NoError THEN st
            ELSE IF op.field = "none" THEN Expect(parser, input, st, op)
            ELSE CaptureField(parser, input, st, op)
    BY Zenon DEF Step
  <1> HIDE DEF op
  <1>3. op.field # "none" => op.field \in Verbs
    BY <1>1, OperationFields
  <1>4. Expect(parser, input, st, op) \in Cursors(input)
    BY <1>1, ExpectKeeps
  <1>5. op.field # "none" => CaptureField(parser, input, st, op) \in Cursors(input)
    BY <1>1, <1>3, CaptureKeeps
  <1> QED
    BY <1>2, <1>4, <1>5

\* The locals start in the input.
LEMMA BeginIsIn ==
    ASSUME NEW input \in Text, NEW parser, NEW dst
    PROVE  Begin(parser, input, dst) \in Cursors(input)
  <1> DEFINE idx == Find(input, schemeSeparator, 0)
             scheme == schemeOf(Slice(input, 0, idx))
             st == Locals(dst)
             failure == Failure("ErrSchemeNotParsed", <<>>)
             front == [st.proxy EXCEPT !.scheme = scheme]
             found == scheme # <<>>
             n == Len(input)
  <1>1. Begin(parser, input, dst)
          = IF parser.strict \/ parser.hasScheme THEN st
            ELSE IF idx = Absent THEN [st EXCEPT !.err = failure]
            ELSE [[[st EXCEPT !.proxy = front] EXCEPT !.schemeParsed = found] EXCEPT !.pos = idx + 3]
    BY Zenon DEF Begin
  <1>2. ZeroProxy \in Texts /\ ZeroProxy.host = <<>>
    <2>1. <<>> \in Text /\ Absent \in Int
      BY DEF Text, Absent
    <2> QED
      BY <2>1 DEF ZeroProxy, Texts
  <1>3. n \in Nat
    BY DEF Text
  <1>4. HostIsCut(input, ZeroProxy)
    BY <1>2 DEF HostIsCut
  <1>5. <<>> \in Text /\ "ErrSchemeNotParsed" \in Kinds /\ "none" \in Kinds /\ 0 \in Nat
    BY DEF Text, Kinds
  <1>6. NoError \in Failures /\ failure \in Failures
    BY <1>5, FailureIsTyped DEF NoError, Failure
  <1>7. Holds(st, 0, ZeroProxy, Absent, 0) /\ st.proxy = ZeroProxy
    <2>1. st = [next |-> 1, pos |-> 0, proxy |-> ZeroProxy, hostStart |-> Absent, hostEnd |-> 0,
                hostParsed |-> FALSE, schemeParsed |-> FALSE, emptyHost |-> FALSE,
                emptyPort |-> FALSE, err |-> NoError]
      BY DEF Locals, Reset
    <2>2. \A p \in Texts, e \in Failures, a \in Int :
            LET r == [next |-> 1, pos |-> 0, proxy |-> p, hostStart |-> a, hostEnd |-> 0,
                      hostParsed |-> FALSE, schemeParsed |-> FALSE, emptyHost |-> FALSE,
                      emptyPort |-> FALSE, err |-> e]
            IN  r \in LocalState /\ r.next \in Nat /\ r.pos = 0 /\ r.proxy = p
                /\ r.hostStart = a /\ r.hostEnd = 0
      BY SMT DEF LocalState
    <2>3. Absent \in Int
      BY DEF Absent
    <2> QED
      BY <1>2, <1>6, <2>1, <2>2, <2>3 DEF Holds
  <1> HIDE DEF st, failure
  <1>8. InInput(input, 0, ZeroProxy, Absent, 0)
    <2>1. 0 <= n
      BY <1>3
    <2> QED
      BY <1>4, <2>1 DEF InInput
  <1>9. st \in Cursors(input)
    BY <1>7, <1>8, HoldsInInput
  <1>10. [st EXCEPT !.err = failure] \in Cursors(input)
    <2>1. Holds([st EXCEPT !.err = failure], 0, ZeroProxy, Absent, 0)
      BY <1>6, <1>7, SetErr
    <2> QED
      BY <1>8, <2>1, HoldsInInput
  <1>11. ASSUME idx # Absent
         PROVE  [[[st EXCEPT !.proxy = front] EXCEPT !.schemeParsed = found] EXCEPT !.pos = idx + 3]
                  \in Cursors(input)
    <2>1. idx \in Nat /\ idx + 3 <= n
      BY <1>5, <1>11, SeparatorIsText, FindFinds
    <2> HIDE DEF idx
    <2>2. 0 <= idx /\ idx <= n /\ idx + 3 \in Nat
      <3> HIDE DEF n
      <3> QED
        BY <1>3, <2>1, SMT
    <2>3. scheme \in Text
      <3>1. Slice(input, 0, idx) \in Text
        BY <1>5, <2>1, <2>2, CutIsText
      <3> QED
        BY <3>1, SchemeIsText
    <2> DEFINE q == front
               s1 == [st EXCEPT !.proxy = q]
               s2 == [s1 EXCEPT !.schemeParsed = found]
               s3 == [s2 EXCEPT !.pos = idx + 3]
    <2> HIDE DEF scheme
    <2>4. q \in Texts /\ HostIsCut(input, q)
      <3> DEFINE p == st.proxy
      <3>1. p \in Texts /\ p.host = <<>>
        BY <1>2, <1>7
      <3> HIDE DEF p
      <3>2. [p EXCEPT !.scheme = scheme] \in Texts /\ [p EXCEPT !.scheme = scheme].host = p.host
        BY <2>3, <3>1, SetCredentials
      <3>3. q.host = <<>> /\ q \in Texts
        BY <3>1, <3>2 DEF p
      <3> HIDE DEF q
      <3> QED
        BY <3>3 DEF HostIsCut
    <2>5. [[[st EXCEPT !.proxy = front] EXCEPT !.schemeParsed = found] EXCEPT !.pos = idx + 3] = s3
      OBVIOUS
    <2>6. found \in BOOLEAN
      OBVIOUS
    <2> HIDE DEF q, front, found
    <2>7. Holds(s1, 0, q, Absent, 0)
      BY <1>7, <2>4, SetProxy
    <2> HIDE DEF s1
    <2>8. Holds(s2, 0, q, Absent, 0)
      BY <2>6, <2>7, SetSchemeParsed
    <2> HIDE DEF s2
    <2>9. Holds(s3, idx + 3, q, Absent, 0)
      BY <2>2, <2>8, SetPos
    <2> HIDE DEF s3
    <2>10. InInput(input, idx + 3, q, Absent, 0)
      BY <2>1, <2>4 DEF InInput
    <2>11. s3 \in Cursors(input)
      BY <2>9, <2>10, HoldsInInput
    <2> QED
      BY <2>5, <2>11
  <1> HIDE DEF idx, front, found, scheme
  <1> QED
    BY <1>1, <1>9, <1>10, <1>11

-----------------------------------------------------------------------------
(* Every tier parses alike.                                                *)

\* Where the plan's loop ends.
EndOf(parser, input, dst) ==
    LET After[k \in 0 .. Len(parser.plan)] ==
            IF k = 0 THEN Begin(parser, input, dst) ELSE Step(parser, input, After[k - 1], k)
    IN  After[Len(parser.plan)]

\* The locals end in the input.
LEMMA EndIsIn ==
    ASSUME NEW input \in Text, NEW parser, parser.plan \in Seq(Operated), NEW dst
    PROVE  EndOf(parser, input, dst) \in Cursors(input)
  <1> DEFINE n == Len(parser.plan)
             C == Cursors(input)
             base == Begin(parser, input, dst)
             Rounds(g) == g = [k \in 0 .. n |-> IF k = 0 THEN base
                                                ELSE Step(parser, input, g[k - 1], k)]
             step == [k \in 1 .. n |-> [st \in C |-> Step(parser, input, st, k)]]
             after == CHOOSE g : Rounds(g)
  <1>1. n \in Nat
    OBVIOUS
  <1>2. EndOf(parser, input, dst) = after[n]
    BY Zenon DEF EndOf
  <1>3. base \in C
    BY BeginIsIn
  <1>4. \A st \in C, k \in 1 .. n : Step(parser, input, st, k) \in C
    BY StepKeeps
  <1> HIDE DEF base, n, C
  <1>5. step \in [1 .. n -> [C -> C]]
    BY <1>4
  <1>6. PICK f \in [0 .. n -> C] :
            f[0] = base /\ \A i \in 1 .. n : f[i] = step[i][f[i - 1]]
    <2> HIDE DEF step
    <2>1. LoopRuns(C, n, base, step)
      BY <1>1, <1>3, <1>5, LoopExists
    <2> QED
      BY <2>1, Zenon DEF LoopRuns
  <1>7. \A i \in 1 .. n : i \in 0 .. n /\ i # 0 /\ i - 1 \in 0 .. n
    BY <1>1, SMT
  <1>8. \A i \in 1 .. n : f[i] = Step(parser, input, f[i - 1], i)
    BY <1>6, <1>7
  <1>9. Rounds(f)
    <2>1. \A k \in 0 .. n : k # 0 => k \in 1 .. n
      BY <1>1, SMT
    <2>2. \A k \in 0 .. n : f[k] = IF k = 0 THEN base ELSE Step(parser, input, f[k - 1], k)
      BY <1>6, <1>8, <2>1
    <2>3. f = [k \in 0 .. n |-> f[k]]
      BY <1>6
    <2> QED
      BY <2>2, <2>3
  <1>10. Rounds(after)
    <2> HIDE DEF Rounds
    <2> QED
      BY <1>9, Zenon
  <1> HIDE DEF after
  <1>11. after[0] = base /\ \A i \in 1 .. n : after[i] = Step(parser, input, after[i - 1], i)
    <2>1. \A k \in 0 .. n : after[k] = IF k = 0 THEN base ELSE Step(parser, input, after[k - 1], k)
      BY <1>10, Zenon
    <2>2. 0 \in 0 .. n
      BY <1>1, SMT
    <2> QED
      BY <1>7, <2>1, <2>2
  <1>12. \A i \in 1 .. n : after[i - 1] \in C => after[i] = step[i][after[i - 1]]
    BY <1>11
  <1> HIDE DEF step
  <1>13. after[0] = f[0]
    BY <1>6, <1>11
  <1>14. \A i \in 0 .. n : after[i] = f[i]
    <2>1. LoopsAlike(C, n, step, f, after)
      BY <1>6, <1>12, <1>13 DEF LoopsAlike
    <2>2. SameUpTo(n, f, after)
      BY <1>1, <2>1, LoopIsUnique, Zenon
    <2> QED
      BY <2>2 DEF SameUpTo
  <1>15. n \in 0 .. n
    BY <1>1, SMT
  <1>16. after[n] \in C
    BY <1>6, <1>14, <1>15
  <1> QED
    BY <1>2, <1>16 DEF C

\* A parser begins anew whatever its destination holds.
LEMMA DestinationIsReset ==
    ASSUME NEW parser, NEW input, NEW dst
    PROVE  EndOf(parser, input, dst) = EndOf(parser, input, ZeroProxy)
  <1>1. Locals(dst) = Locals(ZeroProxy)
    BY Zenon DEF Locals, Reset
  <1>2. Begin(parser, input, dst) = Begin(parser, input, ZeroProxy)
    BY <1>1, Zenon DEF Begin
  <1> QED
    BY <1>2, Zenon DEF EndOf

\* The short cut is right about what it accepts, so the verdict is the rules'.
LEMMA VerdictsAgree ==
    ASSUME NEW input \in Text, NEW parser, NEW st \in Cursors(input), NEW tier
    PROVE  Verdict(parser, input, st, tier) = Verdict(parser, input, st, "scalar")
  <1> DEFINE p == st.proxy
             indexed == Build(input, tier)
  <1>1. p \in Texts /\ HostIsCut(input, p)
    BY CursorsHold
  <1>2. indexed => Bytes(input) <= MaxLen
    <2> DEFINE b == Bytes(input)
    <2> HIDE DEF b
    <2>1. indexed => b \in 1 .. MaxLen
      BY DEF Build, b
    <2> HIDE DEF indexed
    <2> QED
      BY <2>1, SMT DEF MaxLen, b
  <1>3. isValidFast(input, p, indexed) => Validate(p) = "ok"
    <2> HIDE DEF p, indexed
    <2> QED
      BY <1>1, <1>2, FastProxyIsValid
  <1>4. IsUsable(input, p, tier) <=> Validate(p) = "ok"
    <2> HIDE DEF p
    <2> QED
      BY <1>3, Zenon DEF IsUsable
  <1>5. IsUsable(input, p, "scalar") <=> Validate(p) = "ok"
    <2> HIDE DEF p
    <2> QED
      BY Zenon DEF IsUsable
  <1> QED
    BY <1>4, <1>5, Zenon DEF Verdict

\* The plan's parser gives the same on every tier and into every destination.
LEMMA GenericAgrees ==
    ASSUME NEW input \in Text, NEW parser, parser.plan \in Seq(Operated), NEW dst, NEW tier
    PROVE  /\ parseGeneric(parser, input, dst, tier)
                = parseGeneric(parser, input, ZeroProxy, "scalar")
           /\ parseGeneric(parser, input, dst, tier).proxy \in Texts
  <1> DEFINE end == EndOf(parser, input, ZeroProxy)
  <1>1. end \in Cursors(input)
    BY EndIsIn
  <1>2. EndOf(parser, input, dst) = end
    BY DestinationIsReset
  <1>3. parseGeneric(parser, input, dst, tier)
          = LET e == EndOf(parser, input, dst)
            IN  Result(e.proxy, Verdict(parser, input, e, tier))
    BY Zenon DEF parseGeneric, EndOf
  <1>4. parseGeneric(parser, input, ZeroProxy, "scalar")
          = Result(end.proxy, Verdict(parser, input, end, "scalar"))
    BY Zenon DEF parseGeneric, EndOf
  <1> HIDE DEF end
  <1>5. Verdict(parser, input, end, tier) = Verdict(parser, input, end, "scalar")
    BY <1>1, VerdictsAgree
  <1>6. end.proxy \in Texts
    BY <1>1, CursorsHold
  <1>7. parseGeneric(parser, input, dst, tier)
          = Result(end.proxy, Verdict(parser, input, end, tier))
    BY <1>2, <1>3
  <1>8. Result(end.proxy, Verdict(parser, input, end, tier)).proxy = end.proxy
    BY DEF Result
  <1> QED
    BY <1>4, <1>5, <1>6, <1>7, <1>8

\* Whatever the tier and the destination, a call ends as on the scalar tier.
LEMMA CallsAgree ==
    ASSUME NEW f \in Formats, NEW strict \in BOOLEAN, NEW input \in Text, NEW dst, NEW tier
    PROVE  ParseInto(New(f, strict), input, dst, tier)
             = ParseInto(New(f, strict), input, ZeroProxy, "scalar")
  <1> DEFINE parser == New(f, strict)
             credentials == parser.kind = "strictFullCredentials"
             fast == parseStrictFast(input, credentials, tier)
             slow == IF credentials THEN parseStrictFullCredentials(input)
                     ELSE parseStrictSchemeHostPort(input)
  <1>1. parser.plan \in Seq(Operated)
    BY ParsersAreTyped
  <1>2. ParseInto(parser, input, dst, tier)
          = IF parser.kind = "generic" THEN parseGeneric(parser, input, dst, tier)
            ELSE IF tier # "scalar" /\ fast.handled THEN Result(fast.proxy, fast.err)
            ELSE slow
    BY Zenon DEF ParseInto
  <1>3. ParseInto(parser, input, ZeroProxy, "scalar")
          = IF parser.kind = "generic" THEN parseGeneric(parser, input, ZeroProxy, "scalar")
            ELSE slow
    BY Zenon DEF ParseInto
  <1>4. fast.handled => Result(fast.proxy, fast.err) = slow
    <2>1. credentials \in BOOLEAN
      OBVIOUS
    <2> HIDE DEF credentials
    <2> QED
      BY <2>1, StrictFastAgrees
  <1> HIDE DEF parser, fast, slow
  <1>5. parseGeneric(parser, input, dst, tier)
          = parseGeneric(parser, input, ZeroProxy, "scalar")
    BY <1>1, GenericAgrees
  <1>6. ParseInto(parser, input, dst, tier) = ParseInto(parser, input, ZeroProxy, "scalar")
    BY <1>2, <1>3, <1>4, <1>5
  <1> QED
    BY <1>6 DEF parser

-----------------------------------------------------------------------------
(* The texts that parsers are given.                                       *)

\* Texts put together are put together one by one,
LEMMA FlatRuns ==
    ASSUME NEW seqs \in Seq(Text), NEW n \in Nat, Len(seqs) = n + 1
    PROVE  \E h \in [0 .. n -> Text] :
             /\ h[0] = seqs[1] /\ \A i \in 1 .. n : h[i] = h[i - 1] \o seqs[i + 1]
             /\ FlattenSeq(seqs) = h[n]
  <1> DEFINE m == Len(seqs)
             Rounds(g) == g = [i \in 1 .. m |-> IF i = 1 THEN seqs[i] ELSE g[i - 1] \o seqs[i]]
             flatten == CHOOSE g : Rounds(g)
             base == seqs[1]
             step == [i \in 1 .. n |-> [t \in Text |-> t \o seqs[i + 1]]]
  <1>1. m \in Nat /\ m = n + 1 /\ m # 0 /\ \A i \in 1 .. m : seqs[i] \in Text
    OBVIOUS
  <1>2. FlattenSeq(seqs) = flatten[m]
    BY <1>1, Zenon DEF FlattenSeq
  <1> HIDE DEF m
  <1>3. /\ 1 \in 1 .. m /\ n + 1 = m
        /\ \A i \in 1 .. n : i + 1 \in 1 .. m /\ (i + 1) - 1 = (i - 1) + 1 /\ i + 1 # 1
                             /\ i \in 0 .. n /\ i - 1 \in 0 .. n
        /\ \A i \in 1 .. m : i # 1 => i - 1 \in 1 .. n /\ (i - 1) + 1 = i /\ i - 1 \in 1 .. m
        /\ \A i \in 1 .. m : i - 1 \in 0 .. n
        /\ \A i \in 0 .. n : i + 1 \in 1 .. m /\ (i + 1) - 1 = i
    BY <1>1, SMT
  <1>4. base \in Text
    BY <1>1, <1>3
  <1> HIDE DEF base
  <1>5. \A t \in Text, i \in 1 .. m : t \o seqs[i] \in Text
    <2>1. \A S : \A t \in Seq(S), u \in Seq(S) : t \o u \in Seq(S)
      BY ConcatProperties
    <2> QED
      BY <1>1, <2>1 DEF Text
  <1>6. step \in [1 .. n -> [Text -> Text]]
    BY <1>3, <1>5
  <1>7. PICK h \in [0 .. n -> Text] :
            h[0] = base /\ \A i \in 1 .. n : h[i] = step[i][h[i - 1]]
    <2> HIDE DEF step
    <2>1. LoopRuns(Text, n, base, step)
      BY <1>4, <1>6, LoopExists
    <2> QED
      BY <2>1, Zenon DEF LoopRuns
  <1>8. \A i \in 1 .. n : h[i] = h[i - 1] \o seqs[i + 1]
    BY <1>3, <1>7
  <1> DEFINE f == [i \in 1 .. m |-> h[i - 1]]
  <1>9. Rounds(f)
    <2>1. ASSUME NEW i \in 1 .. m
          PROVE  f[i] = IF i = 1 THEN seqs[i] ELSE f[i - 1] \o seqs[i]
      <3>1. CASE i = 1
        <4>1. 1 - 1 = 0
          OBVIOUS
        <4> QED
          BY <1>7, <3>1, <4>1 DEF base
      <3>2. CASE i # 1
        <4>1. i - 1 \in 1 .. n /\ (i - 1) + 1 = i /\ i - 1 \in 1 .. m
          BY <1>3, <3>2
        <4>2. h[i - 1] = h[(i - 1) - 1] \o seqs[(i - 1) + 1]
          BY <1>8, <4>1
        <4>3. f[i] = h[i - 1] /\ f[i - 1] = h[(i - 1) - 1]
          BY <4>1
        <4> QED
          BY <3>2, <4>1, <4>2, <4>3
      <3> QED
        BY <3>1, <3>2
    <2> DEFINE e == f
    <2>2. e = [i \in 1 .. m |-> e[i]]
      OBVIOUS
    <2>3. \A i \in 1 .. m : e[i] = IF i = 1 THEN seqs[i] ELSE e[i - 1] \o seqs[i]
      BY <2>1
    <2> HIDE DEF e
    <2>4. Rounds(e)
      BY <2>2, <2>3
    <2> QED
      BY <2>4 DEF e
  <1>10. Rounds(flatten)
    <2> HIDE DEF Rounds, f
    <2> QED
      BY <1>9, Zenon
  <1> HIDE DEF flatten, f
  <1>11. \A i \in 1 .. m : flatten[i] = IF i = 1 THEN seqs[i] ELSE flatten[i - 1] \o seqs[i]
    BY <1>10, Zenon
  <1> DEFINE g == [i \in 0 .. n |-> flatten[i + 1]]
  <1>12. g[0] = base
    <2>1. 0 \in 0 .. n /\ 0 + 1 = 1
      OBVIOUS
    <2> QED
      BY <1>3, <1>11, <2>1 DEF base
  <1>13. \A i \in 1 .. n : g[i] = g[i - 1] \o seqs[i + 1]
    <2> TAKE i \in 1 .. n
    <2>1. g[i] = flatten[i + 1] /\ g[i - 1] = flatten[(i - 1) + 1]
      BY <1>3
    <2>2. flatten[i + 1] = flatten[(i + 1) - 1] \o seqs[i + 1]
      BY <1>3, <1>11
    <2> QED
      BY <1>3, <2>1, <2>2
  <1> HIDE DEF g
  <1>14. LoopsAlike(Text, n, step, h, g)
    BY <1>3, <1>7, <1>12, <1>13 DEF LoopsAlike
  <1>15. \A i \in 0 .. n : g[i] = h[i]
    <2>1. SameUpTo(n, h, g)
      BY <1>14, LoopIsUnique, Zenon
    <2> QED
      BY <2>1 DEF SameUpTo
  <1>16. n \in 0 .. n
    OBVIOUS
  <1>17. flatten[m] = g[n]
    BY <1>3, <1>16 DEF g
  <1> QED
    BY <1>2, <1>7, <1>8, <1>15, <1>16, <1>17 DEF base

\* and are a text.
LEMMA FlatIsText ==
    ASSUME NEW seqs \in Seq(Text)
    PROVE  FlattenSeq(seqs) \in Text
  <1>1. CASE Len(seqs) = 0
    <2>1. FlattenSeq(seqs) = seqs
      BY <1>1 DEF FlattenSeq
    <2>2. seqs = <<>>
      BY <1>1
    <2>3. <<>> \in Text
      BY DEF Text
    <2> QED
      BY <2>1, <2>2, <2>3
  <1>2. CASE Len(seqs) # 0
    <2> DEFINE n == Len(seqs) - 1
    <2>1. n \in Nat /\ Len(seqs) = n + 1 /\ n \in 0 .. n
      BY <1>2
    <2> HIDE DEF n
    <2>2. PICK h \in [0 .. n -> Text] : FlattenSeq(seqs) = h[n]
      BY <2>1, FlatRuns
    <2> QED
      BY <2>1, <2>2
  <1> QED
    BY <1>1, <1>2

\* What is written for a field is a text.
LEMMA FieldTextIsText ==
    ASSUME NEW p \in Texts, NEW verb \in Verbs
    PROVE  FieldText(p, verb) \in Text
  <1> DEFINE host == p.host
             colons == { i \in 1 .. Len(host) : host[i] = ":" }
             colon == IF colons # {} THEN Max(colons) ELSE 0
             n == Len(host)
  <1>1. /\ p.scheme \in Text /\ host \in Text /\ p.username \in Text /\ p.password \in Text
    BY FieldsOfTexts
  <1>2. PortColon(host) = colon
    BY DEF PortColon, SelectLastInSeq
  <1> HIDE DEF host
  <1>3. n \in Nat
    BY <1>1 DEF Text
  <1>4. colon \in 0 .. n
    <2>1. CASE colons = {}
      <3>1. colon = 0
        BY <2>1
      <3> HIDE DEF colon
      <3> QED
        BY <1>3, <3>1, SMT
    <2>2. CASE colons # {}
      <3>0. \A i \in 1 .. n : i \in 0 .. n
        <4> HIDE DEF n
        <4> QED
          BY <1>3, SMT
      <3>1. colons \in SUBSET (0 .. n)
        BY <3>0, Zenon
      <3>2. colon \in colons
        BY <1>3, <2>2, <3>1, MaxIsGreatest
      <3> QED
        BY <3>1, <3>2
    <2> QED
      BY <2>1, <2>2
  <1> HIDE DEF colon, n
  <1>5. /\ 1 \in Nat /\ 1 >= 1 /\ colon - 1 \in Int /\ colon - 1 <= n
        /\ colon + 1 \in Nat /\ colon + 1 >= 1 /\ n \in Int /\ n <= n
    BY <1>3, <1>4, SMT
  <1>6. SubSeq(host, 1, colon - 1) \in Text
    BY <1>1, <1>5, SubTextIsText DEF Text, n
  <1>7. SubSeq(host, colon + 1, n) \in Text
    BY <1>1, <1>5, SubTextIsText DEF Text, n
  <1>8. FieldText(p, verb)
          = CASE verb = "t" -> p.scheme
              [] verb = "u" -> p.username
              [] verb = "p" -> p.password
              [] verb = "h" -> SubSeq(host, 1, colon - 1)
              [] verb = "d" -> SubSeq(host, colon + 1, n)
    BY <1>2, Zenon DEF FieldText, host, n
  <1>9. verb \in {"t", "h", "d", "u", "p"}
    BY DEF Verbs
  <1> QED
    BY <1>1, <1>6, <1>7, <1>8, <1>9

\* A line may be damaged and stays a text.
LEMMA DamagedIsText ==
    ASSUME NEW s \in Text, NEW c \in Symbols
    PROVE  /\ \A i \in 1 .. Len(s) + 1 : InsertAt(s, i, c) \in Text
           /\ \A i \in 1 .. Len(s) : RemoveAt(s, i) \in Text /\ ReplaceAt(s, i, c) \in Text
  <1> DEFINE n == Len(s)
  <1>1. n \in Nat
    BY DEF Text
  <1>2. ASSUME NEW i \in 1 .. n + 1
        PROVE  SubSeq(s, 1, i - 1) \in Text /\ SubSeq(s, i, n) \in Text
               /\ SubSeq(s, i + 1, n) \in Text
    <2>1. /\ 1 \in Nat /\ 1 >= 1 /\ i - 1 \in Int /\ i - 1 <= n /\ i \in Nat /\ i >= 1
          /\ n \in Int /\ n <= n /\ i + 1 \in Nat /\ i + 1 >= 1
      <3> HIDE DEF n
      <3> QED
        BY <1>1, SMT
    <2> QED
      BY <2>1, SubTextIsText DEF Text
  <1>3. ASSUME NEW S, NEW a \in S, NEW t \in Seq(S), NEW u \in Seq(S)
        PROVE  t \o <<a>> \o u \in Seq(S) /\ t \o u \in Seq(S)
    OBVIOUS
  <1>4. ASSUME NEW i \in 1 .. n + 1
        PROVE  InsertAt(s, i, c) \in Text
    BY <1>2, <1>3 DEF InsertAt, Text
  <1>5. ASSUME NEW i \in 1 .. n
        PROVE  RemoveAt(s, i) \in Text /\ ReplaceAt(s, i, c) \in Text
    <2>1. i \in 1 .. n + 1
      <3> HIDE DEF n
      <3> QED
        BY <1>1, SMT
    <2>2. RemoveAt(s, i) \in Text
      BY <1>2, <1>3, <2>1 DEF RemoveAt, Text
    <2>3. ReplaceAt(s, i, c) \in Text
      BY <1>5 DEF ReplaceAt, Text
    <2> QED
      BY <2>2, <2>3
  <1> QED
    BY <1>4, <1>5

-----------------------------------------------------------------------------
(* Hosts with a port, and without.                                         *)

\* A valid port is made of digits.
LEMMA PortsAreDigits ==
    ASSUME NEW port \in Text, isValidPort(port)
    PROVE  AllIn(port, Digits) /\ port # <<>> /\ Len(port) \in Nat
  <1> DEFINE n      == Len(port)
             others == { i \in 1 .. n - 1 : port[i] # "0" }
             first  == IF others # {} THEN Min(others) ELSE 0
             z      == IF first = 0 THEN n - 1 ELSE first - 1
             trimmed == Rest(port, z)
  <1>1. n \in Nat /\ port # <<>> /\ n # 0
    BY DEF Text, isValidPort
  <1>2. first = SelectInSubSeq(port, 1, Len(port) - 1, LAMBDA c : c # "0")
    BY DEF SelectInSubSeq
  <1>3. AllIn(trimmed, Digits)
    BY <1>2, Zenon DEF isValidPort
  <1>4. z \in 0 .. n - 1 /\ \A i \in 1 .. z : port[i] = "0"
    <2>1. CASE others = {}
      <3>1. z = n - 1
        BY <2>1
      <3>2. n - 1 \in 0 .. n - 1
        BY <1>1, SMT
      <3> HIDE DEF z
      <3> QED
        BY <2>1, <3>1, <3>2
    <2>2. CASE others # {}
      <3> DEFINE m == Min(others)
      <3>0. others \in SUBSET Nat
        BY <1>1, SMT
      <3> HIDE DEF others
      <3>1. m \in others /\ \A x \in others : m <= x
        BY <2>2, <3>0, MinIsLeast
      <3> USE DEF others
      <3> HIDE DEF m
      <3>2. m \in 1 .. n - 1 /\ first = m
        BY <2>2, <3>1 DEF m
      <3>3. z = m - 1
        <4>1. m # 0
          BY <3>2, SMT
        <4> QED
          BY <3>2, <4>1
      <3> HIDE DEF z, first
      <3>4. m - 1 \in 0 .. n - 1 /\ \A i \in 1 .. m - 1 : i \in 1 .. n - 1 /\ ~ (m <= i)
        BY <1>1, <3>2, SMT
      <3> QED
        BY <3>1, <3>3, <3>4
    <2> QED
      BY <2>1, <2>2
  <1> HIDE DEF z, first
  <1>5. Len(trimmed) = n - z /\ \A i \in 1 .. n - z : trimmed[i] = port[z + i]
    <2>1. trimmed = Slice(port, z, n)
      BY RestIsSlice
    <2>2. z \in Nat /\ z <= n /\ n <= Len(port)
      BY <1>1, <1>4, SMT
    <2> HIDE DEF trimmed
    <2> QED
      BY <1>1, <2>1, <2>2, SliceIsText
  <1> HIDE DEF trimmed
  <1>6. \A i \in 1 .. n : i \in 1 .. z \/ (i - z \in 1 .. n - z /\ z + (i - z) = i)
    <2> HIDE DEF n
    <2> QED
      BY <1>1, <1>4, SMT
  <1>7. ASSUME NEW i \in 1 .. n
        PROVE  port[i] \in Digits
    <2>1. CASE i \in 1 .. z
      BY <1>4, <2>1 DEF Digits
    <2>2. CASE i - z \in 1 .. n - z /\ z + (i - z) = i
      <3>1. trimmed[i - z] \in Digits
        BY <1>3, <1>5, <2>2 DEF AllIn
      <3> QED
        BY <1>5, <2>2, <3>1
    <2> QED
      BY <1>6, <2>1, <2>2
  <1> QED
    BY <1>1, <1>7 DEF AllIn

\* Two symbols are two bytes or more.
LEMMA TwoBytes ==
    ASSUME NEW s \in Text, Len(s) >= 2
    PROVE  ~ (Bytes(s) < 2)
  <1> DEFINE b == Bytes(s)
             n == Len(s)
  <1>1. n \in Nat /\ n >= 2
    BY DEF Text
  <1>2. 0 \in Nat /\ 0 <= 0 /\ 0 <= Len(s)
    BY <1>1
  <1>3. b \in Nat /\ b >= n
    BY <1>2, BytesOfPart
  <1> HIDE DEF b, n
  <1>4. ~ (b < 2)
    BY <1>1, <1>3, SMT
  <1> QED
    BY <1>4 DEF b

\* The first place of a symbol is where IndexByte finds it.
LEMMA IndexByteIs ==
    ASSUME NEW s \in Text, NEW c, NEW from \in Nat, NEW k \in Nat, from <= k, k < Len(s),
           s[k + 1] = c, \A i \in from + 1 .. k : s[i] # c
    PROVE  IndexByte(s, c, from) = k
  <1> DEFINE f == IndexByte(s, c, from)
             n == Len(s)
  <1>1. \/ /\ f = Absent
           /\ \A i \in from + 1 .. n : s[i] # c
        \/ /\ f \in from .. n - 1
           /\ s[f + 1] = c
           /\ \A i \in from + 1 .. f : s[i] # c
    BY IndexByteFinds
  <1>2. n \in Nat /\ k < n
    BY DEF Text
  <1> HIDE DEF f, n
  <1>3. k + 1 \in from + 1 .. n
    BY <1>2, SMT
  <1>4. f \in from .. n - 1 /\ s[f + 1] = c /\ \A i \in from + 1 .. f : s[i] # c
    BY <1>1, <1>3
  <1>5. ~ (f < k)
    <2>1. f < k => f + 1 \in from + 1 .. k
      BY <1>2, <1>4, SMT
    <2> QED
      BY <1>4, <2>1
  <1>6. ~ (k < f)
    <2>1. k < f => k + 1 \in from + 1 .. f
      BY <1>2, <1>4, SMT
    <2> QED
      BY <1>4, <2>1
  <1>7. f = k
    BY <1>2, <1>4, <1>5, <1>6, SMT
  <1> QED
    BY <1>7 DEF f

\* A symbol that is nowhere is not found.
LEMMA IndexByteIsAbsent ==
    ASSUME NEW s \in Text, NEW c, NEW from \in Nat, \A i \in from + 1 .. Len(s) : s[i] # c
    PROVE  IndexByte(s, c, from) = Absent
  <1> DEFINE f == IndexByte(s, c, from)
             n == Len(s)
  <1>1. \/ f = Absent
        \/ f \in from .. n - 1 /\ s[f + 1] = c
    BY IndexByteFinds
  <1>2. n \in Nat
    BY DEF Text
  <1>3. \A i \in from + 1 .. n : s[i] # c
    OBVIOUS
  <1> HIDE DEF f, n
  <1>4. f \in from .. n - 1 => f + 1 \in from + 1 .. n
    BY <1>2, SMT
  <1>5. f = Absent
    BY <1>1, <1>3, <1>4
  <1> QED
    BY <1>5 DEF f

\* A host without brackets and without a port, as Validate takes it,
PlainHost(h) ==
    /\ h \in Text /\ Len(h) >= 1
    /\ h[1] # "[" /\ (\A i \in 1 .. Len(h) : h[i] # ":")
    /\ IsValidHost(h)

\* and one in brackets.
BracketedHost(h) ==
    /\ h \in Text /\ Len(h) >= 2
    /\ h[1] = "[" /\ h[Len(h)] = "]" /\ (\A i \in 1 .. Len(h) - 1 : h[i] # "]")
    /\ Slice(h, 1, Len(h) - 1) # <<>> /\ isValidIPLiteral(Slice(h, 1, Len(h) - 1))

\* One sequence behind another, and a symbol between them.
LEMMA OneBetween ==
    ASSUME NEW S, NEW a \in Seq(S), NEW c \in S, NEW b \in Seq(S), NEW t, t = a \o <<c>> \o b
    PROVE  /\ t \in Seq(S) /\ Len(t) = Len(a) + 1 + Len(b)
           /\ \A i \in 1 .. Len(a) : t[i] = a[i]
           /\ t[Len(a) + 1] = c
           /\ \A i \in 1 .. Len(b) : t[Len(a) + 1 + i] = b[i]
  OBVIOUS

WithPort(h, d) == h \o <<":">> \o d

\* A host, a colon and a port are what they were put together of.
LEMMA JoinedParts ==
    ASSUME NEW h \in Text, NEW d \in Text
    PROVE  /\ WithPort(h, d) \in Text /\ Len(WithPort(h, d)) = Len(h) + 1 + Len(d)
           /\ Len(h) \in Nat /\ Len(d) \in Nat
           /\ \A i \in 1 .. Len(h) : WithPort(h, d)[i] = h[i]
           /\ WithPort(h, d)[Len(h) + 1] = ":"
           /\ \A i \in 1 .. Len(d) : WithPort(h, d)[Len(h) + 1 + i] = d[i]
  <1> DEFINE t == WithPort(h, d)
  <1>1. ":" \in Symbols
    BY TextsAssumption
  <1>2. t = h \o <<":">> \o d
    BY DEF WithPort
  <1> HIDE DEF t
  <1>3. /\ t \in Text /\ Len(t) = Len(h) + 1 + Len(d)
        /\ \A i \in 1 .. Len(h) : t[i] = h[i]
        /\ t[Len(h) + 1] = ":"
        /\ \A i \in 1 .. Len(d) : t[Len(h) + 1 + i] = d[i]
    BY <1>1, <1>2, OneBetween DEF Text
  <1>4. Len(h) \in Nat /\ Len(d) \in Nat
    BY DEF Text
  <1> QED
    BY <1>3, <1>4 DEF t

\* The last colon of a host and port.
LEMMA PortColonIs ==
    ASSUME NEW s \in Text, NEW k \in 1 .. Len(s), s[k] = ":",
           \A i \in k + 1 .. Len(s) : s[i] # ":"
    PROVE  PortColon(s) = k
  <1> DEFINE n == Len(s)
             colons == { i \in 1 .. n : s[i] = ":" }
  <1>1. PortColon(s) = IF colons # {} THEN Max(colons) ELSE 0
    BY DEF PortColon, SelectLastInSeq
  <1>2. n \in Nat /\ k \in colons
    BY DEF Text
  <1>3. \A i \in 1 .. n : i \in 0 .. n
    <2> HIDE DEF n
    <2> QED
      BY <1>2, SMT
  <1>4. colons \in SUBSET (0 .. n)
    BY <1>3, Zenon
  <1>5. Max(colons) \in colons /\ Max(colons) \in Nat /\ \A x \in colons : x <= Max(colons)
    BY <1>2, <1>4, MaxIsGreatest
  <1> DEFINE m == Max(colons)
  <1>6. m \in 1 .. n /\ s[m] = ":" /\ m \in Nat /\ k <= m
    BY <1>2, <1>5
  <1>7. \A i \in k + 1 .. n : s[i] # ":"
    OBVIOUS
  <1> HIDE DEF m, n
  <1>8. ~ (k < m)
    <2>1. k < m => m \in k + 1 .. n
      BY <1>6, SMT
    <2> QED
      BY <1>6, <1>7, <2>1
  <1>9. k \in Nat
    OBVIOUS
  <1>10. m = k
    BY <1>6, <1>8, <1>9, SMT
  <1> QED
    BY <1>1, <1>2, <1>10 DEF m

\* A host without brackets and a port are split at their only colon.
LEMMA PlainSplits ==
    ASSUME NEW s \in Text, NEW c \in Nat, c >= 1, c < Len(s), s[1] # "[", s[c + 1] = ":",
           \A i \in 1 .. c : s[i] # ":", \A i \in c + 2 .. Len(s) : s[i] # ":"
    PROVE  SplitHostnamePort(s)
             = [host |-> Slice(s, 0, c), port |-> Rest(s, c + 1), bracketed |-> FALSE, ok |-> TRUE]
  <1>1. Len(s) \in Nat
    BY DEF Text
  <1>2. /\ 0 \in Nat /\ 0 <= c /\ 0 + 1 = 1 /\ c + 1 \in Nat /\ (c + 1) + 1 = c + 2
        /\ c # Absent /\ Len(s) >= 2
    BY <1>1, SMT DEF Absent
  <1>3. IndexByte(s, ":", 0) = c
    BY <1>2, IndexByteIs
  <1>4. IndexByte(s, ":", c + 1) = Absent
    BY <1>2, IndexByteIsAbsent
  <1>5. ~ (Bytes(s) < 2)
    BY <1>2, TwoBytes
  <1> QED
    BY <1>2, <1>3, <1>4, <1>5, Zenon DEF SplitHostnamePort

\* A host in brackets and a port are split behind the first closing bracket.
LEMMA BracketsSplit ==
    ASSUME NEW s \in Text, NEW e \in Nat, e >= 1, e + 1 < Len(s), s[1] = "[", s[e + 1] = "]",
           \A i \in 1 .. e : s[i] # "]", s[e + 2] = ":"
    PROVE  SplitHostnamePort(s)
             = [host |-> Slice(s, 1, e), port |-> Rest(s, e + 2), bracketed |-> TRUE, ok |-> TRUE]
  <1>1. Len(s) \in Nat
    BY DEF Text
  <1>2. /\ 0 \in Nat /\ 0 <= e /\ 0 + 1 = 1 /\ e < Len(s)
        /\ e # Absent /\ Len(s) >= 2 /\ ~ (e + 1 >= Len(s))
    BY <1>1, SMT DEF Absent
  <1>3. IndexByte(s, "]", 0) = e
    BY <1>2, IndexByteIs
  <1>4. ~ (Bytes(s) < 2)
    BY <1>2, TwoBytes
  <1> QED
    BY <1>2, <1>3, <1>4, Zenon DEF SplitHostnamePort

\* What is split has one of these forms.
LEMMA SplitForms ==
    ASSUME NEW s \in Text, s # <<>>, SplitHostnamePort(s).ok
    PROVE  \/ /\ s[1] # "["
              /\ \E c \in 0 .. Len(s) - 1 :
                   /\ s[c + 1] = ":" /\ (\A i \in 1 .. c : s[i] # ":")
                   /\ \A i \in c + 2 .. Len(s) : s[i] # ":"
                   /\ SplitHostnamePort(s) = [host |-> Slice(s, 0, c), port |-> Rest(s, c + 1),
                                              bracketed |-> FALSE, ok |-> TRUE]
           \/ /\ s[1] = "["
              /\ \E e \in 1 .. Len(s) - 2 :
                   /\ s[e + 1] = "]" /\ (\A i \in 1 .. e : s[i] # "]") /\ s[e + 2] = ":"
                   /\ SplitHostnamePort(s) = [host |-> Slice(s, 1, e), port |-> Rest(s, e + 2),
                                              bracketed |-> TRUE, ok |-> TRUE]
  <1> DEFINE n == Len(s)
             end == IndexByte(s, "]", 0)
             colon == IndexByte(s, ":", 0)
             failed == [host |-> <<>>, port |-> <<>>, bracketed |-> FALSE, ok |-> FALSE]
             inBrackets == [host |-> Slice(s, 1, end), port |-> Rest(s, end + 2),
                            bracketed |-> TRUE, ok |-> TRUE]
             plain == [host |-> Slice(s, 0, colon), port |-> Rest(s, colon + 1),
                       bracketed |-> FALSE, ok |-> TRUE]
  <1>1. SplitHostnamePort(s)
          = IF Bytes(s) < 2 THEN failed
            ELSE IF s[1] = "["
            THEN IF end = Absent \/ end + 1 >= n \/ s[end + 2] # ":" THEN failed ELSE inBrackets
            ELSE IF colon = Absent \/ IndexByte(s, ":", colon + 1) # Absent THEN failed ELSE plain
    BY Zenon DEF SplitHostnamePort
  <1>2. failed.ok = FALSE
    OBVIOUS
  <1>3. n \in Nat /\ 0 \in Nat /\ 0 + 1 = 1
    BY DEF Text
  <1>4. CASE s[1] = "["
    <2>1. /\ SplitHostnamePort(s) = inBrackets
          /\ end # Absent /\ ~ (end + 1 >= n) /\ s[end + 2] = ":"
      <3> HIDE DEF failed, inBrackets, plain, n, end, colon
      <3> QED
        BY <1>1, <1>2, <1>4, Zenon
    <2>2. end \in 0 .. n - 1 /\ s[end + 1] = "]" /\ \A i \in 1 .. end : s[i] # "]"
      BY <1>3, <2>1, IndexByteFinds
    <2>3. end # 0
      <3> HIDE DEF end
      <3>1. end = 0 => s[1] = "]"
        BY <2>2
      <3> QED
        BY <1>4, <3>1
    <2>4. end \in 1 .. n - 2
      <3> HIDE DEF n, end
      <3> QED
        BY <1>3, <2>1, <2>2, <2>3, SMT
    <2> HIDE DEF end
    <2>5. SplitHostnamePort(s) = [host |-> Slice(s, 1, end), port |-> Rest(s, end + 2),
                                  bracketed |-> TRUE, ok |-> TRUE]
      BY <2>1
    <2> QED
      BY <1>4, <2>1, <2>2, <2>4, <2>5, Zenon
  <1>5. CASE s[1] # "["
    <2>1. /\ SplitHostnamePort(s) = plain
          /\ colon # Absent /\ IndexByte(s, ":", colon + 1) = Absent
      <3> HIDE DEF failed, inBrackets, plain, n, end, colon
      <3> QED
        BY <1>1, <1>2, <1>5, Zenon
    <2>2. colon \in 0 .. n - 1 /\ s[colon + 1] = ":" /\ \A i \in 1 .. colon : s[i] # ":"
      BY <1>3, <2>1, IndexByteFinds
    <2>3. colon + 1 \in Nat /\ (colon + 1) + 1 = colon + 2 /\ ~ (Absent \in colon + 1 .. n - 1)
      <3> HIDE DEF n, colon
      <3> QED
        BY <1>3, <2>2, SMT DEF Absent
    <2>4. \A i \in colon + 2 .. n : s[i] # ":"
      <3> HIDE DEF colon
      <3> QED
        BY <2>1, <2>3, IndexByteFinds
    <2> HIDE DEF colon
    <2>5. SplitHostnamePort(s) = [host |-> Slice(s, 0, colon), port |-> Rest(s, colon + 1),
                                  bracketed |-> FALSE, ok |-> TRUE]
      BY <2>1
    <2> QED
      BY <1>5, <2>2, <2>4, <2>5, Zenon
  <1> QED
    BY <1>4, <1>5

\* A host alone is not split.
LEMMA HostsAreNotSplit ==
    ASSUME NEW h, PlainHost(h) \/ BracketedHost(h)
    PROVE  ~ SplitHostnamePort(h).ok
  <1> DEFINE n == Len(h)
  <1>1. h \in Text /\ n \in Nat
    BY DEF PlainHost, BracketedHost, Text
  <1>2. h # <<>>
    <2>1. n >= 1
      BY <1>1 DEF PlainHost, BracketedHost
    <2>2. Len(<<>>) = 0
      OBVIOUS
    <2> QED
      BY <2>1, <2>2
  <1> SUFFICES ASSUME SplitHostnamePort(h).ok
               PROVE  FALSE
    OBVIOUS
  <1>3. \/ h[1] # "[" /\ \E c \in 0 .. n - 1 : h[c + 1] = ":"
        \/ h[1] = "[" /\ \E e \in 1 .. n - 2 : h[e + 1] = "]"
    BY <1>1, <1>2, SplitForms
  <1>4. CASE PlainHost(h)
    <2>1. h[1] # "[" /\ \A i \in 1 .. n : h[i] # ":"
      BY <1>4 DEF PlainHost
    <2>2. PICK c \in 0 .. n - 1 : h[c + 1] = ":"
      BY <1>3, <2>1
    <2>3. c + 1 \in 1 .. n
      <3> HIDE DEF n
      <3> QED
        BY <1>1, SMT
    <2> QED
      BY <2>1, <2>2, <2>3
  <1>5. CASE BracketedHost(h)
    <2>1. h[1] = "[" /\ \A i \in 1 .. n - 1 : h[i] # "]"
      BY <1>5 DEF BracketedHost
    <2>2. PICK e \in 1 .. n - 2 : h[e + 1] = "]"
      BY <1>3, <2>1
    <2>3. e + 1 \in 1 .. n - 1
      <3> HIDE DEF n
      <3> QED
        BY <1>1, SMT
    <2> QED
      BY <2>1, <2>2, <2>3
  <1> QED
    BY <1>4, <1>5

\* A valid host with a valid port behind it is valid.
LEMMA WithPortIsValid ==
    ASSUME NEW h, PlainHost(h) \/ BracketedHost(h), NEW d \in Text, isValidPort(d)
    PROVE  validateHostnamePort(WithPort(h, d)) = "ok"
  <1> DEFINE n == Len(h)
             m == Len(d)
             t == WithPort(h, d)
  <1>1. h \in Text
    BY DEF PlainHost, BracketedHost
  <1>2. /\ t \in Text /\ Len(t) = n + 1 + m /\ n \in Nat /\ m \in Nat
        /\ (\A i \in 1 .. n : t[i] = h[i]) /\ t[n + 1] = ":"
        /\ \A i \in 1 .. m : t[n + 1 + i] = d[i]
    BY <1>1, JoinedParts
  <1> HIDE DEF t
  <1>3. d # <<>> /\ (\A i \in 1 .. m : d[i] # ":")
    BY PortsAreDigits DEF AllIn, Digits
  <1>4. t # <<>>
    <2>1. Len(<<>>) = 0 /\ n + 1 + m # 0
      BY <1>2
    <2> QED
      BY <1>2, <2>1
  <1>5. Rest(t, n + 1) = d
    <2> DEFINE part == Slice(t, n + 1, Len(t))
    <2>1. n + 1 \in Nat /\ n + 1 <= Len(t) /\ Len(t) <= Len(t) /\ Len(t) \in Nat
          /\ Len(t) - (n + 1) = m
      BY <1>2
    <2>2. /\ part \in Text /\ Len(part) = Len(t) - (n + 1)
          /\ \A i \in 1 .. Len(t) - (n + 1) : part[i] = t[n + 1 + i]
      <3> HIDE DEF n
      <3> QED
        BY <1>2, <2>1, SliceIsText
    <2> HIDE DEF part
    <2>3. part = d
      BY <1>2, <2>1, <2>2, SameText
    <2> USE DEF part
    <2> QED
      BY <1>2, <2>3, RestIsSlice
  <1>6. \A i \in n + 2 .. Len(t) : t[i] # ":"
    <2> TAKE i \in n + 2 .. Len(t)
    <2>1. i - (n + 1) \in 1 .. m /\ n + 1 + (i - (n + 1)) = i
      BY <1>2
    <2> QED
      BY <1>2, <1>3, <2>1
  <1>7. CASE PlainHost(h)
    <2>1. /\ h[1] # "[" /\ (\A i \in 1 .. n : h[i] # ":") /\ n >= 1
          /\ IsValidHost(h) /\ h # <<>>
      BY <1>7 DEF PlainHost, IsValidHost
    <2>2. n < Len(t) /\ 1 \in 1 .. n
      BY <1>2, <2>1
    <2> DEFINE pair == [host |-> Slice(t, 0, n), port |-> Rest(t, n + 1),
                        bracketed |-> FALSE, ok |-> TRUE]
    <2>3. SplitHostnamePort(t) = pair
      BY <1>2, <1>6, <2>1, <2>2, PlainSplits
    <2>4. Slice(t, 0, n) = h
      <3>1. 0 \in Nat /\ 0 <= n /\ n <= Len(t) /\ n - 0 = n /\ \A i \in 1 .. n : 0 + i = i
        BY <1>2
      <3>2. /\ Slice(t, 0, n) \in Text /\ Len(Slice(t, 0, n)) = n - 0
            /\ \A i \in 1 .. n - 0 : Slice(t, 0, n)[i] = t[0 + i]
        <4> HIDE DEF n
        <4> QED
          BY <1>2, <3>1, SliceIsText
      <3> QED
        BY <1>1, <1>2, <3>1, <3>2, SameText
    <2>5. pair.host = h /\ pair.port = d /\ pair.bracketed = FALSE /\ pair.ok = TRUE
      BY <1>5, <2>4
    <2> HIDE DEF pair
    <2>6. validateHostnamePort(t) = "ok"
      BY <1>4, <2>1, <2>3, <2>5, Zenon DEF validateHostnamePort
    <2> QED
      BY <2>6 DEF t
  <1>8. CASE BracketedHost(h)
    <2> DEFINE e == n - 1
    <2>1. /\ h[1] = "[" /\ h[n] = "]" /\ (\A i \in 1 .. e : h[i] # "]") /\ n >= 2
          /\ Slice(h, 1, e) # <<>> /\ isValidIPLiteral(Slice(h, 1, e))
      BY <1>8 DEF BracketedHost
    <2>2. /\ e \in Nat /\ e >= 1 /\ e + 1 < Len(t) /\ e + 1 = n /\ e + 2 = n + 1
          /\ n \in 1 .. n /\ 1 \in 1 .. n /\ \A i \in 1 .. e : i \in 1 .. n
      BY <1>2, <2>1
    <2> HIDE DEF e
    <2> DEFINE pair == [host |-> Slice(t, 1, e), port |-> Rest(t, e + 2),
                        bracketed |-> TRUE, ok |-> TRUE]
    <2>3. SplitHostnamePort(t) = pair
      BY <1>2, <2>1, <2>2, BracketsSplit
    <2>4. Slice(t, 1, e) = Slice(h, 1, e)
      <3>1. 1 \in Nat /\ 1 <= e /\ e <= Len(t) /\ e <= n
            /\ \A i \in 1 .. e - 1 : 1 + i \in 1 .. n
        BY <1>2, <2>2
      <3>2. /\ Slice(t, 1, e) \in Text /\ Len(Slice(t, 1, e)) = e - 1
            /\ (\A i \in 1 .. e - 1 : Slice(t, 1, e)[i] = t[1 + i])
            /\ Slice(h, 1, e) \in Text /\ Len(Slice(h, 1, e)) = e - 1
            /\ \A i \in 1 .. e - 1 : Slice(h, 1, e)[i] = h[1 + i]
        BY <1>1, <1>2, <2>2, <3>1, SliceIsText
      <3>3. \A i \in 1 .. e - 1 : Slice(t, 1, e)[i] = Slice(h, 1, e)[i]
        BY <1>2, <3>1, <3>2
      <3> QED
        BY <3>2, <3>3, SameText
    <2>5. /\ pair.host = Slice(h, 1, e) /\ pair.port = d
          /\ pair.bracketed = TRUE /\ pair.ok = TRUE
      BY <1>5, <2>2, <2>4
    <2> HIDE DEF pair
    <2>6. validateHostnamePort(t) = "ok"
      BY <1>4, <2>1, <2>3, <2>5, Zenon DEF validateHostnamePort
    <2> QED
      BY <2>6 DEF t
  <1> QED
    BY <1>7, <1>8

\* Nothing is behind the end of a text.
LEMMA EndIsEmpty ==
    ASSUME NEW s \in Text, NEW n \in Nat, Len(s) = n + 1
    PROVE  Rest(s, n + 1) = <<>>
  <1>1. n + 1 \in Nat /\ n + 1 <= Len(s) /\ (n + 1) - (n + 1) = 0
    BY SMT
  <1>2. Slice(s, n + 1, n + 1) \in Text /\ Len(Slice(s, n + 1, n + 1)) = 0
    BY <1>1, SliceIsText
  <1>3. Slice(s, n + 1, n + 1) = <<>>
    BY <1>2 DEF Text
  <1> QED
    BY <1>3, RestIsSlice

\* A host ends in no colon; one that was put behind it makes an empty port and
\* is trimmed off.
LEMMA ColonIsTrimmed ==
    ASSUME NEW h, PlainHost(h) \/ BracketedHost(h)
    PROVE  /\ h \in Text /\ h # <<>> /\ TrimmedHost(h) = h
           /\ Append(h, ":") # <<>> /\ TrimmedHost(Append(h, ":")) = h
           /\ SplitHostnamePort(Append(h, ":")).port = <<>>
  <1> DEFINE n == Len(h)
             t == Append(h, ":")
  <1>1. h \in Text /\ n \in Nat /\ n >= 1
    BY DEF PlainHost, BracketedHost, Text
  <1>2. h # <<>>
    <2>1. Len(<<>>) = 0
      OBVIOUS
    <2> QED
      BY <1>1, <2>1
  <1>3. h[n] # ":"
    <2>1. n \in 1 .. n
      BY <1>1
    <2> QED
      BY <2>1 DEF PlainHost, BracketedHost
  <1>4. TrimmedHost(h) = h
    BY <1>3 DEF TrimmedHost, Last
  <1>5. ":" \in Symbols
    BY TextsAssumption
  <1>6. /\ t \in Text /\ Len(t) = n + 1 /\ t[n + 1] = ":" /\ t # <<>>
        /\ (\A i \in 1 .. n : t[i] = h[i]) /\ SubSeq(t, 1, (n + 1) - 1) = h
    <2>1. ASSUME NEW S, NEW s \in Seq(S), NEW c \in S
          PROVE  /\ Append(s, c) \in Seq(S) /\ Len(Append(s, c)) = Len(s) + 1
                 /\ Append(s, c)[Len(s) + 1] = c /\ Append(s, c) # <<>>
                 /\ (\A i \in 1 .. Len(s) : Append(s, c)[i] = s[i])
                 /\ SubSeq(Append(s, c), 1, (Len(s) + 1) - 1) = s
      OBVIOUS
    <2> QED
      BY <1>1, <1>5, <2>1 DEF Text
  <1> HIDE DEF t, n
  <1>7. TrimmedHost(t) = h
    BY <1>6 DEF TrimmedHost, Last, Front
  <1>8. SplitHostnamePort(t).port = <<>>
    <2>1. CASE PlainHost(h)
      <3>1. h[1] # "[" /\ \A i \in 1 .. n : h[i] # ":"
        BY <2>1 DEF PlainHost, n
      <3>2. /\ n < Len(t) /\ 1 \in 1 .. n
            /\ \A i \in n + 2 .. Len(t) : FALSE
        BY <1>1, <1>6
      <3>3. SplitHostnamePort(t)
              = [host |-> Slice(t, 0, n), port |-> Rest(t, n + 1), bracketed |-> FALSE, ok |-> TRUE]
        BY <1>1, <1>6, <3>1, <3>2, PlainSplits
      <3>4. SplitHostnamePort(t).port = Rest(t, n + 1)
        BY <3>3
      <3> QED
        BY <1>1, <1>6, <3>4, EndIsEmpty
    <2>2. CASE BracketedHost(h)
      <3> DEFINE e == n - 1
      <3>1. h[1] = "[" /\ h[n] = "]" /\ (\A i \in 1 .. e : h[i] # "]") /\ n >= 2
        BY <2>2 DEF BracketedHost, n
      <3>2. /\ e \in Nat /\ e >= 1 /\ e + 1 < Len(t) /\ e + 1 = n /\ e + 2 = n + 1
            /\ n \in 1 .. n /\ 1 \in 1 .. n /\ \A i \in 1 .. e : i \in 1 .. n
        BY <1>1, <1>6, <3>1
      <3> HIDE DEF e
      <3>3. SplitHostnamePort(t)
              = [host |-> Slice(t, 1, e), port |-> Rest(t, e + 2), bracketed |-> TRUE, ok |-> TRUE]
        BY <1>6, <3>1, <3>2, BracketsSplit
      <3>4. SplitHostnamePort(t).port = Rest(t, n + 1)
        BY <3>2, <3>3
      <3> QED
        BY <1>1, <1>6, <3>4, EndIsEmpty
    <2> QED
      BY <2>1, <2>2
  <1> QED
    BY <1>1, <1>2, <1>4, <1>6, <1>7, <1>8 DEF t

\* What is valid is a valid host, a colon and a valid port.
LEMMA ValidHostParts ==
    ASSUME NEW s \in Text, validateHostnamePort(s) = "ok"
    PROVE  LET h == SubSeq(s, 1, PortColon(s) - 1)
           IN  /\ PlainHost(h) \/ BracketedHost(h)
               /\ s # <<>> /\ SplitHostnamePort(s).ok /\ SplitHostnamePort(s).port # <<>>
  <1> DEFINE n == Len(s)
             pair == SplitHostnamePort(s)
             h == SubSeq(s, 1, PortColon(s) - 1)
  <1>1. /\ s # <<>> /\ pair.ok /\ isValidPort(pair.port) /\ pair.host # <<>>
        /\ IF pair.bracketed THEN isValidIPLiteral(pair.host) ELSE IsValidHost(pair.host)
    <2>1. "ok" # "ErrInvalidPort" /\ "ok" # "ErrInvalidHost"
      OBVIOUS
    <2> QED
      BY <2>1, Zenon DEF validateHostnamePort
  <1>2. n \in Nat /\ n \in Int /\ n <= n
    BY DEF Text
  <1>3. pair.port # <<>>
    BY <1>1, Zenon DEF isValidPort
  <1>4. CASE s[1] # "["
    <2>1. PICK c \in 0 .. n - 1 :
             /\ s[c + 1] = ":" /\ (\A i \in 1 .. c : s[i] # ":")
             /\ \A i \in c + 2 .. n : s[i] # ":"
             /\ pair = [host |-> Slice(s, 0, c), port |-> Rest(s, c + 1),
                        bracketed |-> FALSE, ok |-> TRUE]
      BY <1>1, <1>4, SplitForms, Zenon
    <2>2. pair.host = Slice(s, 0, c) /\ ~ pair.bracketed
      BY <2>1
    <2> HIDE DEF pair, n
    <2>3. /\ c + 1 \in 1 .. n /\ (c + 1) + 1 = c + 2 /\ (c + 1) - 1 = c /\ c \in Nat
          /\ 0 \in Nat /\ 0 <= c /\ c <= n /\ 0 + 1 = 1 /\ c - 0 = c /\ \A i \in 1 .. c : 0 + i = i
      BY <1>2, SMT
    <2>4. PortColon(s) = c + 1
      BY <2>1, <2>3, PortColonIs DEF n
    <2>5. h = Slice(s, 0, c)
      BY <2>3, <2>4, Zenon DEF Slice
    <2>6. h \in Text /\ Len(h) = c /\ \A i \in 1 .. c : h[i] = s[i]
      <3>1. /\ Slice(s, 0, c) \in Text /\ Len(Slice(s, 0, c)) = c - 0
            /\ \A i \in 1 .. c - 0 : Slice(s, 0, c)[i] = s[0 + i]
        BY <2>3, SliceIsText DEF n
      <3> QED
        BY <2>3, <2>5, <3>1
    <2> HIDE DEF h
    <2>7. c # 0
      <3>1. Len(h) = 0 => h = <<>>
        BY <2>6 DEF Text
      <3> QED
        BY <1>1, <2>2, <2>5, <2>6, <3>1
    <2>8. c >= 1 /\ 1 \in 1 .. c
      BY <2>3, <2>7, SMT
    <2>9. h[1] # "[" /\ \A i \in 1 .. c : h[i] # ":"
      BY <1>4, <2>1, <2>6, <2>8
    <2>10. IsValidHost(h)
      BY <1>1, <2>2, <2>5
    <2>11. PlainHost(h)
      BY <2>6, <2>8, <2>9, <2>10 DEF PlainHost
    <2> QED
      BY <1>1, <1>3, <2>11 DEF h, pair
  <1>5. CASE s[1] = "["
    <2>1. PICK e \in 1 .. n - 2 :
             /\ s[e + 1] = "]" /\ (\A i \in 1 .. e : s[i] # "]") /\ s[e + 2] = ":"
             /\ pair = [host |-> Slice(s, 1, e), port |-> Rest(s, e + 2),
                        bracketed |-> TRUE, ok |-> TRUE]
      BY <1>1, <1>5, SplitForms, Zenon
    <2>2. pair.host = Slice(s, 1, e) /\ pair.port = Rest(s, e + 2) /\ pair.bracketed
      BY <2>1
    <2> HIDE DEF pair, n
    <2>3. /\ e + 2 \in 1 .. n /\ (e + 2) - 1 = e + 1 /\ e \in Nat /\ e + 2 \in Nat
          /\ 0 \in Nat /\ 0 <= e + 1 /\ e + 1 <= n /\ e + 1 \in Nat /\ 0 + 1 = 1
          /\ (e + 1) - 0 = e + 1 /\ (e + 1) - 1 = e /\ (\A i \in 1 .. e + 1 : 0 + i = i)
          /\ e + 2 <= n /\ 1 <= e /\ 1 \in Nat /\ e <= e + 1 /\ e <= n
          /\ 0 + 1 = 1 /\ 0 + e = e
      BY <1>2, SMT
    <2>4. \A i \in (e + 2) + 1 .. n : s[i] # ":"
      <3> DEFINE port == Rest(s, e + 2)
      <3>1. port = Slice(s, e + 2, n)
        BY RestIsSlice DEF n
      <3>2. /\ port \in Text /\ Len(port) = n - (e + 2)
            /\ \A i \in 1 .. n - (e + 2) : port[i] = s[e + 2 + i]
        <4> HIDE DEF port
        <4> QED
          BY <1>2, <2>3, <3>1, SliceIsText DEF n
      <3> HIDE DEF port
      <3>3. isValidPort(port)
        BY <1>1, <2>2 DEF port
      <3>4. \A i \in 1 .. n - (e + 2) : port[i] # ":"
        BY <3>2, <3>3, PortsAreDigits DEF AllIn, Digits
      <3>5. \A i \in (e + 2) + 1 .. n :
               i - (e + 2) \in 1 .. n - (e + 2) /\ e + 2 + (i - (e + 2)) = i
        BY <1>2, <2>3, SMT
      <3> QED
        BY <3>2, <3>4, <3>5
    <2>5. PortColon(s) = e + 2
      BY <2>1, <2>3, <2>4, PortColonIs DEF n
    <2>6. h = Slice(s, 0, e + 1)
      BY <2>3, <2>5, Zenon DEF Slice
    <2>7. h \in Text /\ Len(h) = e + 1 /\ \A i \in 1 .. e + 1 : h[i] = s[i]
      <3>1. /\ Slice(s, 0, e + 1) \in Text /\ Len(Slice(s, 0, e + 1)) = (e + 1) - 0
            /\ \A i \in 1 .. (e + 1) - 0 : Slice(s, 0, e + 1)[i] = s[0 + i]
        BY <2>3, SliceIsText DEF n
      <3> QED
        BY <2>3, <2>6, <3>1
    <2>8. Slice(h, 1, e) = Slice(s, 1, e)
      <3>1. Slice(Slice(s, 0, e + 1), 1, e) = Slice(s, 0 + 1, 0 + e)
        <4>1. e <= (e + 1) - 0 /\ e + 1 <= Len(s)
          BY <2>3 DEF n
        <4> QED
          BY <2>3, <4>1, SliceOfSlice
      <3> QED
        BY <2>3, <2>6, <3>1
    <2> HIDE DEF h
    <2>9. /\ Len(h) >= 2 /\ 1 \in 1 .. e + 1 /\ e + 1 \in 1 .. e + 1 /\ Len(h) - 1 = e
          /\ \A i \in 1 .. e : i \in 1 .. e + 1
      BY <2>3, <2>7, SMT
    <2>10. h[1] = "[" /\ h[Len(h)] = "]" /\ \A i \in 1 .. Len(h) - 1 : h[i] # "]"
      BY <1>5, <2>1, <2>7, <2>9
    <2>11. Slice(h, 1, e) # <<>> /\ isValidIPLiteral(Slice(h, 1, e))
      BY <1>1, <2>2, <2>8
    <2>12. BracketedHost(h)
      BY <2>7, <2>9, <2>10, <2>11 DEF BracketedHost
    <2> QED
      BY <1>1, <1>3, <2>12 DEF h, pair
  <1> QED
    BY <1>4, <1>5

-----------------------------------------------------------------------------
(* A proxy and its URL.                                                    *)

\* The digits of the schemes' default ports.
LEMMA DefaultDigits ==
    /\ DigitValue["0"] = 0 /\ DigitValue["1"] = 1 /\ DigitValue["3"] = 3
    /\ DigitValue["4"] = 4 /\ DigitValue["8"] = 8
    /\ {"0", "1", "3", "4", "8"} \subseteq Digits
    /\ {"0", "1", "3", "4", "8"} \subseteq Symbols
  BY TextsAssumption DEF Digits, DigitValue

\* These ports are valid.
LEMMA DefaultPortsAreValid ==
    /\ <<"8", "0">> \in Text /\ isValidPort(<<"8", "0">>)
    /\ <<"4", "4", "3">> \in Text /\ isValidPort(<<"4", "4", "3">>)
    /\ <<"1", "0", "8", "0">> \in Text /\ isValidPort(<<"1", "0", "8", "0">>)
  <1>1. <<"8", "0">> \in Text /\ isValidPort(<<"8", "0">>)
    <2> DEFINE port == <<"8", "0">>
    <2>1. port \in Text /\ Len(port) = 2 /\ port[1] = "8" /\ port[2] = "0"
      BY DefaultDigits DEF Text
    <2> HIDE DEF port
    <2>2. \A i \in 1 .. 2 : i = 1 \/ i = 2
      BY SMT
    <2>3. AllIn(port, Digits)
      BY <2>1, <2>2, DefaultDigits DEF AllIn
    <2>4. PICK f : DigitSums(port, f)
      BY <2>1, <2>3, NumbersAreSums
    <2>5. 1 \in 1 .. 2 /\ 2 \in 1 .. 2 /\ 1 - 1 = 0 /\ 2 - 1 = 1
      BY SMT
    <2>6. /\ f[0] = 0 /\ f[1] = 10 * f[0] + 8 /\ f[2] = 10 * f[1] + 0 /\ f[2] = Number(port)
      BY <2>1, <2>4, <2>5, DefaultDigits DEF DigitSums
    <2>7. Number(port) = 80
      BY <2>6, SMT
    <2>8. 80 \in PortNumbers /\ 2 \in 1 .. maxPortDigits
      BY SMT DEF PortNumbers, maxPortDigits
    <2>9. port \in Text /\ isValidPort(port)
      BY <2>1, <2>3, <2>7, <2>8, PortsAreValid
    <2> QED
      BY <2>9 DEF port
  <1>2. <<"4", "4", "3">> \in Text /\ isValidPort(<<"4", "4", "3">>)
    <2> DEFINE port == <<"4", "4", "3">>
    <2>1. port \in Text /\ Len(port) = 3 /\ port[1] = "4" /\ port[2] = "4" /\ port[3] = "3"
      BY DefaultDigits DEF Text
    <2> HIDE DEF port
    <2>2. \A i \in 1 .. 3 : i = 1 \/ i = 2 \/ i = 3
      BY SMT
    <2>3. AllIn(port, Digits)
      BY <2>1, <2>2, DefaultDigits DEF AllIn
    <2>4. PICK f : DigitSums(port, f)
      BY <2>1, <2>3, NumbersAreSums
    <2>5. /\ 1 \in 1 .. 3 /\ 2 \in 1 .. 3 /\ 3 \in 1 .. 3 /\ 1 - 1 = 0 /\ 2 - 1 = 1 /\ 3 - 1 = 2
      BY SMT
    <2>6. /\ f[0] = 0 /\ f[1] = 10 * f[0] + 4 /\ f[2] = 10 * f[1] + 4 /\ f[3] = 10 * f[2] + 3
          /\ f[3] = Number(port)
      BY <2>1, <2>4, <2>5, DefaultDigits DEF DigitSums
    <2>7. Number(port) = 443
      BY <2>6, SMT
    <2>8. 443 \in PortNumbers /\ 3 \in 1 .. maxPortDigits
      BY SMT DEF PortNumbers, maxPortDigits
    <2>9. port \in Text /\ isValidPort(port)
      BY <2>1, <2>3, <2>7, <2>8, PortsAreValid
    <2> QED
      BY <2>9 DEF port
  <1>3. <<"1", "0", "8", "0">> \in Text /\ isValidPort(<<"1", "0", "8", "0">>)
    <2> DEFINE port == <<"1", "0", "8", "0">>
    <2>1. /\ port \in Text /\ Len(port) = 4
          /\ port[1] = "1" /\ port[2] = "0" /\ port[3] = "8" /\ port[4] = "0"
      BY DefaultDigits DEF Text
    <2> HIDE DEF port
    <2>2. \A i \in 1 .. 4 : i = 1 \/ i = 2 \/ i = 3 \/ i = 4
      BY SMT
    <2>3. AllIn(port, Digits)
      BY <2>1, <2>2, DefaultDigits DEF AllIn
    <2>4. PICK f : DigitSums(port, f)
      BY <2>1, <2>3, NumbersAreSums
    <2>5. /\ 1 \in 1 .. 4 /\ 2 \in 1 .. 4 /\ 3 \in 1 .. 4 /\ 4 \in 1 .. 4
          /\ 1 - 1 = 0 /\ 2 - 1 = 1 /\ 3 - 1 = 2 /\ 4 - 1 = 3
      BY SMT
    <2>6. /\ f[0] = 0 /\ f[1] = 10 * f[0] + 1 /\ f[2] = 10 * f[1] + 0 /\ f[3] = 10 * f[2] + 8
          /\ f[4] = 10 * f[3] + 0 /\ f[4] = Number(port)
      BY <2>1, <2>4, <2>5, DefaultDigits DEF DigitSums
    <2>7. Number(port) = 1080
      BY <2>6, SMT
    <2>8. 1080 \in PortNumbers /\ 4 \in 1 .. maxPortDigits
      BY SMT DEF PortNumbers, maxPortDigits
    <2>9. port \in Text /\ isValidPort(port)
      <3>1. Len(port) \in 1 .. maxPortDigits /\ Number(port) \in PortNumbers /\ port \in Text
        BY <2>1, <2>7, <2>8
      <3> QED
        BY <2>3, <3>1, PortsAreValid, Zenon
    <2> QED
      BY <2>9 DEF port
  <1> QED
    BY <1>1, <1>2, <1>3

\* A valid scheme is its own canonical form, and its default port is valid.
LEMMA SchemesHavePorts ==
    ASSUME NEW scheme \in Text, IsValidScheme(scheme)
    PROVE  /\ scheme # <<>> /\ ParseScheme(scheme) = scheme
           /\ DefaultPort(scheme) \in Text /\ isValidPort(DefaultPort(scheme))
  <1>1. scheme # <<>> /\ scheme = <<scheme[1]>>
    BY DEF IsValidScheme, Text
  <1>2. scheme[1] \in {"http", "https", "socks4", "socks4a", "socks5", "socks5h"}
    BY DEF IsValidScheme, Schemes
  <1>3. ParseScheme(scheme) = scheme
    BY DEF ParseScheme
  <1>4. DefaultPort(scheme) \in {<<"8", "0">>, <<"4", "4", "3">>, <<"1", "0", "8", "0">>}
    <2>1. CASE scheme = <<"http">>
      BY <2>1, Zenon DEF DefaultPort
    <2>2. CASE scheme = <<"https">>
      <3>1. <<"https">> # <<"http">>
        OBVIOUS
      <3>2. \A s \in {"socks4", "socks4a", "socks5", "socks5h"} : <<"https">> # <<s>>
        OBVIOUS
      <3> QED
        BY <2>2, <3>1, <3>2, Zenon DEF DefaultPort
    <2>3. CASE scheme # <<"http">> /\ scheme # <<"https">>
      <3>1. scheme[1] \in {"socks4", "socks4a", "socks5", "socks5h"}
        BY <1>1, <1>2, <2>3
      <3>2. scheme \in { <<s>> : s \in {"socks4", "socks4a", "socks5", "socks5h"} }
        BY <1>1, <3>1
      <3> QED
        BY <2>3, <3>2, Zenon DEF DefaultPort
    <2> QED
      BY <2>1, <2>2, <2>3
  <1> QED
    BY <1>1, <1>3, <1>4, DefaultPortsAreValid

\* Where the host lies is no matter of what is valid.
LEMMA ValidParts ==
    ASSUME NEW p \in Texts, Validate(p) = "ok"
    PROVE  /\ IsValidScheme(p.scheme) /\ validateHostnamePort(p.host) = "ok"
           /\ IsValidCredentialsFor(p.scheme, p.username, p.password)
           /\ p.username = <<>> => p.password = <<>>
  <1>1. "ok" # "ErrInvalidScheme" /\ "ok" # "ErrInvalidCredentials"
    OBVIOUS
  <1>2. /\ IsValidScheme(p.scheme) /\ validateHostnamePort(p.host) = "ok"
        /\ IsValidCredentialsFor(p.scheme, p.username, p.password)
    BY <1>1, Zenon DEF Validate, FirstOf
  <1> QED
    BY <1>2 DEF IsValidCredentialsFor, IsValidCredentials

\* The parts of a URL.
Url(p, host) == [ExportURL(p) EXCEPT !.host = host]

\* A URL of a valid proxy with another host on it describes the proxy with the
\* host and port that FromURL makes of that host.
LEMMA UrlComesBack ==
    ASSUME NEW p \in Texts, Validate(p) = "ok", NEW host \in Text, host # <<>>, NEW back \in Text,
           LET pair == SplitHostnamePort(host)
           IN  back = IF pair.ok /\ pair.port # <<>> THEN host
                      ELSE WithPort(TrimmedHost(host), DefaultPort(p.scheme)),
           validateHostnamePort(back) = "ok"
    PROVE  /\ FromURL(Url(p, host)).err = "ok"
           /\ Fields(FromURL(Url(p, host)).proxy) = <<p.scheme, back, p.username, p.password>>
  <1> DEFINE u == Url(p, host)
             pair == SplitHostnamePort(host)
             user == IF p.username = <<>> THEN <<>>
                     ELSE IF p.password = <<>> THEN <<p.username>>
                     ELSE <<p.username, p.password>>
             q == [scheme |-> p.scheme, hostAt |-> Absent, host |-> back,
                   username |-> p.username, password |-> p.password]
  <1>1. /\ p.scheme \in Text /\ p.username \in Text /\ p.password \in Text
    BY FieldsOfTexts
  <1>2. /\ IsValidScheme(p.scheme)
        /\ IsValidCredentialsFor(p.scheme, p.username, p.password)
        /\ p.username = <<>> => p.password = <<>>
    BY ValidParts
  <1>3. p.scheme # <<>> /\ ParseScheme(p.scheme) = p.scheme
    BY <1>1, <1>2, SchemesHavePorts
  <1>4. u.scheme = p.scheme /\ u.host = host /\ u.more = {} /\ u.user = user
    BY DEF Url, ExportURL
  <1>5. /\ (IF user = <<>> THEN <<>> ELSE user[1]) = p.username
        /\ (IF Len(user) < 2 THEN <<>> ELSE user[2]) = p.password
    BY <1>2
  <1> HIDE DEF u, user
  <1>6. Described(u, p.scheme, pair) = q
    <2>1. (IF pair.ok /\ pair.port # <<>> THEN u.host
           ELSE TrimmedHost(u.host) \o <<":">> \o DefaultPort(p.scheme)) = back
      BY <1>4, Zenon DEF WithPort
    <2> QED
      BY <1>4, <1>5, <2>1, Zenon DEF Described
  <1>7. /\ q.scheme = p.scheme /\ q.host = back /\ q.username = p.username
        /\ q.password = p.password
    OBVIOUS
  <1> HIDE DEF q
  <1>8. Validate(q) = "ok"
    BY <1>2, <1>7, Zenon DEF Validate, FirstOf
  <1>9. FromURL(u) = Checked(q, "ok")
    <2>1. (IF u.scheme = <<>> THEN <<"http">> ELSE ParseScheme(u.scheme)) = p.scheme
      BY <1>3, <1>4
    <2>2. FromURL(u)
            = Checked(Described(u, p.scheme, pair),
                      IF u.more # {} THEN "ErrInvalidProxyURL"
                      ELSE IF p.scheme = <<>> THEN "ErrInvalidScheme"
                      ELSE IF u.host = <<>> THEN "ErrInvalidHost"
                      ELSE Validate(Described(u, p.scheme, pair)))
      BY <1>4, <2>1, Zenon DEF FromURL
    <2> QED
      BY <1>3, <1>4, <1>6, <1>8, <2>2, Zenon
  <1>10. FromURL(u).err = "ok" /\ FromURL(u).proxy = q
    BY <1>9 DEF Checked
  <1> QED
    BY <1>7, <1>10, Zenon DEF Fields, u

\* The proxy a reset leaves.
LEMMA ZeroIsText == ZeroProxy \in Texts
  <1>1. <<>> \in Text /\ Absent \in Int
    BY SMT DEF Text, Absent
  <1> QED
    BY <1>1 DEF ZeroProxy, Texts

\* It describes this one.
UrlIs(p, host, back) ==
    /\ FromURL(Url(p, host)).err = "ok"
    /\ Fields(FromURL(Url(p, host)).proxy) = Fields([p EXCEPT !.host = back])

\* A valid proxy comes back from its URL whole; and with its default port, when
\* the URL has none.
LEMMA ValidComesBack ==
    ASSUME NEW p \in Texts, Validate(p) = "ok"
    PROVE  LET host == FieldText(p, "h")
               withDefault == WithPort(host, DefaultPort(p.scheme))
           IN  /\ UrlIs(p, p.host, p.host)
               /\ UrlIs(p, host, withDefault)
               /\ UrlIs(p, Append(host, ":"), withDefault)
  <1> DEFINE host == FieldText(p, "h")
             port == DefaultPort(p.scheme)
             withDefault == WithPort(host, port)
             longer == Append(host, ":")
  <1>1. p.scheme \in Text /\ p.host \in Text
    BY FieldsOfTexts
  <1>2. IsValidScheme(p.scheme) /\ validateHostnamePort(p.host) = "ok"
    BY ValidParts
  <1>3. port \in Text /\ isValidPort(port)
    BY <1>1, <1>2, SchemesHavePorts
  <1>4. host = SubSeq(p.host, 1, PortColon(p.host) - 1)
    BY DEF FieldText
  <1>5. /\ PlainHost(host) \/ BracketedHost(host)
        /\ p.host # <<>> /\ SplitHostnamePort(p.host).ok /\ SplitHostnamePort(p.host).port # <<>>
    BY <1>1, <1>2, <1>4, ValidHostParts, Zenon
  <1> HIDE DEF host, port
  <1>6. /\ host \in Text /\ host # <<>> /\ TrimmedHost(host) = host
        /\ longer # <<>> /\ TrimmedHost(longer) = host
        /\ SplitHostnamePort(longer).port = <<>>
    BY <1>5, ColonIsTrimmed
  <1>7. ~ SplitHostnamePort(host).ok
    BY <1>5, HostsAreNotSplit
  <1>8. longer \in Text
    BY <1>6, TextsAssumption DEF Text
  <1>9. withDefault \in Text
    BY <1>3, <1>6, JoinedParts
  <1>10. validateHostnamePort(withDefault) = "ok"
    BY <1>3, <1>5, WithPortIsValid
  <1> HIDE DEF longer, withDefault
  <1>11. \A back : Fields([p EXCEPT !.host = back]) = <<p.scheme, back, p.username, p.password>>
    BY DEF Fields, Texts
  <1>12. ASSUME NEW x \in Text, x # <<>>, NEW back \in Text, validateHostnamePort(back) = "ok",
                back = IF SplitHostnamePort(x).ok /\ SplitHostnamePort(x).port # <<>> THEN x
                       ELSE WithPort(TrimmedHost(x), port)
         PROVE  UrlIs(p, x, back)
    <2>1. /\ FromURL(Url(p, x)).err = "ok"
          /\ Fields(FromURL(Url(p, x)).proxy) = <<p.scheme, back, p.username, p.password>>
      BY <1>12, UrlComesBack, Zenon DEF port
    <2> QED
      BY <1>11, <2>1, Zenon DEF UrlIs
  <1>13. UrlIs(p, p.host, p.host)
    BY <1>1, <1>2, <1>5, <1>12, Zenon
  <1>14. UrlIs(p, host, withDefault)
    <2>1. withDefault = WithPort(TrimmedHost(host), port)
      BY <1>6 DEF withDefault
    <2> QED
      BY <1>6, <1>7, <1>9, <1>10, <1>12, <2>1, Zenon
  <1>15. UrlIs(p, longer, withDefault)
    <2>1. withDefault = WithPort(TrimmedHost(longer), port)
      BY <1>6 DEF withDefault
    <2> QED
      BY <1>6, <1>8, <1>9, <1>10, <1>12, <2>1, Zenon
  <1> QED
    BY <1>13, <1>14, <1>15 DEF host, port, longer, withDefault

\* No failure is the absence of one.
LEMMA FailuresAreErrors ==
    /\ \A kind, delim : Failure(kind, delim) = NoError => kind = "none"
    /\ \A p : Validate(p) # "none"
  <1>1. ASSUME NEW kind, NEW delim, Failure(kind, delim) = NoError
        PROVE  kind = "none"
    <2>1. Failure(kind, delim).kind = kind /\ NoError.kind = "none"
      BY DEF Failure, NoError
    <2> QED
      BY <1>1, <2>1
  <1>2. ASSUME NEW p
        PROVE  Validate(p) # "none"
    <2>1. \A s : validateHostnamePort(s) # "none"
      <3>1. \A s : validateHostnamePort(s) \in {"ok", "ErrInvalidPort", "ErrInvalidHost"}
        BY Zenon DEF validateHostnamePort
      <3> QED
        BY <3>1
    <2>2. "ErrInvalidScheme" # "none" /\ "ErrInvalidCredentials" # "none" /\ "ok" # "none"
      OBVIOUS
    <2> QED
      BY <2>1, <2>2, Zenon DEF Validate, FirstOf
  <1> QED
    BY <1>1, <1>2

\* The plan's parser says nothing is wrong of a valid proxy only.
LEMMA UsableOfVerdict ==
    ASSUME NEW parser, NEW input, NEW st, Verdict(parser, input, st, "scalar") = NoError
    PROVE  Validate(st.proxy) = "ok"
  <1> DEFINE p == st.proxy
             usable == IsUsable(input, p, "scalar")
  <1>1. /\ "ErrUnexpectedTrail" # "none" /\ "ErrInvalidScheme" # "none"
        /\ "ErrInvalidPort" # "none" /\ "ErrInvalidHost" # "none"
        /\ "ErrSchemeNotParsed" # "none" /\ "ErrHostNotParsed" # "none"
    OBVIOUS
  <1>2. usable
    <2> HIDE DEF usable
    <2> SUFFICES ASSUME ~ usable
                 PROVE  FALSE
      OBVIOUS
    <2>1. \A kind, delim : kind # "none" => Failure(kind, delim) # NoError
      BY FailuresAreErrors, Zenon
    <2>2. Failure(Validate(p), <<>>) # NoError
      BY <2>1, FailuresAreErrors, Zenon
    <2>3. Failure(IF ~IsValidScheme(p.scheme) THEN "ErrInvalidScheme"
                  ELSE IF p.host # <<>> /\ st.emptyPort THEN "ErrInvalidPort"
                  ELSE "ErrInvalidHost", <<>>) # NoError
      BY <1>1, <2>1, Zenon
    <2> QED
      BY <1>1, <2>1, <2>2, <2>3, Zenon DEF Verdict, usable
  <1> QED
    BY <1>2, Zenon DEF IsUsable

\* A strict parser of its own accepts what Validate accepts.
LEMMA ValidatedIsValid ==
    ASSUME NEW p, Validated(p).err = NoError
    PROVE  Validated(p).proxy = p /\ Validate(p) = "ok"
  <1>1. "ErrSubseqDelimNotFound" # "none"
    OBVIOUS
  <1>2. Validate(p) = "ok"
    <2> SUFFICES ASSUME Validate(p) # "ok"
                 PROVE  FALSE
      OBVIOUS
    <2>1. Validated(p).err \in {Failure("ErrSubseqDelimNotFound", <<":">>),
                                Failure(Validate(p), <<>>)}
      <3>1. \A q, e : Result(q, e).err = e
        BY DEF Result
      <3>2. \/ Validated(p) = Result(ZeroProxy, Failure("ErrSubseqDelimNotFound", <<":">>))
            \/ Validated(p) = Result(p, Failure(Validate(p), <<>>))
        BY Zenon DEF Validated
      <3> QED
        BY <3>1, <3>2, Zenon
    <2> QED
      BY <1>1, <2>1, FailuresAreErrors, Zenon
  <1>3. Validated(p) = Result(p, NoError)
    BY <1>2, Zenon DEF Validated
  <1> QED
    BY <1>2, <1>3 DEF Result

\* So is what it cuts out of the input.
LEMMA HostPortsAreValid ==
    ASSUME NEW input \in Text, parseStrictSchemeHostPort(input).err = NoError
    PROVE  LET p == parseStrictSchemeHostPort(input).proxy
           IN  p \in Texts /\ Validate(p) = "ok"
  <1> DEFINE at == Find(input, schemeSeparator, 0)
             r == parseStrictSchemeHostPort(input)
             scheme == schemeOf(Slice(input, 0, at))
             p == WithHost([ZeroProxy EXCEPT !.scheme = scheme], Rest(input, at + 3), at + 3)
             failure == Failure("ErrSubseqDelimNotFound", schemeSeparator)
  <1>1. r = IF at = Absent THEN Result(ZeroProxy, failure) ELSE Validated(p)
    BY Zenon DEF parseStrictSchemeHostPort, WithHost
  <1> HIDE DEF p, r
  <1>2. failure # NoError
    BY FailuresAreErrors
  <1>3. Result(ZeroProxy, failure).err = failure
    BY DEF Result
  <1>4. at # Absent /\ r = Validated(p)
    BY <1>1, <1>2, <1>3, Zenon DEF r
  <1>5. /\ at \in Nat /\ at + 3 <= Len(input) /\ 0 \in Nat /\ at + 3 \in Nat /\ at + 3 \in Int
        /\ 0 <= at /\ at <= Len(input) /\ Len(input) <= Len(input) /\ Len(input) \in Nat
    <2>1. at \in Nat /\ at + 3 <= Len(input)
      BY <1>4, SeparatorIsText, FindFinds
    <2>2. Len(input) \in Nat
      BY DEF Text
    <2> HIDE DEF at
    <2> QED
      BY <2>1, <2>2, SMT
  <1>6. scheme \in Text /\ Rest(input, at + 3) \in Text
    <2> HIDE DEF at
    <2>1. Slice(input, 0, at) \in Text /\ Slice(input, at + 3, Len(input)) \in Text
      BY <1>5, CutIsText
    <2> QED
      BY <2>1, SchemeIsText, RestIsSlice
  <1>7. p \in Texts
    <2> HIDE DEF at, scheme
    <2>1. [ZeroProxy EXCEPT !.scheme = scheme] \in Texts
      BY <1>6, ZeroIsText, SetCredentials
    <2> QED
      BY <1>5, <1>6, <2>1, SetHost DEF p
  <1>8. r.proxy = p /\ Validate(p) = "ok"
    BY <1>4, ValidatedIsValid DEF r
  <1> QED
    BY <1>7, <1>8 DEF r

\* So is what the other one cuts out.
LEMMA FullCredentialsAreValid ==
    ASSUME NEW input \in Text, parseStrictFullCredentials(input).err = NoError
    PROVE  LET p == parseStrictFullCredentials(input).proxy
           IN  p \in Texts /\ Validate(p) = "ok"
  <1> DEFINE schemeEnd == Find(input, schemeSeparator, 0)
             usernameEnd == IndexByte(input, ":", schemeEnd + 3)
             passwordEnd == IndexByte(input, "@", usernameEnd + 1)
             NotFound(delim) == Result(ZeroProxy, Failure("ErrSubseqDelimNotFound", delim))
             r == parseStrictFullCredentials(input)
             p == [scheme |-> schemeOf(Slice(input, 0, schemeEnd)),
                   host |-> Rest(input, passwordEnd + 1), hostAt |-> passwordEnd + 1,
                   username |-> Slice(input, schemeEnd + 3, usernameEnd),
                   password |-> Slice(input, usernameEnd + 1, passwordEnd)]
             n == Len(input)
  <1>1. r = IF schemeEnd = Absent THEN NotFound(schemeSeparator)
            ELSE IF usernameEnd = Absent THEN NotFound(<<":">>)
            ELSE IF passwordEnd = Absent THEN NotFound(<<"@">>)
            ELSE Validated(p)
    BY Zenon DEF parseStrictFullCredentials
  <1> HIDE DEF p, r
  <1>2. \A delim : NotFound(delim).err # NoError
    BY FailuresAreErrors DEF Result
  <1>3. /\ schemeEnd # Absent /\ usernameEnd # Absent /\ passwordEnd # Absent
        /\ r = Validated(p)
    <2> HIDE DEF NotFound, schemeEnd, usernameEnd, passwordEnd
    <2> QED
      BY <1>1, <1>2, Zenon DEF r
  <1>4. n \in Nat /\ schemeEnd \in Nat /\ schemeEnd + 3 <= n
    <2>1. schemeEnd \in Nat /\ schemeEnd + 3 <= n
      BY <1>3, SeparatorIsText, FindFinds
    <2> QED
      BY <2>1 DEF Text
  <1> HIDE DEF schemeEnd
  <1>5. usernameEnd \in schemeEnd + 3 .. n - 1
    <2>1. schemeEnd + 3 \in Nat
      BY <1>4
    <2> QED
      BY <1>3, <2>1, IndexByteFinds
  <1> HIDE DEF usernameEnd
  <1>6. passwordEnd \in usernameEnd + 1 .. n - 1
    <2>1. usernameEnd + 1 \in Nat
      BY <1>4, <1>5
    <2> QED
      BY <1>3, <2>1, IndexByteFinds
  <1> HIDE DEF passwordEnd
  <1>7. /\ 0 \in Nat /\ 0 <= schemeEnd /\ schemeEnd <= n
        /\ schemeEnd + 3 \in Nat /\ usernameEnd \in Nat /\ schemeEnd + 3 <= usernameEnd
        /\ usernameEnd <= n /\ usernameEnd + 1 \in Nat /\ passwordEnd \in Nat
        /\ usernameEnd + 1 <= passwordEnd /\ passwordEnd <= n
        /\ passwordEnd + 1 \in Nat /\ passwordEnd + 1 <= n /\ n <= n /\ passwordEnd + 1 \in Int
    <2> HIDE DEF n
    <2> QED
      BY <1>4, <1>5, <1>6, SMT
  <1>8. /\ Slice(input, 0, schemeEnd) \in Text
        /\ Slice(input, schemeEnd + 3, usernameEnd) \in Text
        /\ Slice(input, usernameEnd + 1, passwordEnd) \in Text
        /\ Slice(input, passwordEnd + 1, n) \in Text
    BY <1>4, <1>7, CutIsText
  <1>9. schemeOf(Slice(input, 0, schemeEnd)) \in Text /\ Rest(input, passwordEnd + 1) \in Text
    BY <1>8, SchemeIsText, RestIsSlice
  <1>10. p \in Texts
    BY <1>7, <1>8, <1>9 DEF p, Texts
  <1>11. r.proxy = p /\ Validate(p) = "ok"
    BY <1>3, ValidatedIsValid DEF r
  <1> QED
    BY <1>10, <1>11 DEF r

\* What a parser accepts is a valid proxy, on each of its ways to the end.
LEMMA AcceptedIsValid ==
    ASSUME NEW f \in Formats, NEW strict \in BOOLEAN, NEW input \in Text,
           ParseInto(New(f, strict), input, ZeroProxy, "scalar").err = NoError
    PROVE  LET p == ParseInto(New(f, strict), input, ZeroProxy, "scalar").proxy
           IN  p \in Texts /\ Validate(p) = "ok"
  <1> DEFINE parser == New(f, strict)
             credentials == parser.kind = "strictFullCredentials"
             r == ParseInto(parser, input, ZeroProxy, "scalar")
  <1>1. parser.plan \in Seq(Operated)
    BY ParsersAreTyped
  <1>2. r = IF parser.kind = "generic" THEN parseGeneric(parser, input, ZeroProxy, "scalar")
            ELSE IF credentials THEN parseStrictFullCredentials(input)
            ELSE parseStrictSchemeHostPort(input)
    BY Zenon DEF ParseInto
  <1> HIDE DEF parser, r
  <1>3. r.err = NoError
    BY DEF r, parser
  <1>4. CASE parser.kind = "generic"
    <2>1. r.proxy \in Texts
      BY <1>1, <1>2, <1>4, GenericAgrees
    <2> DEFINE end == EndOf(parser, input, ZeroProxy)
    <2>2. r = Result(end.proxy, Verdict(parser, input, end, "scalar"))
      BY <1>2, <1>4, Zenon DEF parseGeneric, EndOf
    <2> HIDE DEF end
    <2>3. r.proxy = end.proxy /\ Verdict(parser, input, end, "scalar") = NoError
      BY <1>3, <2>2 DEF Result
    <2>5. Validate(end.proxy) = "ok"
      BY <2>3, UsableOfVerdict
    <2> QED
      BY <2>1, <2>3, <2>5 DEF r, parser
  <1>5. CASE parser.kind # "generic" /\ credentials
    <2>1. r = parseStrictFullCredentials(input)
      BY <1>2, <1>5
    <2> QED
      BY <1>3, <2>1, FullCredentialsAreValid DEF r, parser
  <1>6. CASE parser.kind # "generic" /\ ~ credentials
    <2>1. r = parseStrictSchemeHostPort(input)
      BY <1>2, <1>6
    <2> QED
      BY <1>3, <2>1, HostPortsAreValid DEF r, parser
  <1> QED
    BY <1>4, <1>5, <1>6

-----------------------------------------------------------------------------
(* The caller: what he holds between two calls.                            *)

\* What a proxy's fields make along a plan is a text.
LEMMA WrittenIsText ==
    ASSUME NEW p \in Texts, parsers.lenient.plan \in Seq(Operated)
    PROVE  Written(p) \in Text
  <1> DEFINE plan == parsers.lenient.plan
             part(k) == IF plan[k].field = "none" THEN plan[k].delim
                        ELSE FieldText(p, plan[k].field)
             seqs == [k \in DOMAIN plan |-> part(k)]
             n == Len(plan)
  <1>1. Written(p) = FlattenSeq(seqs)
    BY Zenon DEF Written
  <1> HIDE DEF plan
  <1>2. plan \in Seq(Operated)
    BY DEF plan
  <1>3. n \in Nat /\ DOMAIN plan = 1 .. n /\ \A k \in 1 .. n : plan[k] \in Operated
    BY <1>2
  <1>4. ASSUME NEW k \in 1 .. n
        PROVE  part(k) \in Text
    <2>1. plan[k].field \in {"none"} \cup Verbs /\ plan[k].delim \in Text
      BY <1>3, OperationFields
    <2>2. CASE plan[k].field = "none"
      BY <2>1, <2>2
    <2>3. CASE plan[k].field # "none"
      <3>1. plan[k].field \in Verbs
        BY <2>1, <2>3
      <3> QED
        BY <2>3, <3>1, FieldTextIsText
    <2> QED
      BY <2>2, <2>3
  <1>5. seqs = [k \in 1 .. n |-> part(k)]
    BY <1>3
  <1> HIDE DEF part, n
  <1>6. seqs \in Seq(Text)
    BY <1>3, <1>4, <1>5
  <1> HIDE DEF seqs
  <1> QED
    BY <1>1, <1>6, FlatIsText

\* The line is a text, the parsers are made of one format, and every tier has
\* given the result of the scalar one; an accepted one is a valid proxy, and can
\* be written out.
ParserInv ==
    /\ line \in Text
    /\ \E f \in Formats : parsers = [strict |-> New(f, TRUE), lenient |-> New(f, FALSE)]
    /\ said \in Texts
    /\ \A name \in Called : \A t \in Tiers : results[name][t] = results[name]["scalar"]
    /\ \A name \in Called : Accepted(name) =>
          LET p == results[name]["scalar"].proxy IN p \in Texts /\ Validate(p) = "ok"

\* The invariant holds before the first call.
LEMMA CallerStarts == Init => ParserInv
  <1> SUFFICES ASSUME Init
               PROVE  ParserInv
    OBVIOUS
  <1>1. line \in Text
    BY TextsAssumption DEF Init
  <1>2. said \in Texts
    BY ZeroIsText DEF Init
  <1>3. Called = {}
    BY DEF Init, Called
  <1> QED
    BY <1>1, <1>2, <1>3, Zenon DEF Init, ParserInv

\* A call gives on every tier what it gives on the scalar one.
LEMMA CallHolds ==
    ASSUME ParserInv, NEW name, NEW f \in Formats, NEW strict \in BOOLEAN, NEW input \in Text,
           Call(name, New(f, strict), input)
    PROVE  ParserInv'
  <1> DEFINE parser == New(f, strict)
             To(t) == ParseInto(parser, input, IF t = "scalar" THEN ZeroProxy ELSE proxy, t)
             r == [t \in Tiers |-> To(t)]
  <1>1. /\ results' = [n \in Called \cup {name} |-> IF n = name THEN r ELSE results[n]]
        /\ UNCHANGED <<line, parsers, said>>
    BY Zenon DEF Call
  <1>2. \A t \in Tiers : To(t) = ParseInto(parser, input, ZeroProxy, "scalar")
    BY CallsAgree, Zenon
  <1>3. "scalar" \in Tiers
    BY DEF Tiers
  <1>4. To("scalar").err = NoError =>
          To("scalar").proxy \in Texts /\ Validate(To("scalar").proxy) = "ok"
    <2>1. To("scalar") = ParseInto(parser, input, ZeroProxy, "scalar")
      OBVIOUS
    <2> QED
      BY <2>1, AcceptedIsValid, Zenon
  <1> HIDE DEF To, parser
  <1>5. \A t \in Tiers : r[t] = r["scalar"]
    BY <1>2, <1>3
  <1>6. r["scalar"] = To("scalar")
    BY <1>3
  <1> HIDE DEF r
  <1>7. Called' = Called \cup {name}
    BY <1>1 DEF Called
  <1>8. ASSUME NEW n \in Called', NEW t \in Tiers
        PROVE  results'[n][t] = results'[n]["scalar"]
    <2>1. CASE n = name
      BY <1>1, <1>5, <1>7, <2>1
    <2>2. CASE n # name
      <3>1. n \in Called /\ results'[n] = results[n]
        BY <1>1, <1>7, <2>2
      <3> QED
        BY <3>1, Zenon DEF ParserInv
    <2> QED
      BY <2>1, <2>2
  <1>9. ASSUME NEW n \in Called', Accepted(n)'
        PROVE  LET p == results'[n]["scalar"].proxy IN p \in Texts /\ Validate(p) = "ok"
    <2>1. results'[n]["scalar"].err = NoError
      BY <1>9 DEF Accepted
    <2>2. CASE n = name
      <3>1. results'[n]["scalar"] = To("scalar")
        BY <1>1, <1>6, <1>7, <2>2
      <3> QED
        BY <1>4, <2>1, <3>1
    <2>3. CASE n # name
      <3>1. n \in Called /\ results'[n] = results[n]
        BY <1>1, <1>7, <2>3
      <3>2. Accepted(n)
        BY <2>1, <3>1 DEF Accepted
      <3> QED
        BY <3>1, <3>2 DEF ParserInv
    <2> QED
      BY <2>2, <2>3
  <1>10. /\ line' \in Text /\ said' \in Texts
         /\ \E g \in Formats : parsers' = [strict |-> New(g, TRUE), lenient |-> New(g, FALSE)]
    BY <1>1, Zenon DEF ParserInv
  <1> QED
    BY <1>8, <1>9, <1>10, Zenon DEF ParserInv

\* Every step of the caller keeps it.
LEMMA CallerSteps == ParserInv /\ [Next]_vars => ParserInv'
  <1> SUFFICES ASSUME ParserInv, [Next]_vars
               PROVE  ParserInv'
    OBVIOUS
  <1>1. PICK f \in Formats : parsers = [strict |-> New(f, TRUE), lenient |-> New(f, FALSE)]
    BY DEF ParserInv
  <1>2. ASSUME line' \in Text, said' \in Texts, UNCHANGED <<parsers, results>>
        PROVE  ParserInv'
    BY <1>2, Zenon DEF ParserInv, Called, Accepted
  <1>3. line \in Text /\ said \in Texts
    BY DEF ParserInv
  <1>4. ASSUME line' \in Text, Damaged
        PROVE  ParserInv'
    <2>1. said' = said /\ UNCHANGED <<parsers, results>>
      BY <1>4 DEF Damaged
    <2> QED
      BY <1>2, <1>3, <1>4, <2>1
  <1>5. \A c \in Damage : c \in Symbols
    BY TextsAssumption
  <1>6. CASE InsertSymbol
    <2>1. line' \in Text
      BY <1>3, <1>5, <1>6, DamagedIsText, Zenon DEF InsertSymbol
    <2> QED
      BY <1>4, <1>6, <2>1 DEF InsertSymbol
  <1>7. CASE DropSymbol
    <2>1. PICK i \in 1 .. Len(line) : line' = RemoveAt(line, i)
      BY <1>7, Zenon DEF DropSymbol
    <2>2. ":" \in Symbols
      BY TextsAssumption
    <2>3. line' \in Text
      BY <1>3, <2>1, <2>2, DamagedIsText, Zenon
    <2> QED
      BY <1>4, <1>7, <2>3 DEF DropSymbol
  <1>8. CASE ReplaceSymbol
    <2>1. line' \in Text
      BY <1>3, <1>5, <1>8, DamagedIsText, Zenon DEF ReplaceSymbol
    <2> QED
      BY <1>4, <1>8, <2>1 DEF ReplaceSymbol
  <1>9. CASE ParseLine
    <2>1. PICK name \in {"strict", "lenient"} : Call(name, parsers[name], line)
      BY <1>9, Zenon DEF ParseLine
    <2>2. CASE name = "strict"
      <3>1. parsers[name] = New(f, TRUE)
        BY <1>1, <2>2
      <3>2. Call(name, New(f, TRUE), line)
        BY <2>1, <3>1, Zenon
      <3> QED
        BY <1>3, <2>2, <3>2, CallHolds
    <2>3. CASE name = "lenient"
      <3>1. parsers[name] = New(f, FALSE)
        BY <1>1, <2>3
      <3>2. Call(name, New(f, FALSE), line)
        BY <2>1, <3>1, Zenon
      <3> QED
        BY <1>3, <2>3, <3>2, CallHolds
    <2> QED
      BY <2>2, <2>3
  <1>10. CASE Write
    <2>1. UNCHANGED <<line, parsers, results>>
      BY <1>10 DEF Write
    <2>2. said' \in Texts
      <3>1. CASE said' \in {p \in Proxies : Expresses(parsers.lenient.plan, p)}
        BY <3>1, ProxiesAssumption, Zenon
      <3>2. CASE Accepted("lenient") /\ said' = results["lenient"]["scalar"].proxy
        BY <3>2 DEF Accepted, ParserInv
      <3> QED
        BY <1>10, <3>1, <3>2, Zenon DEF Write
    <2> QED
      BY <1>2, <1>3, <2>1, <2>2
  <1>11. CASE ParseWritten
    <2>1. parsers.strict = New(f, TRUE) /\ parsers.lenient = New(f, FALSE)
      BY <1>1
    <2>2. parsers.lenient.plan \in Seq(Operated)
      BY <2>1, ParsersAreTyped
    <2>3. Written(said) \in Text
      BY <1>3, <2>2, WrittenIsText
    <2>4. Call("written", New(f, TRUE), Written(said))
      BY <1>11, <2>1, Zenon DEF ParseWritten
    <2> QED
      BY <2>3, <2>4, CallHolds
  <1>12. CASE UNCHANGED vars
    <2>1. line' = line /\ said' = said /\ UNCHANGED <<parsers, results>>
      BY <1>12 DEF vars
    <2> QED
      BY <1>2, <1>3, <2>1
  <1> QED
    BY <1>6, <1>7, <1>8, <1>9, <1>10, <1>11, <1>12, Zenon DEF Next

\* The short cuts change nothing a caller can see: whatever the format, the line
\* and its damage, and whatever proxy the destination held before, ParseInto
\* gives on every tier the fields, or the error down to its offset, that the
\* scalar parser gives into a new proxy.  It is about the fast paths of
\* proxyparser.go and fastpath.go, and about Reset.
THEOREM TiersParseAlike == Spec => []TiersAgree
  <1>1. ParserInv => TiersAgree
    <2> SUFFICES ASSUME ParserInv, NEW name \in Called, NEW t \in Tiers
                 PROVE  LET r == results[name][t]
                            scalar == results[name]["scalar"]
                        IN  /\ r.err = scalar.err
                            /\ r.err = NoError => Fields(r.proxy) = Fields(scalar.proxy)
      BY DEF TiersAgree
    <2>1. results[name][t] = results[name]["scalar"]
      BY DEF ParserInv
    <2> QED
      BY <2>1, Zenon
  <1> QED
    BY <1>1, CallerStarts, CallerSteps, PTL DEF Spec

\* Whatever a parser accepts goes into a URL and comes back from it whole: no
\* password is left out, and without a port, or without one behind the ':', its
\* URL names the same host on the scheme's default port.  It is about ExportURL,
\* FromURL and Validate of proxy.go, and about every way on which ParseInto
\* accepts.
THEOREM AcceptedComeBack == Spec => []URLRoundTrip
  <1>1. ParserInv => URLRoundTrip
    <2> SUFFICES ASSUME ParserInv, NEW name \in Called \cap {"strict", "lenient"}, Accepted(name)
                 PROVE  LET p == results[name]["scalar"].proxy
                            host == FieldText(p, "h")
                            withDefault == WithPort(host, DefaultPort(p.scheme))
                        IN  /\ UrlIs(p, p.host, p.host)
                            /\ UrlIs(p, host, withDefault)
                            /\ UrlIs(p, Append(host, ":"), withDefault)
      <3> DEFINE p(n) == results[n]["scalar"].proxy
                 host(n) == FieldText(p(n), "h")
                 withDefault(n) == WithPort(host(n), DefaultPort(p(n).scheme))
      <3>1. URLRoundTrip <=>
              \A n \in Called \cap {"strict", "lenient"} : Accepted(n) =>
                \A at \in {<<p(n).host, p(n).host>>, <<host(n), withDefault(n)>>,
                           <<Append(host(n), ":"), withDefault(n)>>} :
                  UrlIs(p(n), at[1], at[2])
        BY Zenon DEF URLRoundTrip, UrlIs, Url, WithPort
      <3> HIDE DEF p, host, withDefault
      <3> QED
        BY <3>1 DEF p, host, withDefault
    <2>1. results[name]["scalar"].proxy \in Texts /\ Validate(results[name]["scalar"].proxy) = "ok"
      BY DEF ParserInv
    <2> QED
      BY <2>1, ValidComesBack, Zenon
  <1> QED
    BY <1>1, CallerStarts, CallerSteps, PTL DEF Spec

=============================================================================

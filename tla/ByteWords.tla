----------------------------- MODULE ByteWords -----------------------------
(***************************************************************************)
(* Tests on eight bytes at a time: internal/structuralindex/swar.go, the   *)
(* line feeds of internal/lineindex/swar.go, and the words that the        *)
(* parser's short cuts load.  Sums and differences of words carry from one *)
(* byte into the next; what is tested must not depend on it.               *)
(*                                                                         *)
(* A word of 64 bits is the set of the bits that are 1, so that its width  *)
(* is the code's.  A byte is a number and a text is a sequence of bytes.   *)
(***************************************************************************)
EXTENDS Integers, SequencesExt

Width == 64
Bits == 0 .. Width - 1
Fit(bits) == bits \cap Bits

\* ^w, w << n and w >> n; & and | are the intersection and the union.
Not(w) == Bits \ w
Left(w, n) == Fit({ i + n : i \in w })
Right(w, n) == Fit({ i - n : i \in w })
Xor(v, w) == (v \ w) \cup (w \ v)

\* v + w: a bit is carried to when both bits of a lower place are 1 and every
\* place between passes it on.
Plus(v, w) ==
    LET sum     == Xor(v, w)
        carries == { j \in Bits : \E i \in v \cap w : i < j /\ i + 1 .. j - 1 \subseteq sum }
    IN  Xor(sum, carries)

\* v - w
Minus(v, w) == Plus(Plus(v, Not(w)), {0})

Times(v, w) == FoldSet(LAMBDA i, product : Plus(product, Left(v, i)), {}, w)

AtMost(v, w) == v = w \/ Max(Xor(v, w)) \in w

TrailingZeros64(w) == IF w = {} THEN Width ELSE Min(w)

ReverseBytes64(w) == { 8 * (7 - i \div 8) + (i % 8) : i \in w }

\* A byte as a word, and eight of it: byte * EachByte.
ByteBits == [b \in 0 .. 255 |-> { i \in 0 .. 7 : (b \div 2^i) % 2 = 1 }]
EachOf == [b \in 0 .. 255 |-> { 8 * k + i : k \in 0 .. 7, i \in ByteBits[b] }]
HighBits == EachOf[128]
LowSeven == EachOf[127]

\* Ones in the n lowest places: 1<<n - 1
LowMask(n) == Fit(0 .. n - 1)

Load(text, i, bytes) ==
    UNION { Left(ByteBits[text[i + 1 + k]], 8 * k) : k \in 0 .. bytes - 1 }
Load64(text, i) == Load(text, i, 8)
Load32(text, i) == Load(text, i, 4)

\* A short text and as many 'a' as fill a word.
loadPadded(s) ==
    LET n   == Len(s)
        pad == Left(EachOf[97], 8 * n)
    IN  IF n >= 4 THEN Load32(s, 0) \cup Left(Load32(s, n - 4), 8 * (n - 4)) \cup pad
        ELSE IF n = 0 THEN pad
        ELSE Load(s, 0, 1) \cup Left(Load(s, n \div 2, 1), 8 * (n \div 2))
               \cup Left(Load(s, n - 1, 1), 8 * (n - 1)) \cup pad

-----------------------------------------------------------------------------
(* internal/lineindex/swar.go *)

\* newlineBits: bit k tells that byte k is a line feed.
newlineBits(w) ==
    LET x      == Xor(w, EachOf[10])
        zero   == Not(Plus(x \cap LowSeven, LowSeven) \cup x) \cap HighBits
        gather == { 7 * k : k \in 0 .. 7 }
    IN  Right(Times(zero, gather), 56)

-----------------------------------------------------------------------------
(* internal/structuralindex/swar.go *)

\* Bit 7 of a byte between low and high, among bytes below 0x80.
InRange(w, low, high) == Plus(w, EachOf[128 - low]) \cap Minus(EachOf[128 + high], w)

\* Mutant: an edge is only looked for behind a dot, not in front of one.
invalidNameBytesBehind(w, ends) ==
    LET edges   == InRange(w, 45, 46)
        letters == InRange(w \cup EachOf[32], 97, 122)
        dots    == edges \cap Left(w, 6)
    IN  Not(edges \cup InRange(w, 48, 57) \cup letters) \cup w
          \cup (edges \cap (Left(dots, 8) \cup ends))

\* Bit 7 of each byte that no name has, or that makes an empty label or one
\* with a hyphen at its edge; '.' differs from '-' in its bit 1.
invalidNameBytes(w, ends) ==
    LET edges   == InRange(w, 45, 46)
        letters == InRange(w \cup EachOf[32], 97, 122)
        dots    == edges \cap Left(w, 6)
    IN  Not(edges \cup InRange(w, 48, 57) \cup letters) \cup w
          \cup (edges \cap (Left(dots, 8) \cup Right(dots, 8) \cup ends))

maxHostNameLen == 63

IsHostName(s) ==
    LET n       == Len(s)
        middles == { i \in 1 .. n - 9 : i % 7 = 0 }
        invalid == IF n <= 8
                   THEN invalidNameBytes(loadPadded(s), {7, 8 * n - 1})
                   ELSE invalidNameBytes(Load64(s, 0), {7})
                          \cup UNION { invalidNameBytes(Load64(s, i), {}) : i \in middles }
                          \cup invalidNameBytes(Load64(s, n - 8), {63})
    IN  n \in 1 .. maxHostNameLen /\ invalid \cap HighBits = {}

UnprintableBytes(w) == Minus(w, EachOf[32]) \cup w \cup Plus(w, EachOf[1])

IsPrintable(s) ==
    LET n       == Len(s)
        words   == IF n < 8 THEN { loadPadded(s) }
                   ELSE { Load64(s, i) : i \in {n - 8} \cup { j \in 0 .. n - 9 : j % 8 = 0 } }
    IN  \A w \in words : UnprintableBytes(w) \cap HighBits = {}

-----------------------------------------------------------------------------
(* proxyparser/fastpath.go *)

\* scanCredentials: the offset of the first colon, of the first '@' behind it
\* (-1 for what is missing), and whether all that was loaded is printable.
scanCredentials(input, start) ==
    LET n == Len(input)
        Scan[i \in 0 .. n + 8, username \in -1 .. n, printable \in BOOLEAN] ==
            LET at     == Min({i, n - 8})
                w      == Load64(input, at)
                target == EachOf[IF username = -1 THEN 58 ELSE 64]
                other  == Xor(w, target) \cup LowMask(8 * (i - at))
                found  == Minus(other, EachOf[1]) \cap Not(other) \cap HighBits
                place  == at + TrailingZeros64(found) \div 8
                clean  == printable /\ UnprintableBytes(w) \cap HighBits = {}
            IN  IF i >= n THEN <<username, -1, FALSE>>
                ELSE IF found = {} THEN Scan[at + 8, username, clean]
                ELSE IF username # -1 THEN <<username, place, clean>>
                ELSE Scan[place + 1, place, clean]
    IN  Scan[start, -1, TRUE]

\* Bytes as a word with the first on top.
BigEndian(s) == UNION { Left(ByteBits[s[k]], 8 * (Len(s) - k)) : k \in DOMAIN s }

leastOctet(n) ==
    CASE n = 1 -> BigEndian(<<48>>)
      [] n = 2 -> BigEndian(<<49, 48>>)
      [] n = 3 -> BigEndian(<<49, 48, 48>>)
      [] OTHER -> {0}
octetSpan(n) ==
    CASE n = 1 -> ByteBits[9]
      [] n = 2 -> Minus(BigEndian(<<57, 57>>), BigEndian(<<49, 48>>))
      [] n = 3 -> Minus(BigEndian(<<50, 53, 53>>), BigEndian(<<49, 48, 48>>))
      [] OTHER -> {}

isOctet(digits, n) == AtMost(Minus(digits, leastOctet(n % 8)), octetSpan(n % 8))

\* isIPv4.  Shift counts are taken modulo 64, lengths wrap below 0.
isIPv4(host) ==
    LET n          == Len(host)
        first      == Load64(host, 0)
        last       == ReverseBytes64(Load64(host, n - 8))
        Other(w)   == LET x == Xor(w, EachOf[46]) IN x \cup Plus(x \cap LowSeven, LowSeven)
        Wrong(w)   == (Other(w) \ InRange(w, 48, 57)) \cap HighBits
        Dots(w)    == Not(Other(w)) \cap HighBits
        Second(d)  == TrailingZeros64(d \cap Minus(d, {0})) \div 8
        firstLen   == TrailingZeros64(Dots(first)) \div 8
        secondDot  == Second(Dots(first))
        fourthLen  == TrailingZeros64(Dots(last)) \div 8
        beforeLast == Second(Dots(last))
        secondLen  == secondDot - firstLen - 1
        thirdLen   == beforeLast - fourthLen - 1
        reversed   == ReverseBytes64(first)
        shortest   == Xor(Load32(host, 0) \cup Left(Load32(host, 3), 24),
                          Load(<<48, 46, 48, 46, 48, 46, 48>>, 0, 7))
        limits     == Load(<<118, 127, 118, 127, 118, 127, 118>>, 0, 7)
    IN  CASE n \notin 7 .. 15 -> FALSE
          [] n = 7 -> (Plus(shortest, limits) \cup shortest) \cap HighBits = {}
          [] OTHER ->
               /\ Wrong(first) \cup Wrong(last) = {}
               /\ secondDot + beforeLast + 1 = n
               /\ isOctet(Right(reversed, (64 - 8 * firstLen) % 64), firstLen)
               /\ isOctet(Right(Left(reversed, (8 * (firstLen + 1)) % 64),
                                (64 - 8 * secondLen) % 64), secondLen)
               /\ isOctet(Right(last, (8 * (fourthLen + 1)) % 64)
                             \cap LowMask((8 * thirdLen) % 64), thirdLen)
               /\ isOctet(last \cap LowMask((8 * fourthLen) % 64), fourthLen)

\* The port of isHostPort: digits at the input's end, at most five of them,
\* compared as a word with those of 65535; 0 has no digit but '0'.
isPortWord(input, digits) ==
    LET n    == Len(input)
        tail == IF n >= 8 THEN ReverseBytes64(Load64(input, n - 8)) ELSE BigEndian(input)
        port == tail \cap LowMask(8 * digits)
    IN  AtMost(port, BigEndian(<<54, 53, 53, 51, 53>>)) /\ port \cap EachOf[15] # {}
=============================================================================

---------------------------- MODULE MCArithmetic ----------------------------
(***************************************************************************)
(* Pure functions against their definitions: the modular arithmetic of     *)
(* PoolLayout, for every operand below a small WordSize, and the tests of  *)
(* ByteWords, on texts around every boundary they have.  A state is a      *)
(* choice of operands, or a text.                                          *)
(***************************************************************************)
EXTENDS ModularArithmetic, ByteWords

CONSTANTS
    Beside,      \* bytes at the bounds of the ranges, and some above 0x7F
    Followed,       \* what follows them
    NameLengths  \* of the texts they are put in

VARIABLE
    text      \* a sequence of bytes

MCMix(a, b) == (a * a * 7 + b * 29 + a * b * 3 + 11) % WordSize

Letters(n) == [i \in 1 .. n |-> 98]

\* A colon, an at sign behind it, and a byte that is neither, but near.
ScanTexts ==
    { [i \in 1 .. 17 |-> IF i = colon THEN 58 ELSE IF i = at THEN 64 ELSE IF i = odd THEN x ELSE 98] :
         colon \in {1, 8, 9, 17}, at \in {2, 9, 10, 16, 18}, odd \in 1 .. 17,
         x \in {31, 58, 59, 64, 65, 127} }

\* "", 10, 09, 255, 1000, and 0, 256 and the bytes beside the digits.
OuterOctets == { <<>>, <<49, 48>>, <<48, 57>>, <<50, 53, 53>>, <<49, 48, 48, 48>> }
Octets == OuterOctets \cup { <<48>>, <<50, 53, 54>>, <<47>>, <<58>> }

Dotted(octets) ==
    FoldLeft(LAMBDA s, octet : s \o <<46>> \o octet, Head(octets), Tail(octets))

AddressTexts ==
    { Dotted(<<a, b, c>>) : a, b, c \in { <<49, 48, 48, 48>>, <<49, 48>> } }
      \cup { Dotted(<<a, b, c, d>>) : a, c \in OuterOctets, b, d \in Octets }
      \cup { Dotted(<<a, b, <<49>>, c, d>>) : a, b, c, d \in { <<>>, <<57>>, <<49, 48>> } }

\* Of 0, 1, 01, 65535, 65536, 00000, 99999, 123456 and 9:
Ports == { <<48>>, <<49>>, <<48, 49>>, <<54, 53, 53, 51, 53>>, <<54, 53, 53, 51, 54>>,
           <<48, 48, 48, 48, 48>>, <<57, 57, 57, 57, 57>>, <<53, 58>>, <<57>> }

PortTexts == { host \o <<58>> \o port : host \in {<<97>>, <<97, 97, 97, 97, 49>>}, port \in Ports }

NoOperands == [modulus |-> 1, left |-> 0, right |-> 1]

ArithmeticInit ==
    \/ OperandsInit /\ text = <<>>
    \/ /\ operands = NoOperands
       /\ text \in { Letters(n) : n \in NameLengths } \cup ScanTexts \cup AddressTexts \cup PortTexts

\* Two bytes anywhere in a text of letters.
PutBytes ==
    /\ text = Letters(Len(text))
    /\ UNCHANGED operands
    /\ \E at \in DOMAIN text, x \in Beside, y \in Followed :
          text' = [i \in DOMAIN text |-> IF i = at THEN x ELSE IF i = at + 1 THEN y ELSE text[i]]

ArithmeticNext ==
    \/ NextOperand /\ UNCHANGED text
    \/ PutBytes

ArithmeticSpec == ArithmeticInit /\ [][ArithmeticNext]_<<operands, text>>

-----------------------------------------------------------------------------
(* What the words are tests of. *)

NameByte(b) == b \in 48 .. 57 \cup 65 .. 90 \cup 97 .. 122 \cup {45, 46}

\* Labels of a name's bytes, none empty, none with a hyphen at an end.
HostName(s) ==
    LET n == Len(s)
        Edge(i) == i \in 1 .. n => s[i] \in {45, 46}
    IN  /\ n \in 1 .. 63
        /\ \A i \in 1 .. n :
             /\ NameByte(s[i])
             /\ i \in {1, n} => ~ Edge(i)
             /\ s[i] = 46 => ~ Edge(i - 1) /\ ~ Edge(i + 1)

Decimals ==
    { <<48 + n>> : n \in 0 .. 9 } \cup { <<48 + (n \div 10), 48 + (n % 10)>> : n \in 10 .. 99 }
      \cup { <<48 + (n \div 100), 48 + ((n \div 10) % 10), 48 + (n % 10)>> : n \in 100 .. 255 }

\* Four numbers up to 255 without leading zeros.
Address(s) ==
    LET dots      == { i \in 1 .. Len(s) : s[i] = 46 }
        Octet(i)  == SubSeq(s, i, Min({ j \in dots \cup {Len(s) + 1} : j >= i }) - 1)
    IN  /\ Cardinality(dots) = 3
        /\ \A i \in {1} \cup { d + 1 : d \in dots } : Octet(i) \in Decimals

Printable(b) == b \in 32 .. 126

\* The offset of byte b at or behind an offset, -1 when there is none.
Offset(s, b, from) ==
    LET places == { i \in from .. Len(s) - 1 : s[i + 1] = b }
    IN  IF places = {} THEN -1 ELSE Min(places)

\* What is returned of the text of a user's name and password.
CredentialsFound(s, found) ==
    LET colon == Offset(s, 58, 0)
        at    == IF colon = -1 THEN -1 ELSE Offset(s, 64, colon + 1)
        Clean(n) == \A i \in 1 .. n : Printable(s[i])
    IN  /\ found[1] = colon /\ found[2] = at
        /\ found[3] => at # -1 /\ Clean(at)
        /\ at # -1 /\ Clean(Len(s)) => found[3]

Value(digits) == FoldLeft(LAMBDA n, d : 10 * n + (d - 48), 0, digits)

\* The digits behind the last colon, at most five.
PortDigits(s) ==
    LET colons == { i \in 1 .. Len(s) : s[i] = 58 }
    IN  IF colons = {} THEN <<>> ELSE SubSeq(s, Max(colons) + 1, Len(s))

-----------------------------------------------------------------------------
\* Whatever bytes are beside each other in a word, a test on eight at a time
\* says what a test byte by byte would: line feeds, names, printable text, IPv4
\* addresses, where credentials end and whether a port is one (newlineBits,
\* IsHostName, IsPrintable, isIPv4, scanCredentials, isHostPort).
WordTestsExact ==
        /\ IsHostName(text) <=> HostName(text)
        /\ IsPrintable(text) <=> \A i \in DOMAIN text : Printable(text[i])
        /\ isIPv4(text) <=> Address(text)
        /\ Len(text) >= 8 =>
             /\ newlineBits(Load64(text, 0)) = { k \in 0 .. 7 : text[k + 1] = 10 }
             /\ CredentialsFound(text, scanCredentials(text, 0))
        /\ LET digits == PortDigits(text)
           IN  /\ Len(digits) \in 1 .. 5
               /\ \A k \in DOMAIN digits : digits[k] \in 48 .. 57
               => (isPortWord(text, Len(digits)) <=> Value(digits) \in 1 .. 65535)
=============================================================================

--------------------------- MODULE ParserFastPath ---------------------------
(***************************************************************************)
(* The parser's short cuts: proxyparser/fastpath.go and the tests of       *)
(* internal/structuralindex they call.  Each may decline an input that the *)
(* rules of ProxySyntax accept; none may accept one that they refuse.      *)
(*                                                                         *)
(* The tests on words of eight bytes are modelled by the bytes each word   *)
(* holds, and the bitmaps of an index by the sets of offsets they mark.    *)
(*                                                                         *)
(* A tier is what a build and a processor offer: "vector" with a kernel    *)
(* that indexes inputs of at most MaxLen bytes, "word" without one, and    *)
(* "scalar" for a parser that takes no short cut at all.                   *)
(***************************************************************************)
EXTENDS ProxySyntax

MaxLen == 64
maxHostNameLen == 63
maxPortDigits == 5

Tiers == {"scalar", "word", "vector"}

\* Index.Build: whether the input has an index.
Build(input, tier) == tier = "vector" /\ Bytes(input) \in 1 .. MaxLen

Bitmap(input, class) == {i \in 0 .. Len(input) - 1 : input[i + 1] \in class}

NameBytes == Alnum \cup {"-", "."}
Edge == {"-", "."}

\* One word of a name: only a name's bytes, no edge beside a dot, none at an end.
ValidNameWord(s, word, ends) ==
    \A i \in word :
        /\ s[i + 1] \in NameBytes
        /\ s[i + 1] \in Edge =>
             /\ i \notin ends
             /\ \A j \in {i - 1, i + 1} \cap word : s[j + 1] # "."

\* Mutant: words that do not overlap.
NameWordsApart(n) ==
    IF n <= 8 THEN {0 .. n - 1}
    ELSE {i .. i + 7 : i \in {0, n - 8} \cup {j \in 1 .. n - 9 : j % 8 = 0}}

\* Words overlap by a byte, so that each pair of neighbours lies in one.
NameWords(n) ==
    IF n <= 8 THEN {0 .. n - 1}
    ELSE {i .. i + 7 : i \in {0, n - 8} \cup {j \in 1 .. n - 9 : j % 7 = 0}}

IsHostName(s) ==
    /\ Bytes(s) \in 1 .. maxHostNameLen
    /\ \A word \in NameWords(Len(s)) : ValidNameWord(s, word, {0, Len(s) - 1})

isOctet(digits) ==
    \/ Len(digits) = 1
    \/ Len(digits) \in 2 .. 3 /\ digits[1] # "0" /\ Number(digits) <= 255

\* The dots are looked for in the first word and, backwards, in the last: a
\* word with too few puts its dot just past its end.
isIPv4(host) ==
    LET n == Len(host)
        dots == Bitmap(host, {"."})
        Least(S) == IF S = {} THEN 8 ELSE Min(S)
        firstDots == dots \cap 0 .. 7
        lastDots == {n - 1 - i : i \in dots \cap (n - 8) .. (n - 1)}
        firstLen == Least(firstDots)
        secondDot == Least(firstDots \ {firstLen})
        fourthLen == Least(lastDots)
        secondDotFromEnd == Least(lastDots \ {fourthLen})
    IN  /\ n \in 7 .. 15 /\ AllIn(host, Digits \cup {"."})
        /\ IF n = 7 THEN dots = {1, 3, 5}
           ELSE /\ secondDot + secondDotFromEnd + 1 = n
                /\ isOctet(Slice(host, 0, firstLen))
                /\ isOctet(Slice(host, firstLen + 1, secondDot))
                /\ isOctet(Slice(host, n - secondDotFromEnd, n - fourthLen - 1))
                /\ isOctet(Slice(host, n - fourthLen, n))

\* The host input[start:hostEnd] as the bitmaps of an index show it.
IndexedName(input, start, hostEnd) ==
    LET host == start .. hostEnd - 1
        dots == Bitmap(input, {"."}) \cap host
        edges == Bitmap(input, Edge) \cap host
        beside == {i + 1 : i \in dots} \cup {i - 1 : i \in dots} \cup {start, hostEnd - 1}
    IN  /\ host \subseteq edges \cup Bitmap(input, Alnum)
        /\ edges \cap beside = {}

\* A final label of digits is left to isIPv4: it is no name.
EndsInNumber(host) == isDigitLabel(LastPart(host, "."))

isHostPort(input, start, indexed) ==
    LET n == Len(input)
        portLimit == Max({start, n - maxPortDigits - 1})
        portStart == Min({k \in portLimit .. n : \A i \in k .. n - 1 : input[i + 1] \in Digits})
        hostEnd == portStart - 1
        host == Slice(input, start, hostEnd)
    IN  /\ start < n /\ input[start + 1] # "["
        /\ n - portStart \in 1 .. maxPortDigits
        /\ hostEnd > start /\ input[hostEnd + 1] = ":"
        /\ Number(Rest(input, portStart)) \in PortNumbers
        /\ \/ isIPv4(host)
           \/ /\ ~EndsInNumber(host)
              /\ IF indexed THEN IndexedName(input, start, hostEnd) ELSE IsHostName(host)

isCredentialPair(scheme, username, password) ==
    /\ Bytes(username) <= maxCredentialLength /\ Bytes(password) <= maxCredentialLength
    /\ password # <<>> =>
         username # <<>> /\ scheme \notin {<<"socks4">>, <<"socks4a">>}

\* The offsets scanCredentials loads, a word at a time, to find a byte at
\* found from from on: the last word is the input's last when none is left.
Scanned(n, from, found) ==
    LET At(i) == Max({0, Min({i, n - 8})})
    IN  At(from) .. At(from + 8 * ((found - from) \div 8)) + 7

scanCredentials(input, start, usernameEnd, passwordEnd) ==
    \A i \in Scanned(Len(input), start, usernameEnd)
             \cup Scanned(Len(input), usernameEnd + 1, passwordEnd) :
        i < Len(input) => input[i + 1] \notin Unprintable

(***************************************************************************)
(* parseStrictFast: the two strict formats written for a canonical scheme. *)
(* What it does not handle, an input it has only declined, is parsed anew. *)
(***************************************************************************)
NoError == [kind |-> "none", delim |-> <<>>, pos |-> 0]
Failure(kind, delim) == [kind |-> kind, delim |-> delim, pos |-> 0]

Declined == [handled |-> FALSE, err |-> NoError, proxy |-> ZeroProxy]

parseStrictFast(input, credentials, tier) ==
    LET scheme == Slice(input, 0, 1)
        start == 4
        indexed == Build(input, tier)
        usernameEnd == IndexByte(input, ":", start)
        passwordEnd == IF usernameEnd = Absent THEN Absent
                       ELSE IndexByte(input, "@", usernameEnd + 1)
        username == Slice(input, start, usernameEnd)
        password == Slice(input, usernameEnd + 1, passwordEnd)
        printable == IF indexed
                     THEN Bitmap(input, Unprintable) \cap start .. passwordEnd - 1 = {}
                     ELSE scanCredentials(input, start, usernameEnd, passwordEnd)
        Accepted(host, u, p) ==
            [handled |-> TRUE, err |-> NoError,
             proxy |-> [scheme |-> scheme, host |-> Rest(input, host), hostAt |-> host,
                        username |-> u, password |-> p]]
        Refused(delim) ==
            [handled |-> TRUE, err |-> Failure("ErrSubseqDelimNotFound", delim),
             proxy |-> ZeroProxy]
    IN  IF ~(/\ Bytes(input) >= 10 /\ Len(input) >= start
             /\ IsValidScheme(scheme) /\ Slice(input, 1, 4) = <<":", "/", "/">>)
        THEN Declined
        ELSE IF ~credentials
        THEN IF isHostPort(input, start, FALSE)
             THEN Accepted(start, <<>>, <<>>) ELSE Declined
        ELSE IF passwordEnd = Absent
        THEN Refused(IF usernameEnd = Absent THEN <<":">> ELSE <<"@">>)
        ELSE IF /\ printable /\ isCredentialPair(scheme, username, password)
                /\ isHostPort(input, passwordEnd + 1, indexed)
        THEN Accepted(passwordEnd + 1, username, password)
        ELSE Declined

\* A host cut from the input is checked in place, with the input's index; a
\* host that was joined has no place in it.
isValidFast(input, p, indexed) ==
    /\ IsValidScheme(p.scheme)
    /\ p.username # <<>> \/ p.password # <<>> =>
         /\ isCredentialPair(p.scheme, p.username, p.password)
         /\ p.scheme \in {<<"http">>, <<"https">>} => ~Contains(p.username, ":")
         /\ isPrintableASCII(p.username) /\ isPrintableASCII(p.password)
    /\ IF indexed /\ p.host # <<>> /\ p.hostAt # Absent
       THEN isHostPort(Slice(input, 0, p.hostAt + Len(p.host)), p.hostAt, TRUE)
       ELSE isHostPort(p.host, 0, FALSE)
=============================================================================

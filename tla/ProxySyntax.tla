---------------------------- MODULE ProxySyntax ----------------------------
(***************************************************************************)
(* What proxykit takes for a proxy: proxy.go's schemes, host:port pairs,   *)
(* hosts, ports and credentials, and the order in which Validate reports   *)
(* what is wrong.                                                          *)
(*                                                                         *)
(* A text is a sequence of symbols.  A symbol is one byte, except that a   *)
(* scheme's name is one symbol (a Word): no rule looks inside it but the   *)
(* folding of its case, and the rules on lengths count its letters         *)
(* (Bytes).  An offset counts the symbols before a place, as in Go.        *)
(***************************************************************************)
EXTENDS Integers, SequencesExt

maxDNSLabelLength == 63
maxDNSNameLength == 253
maxAbsoluteDNSNameLength == 254
maxCredentialLength == 255
PortNumbers == 1 .. 65535

Absent == -1

Digits == {"0", "1", "2", "3", "4", "5", "6", "7", "8", "9"}
Schemes == {"http", "https", "socks4", "socks4a", "socks5", "socks5h"}
\* Names that are a scheme once their letters are folded to lower case.
Folded == [w \in {"HTTP", "Socks5"} |-> IF w = "HTTP" THEN "http" ELSE "socks5"]
Words == Schemes \cup DOMAIN Folded
WordBytes == [w \in Words |->
                CASE w \in {"http", "HTTP"} -> 4
                  [] w = "https" -> 5
                  [] w \in {"socks4", "socks5", "Socks5"} -> 6
                  [] OTHER -> 7]
HexLetters == {"a", "b", "F"}
Alnum == Digits \cup HexLetters \cup {"x", "Z"} \cup Words
Unprintable == {"TAB", "DEL", "0xC3"}

DigitValue == [c \in Digits |->
                 CASE c = "0" -> 0 [] c = "1" -> 1 [] c = "2" -> 2 [] c = "3" -> 3 [] c = "4" -> 4
                   [] c = "5" -> 5 [] c = "6" -> 6 [] c = "7" -> 7 [] c = "8" -> 8 [] OTHER -> 9]
AllIn(s, S) == \A i \in 1 .. Len(s) : s[i] \in S
Number(s) ==
    LET Upto[n \in 0 .. Len(s)] == IF n = 0 THEN 0 ELSE 10 * Upto[n - 1] + DigitValue[s[n]]
    IN  Upto[Len(s)]
\* The bytes of s: a word has more than one.
SymbolBytes(c) == IF c \in Words THEN WordBytes[c] ELSE 1
Bytes(s) ==
    LET Upto[n \in 0 .. Len(s)] == IF n = 0 THEN 0 ELSE Upto[n - 1] + SymbolBytes(s[n])
    IN  Upto[Len(s)]

\* s[from:to] and s[from:].
Slice(s, from, to) == SubSeq(s, from + 1, to)
Rest(s, from) == SubSeq(s, from + 1, Len(s))

\* The offset of the first c in s at or after from, Absent when there is none.
IndexByte(s, c, from) == SelectInSubSeq(s, from + 1, Len(s), LAMBDA x : x = c) - 1

\* The texts between one c and the next, and the one behind the last.
Places(s, c) == {i \in 1 .. Len(s) : s[i] = c}
Part(s, c, first) ==
    LET ends == {i \in Places(s, c) : i >= first}
    IN  SubSeq(s, first, IF ends = {} THEN Len(s) ELSE Min(ends) - 1)
Parts(s, c) == {Part(s, c, first) : first \in {1} \cup {i + 1 : i \in Places(s, c)}}
LastPart(s, c) == Part(s, c, SelectLastInSeq(s, LAMBDA x : x = c) + 1)

(***************************************************************************)
(* The model of a proxy.  hostAt says where the host lies in the input it  *)
(* was cut from, Absent when it was joined from two fields and lies in     *)
(* memory of its own.                                                      *)
(***************************************************************************)
ZeroProxy == [scheme |-> <<>>, host |-> <<>>, hostAt |-> Absent,
              username |-> <<>>, password |-> <<>>]

Reset(p) == ZeroProxy

IsValidScheme(s) == Len(s) = 1 /\ s[1] \in Schemes

\* The canonical scheme of s, empty when s names none.
ParseScheme(s) ==
    IF IsValidScheme(s) THEN s
    ELSE IF Len(s) = 1 /\ s[1] \in DOMAIN Folded THEN <<Folded[s[1]]>>
    ELSE <<>>

(***************************************************************************)
(* Hosts.  A label of digits is a label like any other, so that it is only *)
(* behind the last dot that the code's branches on it differ.              *)
(***************************************************************************)
isIPv4Literal(host) ==
    /\ Cardinality(Places(host, ".")) = 3
    /\ \A octet \in Parts(host, ".") :
         /\ octet # <<>> /\ AllIn(octet, Digits)
         /\ Len(octet) > 1 => octet[1] # "0"
         /\ Len(octet) <= 3 /\ Number(octet) <= 255

(***************************************************************************)
(* netip.ParseAddr's IPv6 addresses without a zone: groups of one to four  *)
(* hexadecimal digits, the last two of which may be written as an IPv4     *)
(* address; eight of them, or at most seven and one "::".                  *)
(***************************************************************************)
GroupCount(s) ==
    LET written == Cardinality(Places(s, ":")) + 1
        other == {g \in Parts(s, ":") :
                    ~(Len(g) \in 1 .. 4 /\ AllIn(g, Digits \cup HexLetters))}
        last == LastPart(s, ":")
    IN  IF s = <<>> THEN 0
        ELSE IF other = {} THEN written
        ELSE IF other = {last} /\ isIPv4Literal(last) /\ Cardinality(Places(s, ".")) = 3
        THEN written + 1
        ELSE 9

ParseAddrIs6(s) ==
    LET doubles == {i \in 1 .. Len(s) - 1 : s[i] = ":" /\ s[i + 1] = ":"}
    IN  \/ doubles = {} /\ GroupCount(s) = 8
        \/ \E i \in doubles :
             /\ doubles = {i}
             /\ LET left == SubSeq(s, 1, i - 1)
                IN  /\ ~Contains(left, ".")
                    /\ GroupCount(left) + GroupCount(SubSeq(s, i + 2, Len(s))) <= 7

isValidZone(zone) == AllIn(zone, Alnum \cup {"-", ".", "_", "~"})

isValidIPLiteral(host) ==
    LET zone == IndexByte(host, "%", 0)
    IN  /\ Contains(host, ":")
        /\ zone # Absent => zone < Len(host) - 1 /\ isValidZone(Rest(host, zone + 1))
        /\ ParseAddrIs6(IF zone = Absent THEN host ELSE Slice(host, 0, zone))

isValidHostLabel(label) ==
    /\ label # <<>> /\ Bytes(label) <= maxDNSLabelLength
    /\ label[1] # "-" /\ Last(label) # "-"

isDigitLabel(label) == label # <<>> /\ AllIn(label, Digits)

IsValidHost(host) ==
    LET rootDot == Last(host) = "."
        name == IF rootDot THEN Front(host) ELSE host
    IN  /\ host # <<>>
        /\ IF Contains(host, ":") THEN isValidIPLiteral(host)
           ELSE /\ IF rootDot
                   THEN Bytes(host) \in 2 .. maxAbsoluteDNSNameLength
                   ELSE Bytes(host) <= maxDNSNameLength
                /\ AllIn(name, Alnum \cup {"-", "."})
                /\ \A label \in Parts(name, ".") : isValidHostLabel(label)
                /\ isDigitLabel(LastPart(name, ".")) => ~rootDot /\ isIPv4Literal(host)

(***************************************************************************)
(* Host and port.                                                          *)
(***************************************************************************)
isValidPort(port) ==
    LET first == SelectInSubSeq(port, 1, Len(port) - 1, LAMBDA c : c # "0")
        trimmed == IF first = 0 THEN Rest(port, Len(port) - 1) ELSE Rest(port, first - 1)
    IN  /\ port # <<>>
        /\ Len(trimmed) \in 1 .. 5 /\ AllIn(trimmed, Digits)
        /\ Number(trimmed) \in PortNumbers

SplitHostnamePort(hnp) ==
    LET bracketed == hnp[1] = "["
        end == IndexByte(hnp, "]", 0)
        colon == IndexByte(hnp, ":", 0)
        failed == [host |-> <<>>, port |-> <<>>, bracketed |-> FALSE, ok |-> FALSE]
    IN  IF Bytes(hnp) < 2 THEN failed
        ELSE IF bracketed
        THEN IF end = Absent \/ end + 1 >= Len(hnp) \/ hnp[end + 2] # ":" THEN failed
             ELSE [host |-> Slice(hnp, 1, end), port |-> Rest(hnp, end + 2),
                   bracketed |-> TRUE, ok |-> TRUE]
        ELSE IF colon = Absent \/ IndexByte(hnp, ":", colon + 1) # Absent THEN failed
        ELSE [host |-> Slice(hnp, 0, colon), port |-> Rest(hnp, colon + 1),
              bracketed |-> FALSE, ok |-> TRUE]

\* "ok" or the name of the sentinel.
validateHostnamePort(hnp) ==
    LET lastColon == SelectLastInSeq(hnp, LAMBDA c : c = ":") - 1
        malformed == IF \/ lastColon = Absent
                        \/ hnp[1] = "[" /\ IndexByte(hnp, "]", 0) > lastColon
                     THEN "ErrInvalidPort" ELSE "ErrInvalidHost"
        Wrong(pair) ==
            IF ~pair.ok THEN malformed
            ELSE IF ~isValidPort(pair.port) THEN "ErrInvalidPort"
            ELSE IF /\ pair.host # <<>>
                    /\ IF pair.bracketed THEN isValidIPLiteral(pair.host)
                       ELSE IsValidHost(pair.host)
            THEN "ok" ELSE "ErrInvalidHost"
    IN  IF hnp = <<>> THEN "ErrInvalidHost" ELSE Wrong(SplitHostnamePort(hnp))

(***************************************************************************)
(* Credentials.                                                            *)
(***************************************************************************)
isPrintableASCII(s) == \A i \in 1 .. Len(s) : s[i] \notin Unprintable

IsValidCredentials(username, password) ==
    /\ username = <<>> => password = <<>>
    /\ Bytes(username) <= maxCredentialLength /\ Bytes(password) <= maxCredentialLength
    /\ isPrintableASCII(username) /\ isPrintableASCII(password)

IsValidCredentialsFor(scheme, username, password) ==
    /\ IsValidCredentials(username, password)
    /\ scheme \in {<<"http">>, <<"https">>} => ~Contains(username, ":")
    /\ scheme \in {<<"socks4">>, <<"socks4a">>} => password = <<>>

\* The first of two errors.
FirstOf(err, next) == IF err # "ok" THEN err ELSE next

Validate(p) ==
    IF ~IsValidScheme(p.scheme) THEN "ErrInvalidScheme"
    ELSE FirstOf(validateHostnamePort(p.host),
                 IF IsValidCredentialsFor(p.scheme, p.username, p.password)
                 THEN "ok" ELSE "ErrInvalidCredentials")

(***************************************************************************)
(* A url.URL: user is empty when the URL has none, else the username and,  *)
(* when one is set, the password; more names what else the URL carries of  *)
(* Opaque, RawQuery, ForceQuery, Fragment and a Path other than "/".       *)
(***************************************************************************)
DefaultPort(scheme) ==
    CASE scheme = <<"http">> -> <<"8", "0">>
      [] scheme = <<"https">> -> <<"4", "4", "3">>
      [] scheme \in { <<s>> : s \in {"socks4", "socks4a", "socks5", "socks5h"} } ->
           <<"1", "0", "8", "0">>
      [] OTHER -> <<"0">>

ExportURL(p) ==
    [scheme |-> p.scheme, host |-> p.host, more |-> {},
     user |-> IF p.username = <<>> THEN <<>>
              ELSE IF p.password = <<>> THEN <<p.username>>
              ELSE <<p.username, p.password>>]

\* Mutant: a ':' with no port behind it is kept in front of the default port.
TrimmedHostKeepsColon(host) == host

\* strings.TrimSuffix(host, ":")
TrimmedHost(host) == IF Last(host) = ":" THEN Front(host) ELSE host

\* The proxy that a URL's parts make.
Described(u, scheme, pair) ==
    [scheme |-> scheme, hostAt |-> Absent,
     host |-> IF pair.ok /\ pair.port # <<>> THEN u.host
              ELSE TrimmedHost(u.host) \o <<":">> \o DefaultPort(scheme),
     username |-> IF u.user = <<>> THEN <<>> ELSE u.user[1],
     password |-> IF Len(u.user) < 2 THEN <<>> ELSE u.user[2]]

Checked(p, wrong) == [proxy |-> IF wrong = "ok" THEN p ELSE ZeroProxy, err |-> wrong]

\* The proxy a URL describes and "ok", or what is wrong with the URL.
FromURL(u) ==
    LET scheme == IF u.scheme = <<>> THEN <<"http">> ELSE ParseScheme(u.scheme)
        FirstWrong(p) == IF u.more # {} THEN "ErrInvalidProxyURL"
                         ELSE IF scheme = <<>> THEN "ErrInvalidScheme"
                         ELSE IF u.host = <<>> THEN "ErrInvalidHost"
                         ELSE Validate(p)
        Made(p) == Checked(p, FirstWrong(p))
    IN  Made(Described(u, scheme, SplitHostnamePort(u.host)))
=============================================================================

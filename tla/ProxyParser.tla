---------------------------- MODULE ProxyParser ----------------------------
(***************************************************************************)
(* Package proxyparser: New compiles a format into a plan, and ParseInto   *)
(* cuts an input along it.  A parser reads nothing but its format and the  *)
(* input, so a call is one operator here, written as the code's loop: a    *)
(* record of the loop's locals that the operations of the plan change in   *)
(* turn.                                                                   *)
(*                                                                         *)
(* The specification is the caller's side: a line of a proxy list, perhaps *)
(* damaged, that is handed to the strict and the lenient parser of a       *)
(* format, in either order and into one destination; and a proxy, be it    *)
(* what the lenient one made of the line, written out in the format and    *)
(* handed to the strict one.                                               *)
(***************************************************************************)
EXTENDS ParserFastPath

CONSTANTS Symbols, \* what texts are made of
          Formats, \* formats with which parsers are compiled
          Lines, \* lines of a list before any damage
          Proxies, \* valid proxies whose username has no ':' and whose password no '@'
          Damage, \* symbols a damage may put into a line
          MaxDamagedLength \* a longer line stays as it was written

Text == Seq(Symbols)
Texts == [scheme : Text, host : Text, hostAt : Int, username : Text, password : Text]

ASSUME TextsAssumption ==
    /\ {":", "/", "%"} \cup Words \cup Digits \subseteq Symbols
    /\ Formats \cup Lines \subseteq Text
    /\ Damage \subseteq Symbols

ASSUME ProxiesAssumption ==
    \A p \in Proxies :
        /\ p \in Texts
        /\ Validate(p) = "ok" /\ ~Contains(p.username, ":") /\ ~Contains(p.password, "@")

VARIABLES line, \* the line at hand
          intact, \* not damaged, nor parsed so far
          parsers, \* the strict and the lenient parser of a format
          proxy, \* the destination of the calls, in use from the start
          said, \* a proxy that is written out in the format
          results \* of each call so far, on each tier

vars == <<line, intact, parsers, proxy, said, results>>
-----------------------------------------------------------------------------
(***************************************************************************)
(* New.  An operation of a plan captures a field up to the next delimiter, *)
(* or captures none and expects its delimiter.                             *)
(***************************************************************************)
schemeSeparator == <<":", "/", "/">>

SchemeHostPort == <<"%", "t", ":", "/", "/", "%", "h", ":", "%", "d">>
FullCredentials == <<"%", "t", ":", "/", "/", "%", "u", ":", "%", "p", "@",
                     "%", "h", ":", "%", "d">>

detectParserKind(format, strict) ==
    IF ~strict THEN "generic"
    ELSE IF format = SchemeHostPort THEN "strictSchemeHostPort"
    ELSE IF format = FullCredentials THEN "strictFullCredentials"
    ELSE "generic"

Verbs == {"t", "h", "d", "u", "p"}

Delimiter(text) == [field |-> "none", delim |-> text, consume |-> FALSE, credentialEnd |-> 0]
Capture(verb) == [field |-> verb, delim |-> <<>>, consume |-> FALSE, credentialEnd |-> 0]
\* What New refuses: an unknown verb, or a '%' that ends the format.
Wrong == Delimiter(<<>>)

\* The operation that begins at the i-th symbol of the format, and where the
\* next one begins.
Operation(format, i) ==
    LET n == Len(format)
        percent == SelectInSubSeq(format, i, n, LAMBDA c : c = "%")
        end == IF percent = 0 THEN n + 1 ELSE percent
    IN  IF format[i] # "%" THEN [op |-> Delimiter(SubSeq(format, i, end - 1)), next |-> end]
        ELSE IF i = n THEN [op |-> Wrong, next |-> n + 1]
        ELSE IF format[i + 1] = "%" THEN [op |-> Delimiter(<<"%">>), next |-> i + 2]
        ELSE IF format[i + 1] \in Verbs THEN [op |-> Capture(format[i + 1]), next |-> i + 2]
        ELSE [op |-> Wrong, next |-> n + 1]

\* Each round of the loop reads one, until the format is read.
Operations(format) ==
    LET n == Len(format)
        Read(st) == IF st.next > n THEN st
                    ELSE [plan |-> Append(st.plan, Operation(format, st.next).op),
                          next |-> Operation(format, st.next).next]
        After[k \in 0 .. n] == IF k = 0 THEN [plan |-> <<>>, next |-> 1] ELSE Read(After[k - 1])
    IN  After[n].plan

\* A capture ends at the next delimiter, which it takes with it when that is
\* the next operation; credentialEnd is the nearest operation that expects '@'.
Linked(plan) ==
    [k \in 1 .. Len(plan) |->
        IF plan[k].field = "none" THEN plan[k]
        ELSE LET next == SelectInSubSeq(plan, k, Len(plan), LAMBDA op : op.field = "none")
             IN  [field |-> plan[k].field,
                  delim |-> IF next = 0 THEN <<>> ELSE plan[next].delim,
                  consume |-> next = k + 1,
                  credentialEnd |->
                      SelectInSubSeq(plan, k, Len(plan), LAMBDA op :
                                     op.field = "none" /\ op.delim = <<"@">>)]]

New(format, strict) ==
    LET kind == detectParserKind(format, strict)
        plan == IF kind = "generic" THEN Linked(Operations(format)) ELSE <<>>
    IN  [format |-> format, strict |-> strict, kind |-> kind, plan |-> plan,
         hasScheme |-> \E k \in DOMAIN plan : plan[k].field = "t",
         ok |-> Wrong \notin {plan[k] : k \in DOMAIN plan}]
-----------------------------------------------------------------------------
(***************************************************************************)
(* The two strict formats that have a parser of their own.                 *)
(***************************************************************************)
schemeOf(s) == IF ParseScheme(s) = <<>> THEN s ELSE ParseScheme(s)

\* The offset of the first text in input at or after from.
Find(input, text, from) ==
    LET found == {i \in from .. Len(input) - Len(text) : Slice(input, i, i + Len(text)) = text}
    IN  IF found = {} THEN Absent ELSE Min(found)

Result(p, err) == [proxy |-> p, err |-> err]

\* What remains to check once the fields of a strict format are cut out.
Validated(p) ==
    IF Validate(p) = "ok" THEN Result(p, NoError)
    ELSE IF ~Contains(p.host, ":")
    THEN Result(ZeroProxy, Failure("ErrSubseqDelimNotFound", <<":">>))
    ELSE Result(p, Failure(Validate(p), <<>>))

parseStrictSchemeHostPort(input) ==
    LET schemeEnd == Find(input, schemeSeparator, 0)
    IN  IF schemeEnd = Absent
        THEN Result(ZeroProxy, Failure("ErrSubseqDelimNotFound", schemeSeparator))
        ELSE Validated([ZeroProxy EXCEPT
                          !.scheme = schemeOf(Slice(input, 0, schemeEnd)),
                          !.host = Rest(input, schemeEnd + 3), !.hostAt = schemeEnd + 3])

parseStrictFullCredentials(input) ==
    LET schemeEnd == Find(input, schemeSeparator, 0)
        usernameEnd == IndexByte(input, ":", schemeEnd + 3)
        passwordEnd == IndexByte(input, "@", usernameEnd + 1)
        NotFound(delim) == Result(ZeroProxy, Failure("ErrSubseqDelimNotFound", delim))
    IN  IF schemeEnd = Absent THEN NotFound(schemeSeparator)
        ELSE IF usernameEnd = Absent THEN NotFound(<<":">>)
        ELSE IF passwordEnd = Absent THEN NotFound(<<"@">>)
        ELSE Validated([scheme |-> schemeOf(Slice(input, 0, schemeEnd)),
                        host |-> Rest(input, passwordEnd + 1), hostAt |-> passwordEnd + 1,
                        username |-> Slice(input, schemeEnd + 3, usernameEnd),
                        password |-> Slice(input, usernameEnd + 1, passwordEnd)])
-----------------------------------------------------------------------------
(***************************************************************************)
(* The plan's parser.  Its locals: the operation that comes next, the      *)
(* offset pos reached in the input, the proxy, where the last host lay,    *)
(* and what is to be judged at the end.                                    *)
(***************************************************************************)
Locals(dst) ==
    [next |-> 1, pos |-> 0, proxy |-> Reset(dst), hostStart |-> Absent, hostEnd |-> 0,
     hostParsed |-> FALSE, schemeParsed |-> FALSE, emptyHost |-> FALSE, emptyPort |-> FALSE,
     err |-> NoError]

\* A lenient format without %t takes a scheme off the front.
Begin(parser, input, dst) ==
    LET idx == Find(input, schemeSeparator, 0)
        scheme == schemeOf(Slice(input, 0, idx))
        st == Locals(dst)
    IN  IF parser.strict \/ parser.hasScheme THEN st
        ELSE IF idx = Absent THEN [st EXCEPT !.err = Failure("ErrSchemeNotParsed", <<>>)]
        ELSE [st EXCEPT !.proxy = [@ EXCEPT !.scheme = scheme],
                        !.schemeParsed = scheme # <<>>, !.pos = idx + 3]

\* val was cut from the input at the offset at.
Joined(p, val, at) ==
    IF p.host = <<>> THEN [p EXCEPT !.host = val, !.hostAt = at]
    ELSE IF val = <<>> THEN p
    ELSE [p EXCEPT !.host = @ \o <<":">> \o val, !.hostAt = Absent]

assignField(p, field, val, at) ==
    CASE field = "t" -> [p EXCEPT !.scheme = schemeOf(val)]
      [] field \in {"h", "d"} -> Joined(p, val, at)
      [] field = "u" -> [p EXCEPT !.username = val]
      [] field = "p" -> [p EXCEPT !.password = val]

\* A delimiter no capture has taken.
Expect(parser, input, st, op) ==
    LET end == st.pos + Len(op.delim)
        matched == end <= Len(input) /\ Slice(input, st.pos, end) = op.delim
    IN  IF matched THEN [st EXCEPT !.next = @ + 1, !.pos = end]
        ELSE IF parser.strict
        THEN [st EXCEPT !.err = [kind |-> "ErrMismatchDelim", delim |-> op.delim, pos |-> st.pos]]
        ELSE [st EXCEPT !.next = @ + 1]

\* Mutant: the delimiter is looked for inside the brackets, too.
FieldEndAnywhere(input, op, start) ==
    IF op.delim = <<>> THEN Absent ELSE Find(input, op.delim, start)

\* Where the field's delimiter begins: behind the bracket that closes a host.
FieldEnd(input, op, start) ==
    LET bracketed == op.field = "h" /\ start < Len(input) /\ input[start + 1] = "["
        close == IndexByte(input, "]", start)
        from == IF bracketed /\ close # Absent THEN close + 1 ELSE start
    IN  IF op.delim = <<>> THEN Absent ELSE Find(input, op.delim, from)

\* Mutant: the first '@' ends the username even if the password has one behind.
IsUsernameOnlyEager(parser, input, st, op, credentialAt, idx) ==
    /\ credentialAt # Absent /\ op.field = "u" /\ op.delim = <<":">>
    /\ op.credentialEnd = st.next + 3 /\ parser.plan[st.next + 2].field = "p"
    /\ idx > credentialAt

\* A lenient %u:%p@ also takes username@: the '@' comes before any ':', and no
\* '@' follows that ':'.
IsUsernameOnly(parser, input, st, op, credentialAt, idx) ==
    /\ credentialAt # Absent /\ op.field = "u" /\ op.delim = <<":">>
    /\ op.credentialEnd = st.next + 3 /\ parser.plan[st.next + 2].field = "p"
    /\ idx > credentialAt
    /\ IndexByte(input, "@", idx + 1) = Absent

\* A lenient field whose delimiter is missing.
TakeUnended(input, st, op) ==
    LET start == st.pos
        n == Len(input)
        at == IndexByte(input, "@", start)
        after == [st EXCEPT !.next = @ + 1]
        To(end) == [after EXCEPT !.proxy = assignField(@, op.field, Slice(input, start, end), start),
                                 !.pos = end]
    IN  CASE op.field = "h" -> [To(n) EXCEPT !.hostStart = start, !.hostEnd = n,
                                             !.hostParsed = @ \/ start < n]
          [] op.field = "u" -> IF at # Absent THEN To(at)
                               ELSE IF op.delim = <<":">> THEN To(n) ELSE after
          [] op.field = "p" -> IF at # Absent THEN To(at) ELSE after
          [] OTHER -> To(n)

\* A field that ends where its delimiter begins, or with the input.
TakeField(input, st, op, end) ==
    LET start == st.pos
        value == Slice(input, start, end)
        after == [st EXCEPT !.next = @ + (IF op.consume THEN 2 ELSE 1),
                            !.pos = end + (IF op.consume THEN Len(op.delim) ELSE 0)]
        adjacent == st.hostStart # Absent /\ st.hostEnd + 1 = start /\ input[st.hostEnd + 1] = ":"
    IN  CASE op.field = "h" ->
               [after EXCEPT !.proxy = [@ EXCEPT !.host = value, !.hostAt = start],
                             !.emptyHost = @ \/ value = <<>>, !.hostParsed = value # <<>>,
                             !.hostStart = start, !.hostEnd = end]
          [] op.field = "d" ->
               [after EXCEPT !.emptyPort = @ \/ value = <<>>,
                             !.proxy = IF adjacent
                                       THEN [@ EXCEPT !.host = Slice(input, st.hostStart, end),
                                                      !.hostAt = st.hostStart]
                                       ELSE Joined(@, value, start)]
          [] OTHER ->
               [after EXCEPT !.proxy = assignField(@, op.field, value, start),
                             !.schemeParsed = @ \/ (op.field = "t" /\ value # <<>>)]

CaptureField(parser, input, st, op) ==
    LET start == st.pos
        inCredentials == ~parser.strict /\ op.field \in {"u", "p"} /\ op.credentialEnd # 0
        credentialAt == IF inCredentials THEN IndexByte(input, "@", start) ELSE Absent
        idx == FieldEnd(input, op, start)
    IN  IF inCredentials /\ credentialAt = Absent
        THEN [st EXCEPT !.next = op.credentialEnd + 1]
        ELSE IF IsUsernameOnly(parser, input, st, op, credentialAt, idx)
        THEN [st EXCEPT !.proxy = [@ EXCEPT !.username = Slice(input, start, credentialAt),
                                            !.password = <<>>],
                        !.pos = credentialAt + 1, !.next = op.credentialEnd + 1]
        ELSE IF op.delim # <<>> /\ idx = Absent
        THEN IF parser.strict
             THEN [st EXCEPT !.err = Failure("ErrSubseqDelimNotFound", op.delim)]
             ELSE TakeUnended(input, st, op)
        ELSE TakeField(input, st, op, IF op.delim = <<>> THEN Len(input) ELSE idx)

\* The plan's k-th operation, unless the parser has skipped it or given up.
Step(parser, input, st, k) ==
    LET op == parser.plan[k]
    IN  IF st.next # k \/ st.err # NoError THEN st
        ELSE IF op.field = "none" THEN Expect(parser, input, st, op)
        ELSE CaptureField(parser, input, st, op)

\* Mutant: text behind the last field is let pass.
NoTrail(parser, input, st) == FALSE

\* A strict parser must have read the whole input.
Trail(parser, input, st) == parser.strict /\ st.pos < Len(input)

\* The short cut's word is enough to accept a proxy, never to refuse one.
IsUsable(input, p, tier) ==
    \/ tier # "scalar" /\ isValidFast(input, p, Build(input, tier))
    \/ Validate(p) = "ok"

\* What the parser says once its plan is done.
Verdict(parser, input, st, tier) ==
    LET p == st.proxy
    IN  IF st.err # NoError THEN st.err
        ELSE IF Trail(parser, input, st)
        THEN Failure("ErrUnexpectedTrail", Rest(input, st.pos))
        ELSE IF parser.strict /\ (st.emptyHost \/ st.emptyPort)
        THEN Failure(IF ~IsValidScheme(p.scheme) THEN "ErrInvalidScheme"
                     ELSE IF p.host # <<>> /\ st.emptyPort THEN "ErrInvalidPort"
                     ELSE "ErrInvalidHost", <<>>)
        ELSE IF ~parser.strict /\ ~st.schemeParsed /\ p.scheme = <<>>
        THEN Failure("ErrSchemeNotParsed", <<>>)
        ELSE IF ~parser.strict /\ (~st.hostParsed \/ p.host = <<>>)
        THEN Failure("ErrHostNotParsed", <<>>)
        ELSE IF IsUsable(input, p, tier) THEN NoError
        ELSE Failure(Validate(p), <<>>)

parseGeneric(parser, input, dst, tier) ==
    LET After[k \in 0 .. Len(parser.plan)] ==
            IF k = 0 THEN Begin(parser, input, dst) ELSE Step(parser, input, After[k - 1], k)
        end == After[Len(parser.plan)]
    IN  Result(end.proxy, Verdict(parser, input, end, tier))

\* Parse, ParseString, ParseInto and ParseBytes into a destination in use.
ParseInto(parser, input, dst, tier) ==
    LET credentials == parser.kind = "strictFullCredentials"
        fast == parseStrictFast(input, credentials, tier)
    IN  IF parser.kind = "generic" THEN parseGeneric(parser, input, dst, tier)
        ELSE IF tier # "scalar" /\ fast.handled THEN Result(fast.proxy, fast.err)
        ELSE IF credentials THEN parseStrictFullCredentials(input)
        ELSE parseStrictSchemeHostPort(input)
-----------------------------------------------------------------------------
(***************************************************************************)
(* The lines of a list and the calls.                                      *)
(***************************************************************************)
\* A destination that holds another proxy.
InUse == [scheme |-> <<"socks5">>, host |-> <<"x", ":", "9">>, hostAt |-> Absent,
          username |-> <<"x">>, password |-> <<"Z">>]

Init ==
    /\ line \in Lines
    /\ intact = TRUE
    /\ \E f \in Formats : parsers = [strict |-> New(f, TRUE), lenient |-> New(f, FALSE)]
    /\ proxy = InUse
    /\ said = ZeroProxy
    /\ results = <<>>

MayDamage == intact /\ Len(line) <= MaxDamagedLength

Damaged ==
    /\ intact' = FALSE
    /\ UNCHANGED <<parsers, proxy, said, results>>

InsertSymbol ==
    /\ MayDamage
    /\ \E i \in 1 .. Len(line) + 1, c \in Damage : line' = InsertAt(line, i, c)
    /\ Damaged

DropSymbol ==
    /\ MayDamage
    /\ \E i \in 1 .. Len(line) : line' = RemoveAt(line, i)
    /\ Damaged

ReplaceSymbol ==
    /\ MayDamage
    /\ \E i \in 1 .. Len(line), c \in Damage : line' = ReplaceAt(line, i, c)
    /\ Damaged

Called == DOMAIN results

\* The tiers with a short cut parse into the destination in use, the scalar one
\* into a new proxy, as Parse and ParseString do.
Call(name, parser, input) ==
    /\ name \notin Called
    /\ \E r \in {[t \in Tiers |->
                    ParseInto(parser, input, IF t = "scalar" THEN ZeroProxy ELSE proxy, t)]} :
         /\ results' = [n \in Called \cup {name} |-> IF n = name THEN r ELSE results[n]]
         /\ proxy' = r["vector"].proxy
    /\ intact' = FALSE
    /\ UNCHANGED <<line, parsers, said>>

ParseLine == \E name \in {"strict", "lenient"} : Call(name, parsers[name], line)

\* Where a proxy's host ends and its port begins.
PortColon(host) == SelectLastInSeq(host, LAMBDA c : c = ":")

FieldText(p, verb) ==
    CASE verb = "t" -> p.scheme
      [] verb = "u" -> p.username
      [] verb = "p" -> p.password
      [] verb = "h" -> SubSeq(p.host, 1, PortColon(p.host) - 1)
      [] verb = "d" -> SubSeq(p.host, PortColon(p.host) + 1, Len(p.host))

\* The line that says p in the parsers' format.
Written(p) ==
    LET plan == parsers.lenient.plan
    IN  FlattenSeq([k \in DOMAIN plan |-> IF plan[k].field = "none" THEN plan[k].delim
                                          ELSE FieldText(p, plan[k].field)])

Accepted(name) == name \in Called /\ results[name]["scalar"].err = NoError

\* The format has a field for all of p.
Expresses(plan, p) ==
    LET verbs == {plan[k].field : k \in DOMAIN plan}
    IN  /\ {"t", "h", "d"} \subseteq verbs
        /\ p.username # <<>> => {"u", "p"} \subseteq verbs

Write ==
    /\ said = ZeroProxy
    /\ \/ intact /\ said' \in {p \in Proxies : Expresses(parsers.lenient.plan, p)}
       \/ /\ Accepted("lenient") /\ parsers.lenient.hasScheme
          /\ said' = results["lenient"]["scalar"].proxy
    /\ intact' = FALSE
    /\ UNCHANGED <<line, parsers, proxy, results>>

ParseWritten == said # ZeroProxy /\ Call("written", parsers.strict, Written(said))

Next ==
    \/ InsertSymbol \/ DropSymbol \/ ReplaceSymbol
    \/ ParseLine \/ Write \/ ParseWritten

Spec == Init /\ [][Next]_vars
-----------------------------------------------------------------------------
\* What a caller sees of a parse that has not failed.
Fields(p) == <<p.scheme, p.host, p.username, p.password>>

\* Every tier gives the same fields, or the same error down to the offset it
\* names, as the scalar parser, whatever the destination held before.
TiersAgree ==
    \A name \in Called : \A t \in Tiers :
        LET r == results[name][t]
            scalar == results[name]["scalar"]
        IN  r.err = scalar.err /\ (r.err = NoError => Fields(r.proxy) = Fields(scalar.proxy))

Unfolded(s) == [i \in DOMAIN s |-> IF s[i] \in DOMAIN Folded THEN Folded[s[i]] ELSE s[i]]

\* A strict parser accepts nothing but its format, written out with the fields
\* it returns (in the case the line gives the scheme), and those are valid.
StrictIsExact ==
    Accepted("strict") =>
        LET p == results["strict"]["scalar"].proxy
        IN  Validate(p) = "ok" /\ Unfolded(Written(p)) = Unfolded(line)

\* What the strict parser accepts, the lenient one of the same format reads as
\* the same proxy.
LenientExtendsStrict ==
    (Accepted("strict") /\ "lenient" \in Called) =>
        /\ Accepted("lenient")
        /\ Fields(results["lenient"]["scalar"].proxy)
               = Fields(results["strict"]["scalar"].proxy)

\* A valid proxy written out in a format is read back by its strict parser,
\* whole: brackets, zones and credentials do not confuse it.  Whatever the
\* lenient parser makes of a damaged line is such a proxy, so it never makes
\* up one that could not have been said.
WrittenIsRead ==
    "written" \in Called =>
        Accepted("written") /\ Fields(results["written"]["scalar"].proxy) = Fields(said)

\* A proxy a parser returns goes into a URL and comes back from it whole: no
\* valid proxy has a password that ExportURL would leave out.  And its URL with
\* the port cut off, be the ':' in front of it cut off or not, names the same
\* host on its scheme's default port, brackets and zones included.
URLRoundTrip ==
    \A name \in Called \cap {"strict", "lenient"} : Accepted(name) =>
        LET p == results[name]["scalar"].proxy
            url == ExportURL(p)
            host == FieldText(p, "h")
            Comes(u, hostPort) ==
                LET back == FromURL(u)
                IN  /\ back.err = "ok"
                    /\ Fields(back.proxy) = Fields([p EXCEPT !.host = hostPort])
            withDefault == host \o <<":">> \o DefaultPort(p.scheme)
        IN  \A at \in {<<p.host, p.host>>, <<host, withDefault>>,
                       <<Append(host, ":"), withDefault>>} :
                Comes([url EXCEPT !.host = at[1]], at[2])
=============================================================================

-------------------------- MODULE ParserPlanProofs --------------------------
(***************************************************************************)
(* What the parsers of a format make of the same line.  A strict parser    *)
(* that refuses nothing gives each operation of its plan its turn, where   *)
(* the one before it ended; the lenient parser then takes the same turns,  *)
(* and so do the parsers of the two formats that have their own.  What was *)
(* cut out, turn by turn, is the line: written out along the plan, the     *)
(* proxy is what was read.  And a proxy that is written out in one of the  *)
(* two formats is read back.                                               *)
(***************************************************************************)
EXTENDS ParserProofs

-----------------------------------------------------------------------------
(* The course of the plan's loop.                                          *)

\* What holds at m and goes on from each number to the next holds up to n.
LEMMA HoldsUpTo ==
    ASSUME NEW m \in Nat, NEW n \in Nat, NEW P, m \in P, \A i \in m .. n - 1 : i \in P => i + 1 \in P
    PROVE  \A i \in m .. n : i \in P
  <1> DEFINE without == { i \in m .. n : i \notin P }
  <1> SUFFICES ASSUME without # {}
               PROVE  FALSE
    OBVIOUS
  <1>1. without \in SUBSET Nat
    BY SMT
  <1>2. PICK i \in without : \A x \in without : i <= x
    BY <1>1, LeastNumber
  <1>3. i \in m .. n /\ i \in Nat /\ i \notin P
    BY <1>1, <1>2
  <1>4. i - 1 \in m .. n - 1 /\ (i - 1) + 1 = i /\ i - 1 \in m .. n /\ ~ (i <= i - 1)
    BY <1>3, SMT
  <1>5. i - 1 \in P
    BY <1>2, <1>4
  <1> QED
    BY <1>3, <1>4, <1>5

\* The locals after each round.
Course(parser, input, a) ==
    /\ a \in [0 .. Len(parser.plan) -> Cursors(input)]
    /\ a[0] = Begin(parser, input, ZeroProxy)
    /\ a[Len(parser.plan)] = EndOf(parser, input, ZeroProxy)
    /\ \A k \in 1 .. Len(parser.plan) : a[k] = Step(parser, input, a[k - 1], k)

\* The loop has a course.
LEMMA CourseExists ==
    ASSUME NEW input \in Text, NEW parser, parser.plan \in Seq(Operated)
    PROVE  \E a : Course(parser, input, a)
  <1> DEFINE n == Len(parser.plan)
             C == Cursors(input)
             dst == ZeroProxy
             base == Begin(parser, input, dst)
             Rounds(g) == g = [k \in 0 .. n |-> IF k = 0 THEN base
                                                ELSE Step(parser, input, g[k - 1], k)]
             step == [k \in 1 .. n |-> [st \in C |-> Step(parser, input, st, k)]]
             after == CHOOSE g : Rounds(g)
  <1>1. n \in Nat
    OBVIOUS
  <1>2. EndOf(parser, input, dst) = after[n]
    BY Zenon DEF EndOf
  <1>3. base \in C
    BY BeginIsIn
  <1>4. \A st \in C, k \in 1 .. n : Step(parser, input, st, k) \in C
    BY StepKeeps
  <1> HIDE DEF base, n, C, dst
  <1>5. step \in [1 .. n -> [C -> C]]
    BY <1>4
  <1>6. PICK f \in [0 .. n -> C] :
            f[0] = base /\ \A i \in 1 .. n : f[i] = step[i][f[i - 1]]
    <2> HIDE DEF step
    <2>1. LoopRuns(C, n, base, step)
      BY <1>1, <1>3, <1>5, LoopExists
    <2> QED
      BY <2>1, Zenon DEF LoopRuns
  <1>7. \A i \in 1 .. n : i \in 0 .. n /\ i # 0 /\ i - 1 \in 0 .. n
    BY <1>1, SMT
  <1>8. \A i \in 1 .. n : f[i] = Step(parser, input, f[i - 1], i)
    BY <1>6, <1>7
  <1>9. Rounds(f)
    <2>1. \A k \in 0 .. n : k # 0 => k \in 1 .. n
      BY <1>1, SMT
    <2>2. \A k \in 0 .. n : f[k] = IF k = 0 THEN base ELSE Step(parser, input, f[k - 1], k)
      BY <1>6, <1>8, <2>1
    <2>3. f = [k \in 0 .. n |-> f[k]]
      BY <1>6
    <2> QED
      BY <2>2, <2>3
  <1>10. Rounds(after)
    <2> HIDE DEF Rounds
    <2> QED
      BY <1>9, Zenon
  <1> HIDE DEF after
  <1>11. after[0] = base /\ \A i \in 1 .. n : after[i] = Step(parser, input, after[i - 1], i)
    <2>1. \A k \in 0 .. n : after[k] = IF k = 0 THEN base ELSE Step(parser, input, after[k - 1], k)
      BY <1>10, Zenon
    <2>2. 0 \in 0 .. n
      BY <1>1, SMT
    <2> QED
      BY <1>7, <2>1, <2>2
  <1>12. \A i \in 1 .. n : after[i - 1] \in C => after[i] = step[i][after[i - 1]]
    BY <1>11
  <1> HIDE DEF step
  <1>13. after[0] = f[0]
    BY <1>6, <1>11
  <1>14. \A i \in 0 .. n : after[i] = f[i]
    <2>1. LoopsAlike(C, n, step, f, after)
      BY <1>6, <1>12, <1>13 DEF LoopsAlike
    <2>2. SameUpTo(n, f, after)
      BY <1>1, <2>1, LoopIsUnique, Zenon
    <2> QED
      BY <2>2 DEF SameUpTo
  <1>15. n \in 0 .. n
    BY <1>1, SMT
  <1>16. f[n] = EndOf(parser, input, dst) /\ f[0] = Begin(parser, input, dst)
    BY <1>2, <1>6, <1>14, <1>15 DEF base
  <1>17. Course(parser, input, f)
    BY <1>6, <1>8, <1>16 DEF Course, C, n, dst
  <1> QED
    BY <1>17

\* The course of a plan: what its operations were linked to.
IsLinked(plan) ==
    \A k \in 1 .. Len(plan) : plan[k].field # "none" =>
        /\ \/ \E m \in k + 1 .. Len(plan) :
                /\ plan[m].field = "none" /\ \A i \in k .. m - 1 : plan[i].field # "none"
                /\ plan[k].delim = plan[m].delim /\ plan[k].consume = (m = k + 1)
           \/ /\ \A i \in k .. Len(plan) : plan[i].field # "none"
              /\ plan[k].delim = <<>> /\ plan[k].consume = FALSE
        /\ plan[k].credentialEnd # 0 =>
              /\ plan[k].credentialEnd \in k + 1 .. Len(plan)
              /\ plan[plan[k].credentialEnd].field = "none"
              /\ plan[plan[k].credentialEnd].delim = <<"@">>

\* Linking leaves the fields and the delimiters alone,
KeepsOperations(linked, plan) ==
    /\ Len(linked) = Len(plan)
    /\ \A k \in 1 .. Len(plan) :
         /\ linked[k].field = plan[k].field
         /\ plan[k].field = "none" => linked[k] = plan[k]

\* and links each capture to what ends it.
LEMMA LinkedIsLinked ==
    ASSUME NEW plan \in Seq(Operated)
    PROVE  IsLinked(Linked(plan)) /\ KeepsOperations(Linked(plan), plan)
  <1> DEFINE n == Len(plan)
             delims(k) == { i \in k .. n : plan[i].field = "none" }
             ends(k) == { i \in k .. n : plan[i].field = "none" /\ plan[i].delim = <<"@">> }
             next(k) == IF delims(k) # {} THEN Min(delims(k)) ELSE 0
             credentialEnd(k) == IF ends(k) # {} THEN Min(ends(k)) ELSE 0
             link(k) == IF plan[k].field = "none" THEN plan[k]
                        ELSE [field |-> plan[k].field,
                              delim |-> IF next(k) = 0 THEN <<>> ELSE plan[next(k)].delim,
                              consume |-> next(k) = k + 1,
                              credentialEnd |-> credentialEnd(k)]
             linked == Linked(plan)
  <1>1. linked = [k \in 1 .. n |-> link(k)]
    BY DEF Linked, SelectInSubSeq
  <1>2. n \in Nat
    OBVIOUS
  <1>3. linked \in Seq(Operated)
    BY LinkedIsTyped
  <1> HIDE DEF linked
  <1>4. Len(linked) = n
    <2> HIDE DEF link, n
    <2> QED
      BY <1>1, <1>2
  <1>5. \A k \in 1 .. n : linked[k] = link(k)
    <2> HIDE DEF link
    <2> QED
      BY <1>1
  <1>6. \A k \in 1 .. n : linked[k].field = plan[k].field
    <2> TAKE k \in 1 .. n
    <2>1. \A field, delim, consume, ce :
            [field |-> field, delim |-> delim, consume |-> consume, credentialEnd |-> ce].field = field
      OBVIOUS
    <2>2. link(k).field = plan[k].field
      <3> HIDE DEF next, credentialEnd
      <3> QED
        BY <2>1
    <2> HIDE DEF link
    <2> QED
      BY <1>5, <2>2
  <1>7. \A k \in 1 .. n : plan[k].field = "none" => linked[k] = plan[k]
    <2> HIDE DEF next, credentialEnd
    <2> QED
      BY <1>5
  <1>8. ASSUME NEW k \in 1 .. n, linked[k].field # "none"
        PROVE  /\ \/ \E m \in k + 1 .. n :
                       /\ linked[m].field = "none"
                       /\ \A i \in k .. m - 1 : linked[i].field # "none"
                       /\ linked[k].delim = linked[m].delim /\ linked[k].consume = (m = k + 1)
                  \/ /\ \A i \in k .. n : linked[i].field # "none"
                     /\ linked[k].delim = <<>> /\ linked[k].consume = FALSE
               /\ linked[k].credentialEnd # 0 =>
                     /\ linked[k].credentialEnd \in k + 1 .. n
                     /\ linked[linked[k].credentialEnd].field = "none"
                     /\ linked[linked[k].credentialEnd].delim = <<"@">>
    <2>1. /\ plan[k].field # "none"
          /\ linked[k].delim = IF next(k) = 0 THEN <<>> ELSE plan[next(k)].delim
          /\ linked[k].consume = (next(k) = k + 1)
          /\ linked[k].credentialEnd = credentialEnd(k)
      <3>1. plan[k].field # "none"
        BY <1>6, <1>8
      <3> DEFINE m == next(k)
                 ce == credentialEnd(k)
      <3> HIDE DEF next, credentialEnd
      <3>2. link(k) = [field |-> plan[k].field,
                       delim |-> IF m = 0 THEN <<>> ELSE plan[m].delim,
                       consume |-> m = k + 1, credentialEnd |-> ce]
        BY <3>1
      <3>3. linked[k] = link(k)
        BY <1>5
      <3> HIDE DEF link, m, ce
      <3>4. /\ linked[k].delim = IF m = 0 THEN <<>> ELSE plan[m].delim
            /\ linked[k].consume = (m = k + 1)
            /\ linked[k].credentialEnd = ce
        BY <3>2, <3>3
      <3> QED
        BY <3>1, <3>4 DEF m, ce
    <2> DEFINE Delimited ==
                   \/ \E m \in k + 1 .. n :
                        /\ linked[m].field = "none"
                        /\ \A i \in k .. m - 1 : linked[i].field # "none"
                        /\ linked[k].delim = linked[m].delim /\ linked[k].consume = (m = k + 1)
                   \/ /\ \A i \in k .. n : linked[i].field # "none"
                      /\ linked[k].delim = <<>> /\ linked[k].consume = FALSE
               Ended == linked[k].credentialEnd # 0 =>
                          /\ linked[k].credentialEnd \in k + 1 .. n
                          /\ linked[linked[k].credentialEnd].field = "none"
                          /\ linked[linked[k].credentialEnd].delim = <<"@">>
    <2>2. \A m \in k .. n : plan[m].field = "none" => m \in k + 1 .. n
      <3> HIDE DEF n
      <3>1. \A m \in k .. n : m # k => m \in k + 1 .. n
        BY <1>2, SMT
      <3> QED
        BY <2>1, <3>1
    <2>3. delims(k) \in SUBSET Nat /\ ends(k) \in SUBSET Nat
      <3> HIDE DEF n
      <3> QED
        BY <1>2, SMT
    <2>4. \A i \in k .. n : i \in 1 .. n
      <3> HIDE DEF n
      <3> QED
        BY <1>2, SMT
    <2>5. ASSUME delims(k) # {}
          PROVE  Delimited
      <3> DEFINE m == Min(delims(k))
      <3>1. m \in delims(k) /\ m \in Nat /\ \A x \in delims(k) : m <= x
        BY <2>3, <2>5, MinIsLeast
      <3>2. m \in k .. n /\ plan[m].field = "none" /\ next(k) = m
        BY <2>5, <3>1
      <3>3. \A i \in k .. n : plan[i].field = "none" => m <= i
        BY <3>1
      <3> HIDE DEF m, next
      <3>4. \A i \in k .. m - 1 : i \in k .. n /\ ~ (m <= i)
        <4> HIDE DEF n
        <4> QED
          BY <1>2, <3>2, SMT
      <3>5. \A i \in k .. m - 1 : linked[i].field # "none"
        BY <1>6, <2>4, <3>3, <3>4
      <3>6. m \in k + 1 .. n
        BY <2>2, <3>2
      <3>7. linked[m].field = "none" /\ linked[m].delim = plan[m].delim
        BY <1>7, <2>4, <3>2
      <3>8. linked[k].delim = linked[m].delim /\ linked[k].consume = (m = k + 1)
        <4>1. m # 0
          <5> HIDE DEF n
          <5> QED
            BY <1>2, <3>6, SMT
        <4> QED
          BY <2>1, <3>2, <3>7, <4>1
      <3> QED
        BY <3>5, <3>6, <3>7, <3>8, Zenon
    <2>6. ASSUME delims(k) = {}
          PROVE  Delimited
      <3>1. next(k) = 0
        BY <2>6
      <3> HIDE DEF next
      <3>2. 0 # k + 1
        <4> HIDE DEF n
        <4> QED
          BY <1>2, SMT
      <3> DEFINE nk == next(k)
      <3>3. /\ linked[k].delim = IF nk = 0 THEN <<>> ELSE plan[nk].delim
            /\ linked[k].consume = (nk = k + 1) /\ nk = 0
        BY <2>1, <3>1
      <3>4. \A i \in k .. n : linked[i].field # "none"
        <4>1. \A i \in k .. n : plan[i].field # "none"
          BY <2>6
        <4> QED
          BY <1>6, <2>4, <4>1
      <3> HIDE DEF nk
      <3> QED
        BY <3>2, <3>3, <3>4
    <2>7. ASSUME ends(k) # {}
          PROVE  Ended
      <3> DEFINE m == Min(ends(k))
      <3>1. m \in ends(k)
        BY <2>3, <2>7, MinIsLeast
      <3>2. m \in k .. n /\ plan[m].field = "none" /\ plan[m].delim = <<"@">> /\ credentialEnd(k) = m
        BY <2>7, <3>1
      <3> HIDE DEF m, credentialEnd
      <3>3. linked[m] = plan[m] /\ m \in k + 1 .. n
        BY <1>7, <2>2, <2>4, <3>2
      <3>4. linked[k].credentialEnd = m
        BY <2>1, <3>2
      <3> QED
        BY <3>2, <3>3, <3>4
    <2>8. ASSUME ends(k) = {}
          PROVE  Ended
      <3>1. credentialEnd(k) = 0
        BY <2>8
      <3> HIDE DEF credentialEnd
      <3>2. linked[k].credentialEnd = 0
        BY <2>1, <3>1
      <3> QED
        BY <3>2
    <2> HIDE DEF delims, ends, Delimited, Ended
    <2>9. Delimited /\ Ended
      BY <2>5, <2>6, <2>7, <2>8
    <2> QED
      BY <2>9, Zenon DEF Delimited, Ended
  <1> QED
    BY <1>4, <1>6, <1>7, <1>8 DEF IsLinked, KeepsOperations, linked

\* Where the field of an operation ends, the end of the input when no delimiter follows.
CaptureEnd(input, op, start) ==
    IF op.delim = <<>> THEN Len(input) ELSE FieldEnd(input, op, start)

\* What a round does that has matched a delimiter, or has cut a field out.
Passed(input, op, st, after) ==
    /\ op.field = "none" =>
         /\ st.pos + Len(op.delim) <= Len(input)
         /\ Slice(input, st.pos, st.pos + Len(op.delim)) = op.delim
         /\ after = [st EXCEPT !.next = @ + 1, !.pos = st.pos + Len(op.delim)]
    /\ op.field # "none" =>
         /\ op.delim = <<>> \/ FieldEnd(input, op, st.pos) # Absent
         /\ after = TakeField(input, st, op, CaptureEnd(input, op, st.pos))

\* A round of a strict parser that does not fail.
LEMMA StrictStep ==
    ASSUME NEW input \in Text, NEW st \in Cursors(input), NEW parser, parser.strict,
           NEW k, st.next = k, st.err = NoError, Step(parser, input, st, k).err = NoError
    PROVE  Passed(input, parser.plan[k], st, Step(parser, input, st, k))
  <1> DEFINE op == parser.plan[k]
             end == st.pos + Len(op.delim)
             r == Step(parser, input, st, k)
             matched == end <= Len(input) /\ Slice(input, st.pos, end) = op.delim
             idx == FieldEnd(input, op, st.pos)
  <1>1. r = IF op.field = "none" THEN Expect(parser, input, st, op)
            ELSE CaptureField(parser, input, st, op)
    BY Zenon DEF Step
  <1> HIDE DEF r
  <1>2. r.err = NoError
    BY DEF r
  <1>3. DOMAIN st = {"next", "pos", "proxy", "hostStart", "hostEnd", "hostParsed", "schemeParsed",
                     "emptyHost", "emptyPort", "err"}
    BY DEF Cursors, LocalState
  <1>4. CASE op.field = "none"
    <2> DEFINE failed == [kind |-> "ErrMismatchDelim", delim |-> op.delim, pos |-> st.pos]
    <2>1. Expect(parser, input, st, op)
            = IF matched THEN [st EXCEPT !.next = @ + 1, !.pos = end]
              ELSE [st EXCEPT !.err = failed]
      BY Zenon DEF Expect
    <2>2. failed # NoError
      <3>1. failed.kind = "ErrMismatchDelim" /\ NoError.kind = "none"
        BY DEF NoError
      <3> HIDE DEF failed
      <3> QED
        BY <3>1
    <2> HIDE DEF failed, matched
    <2>3. [st EXCEPT !.err = failed].err = failed
      BY <1>3
    <2>4. matched
      BY <1>1, <1>2, <1>4, <2>1, <2>2, <2>3
    <2>5. r = [st EXCEPT !.next = @ + 1, !.pos = end]
      BY <1>1, <1>4, <2>1, <2>4
    <2> QED
      BY <1>4, <2>4, <2>5, Zenon DEF matched, r, Passed
  <1>5. CASE op.field # "none"
    <2> DEFINE failed == Failure("ErrSubseqDelimNotFound", op.delim)
               missing == op.delim # <<>> /\ idx = Absent
               taken == TakeField(input, st, op, CaptureEnd(input, op, st.pos))
    <2>1. CaptureField(parser, input, st, op)
            = IF IsUsernameOnly(parser, input, st, op, Absent, idx) THEN
                 [st EXCEPT !.proxy = [@ EXCEPT !.username = Slice(input, st.pos, Absent),
                                                !.password = <<>>],
                            !.pos = Absent + 1, !.next = op.credentialEnd + 1]
              ELSE IF missing THEN [st EXCEPT !.err = failed] ELSE taken
      BY Zenon DEF CaptureField, CaptureEnd
    <2>2. ~ IsUsernameOnly(parser, input, st, op, Absent, idx)
      BY DEF IsUsernameOnly
    <2>3. failed # NoError
      BY FailuresAreErrors
    <2> HIDE DEF failed, missing, taken
    <2>4. [st EXCEPT !.err = failed].err = failed
      BY <1>3
    <2>5. ~ missing
      BY <1>1, <1>2, <1>5, <2>1, <2>2, <2>3, <2>4
    <2>6. r = taken
      BY <1>1, <1>5, <2>1, <2>2, <2>5
    <2> QED
      BY <1>5, <2>5, <2>6, Zenon DEF missing, taken, r, Passed
  <1> QED
    BY <1>4, <1>5

\* The field between the offset reached and end is in t.
FieldTaken(input, st, op, end, t) ==
    LET start == st.pos
        value == Slice(input, start, end)
        adjacent == st.hostStart # Absent /\ st.hostEnd + 1 = start
                    /\ input[st.hostEnd + 1] = ":"
    IN  /\ op.field = "h" =>
             /\ t.proxy = WithHost(st.proxy, value, start)
             /\ t.emptyHost = (st.emptyHost \/ value = <<>>)
             /\ t.hostParsed = (value # <<>>)
             /\ t.emptyPort = st.emptyPort
             /\ t.hostStart = start /\ t.hostEnd = end
        /\ op.field = "d" =>
             /\ t.proxy = (IF adjacent
                           THEN WithHost(st.proxy, Slice(input, st.hostStart, end), st.hostStart)
                           ELSE Joined(st.proxy, value, start))
             /\ t.emptyPort = (st.emptyPort \/ value = <<>>)
        /\ op.field \notin {"h", "d"} =>
             /\ t.proxy = assignField(st.proxy, op.field, value, start)
             /\ t.emptyPort = st.emptyPort
        /\ op.field # "h" =>
             /\ t.emptyHost = st.emptyHost /\ t.hostParsed = st.hostParsed
             /\ t.hostStart = st.hostStart /\ t.hostEnd = st.hostEnd

\* The parser is behind that field in t.
MovedOn(st, op, end, t) ==
    /\ t.next = st.next + (IF op.consume THEN 2 ELSE 1)
    /\ t.pos = end + (IF op.consume THEN Len(op.delim) ELSE 0)
    /\ t.err = st.err

\* What cutting out a field does.
LEMMA TakeFieldDoes ==
    ASSUME NEW input, NEW st \in LocalState, NEW op, NEW end
    PROVE  /\ MovedOn(st, op, end, TakeField(input, st, op, end))
           /\ FieldTaken(input, st, op, end, TakeField(input, st, op, end))
  <1> DEFINE start == st.pos
             value == Slice(input, start, end)
             ahead == st.next + (IF op.consume THEN 2 ELSE 1)
             pos == end + (IF op.consume THEN Len(op.delim) ELSE 0)
             after == [st EXCEPT !.next = ahead, !.pos = pos]
             adjacent == st.hostStart # Absent /\ st.hostEnd + 1 = start
                         /\ input[st.hostEnd + 1] = ":"
             p == st.proxy
             t == TakeField(input, st, op, end)
             hp == WithHost(p, value, start)
             dp == IF adjacent THEN WithHost(p, Slice(input, st.hostStart, end), st.hostStart)
                   ELSE Joined(p, value, start)
             ap == assignField(p, op.field, value, start)
             empty == value = <<>>
  <1> DEFINE D == {"next", "pos", "proxy", "hostStart", "hostEnd", "hostParsed", "schemeParsed",
                   "emptyHost", "emptyPort", "err"}
  <1>1. st = [f \in D |-> st[f]]
    BY DEF LocalState
  <1>2. t = CASE op.field = "h" ->
                   [after EXCEPT !.proxy = [@ EXCEPT !.host = value, !.hostAt = start],
                                 !.emptyHost = @ \/ empty, !.hostParsed = ~ empty,
                                 !.hostStart = start, !.hostEnd = end]
              [] op.field = "d" ->
                   [after EXCEPT !.emptyPort = @ \/ empty,
                                 !.proxy = IF adjacent
                                           THEN [@ EXCEPT !.host = Slice(input, st.hostStart, end),
                                                          !.hostAt = st.hostStart]
                                           ELSE Joined(@, value, start)]
              [] OTHER ->
                   [after EXCEPT !.proxy = assignField(@, op.field, value, start),
                                 !.schemeParsed = @ \/ (op.field = "t" /\ ~ empty)]
    BY Zenon DEF TakeField
  <1> HIDE DEF t, ahead, pos, empty, value, adjacent
  <1>3. /\ after.proxy = p /\ after.emptyHost = st.emptyHost /\ after.emptyPort = st.emptyPort
        /\ after.hostParsed = st.hostParsed /\ after.hostStart = st.hostStart
        /\ after.hostEnd = st.hostEnd /\ after.err = st.err /\ after.next = ahead /\ after.pos = pos
        /\ DOMAIN after = D
    BY <1>1
  <1> HIDE DEF after, D
  <1>4. CASE op.field = "h"
    <2>1. t = [after EXCEPT !.proxy = hp, !.emptyHost = st.emptyHost \/ empty,
                            !.hostParsed = ~ empty, !.hostStart = start, !.hostEnd = end]
      BY <1>2, <1>3, <1>4 DEF WithHost
    <2> HIDE DEF hp
    <2>2. /\ t.proxy = hp /\ t.emptyHost = (st.emptyHost \/ empty) /\ t.hostParsed = ~ empty
          /\ t.hostStart = start /\ t.hostEnd = end /\ t.emptyPort = st.emptyPort
          /\ t.err = st.err /\ t.next = ahead /\ t.pos = pos
      BY <1>3, <2>1 DEF D
    <2> QED
      BY <1>4, <2>2 DEF hp, t, ahead, pos, empty, value, MovedOn, FieldTaken
  <1>5. CASE op.field = "d"
    <2>1. t = [after EXCEPT !.emptyPort = st.emptyPort \/ empty, !.proxy = dp]
      BY <1>2, <1>3, <1>5 DEF WithHost
    <2> HIDE DEF dp
    <2>2. /\ t.proxy = dp /\ t.emptyPort = (st.emptyPort \/ empty)
          /\ t.emptyHost = st.emptyHost /\ t.hostParsed = st.hostParsed
          /\ t.hostStart = st.hostStart /\ t.hostEnd = st.hostEnd
          /\ t.err = st.err /\ t.next = ahead /\ t.pos = pos
      BY <1>3, <2>1 DEF D
    <2> QED
      BY <1>5, <2>2 DEF dp, t, ahead, pos, empty, value, adjacent, MovedOn, FieldTaken
  <1>6. CASE op.field \notin {"h", "d"}
    <2>1. t = [after EXCEPT !.proxy = ap, !.schemeParsed = @ \/ (op.field = "t" /\ ~ empty)]
      BY <1>2, <1>3, <1>6
    <2> HIDE DEF ap
    <2>2. /\ t.proxy = ap /\ t.emptyPort = st.emptyPort
          /\ t.emptyHost = st.emptyHost /\ t.hostParsed = st.hostParsed
          /\ t.hostStart = st.hostStart /\ t.hostEnd = st.hostEnd
          /\ t.err = st.err /\ t.next = ahead /\ t.pos = pos
      BY <1>3, <2>1 DEF D
    <2> QED
      BY <1>6, <2>2 DEF ap, t, ahead, pos, value, MovedOn, FieldTaken
  <1> QED
    BY <1>4, <1>5, <1>6

\* A loop that ends without an error never had one.
LEMMA NoErrorBefore ==
    ASSUME NEW input \in Text, NEW parser, parser.plan \in Seq(Operated),
           NEW a, Course(parser, input, a), a[Len(parser.plan)].err = NoError
    PROVE  \A k \in 0 .. Len(parser.plan) : a[k].err = NoError
  <1> DEFINE n == Len(parser.plan)
             P == { k \in 0 .. n : a[k].err # NoError }
  <1>1. n \in Nat
    OBVIOUS
  <1>2. \A k \in 1 .. n : a[k] = Step(parser, input, a[k - 1], k)
    BY DEF Course
  <1> HIDE DEF n
  <1> SUFFICES ASSUME NEW m \in 0 .. n, m \in P
               PROVE  FALSE
    BY DEF n
  <1>3. ASSUME NEW i \in m .. n - 1, i \in P
        PROVE  i + 1 \in P
    <2>1. i + 1 \in 1 .. n /\ (i + 1) - 1 = i /\ i + 1 \in 0 .. n
      BY <1>1, SMT
    <2>2. a[i + 1] = Step(parser, input, a[i], i + 1)
      BY <1>2, <2>1
    <2>3. a[i].err # NoError
      BY <1>3
    <2>4. a[i + 1] = a[i]
      BY <2>2, <2>3, Zenon DEF Step
    <2> QED
      BY <2>1, <2>3, <2>4
  <1> HIDE DEF P
  <1>4. m \in Nat /\ n \in m .. n
    BY <1>1, SMT
  <1>5. n \in P
    BY <1>1, <1>3, <1>4, HoldsUpTo
  <1> QED
    BY <1>5 DEF P, n

\* A round in which an operation has its turn.
Turn(parser, input, st, k, after) ==
    LET op == parser.plan[k]
        end == IF op.field = "none" THEN st.pos + Len(op.delim)
               ELSE CaptureEnd(input, op, st.pos)
    IN  /\ end \in Nat /\ st.pos <= end /\ end <= Len(input)
        /\ op.field = "none" =>
             /\ Slice(input, st.pos, end) = op.delim
             /\ after = [st EXCEPT !.next = @ + 1, !.pos = end]
        /\ op.field # "none" =>
             /\ after = TakeField(input, st, op, end)
             /\ op.delim # <<>> =>
                  /\ FieldEnd(input, op, st.pos) = end /\ end # Absent
                  /\ end + Len(op.delim) <= Len(input)
                  /\ Slice(input, end, end + Len(op.delim)) = op.delim

\* A strict parser without an error gives each operation its turn.
LEMMA StrictTurn ==
    ASSUME NEW input \in Text, NEW st \in Cursors(input), NEW parser, parser.strict,
           NEW k, parser.plan[k] \in Operated,
           st.next = k, st.err = NoError, Step(parser, input, st, k).err = NoError
    PROVE  Turn(parser, input, st, k, Step(parser, input, st, k))
  <1> DEFINE op == parser.plan[k]
             l == Len(op.delim)
             end == IF op.field = "none" THEN st.pos + l ELSE CaptureEnd(input, op, st.pos)
             after == Step(parser, input, st, k)
             n == Len(input)
  <1>1. /\ op.field = "none" =>
             /\ st.pos + l <= n /\ Slice(input, st.pos, st.pos + l) = op.delim
             /\ after = [st EXCEPT !.next = @ + 1, !.pos = st.pos + l]
        /\ op.field # "none" =>
             /\ op.delim = <<>> \/ FieldEnd(input, op, st.pos) # Absent
             /\ after = TakeField(input, st, op, CaptureEnd(input, op, st.pos))
    <2>1. Passed(input, op, st, after)
      BY StrictStep, Zenon
    <2> HIDE DEF op, after
    <2> QED
      BY <2>1, Zenon DEF Passed
  <1>2. op.delim \in Text /\ l \in Nat
    BY OperationFields
  <1>3. n \in Nat /\ st.pos \in Nat /\ st.pos <= n
    BY CursorsHold
  <1>4. CASE op.field = "none"
    <2>1. end = st.pos + l
      BY <1>4
    <2>2. end \in Nat /\ st.pos <= end /\ end <= n
      <3> HIDE DEF end, n, l
      <3> QED
        BY <1>1, <1>2, <1>3, <1>4, <2>1, SMT
    <2>3. Slice(input, st.pos, end) = op.delim /\ after = [st EXCEPT !.next = @ + 1, !.pos = end]
      BY <1>1, <1>4, <2>1
    <2> HIDE DEF after
    <2> QED
      BY <1>4, <2>2, <2>3, Zenon DEF Turn, after
  <1>5. CASE op.field # "none"
    <2> DEFINE ce == CaptureEnd(input, op, st.pos)
    <2>1. after = TakeField(input, st, op, ce)
      BY <1>1, <1>5
    <2>2. op.delim # <<>> =>
             /\ FieldEnd(input, op, st.pos) = ce /\ ce # Absent
             /\ ce \in Nat /\ st.pos <= ce
             /\ ce + l <= n
      <3> SUFFICES ASSUME op.delim # <<>>
                   PROVE  /\ FieldEnd(input, op, st.pos) = ce /\ ce # Absent
                          /\ ce \in Nat /\ st.pos <= ce /\ ce + l <= n
        OBVIOUS
      <3>1. ce = FieldEnd(input, op, st.pos) /\ ce # Absent
        BY <1>1, <1>5 DEF CaptureEnd
      <3> QED
        BY <1>3, <3>1, FieldEndIsIn
    <2>3. op.delim # <<>> => Slice(input, ce, ce + l) = op.delim
      <3> SUFFICES ASSUME op.delim # <<>>
                   PROVE  Slice(input, ce, ce + l) = op.delim
        OBVIOUS
      <3> DEFINE close == IndexByte(input, "]", st.pos)
                 from == IF (op.field = "h" /\ st.pos < n /\ input[st.pos + 1] = "[")
                            /\ close # Absent THEN close + 1 ELSE st.pos
      <3>1. ce = Find(input, op.delim, from) /\ ce # Absent
        BY <2>2 DEF FieldEnd
      <3>2. from \in Nat
        <4>1. close = Absent \/ close \in st.pos .. n - 1
          BY <1>3, IndexByteFinds
        <4> HIDE DEF close, n
        <4>2. close # Absent => close + 1 \in Nat
          BY <1>3, <4>1, SMT
        <4> QED
          BY <1>3, <4>2
      <3> HIDE DEF from, ce
      <3> QED
        BY <1>2, <3>1, <3>2, FindFinds
    <2>4. ce \in Nat /\ st.pos <= ce /\ ce <= n
      <3>1. CASE op.delim = <<>>
        <4>1. ce = n
          BY <3>1 DEF CaptureEnd
        <4> HIDE DEF ce, n
        <4> QED
          BY <1>3, <4>1
      <3>2. CASE op.delim # <<>>
        <4>1. ce \in Nat /\ st.pos <= ce /\ ce + l <= n
          BY <2>2, <3>2
        <4> HIDE DEF ce, l, n
        <4> QED
          BY <1>2, <1>3, <4>1, SMT
      <3> QED
        BY <3>1, <3>2
    <2>5. end = ce
      BY <1>5
    <2> HIDE DEF ce, after
    <2> QED
      BY <1>5, <2>1, <2>2, <2>3, <2>4, <2>5, Zenon DEF Turn, after, ce
  <1> QED
    BY <1>4, <1>5

\* A turn goes on to the next operation, or past the delimiter a field takes
\* with it, and never backwards in the input.
Advances(parser, st, k, after) ==
    /\ \/ after.next = k + 1
       \/ after.next = k + 2 /\ parser.plan[k].field # "none" /\ parser.plan[k].consume = TRUE
    /\ after.pos \in Nat /\ st.pos <= after.pos
    /\ after.err = st.err

\* Every turn does.
LEMMA TurnAdvances ==
    ASSUME NEW input \in Text, NEW st \in Cursors(input), NEW parser, NEW k, st.next = k,
           parser.plan[k] \in Operated, NEW after, Turn(parser, input, st, k, after)
    PROVE  Advances(parser, st, k, after)
  <1> DEFINE op == parser.plan[k]
             l == Len(op.delim)
             end == IF op.field = "none" THEN st.pos + l ELSE CaptureEnd(input, op, st.pos)
  <1>1. /\ end \in Nat /\ st.pos <= end
        /\ op.field = "none" => after = [st EXCEPT !.next = @ + 1, !.pos = end]
        /\ op.field # "none" => after = TakeField(input, st, op, end)
    BY Zenon DEF Turn
  <1>2. st \in LocalState /\ st.pos \in Nat
    BY CursorsHold DEF Cursors
  <1>3. l \in Nat /\ op.consume \in BOOLEAN
    BY OperationFields
  <1> HIDE DEF op, end
  <1>4. CASE op.field = "none"
    <2>1. after.next = k + 1 /\ after.pos = end /\ after.err = st.err
      BY <1>1, <1>2, <1>4 DEF LocalState
    <2> QED
      BY <1>1, <2>1 DEF Advances
  <1>5. CASE op.field # "none"
    <2>1. /\ after.next = st.next + (IF op.consume THEN 2 ELSE 1)
          /\ after.pos = end + (IF op.consume THEN l ELSE 0)
          /\ after.err = st.err
      <3>1. MovedOn(st, op, end, TakeField(input, st, op, end))
        BY <1>2, TakeFieldDoes, Zenon
      <3> QED
        BY <1>1, <1>5, <3>1 DEF MovedOn
    <2> HIDE DEF l
    <2>2. after.next = k + 1 \/ (after.next = k + 2 /\ op.consume = TRUE)
      BY <1>3, <2>1
    <2>3. after.pos \in Nat /\ st.pos <= after.pos
      BY <1>1, <1>2, <1>3, <2>1
    <2> QED
      BY <1>5, <2>1, <2>2, <2>3 DEF op, Advances
  <1> QED
    BY <1>4, <1>5

\* Each operation has its turn, but for the delimiters that fields take.
InTurn(parser, input, a, k) ==
    \/ /\ a[k - 1].next = k
       /\ Turn(parser, input, a[k - 1], k, a[k])
    \/ /\ a[k - 1].next = k + 1 /\ a[k] = a[k - 1]
       /\ k - 1 \in 1 .. Len(parser.plan) /\ a[(k - 1) - 1].next = k - 1
       /\ Turn(parser, input, a[(k - 1) - 1], k - 1, a[k - 1])
       /\ parser.plan[k - 1].field # "none" /\ parser.plan[k - 1].consume = TRUE

\* A strict parser that fails nowhere begins as Locals says.
LEMMA StrictBegins ==
    ASSUME NEW input, NEW parser, parser.strict, NEW a, Course(parser, input, a)
    PROVE  a[0] = Locals(ZeroProxy) /\ a[0].next = 1
  <1>1. a[0] = Locals(ZeroProxy)
    BY Zenon DEF Course, Begin
  <1> QED
    BY <1>1 DEF Locals

\* So goes the course of a strict parser without an error.
LEMMA StrictCourse ==
    ASSUME NEW input \in Text, NEW parser, parser.plan \in Seq(Operated), parser.strict,
           NEW a, Course(parser, input, a), a[Len(parser.plan)].err = NoError
    PROVE  \A k \in 1 .. Len(parser.plan) : InTurn(parser, input, a, k)
  <1> DEFINE n == Len(parser.plan)
             After(k) == \/ a[k].next = k + 1
                         \/ /\ a[k].next = k + 2 /\ k \in 1 .. n /\ a[k - 1].next = k
                            /\ Turn(parser, input, a[k - 1], k, a[k])
                            /\ parser.plan[k].field # "none" /\ parser.plan[k].consume = TRUE
             P == { k \in 0 .. n : After(k) /\ (k \in 1 .. n => InTurn(parser, input, a, k)) }
  <1>1. n \in Nat /\ \A k \in 1 .. n : parser.plan[k] \in Operated
    OBVIOUS
  <1>2. \A k \in 0 .. n : a[k].err = NoError
    BY NoErrorBefore
  <1>3. \A k \in 0 .. n : a[k] \in Cursors(input)
    BY DEF Course
  <1>4. \A k \in 1 .. n : a[k] = Step(parser, input, a[k - 1], k)
    BY DEF Course
  <1>5. a[0].next = 1
    BY StrictBegins
  <1> HIDE DEF n
  <1>6. 0 \in P
    BY <1>1, <1>5
  <1>7. ASSUME NEW i \in 0 .. n - 1, i \in P
        PROVE  i + 1 \in P
    <2> DEFINE k == i + 1
    <2>1. k \in 1 .. n /\ k - 1 = i /\ k \in 0 .. n /\ i \in 0 .. n /\ i \in Nat
      BY <1>1, SMT
    <2>2. After(i)
      BY <1>7
    <2>3. a[k] = Step(parser, input, a[i], k) /\ a[i].err = NoError /\ a[k].err = NoError
      BY <1>2, <1>4, <2>1
    <2>4. a[i] \in Cursors(input) /\ parser.plan[k] \in Operated
      BY <1>1, <1>3, <2>1
    <2>5. CASE a[i].next = i + 1
      <3>1. Turn(parser, input, a[i], k, a[k])
        <4> DEFINE st == a[i]
                   r == a[k]
        <4>1. /\ st.next = k /\ r = Step(parser, input, st, k) /\ st.err = NoError
              /\ Step(parser, input, st, k).err = NoError
          BY <2>3, <2>5
        <4> HIDE DEF st, r, k
        <4>2. Turn(parser, input, st, k, Step(parser, input, st, k))
          BY <2>4, <4>1, StrictTurn DEF st
        <4> QED
          BY <4>1, <4>2 DEF st, r
      <3>2. InTurn(parser, input, a, k)
        BY <2>1, <2>5, <3>1 DEF InTurn
      <3>3. \/ a[k].next = k + 1
            \/ a[k].next = k + 2 /\ parser.plan[k].field # "none" /\ parser.plan[k].consume = TRUE
        <4> DEFINE st == a[i]
                   r == a[k]
        <4>1. Turn(parser, input, st, k, r) /\ st \in Cursors(input) /\ st.next = k
          BY <2>4, <2>5, <3>1
        <4> HIDE DEF st, r, k
        <4>2. Advances(parser, st, k, r)
          BY <2>4, <4>1, TurnAdvances, Zenon
        <4> QED
          BY <4>2, Zenon DEF r, Advances
      <3>4. After(k)
        BY <2>1, <2>5, <3>1, <3>3
      <3> QED
        BY <2>1, <3>2, <3>4
    <2>6. CASE a[i].next = i + 2
      <3>1. /\ i \in 1 .. n /\ a[i - 1].next = i /\ Turn(parser, input, a[i - 1], i, a[i])
            /\ parser.plan[i].field # "none" /\ parser.plan[i].consume = TRUE
        <4>1. i + 2 # i + 1
          BY <2>1, SMT
        <4> QED
          BY <2>2, <2>6, <4>1
      <3>2. a[k] = a[i]
        <4>1. a[i].next # k
          BY <2>1, <2>6, SMT
        <4> QED
          BY <2>3, <4>1, Zenon DEF Step
      <3>3. k + 1 = i + 2 /\ k - 1 = i
        BY <2>1, SMT
      <3>4. InTurn(parser, input, a, k)
        <4> HIDE DEF k
        <4> QED
          BY <2>6, <3>1, <3>2, <3>3 DEF InTurn, n
      <3>5. After(k)
        BY <2>6, <3>2, <3>3
      <3> QED
        BY <2>1, <3>4, <3>5
    <2> QED
      BY <2>2, <2>5, <2>6
  <1> HIDE DEF P
  <1>8. \A i \in 0 .. n : i \in P
    BY <1>1, <1>6, <1>7, HoldsUpTo
  <1>9. \A k \in 1 .. n : k \in 0 .. n
    BY <1>1, SMT
  <1> QED
    BY <1>8, <1>9 DEF P, n

\* It never goes backwards.
LEMMA NeverBackwards ==
    ASSUME NEW input \in Text, NEW parser, parser.plan \in Seq(Operated), parser.strict,
           NEW a, Course(parser, input, a), a[Len(parser.plan)].err = NoError,
           NEW m \in 0 .. Len(parser.plan), NEW k \in m .. Len(parser.plan)
    PROVE  a[m].pos <= a[k].pos
  <1> DEFINE n == Len(parser.plan)
             P == { i \in 0 .. n : a[m].pos <= a[i].pos }
  <1>1. n \in Nat /\ \A i \in 1 .. n : parser.plan[i] \in Operated
    OBVIOUS
  <1>2. \A i \in 1 .. n : InTurn(parser, input, a, i)
    BY StrictCourse
  <1>3. \A i \in 0 .. n : a[i] \in Cursors(input)
    BY DEF Course
  <1>4. \A i \in 0 .. n : a[i].pos \in Nat
    BY <1>3, CursorsHold
  <1> HIDE DEF n
  <1>5. ASSUME NEW i \in m .. n - 1, i \in P
        PROVE  i + 1 \in P
    <2>1. i + 1 \in 1 .. n /\ (i + 1) - 1 = i /\ i + 1 \in 0 .. n /\ i \in 0 .. n
      BY <1>1, SMT DEF n
    <2>2. a[i].pos <= a[i + 1].pos
      <3> DEFINE st == a[i]
                 r == a[i + 1]
                 k1 == i + 1
      <3>1. \/ st.next = k1 /\ Turn(parser, input, st, k1, r)
            \/ r = st
        BY <1>2, <2>1 DEF InTurn
      <3>2. st \in Cursors(input) /\ parser.plan[k1] \in Operated /\ st.pos \in Nat
        BY <1>1, <1>3, <1>4, <2>1
      <3> HIDE DEF st, r, k1
      <3>3. CASE st.next = k1 /\ Turn(parser, input, st, k1, r)
        <4>1. Advances(parser, st, k1, r)
          BY <3>2, <3>3, TurnAdvances, Zenon
        <4> QED
          BY <4>1 DEF Advances, st, r
      <3>4. CASE r = st
        BY <3>2, <3>4 DEF r, st
      <3> QED
        BY <3>1, <3>3, <3>4
    <2>3. a[m].pos \in Nat /\ a[i].pos \in Nat /\ a[i + 1].pos \in Nat
      BY <1>4, <2>1 DEF n
    <2> QED
      BY <1>5, <2>1, <2>2, <2>3
  <1>6. m \in P
    BY <1>4 DEF n
  <1> HIDE DEF P
  <1>7. m \in Nat
    BY <1>1, SMT
  <1>8. k \in P
    BY <1>1, <1>5, <1>6, <1>7, HoldsUpTo DEF n
  <1> QED
    BY <1>8 DEF P

\* text lies in the input at or behind from.
LiesBehind(input, text, from) ==
    \E q \in Nat : /\ from <= q /\ q + Len(text) <= Len(input)
                   /\ Slice(input, q, q + Len(text)) = text

\* What a turn has matched.
LEMMA TurnMatches ==
    ASSUME NEW input \in Text, NEW st \in Cursors(input), NEW parser, NEW k,
           parser.plan[k] \in Operated, NEW after, Turn(parser, input, st, k, after),
           parser.plan[k].field = "none" \/ parser.plan[k].delim # <<>>
    PROVE  LiesBehind(input, parser.plan[k].delim, st.pos)
  <1> DEFINE op == parser.plan[k]
             l == Len(op.delim)
             end == IF op.field = "none" THEN st.pos + l ELSE CaptureEnd(input, op, st.pos)
  <1>1. st.pos \in Nat /\ l \in Nat
    BY CursorsHold, OperationFields
  <1>2. /\ end \in Nat /\ st.pos <= end /\ end <= Len(input)
        /\ op.field = "none" => Slice(input, st.pos, end) = op.delim
        /\ op.field # "none" /\ op.delim # <<>> =>
                  /\ end + l <= Len(input)
                  /\ Slice(input, end, end + l) = op.delim
    BY Zenon DEF Turn
  <1>3. CASE op.field = "none"
    <2>1. end = st.pos + l
      BY <1>3
    <2> HIDE DEF end
    <2>2. st.pos <= st.pos /\ st.pos + l <= Len(input) /\ Slice(input, st.pos, st.pos + l) = op.delim
      BY <1>1, <1>2, <1>3, <2>1
    <2> QED
      BY <1>1, <2>2, Zenon DEF LiesBehind
  <1>4. CASE op.field # "none"
    <2> HIDE DEF end
    <2> QED
      BY <1>2, <1>4, Zenon DEF LiesBehind
  <1> QED
    BY <1>3, <1>4

\* The delimiters that are still to come lie behind.
LEMMA DelimiterLater ==
    ASSUME NEW input \in Text, NEW parser, parser.plan \in Seq(Operated), parser.strict,
           IsLinked(parser.plan),
           NEW a, Course(parser, input, a), a[Len(parser.plan)].err = NoError,
           NEW k \in 0 .. Len(parser.plan), NEW j \in k + 1 .. Len(parser.plan), a[k].next <= j,
           parser.plan[j].field = "none"
    PROVE  LiesBehind(input, parser.plan[j].delim, a[k].pos)
  <1> DEFINE n == Len(parser.plan)
  <1>1. n \in Nat /\ \A i \in 1 .. n : parser.plan[i] \in Operated
    OBVIOUS
  <1>2. j \in 1 .. n /\ j - 1 \in k .. n /\ k \in Nat /\ j \in Nat
    <2> HIDE DEF n
    <2> QED
      BY <1>1, SMT DEF n
  <1>3. InTurn(parser, input, a, j)
    BY <1>2, StrictCourse
  <1>4. \A i \in 0 .. n : a[i] \in Cursors(input) /\ a[i].pos \in Nat /\ a[i].next \in Nat
    BY CursorsHold DEF Course
  <1>5. \A i \in k .. n : i \in 0 .. n /\ a[k].pos <= a[i].pos
    <2>1. \A i \in k .. n : i \in 0 .. n
      <3> HIDE DEF n
      <3> QED
        BY <1>1, <1>2, SMT
    <2> QED
      BY <2>1, NeverBackwards
  <1>6. ASSUME NEW i \in k .. n, NEW op, LiesBehind(input, op, a[i].pos)
        PROVE  LiesBehind(input, op, a[k].pos)
    <2>1. PICK q \in Nat : /\ a[i].pos <= q /\ q + Len(op) <= Len(input)
                           /\ Slice(input, q, q + Len(op)) = op
      BY <1>6, Zenon DEF LiesBehind
    <2>2. a[k].pos <= a[i].pos /\ a[i].pos \in Nat /\ a[k].pos \in Nat
      BY <1>4, <1>5
    <2>3. a[k].pos <= q
      BY <2>1, <2>2
    <2> QED
      BY <2>1, <2>3, Zenon DEF LiesBehind
  <1> DEFINE delim == parser.plan[j].delim
  <1>7. CASE a[j - 1].next = j /\ Turn(parser, input, a[j - 1], j, a[j])
    <2>1. a[j - 1] \in Cursors(input) /\ parser.plan[j] \in Operated
      BY <1>1, <1>2, <1>4, <1>5
    <2>2. LiesBehind(input, delim, a[j - 1].pos)
      BY <1>7, <2>1, TurnMatches, Zenon
    <2> QED
      BY <1>2, <1>6, <2>2
  <1>8. CASE /\ a[j - 1].next = j + 1 /\ j - 1 \in 1 .. n
             /\ Turn(parser, input, a[(j - 1) - 1], j - 1, a[j - 1])
             /\ parser.plan[j - 1].field # "none" /\ parser.plan[j - 1].consume = TRUE
    <2> DEFINE i == j - 1
    <2>1. i # k
      <3>1. j + 1 > j
        BY <1>2, SMT
      <3>2. i = k => a[k].next = j + 1
        BY <1>8
      <3> HIDE DEF i
      <3> QED
        BY <1>2, <3>1, <3>2, SMT
    <2>2. i \in 1 .. n /\ i - 1 \in k .. n /\ i + 1 = j
      <3> HIDE DEF n
      <3> QED
        BY <1>1, <1>2, <2>1, SMT
    <2>3. parser.plan[i].delim = delim
      <3> DEFINE plan == parser.plan
      <3>1. plan[i].field # "none" /\ plan[i].consume = TRUE
        BY <1>8
      <3>2. \/ \E m \in i + 1 .. n :
                /\ plan[m].field = "none"
                /\ plan[i].delim = plan[m].delim /\ plan[i].consume = (m = i + 1)
            \/ plan[i].consume = FALSE
        BY <2>2, <3>1, Zenon DEF IsLinked
      <3> HIDE DEF i
      <3>3. PICK m \in i + 1 .. n :
                plan[i].delim = plan[m].delim /\ plan[i].consume = (m = i + 1)
        BY <3>1, <3>2
      <3>4. m = j
        BY <2>2, <3>1, <3>3
      <3> QED
        BY <3>3, <3>4 DEF i
    <2>4. LiesBehind(input, delim, a[i - 1].pos)
      <3> DEFINE st == a[i - 1]
                 r == a[i]
      <3>1. st \in Cursors(input) /\ parser.plan[i] \in Operated
        BY <1>1, <1>4, <1>5, <2>2
      <3>2. Turn(parser, input, st, i, r) /\ parser.plan[i].field # "none"
        BY <1>8
      <3> HIDE DEF i, st, r
      <3>3. CASE parser.plan[i].delim # <<>>
        <4>1. LiesBehind(input, parser.plan[i].delim, st.pos)
          BY <3>1, <3>2, <3>3, TurnMatches, Zenon
        <4> QED
          BY <2>3, <4>1 DEF st
      <3>4. CASE parser.plan[i].delim = <<>>
        <4>1. st.pos \in Nat /\ st.pos <= Len(input)
          BY <3>1, CursorsHold
        <4>2. delim = <<>> /\ Len(<<>>) = 0
          BY <2>3, <3>4
        <4>3. st.pos + Len(<<>>) = st.pos
          BY <4>1, <4>2
        <4>4. Slice(input, st.pos, st.pos) = <<>>
          BY <4>1 DEF Slice, Text
        <4> HIDE DEF delim
        <4>5. st.pos <= st.pos /\ st.pos + Len(delim) <= Len(input)
              /\ Slice(input, st.pos, st.pos + Len(delim)) = delim
          BY <4>1, <4>2, <4>3, <4>4
        <4> QED
          BY <4>1, <4>5, Zenon DEF LiesBehind, st, delim
      <3> QED
        BY <3>3, <3>4
    <2> HIDE DEF delim, i
    <2>5. LiesBehind(input, delim, a[k].pos)
      BY <1>6, <2>2, <2>4
    <2> QED
      BY <2>5 DEF delim
  <1> QED
    BY <1>3, <1>7, <1>8 DEF InTurn

\* An '@' that lies behind is found.
LEMMA AtSignIsFound ==
    ASSUME NEW input \in Text, NEW from \in Nat, LiesBehind(input, <<"@">>, from)
    PROVE  IndexByte(input, "@", from) # Absent
  <1>1. Len(<<"@">>) = 1 /\ <<"@">>[1] = "@"
    OBVIOUS
  <1> DEFINE text == <<"@">>
  <1>2. PICK q \in Nat : /\ from <= q /\ q + Len(text) <= Len(input)
                         /\ Slice(input, q, q + Len(text)) = text
    BY Zenon DEF LiesBehind
  <1> HIDE DEF text
  <1>3. q + 1 <= Len(input) /\ Slice(input, q, q + 1) = text /\ text[1] = "@" /\ Len(text) = 1
    BY <1>1, <1>2 DEF text
  <1>4. Slice(input, q, q + 1)[1] = input[q + 1]
    <2>1. q <= q + 1 /\ q + 1 \in Nat /\ 1 \in 1 .. (q + 1) - q
      OBVIOUS
    <2> QED
      BY <1>3, <2>1, SliceIsText
  <1>5. input[q + 1] = "@" /\ q + 1 \in from + 1 .. Len(input)
    BY <1>2, <1>3, <1>4 DEF Text
  <1>6. \/ /\ IndexByte(input, "@", from) = Absent
           /\ \A k \in from + 1 .. Len(input) : input[k] # "@"
        \/ IndexByte(input, "@", from) \in from .. Len(input) - 1
    BY IndexByteFinds
  <1>7. \A i \in from .. Len(input) - 1 : i # Absent
    BY DEF Absent
  <1> QED
    BY <1>5, <1>6, <1>7

\* Where a strict parser gets through, no username stands alone.
LEMMA NoUsernameOnly ==
    ASSUME NEW input \in Text, NEW parser, parser.plan \in Seq(Operated), parser.strict,
           IsLinked(parser.plan),
           NEW a, Course(parser, input, a), a[Len(parser.plan)].err = NoError,
           NEW k \in 1 .. Len(parser.plan), a[k - 1].next = k,
           NEW lenient, lenient.plan = parser.plan, NEW at
    PROVE  LET op == parser.plan[k]
           IN  ~ IsUsernameOnly(lenient, input, a[k - 1], op, at, FieldEnd(input, op, a[k - 1].pos))
  <1> DEFINE plan == parser.plan
             n == Len(plan)
             op == plan[k]
             st == a[k - 1]
             idx == FieldEnd(input, op, st.pos)
  <1>1. n \in Nat /\ \A i \in 1 .. n : plan[i] \in Operated
    OBVIOUS
  <1>2. SUFFICES ASSUME IsUsernameOnly(lenient, input, st, op, at, idx)
                 PROVE  FALSE
    OBVIOUS
  <1>3. /\ op.field = "u" /\ op.delim = <<":">> /\ op.credentialEnd = k + 3
        /\ plan[k + 2].field = "p" /\ IndexByte(input, "@", idx + 1) = Absent
    BY <1>2, Zenon DEF IsUsernameOnly
  <1>4. /\ \/ \E m \in k + 1 .. n :
                /\ plan[m].field = "none" /\ \A i \in k .. m - 1 : plan[i].field # "none"
                /\ op.delim = plan[m].delim /\ op.consume = (m = k + 1)
           \/ op.delim = <<>>
        /\ op.credentialEnd # 0 =>
              /\ op.credentialEnd \in k + 1 .. n
              /\ plan[op.credentialEnd].field = "none"
              /\ plan[op.credentialEnd].delim = <<"@">>
    <2>1. op.field # "none"
      BY <1>3
    <2> QED
      BY <2>1, Zenon DEF IsLinked
  <1>5. k \in Nat /\ k + 3 # 0 /\ k \in 0 .. n
    <2> HIDE DEF n
    <2> QED
      BY <1>1, SMT DEF n
  <1>6. k + 3 \in k + 1 .. n /\ plan[k + 3].field = "none" /\ plan[k + 3].delim = <<"@">>
    BY <1>3, <1>4, <1>5
  <1>7. <<":">> # <<>> /\ <<":">> # <<"@">>
    <2>1. <<":">>[1] = ":" /\ <<"@">>[1] = "@" /\ Len(<<":">>) = 1
      OBVIOUS
    <2> QED
      BY <2>1
  <1>8. op.consume = TRUE
    <2>1. PICK m \in k + 1 .. n :
                /\ plan[m].field = "none" /\ \A i \in k .. m - 1 : plan[i].field # "none"
                /\ op.delim = plan[m].delim /\ op.consume = (m = k + 1)
      BY <1>3, <1>4, <1>7
    <2>2. m # k + 2 /\ m # k + 3
      BY <1>3, <1>6, <1>7, <2>1
    <2>3. k + 3 \notin k .. m - 1
      BY <1>6, <2>1
    <2> HIDE DEF op, n
    <2>4. m = k + 1
      BY <1>1, <1>5, <2>2, <2>3, SMT
    <2> QED
      BY <2>1, <2>4
  <1>9. a[k].next = k + 2 /\ a[k].pos = idx + 1
    <2>1. \/ st.next = k /\ Turn(parser, input, st, k, a[k])
          \/ st.next = k + 1
      <3>1. InTurn(parser, input, a, k)
        BY StrictCourse
      <3> QED
        BY <3>1 DEF InTurn
    <2>2. Turn(parser, input, st, k, a[k])
      <3>1. k + 1 # k
        BY <1>5
      <3> QED
        BY <2>1, <3>1
    <2> DEFINE end == IF op.field = "none" THEN st.pos + Len(op.delim)
                      ELSE CaptureEnd(input, op, st.pos)
    <2>3. op.field # "none" =>
             /\ a[k] = TakeField(input, st, op, end)
             /\ op.delim # <<>> => FieldEnd(input, op, st.pos) = end
      BY <2>2, Zenon DEF Turn
    <2> HIDE DEF end
    <2>4. a[k] = TakeField(input, st, op, idx)
      BY <1>3, <1>7, <2>3
    <2>5. st \in LocalState
      <3>1. k - 1 \in 0 .. n
        <4> HIDE DEF n
        <4> QED
          BY <1>1, SMT DEF n
      <3> QED
        BY <3>1 DEF Course, Cursors
    <2> HIDE DEF idx, op, st
    <2>6. MovedOn(st, op, idx, TakeField(input, st, op, idx))
      BY <2>5, TakeFieldDoes, Zenon
    <2>7. a[k].next = st.next + 2 /\ a[k].pos = idx + Len(op.delim)
      BY <1>8, <2>4, <2>6, Zenon DEF MovedOn
    <2>8. st.next = k /\ Len(op.delim) = 1
      BY <1>3 DEF st
    <2> QED
      BY <2>7, <2>8
  <1>10. LiesBehind(input, <<"@">>, idx + 1)
    <2> DEFINE j == k + 3
    <2>1. a[k].next <= j
      BY <1>5, <1>9
    <2>2. j \in k + 1 .. n /\ plan[j].field = "none" /\ plan[j].delim = <<"@">>
      BY <1>6
    <2> HIDE DEF j
    <2>3. LiesBehind(input, plan[j].delim, a[k].pos)
      BY <1>5, <2>1, <2>2, DelimiterLater
    <2> QED
      BY <1>9, <2>2, <2>3
  <1>11. idx + 1 \in Nat
    <2>1. a[k].pos \in Nat
      BY <1>5, CursorsHold DEF Course
    <2> QED
      BY <1>9, <2>1
  <1> QED
    BY <1>3, <1>10, <1>11, AtSignIsFound

\* A lenient parser does what a strict one of the same plan does that gets
\* through.
LEMMA LenientTurn ==
    ASSUME NEW input \in Text, NEW parser, parser.plan \in Seq(Operated), parser.strict,
           IsLinked(parser.plan),
           NEW a, Course(parser, input, a), a[Len(parser.plan)].err = NoError,
           NEW k \in 1 .. Len(parser.plan),
           NEW lenient, lenient.plan = parser.plan
    PROVE  Step(lenient, input, a[k - 1], k) = a[k]
  <1> DEFINE plan == parser.plan
             n == Len(plan)
             op == plan[k]
             st == a[k - 1]
             r == a[k]
             end == IF op.field = "none" THEN st.pos + Len(op.delim)
                    ELSE CaptureEnd(input, op, st.pos)
  <1>1. n \in Nat /\ op \in Operated /\ k \in Nat
    OBVIOUS
  <1>2. k - 1 \in 0 .. n /\ k \in (k - 1) + 1 .. n /\ k + 1 # k
    <2> HIDE DEF n
    <2> QED
      BY <1>1, SMT DEF n
  <1>3. st \in Cursors(input) /\ st.pos \in Nat /\ st.pos <= Len(input)
    BY <1>2, CursorsHold DEF Course
  <1>4. st.err = NoError
    BY <1>2, NoErrorBefore
  <1>5. Step(lenient, input, st, k)
          = IF st.next # k \/ st.err # NoError THEN st
            ELSE IF op.field = "none" THEN Expect(lenient, input, st, op)
            ELSE CaptureField(lenient, input, st, op)
    BY Zenon DEF Step
  <1>6. \/ st.next = k /\ Turn(parser, input, st, k, r)
        \/ st.next = k + 1 /\ r = st
    <2>1. InTurn(parser, input, a, k)
      BY StrictCourse
    <2> QED
      BY <2>1 DEF InTurn
  <1>7. CASE st.next = k + 1 /\ r = st
    BY <1>2, <1>5, <1>7
  <1>8. ASSUME st.next = k, Turn(parser, input, st, k, r)
        PROVE  Step(lenient, input, st, k) = r
    <2>1. /\ end \in Nat /\ st.pos <= end /\ end <= Len(input)
          /\ op.field = "none" =>
               /\ Slice(input, st.pos, end) = op.delim
               /\ r = [st EXCEPT !.next = @ + 1, !.pos = end]
          /\ op.field # "none" =>
               /\ r = TakeField(input, st, op, end)
               /\ op.delim # <<>> => FieldEnd(input, op, st.pos) = end /\ end # Absent
      BY <1>8, Zenon DEF Turn
    <2>2. CASE op.field = "none"
      <3> DEFINE e == st.pos + Len(op.delim)
                 matched == e <= Len(input) /\ Slice(input, st.pos, e) = op.delim
      <3>1. end = e
        BY <2>2
      <3>2. Expect(lenient, input, st, op) = IF matched THEN [st EXCEPT !.next = @ + 1, !.pos = e]
                                             ELSE IF lenient.strict
        THEN [st EXCEPT !.err = [kind |-> "ErrMismatchDelim", delim |-> op.delim, pos |-> st.pos]]
        ELSE [st EXCEPT !.next = @ + 1]
        BY Zenon DEF Expect
      <3>3. matched
        BY <2>1, <2>2, <3>1
      <3> HIDE DEF matched
      <3>4. Expect(lenient, input, st, op) = [st EXCEPT !.next = @ + 1, !.pos = e]
        BY <3>2, <3>3
      <3>5. r = [st EXCEPT !.next = @ + 1, !.pos = e]
        BY <2>1, <2>2, <3>1
      <3> HIDE DEF e, end, st, r, op
      <3> QED
        BY <1>4, <1>5, <1>8, <2>2, <3>4, <3>5
    <2>3. CASE op.field # "none"
      <3> DEFINE inCredentials == ~ lenient.strict /\ op.field \in {"u", "p"} /\ op.credentialEnd # 0
                 at == IF inCredentials THEN IndexByte(input, "@", st.pos) ELSE Absent
                 idx == FieldEnd(input, op, st.pos)
                 last == IF op.delim = <<>> THEN Len(input) ELSE idx
      <3>1. CaptureField(lenient, input, st, op)
              = IF inCredentials /\ at = Absent
                THEN [st EXCEPT !.next = op.credentialEnd + 1]
                ELSE IF IsUsernameOnly(lenient, input, st, op, at, idx)
                THEN [st EXCEPT !.proxy = [@ EXCEPT !.username = Slice(input, st.pos, at),
                                                    !.password = <<>>],
                                !.pos = at + 1, !.next = op.credentialEnd + 1]
                ELSE IF op.delim # <<>> /\ idx = Absent
                THEN IF lenient.strict
                     THEN [st EXCEPT !.err = Failure("ErrSubseqDelimNotFound", op.delim)]
                     ELSE TakeUnended(input, st, op)
                ELSE TakeField(input, st, op, last)
        BY Zenon DEF CaptureField
      <3>2. ~ (inCredentials /\ at = Absent)
        <4> SUFFICES ASSUME inCredentials
                     PROVE  at # Absent
          OBVIOUS
        <4> DEFINE j == op.credentialEnd
        <4>1. j \in k + 1 .. n /\ plan[j].field = "none" /\ plan[j].delim = <<"@">>
          <5>1. op.credentialEnd # 0 =>
                  /\ op.credentialEnd \in k + 1 .. n
                  /\ plan[op.credentialEnd].field = "none"
                  /\ plan[op.credentialEnd].delim = <<"@">>
            BY <2>3, Zenon DEF IsLinked
          <5> QED
            BY <5>1
        <4>2. j \in (k - 1) + 1 .. n /\ st.next <= j
          <5> HIDE DEF j, n, st
          <5> QED
            BY <1>1, <1>8, <4>1, SMT
        <4> HIDE DEF j
        <4>3. LiesBehind(input, plan[j].delim, st.pos)
          BY <1>2, <4>1, <4>2, DelimiterLater
        <4>4. IndexByte(input, "@", st.pos) # Absent
          BY <1>3, <4>1, <4>3, AtSignIsFound
        <4> QED
          BY <4>4
      <3> HIDE DEF inCredentials, at
      <3>3. ~ IsUsernameOnly(lenient, input, st, op, at, idx)
        BY <1>8, NoUsernameOnly
      <3>4. ~ (op.delim # <<>> /\ idx = Absent)
        BY <2>1, <2>3
      <3>5. last = end
        BY <2>1, <2>3 DEF CaptureEnd
      <3> HIDE DEF st, r, op, idx, last, end
      <3>6. CaptureField(lenient, input, st, op) = TakeField(input, st, op, end)
        BY <3>1, <3>2, <3>3, <3>4, <3>5
      <3>7. r = TakeField(input, st, op, end)
        BY <2>1, <2>3
      <3> QED
        BY <1>4, <1>5, <1>8, <2>3, <3>6, <3>7
    <2> QED
      BY <2>2, <2>3
  <1> QED
    BY <1>6, <1>7, <1>8

\* A round that only goes on.
OnlyMoved(st, after) ==
    /\ after.proxy = st.proxy /\ after.emptyHost = st.emptyHost /\ after.emptyPort = st.emptyPort
    /\ after.hostParsed = st.hostParsed
    /\ after.hostStart = st.hostStart /\ after.hostEnd = st.hostEnd

\* What a turn makes of the locals.
LEMMA TurnTakes ==
    ASSUME NEW input \in Text, NEW st \in Cursors(input), NEW parser, NEW k,
           NEW after, Turn(parser, input, st, k, after)
    PROVE  LET op == parser.plan[k]
           IN  IF op.field = "none" THEN OnlyMoved(st, after)
               ELSE FieldTaken(input, st, op, CaptureEnd(input, op, st.pos), after)
  <1> DEFINE op == parser.plan[k]
             end == IF op.field = "none" THEN st.pos + Len(op.delim)
                    ELSE CaptureEnd(input, op, st.pos)
  <1>1. /\ op.field = "none" => after = [st EXCEPT !.next = @ + 1, !.pos = end]
        /\ op.field # "none" => after = TakeField(input, st, op, end)
    BY Zenon DEF Turn
  <1>2. st \in LocalState
    BY DEF Cursors
  <1>3. CASE op.field = "none"
    <2> HIDE DEF end, op
    <2>1. after = [st EXCEPT !.next = @ + 1, !.pos = end]
      BY <1>1, <1>3
    <2>2. OnlyMoved(st, after)
      BY <1>2, <2>1 DEF LocalState, OnlyMoved
    <2> QED
      BY <1>3, <2>2 DEF op
  <1>4. CASE op.field # "none"
    <2> DEFINE e == CaptureEnd(input, op, st.pos)
    <2>1. after = TakeField(input, st, op, e)
      BY <1>1, <1>4
    <2> HIDE DEF e, end, op
    <2>2. FieldTaken(input, st, op, e, TakeField(input, st, op, e))
      BY <1>2, TakeFieldDoes, Zenon
    <2> QED
      BY <1>4, <2>1, <2>2 DEF op, e
  <1> QED
    BY <1>3, <1>4

\* Only %t says a scheme.
LEMMA SchemeStays ==
    ASSUME NEW input \in Text, NEW st \in Cursors(input), NEW parser, NEW k,
           parser.plan[k] \in Operated, parser.plan[k].field # "t",
           NEW after, Turn(parser, input, st, k, after)
    PROVE  after.proxy.scheme = st.proxy.scheme
  <1> DEFINE op == parser.plan[k]
             end == CaptureEnd(input, op, st.pos)
             value == Slice(input, st.pos, end)
             p == st.proxy
  <1>1. IF op.field = "none" THEN OnlyMoved(st, after)
        ELSE FieldTaken(input, st, op, end, after)
    BY TurnTakes, Zenon
  <1>2. p \in Texts
    BY CursorsHold
  <1>3. op.field \in {"none", "t", "h", "d", "u", "p"}
    BY OperationFields DEF Verbs
  <1>4. \A v, at : WithHost(p, v, at).scheme = p.scheme
    BY <1>2 DEF Texts, WithHost
  <1>5. \A v, at : Joined(p, v, at).scheme = p.scheme
    BY <1>2 DEF Texts, Joined
  <1>6. /\ \A v, at : assignField(p, "u", v, at).scheme = p.scheme
        /\ \A v, at : assignField(p, "p", v, at).scheme = p.scheme
    BY <1>2 DEF Texts, assignField
  <1> HIDE DEF op, p, end
  <1>7. CASE op.field = "none"
    BY <1>1, <1>7 DEF OnlyMoved, p
  <1>8. CASE op.field = "h"
    <2>1. after.proxy = WithHost(p, value, st.pos)
      BY <1>1, <1>8 DEF FieldTaken, p
    <2> QED
      BY <1>4, <2>1 DEF p
  <1>9. CASE op.field = "d"
    <2>1. \/ \E v, at : after.proxy = WithHost(p, v, at)
          \/ \E v, at : after.proxy = Joined(p, v, at)
      BY <1>1, <1>9 DEF FieldTaken, p
    <2> QED
      BY <1>4, <1>5, <2>1 DEF p
  <1>10. CASE op.field \in {"u", "p"}
    <2>1. after.proxy = assignField(p, op.field, value, st.pos)
      BY <1>1, <1>10 DEF FieldTaken, p
    <2> QED
      BY <1>6, <1>10, <2>1 DEF p
  <1> QED
    BY <1>3, <1>7, <1>8, <1>9, <1>10 DEF op

\* A host was said, be it an empty one.
HostSaid(st) == st.hostParsed = TRUE \/ st.emptyHost = TRUE

\* Once a host was said, one was; and %h says one.
LEMMA HostStaysSaid ==
    ASSUME NEW input \in Text, NEW st \in Cursors(input), NEW parser, NEW k,
           parser.plan[k].field = "h" \/ HostSaid(st),
           NEW after, Turn(parser, input, st, k, after)
    PROVE  HostSaid(after)
  <1> DEFINE op == parser.plan[k]
             end == CaptureEnd(input, op, st.pos)
             value == Slice(input, st.pos, end)
  <1>1. IF op.field = "none" THEN OnlyMoved(st, after)
        ELSE FieldTaken(input, st, op, end, after)
    BY TurnTakes, Zenon
  <1> HIDE DEF op
  <1>2. CASE op.field = "h"
    <2>1. after.emptyHost = (st.emptyHost \/ value = <<>>) /\ after.hostParsed = (value # <<>>)
      BY <1>1, <1>2 DEF FieldTaken
    <2> HIDE DEF value
    <2> QED
      BY <2>1 DEF HostSaid
  <1>3. CASE op.field # "h"
    <2>1. after.emptyHost = st.emptyHost /\ after.hostParsed = st.hostParsed
      BY <1>1, <1>3 DEF FieldTaken, OnlyMoved
    <2> QED
      BY <1>3, <2>1 DEF HostSaid, op
  <1> QED
    BY <1>2, <1>3

\* What is captured is never skipped.
LEMMA CapturesHaveTurns ==
    ASSUME NEW input \in Text, NEW parser, parser.plan \in Seq(Operated), IsLinked(parser.plan),
           NEW a, NEW k \in 1 .. Len(parser.plan), parser.plan[k].field # "none",
           InTurn(parser, input, a, k)
    PROVE  a[k - 1].next = k /\ Turn(parser, input, a[k - 1], k, a[k])
  <1> DEFINE plan == parser.plan
             n == Len(plan)
             i == k - 1
  <1> SUFFICES ASSUME i \in 1 .. n, plan[i].field # "none", plan[i].consume = TRUE
               PROVE  FALSE
    BY Zenon DEF InTurn
  <1>1. \/ \E m \in i + 1 .. n :
             /\ plan[m].field = "none"
             /\ plan[i].delim = plan[m].delim /\ plan[i].consume = (m = i + 1)
        \/ plan[i].consume = FALSE
    BY Zenon DEF IsLinked
  <1>2. i + 1 = k
    BY SMT
  <1> HIDE DEF i
  <1>3. PICK m \in i + 1 .. n : plan[m].field = "none" /\ plan[i].consume = (m = i + 1)
    BY <1>1
  <1>4. m = k
    BY <1>2, <1>3
  <1> QED
    BY <1>3, <1>4

\* Who gets to a scheme has a %t in the format.
LEMMA SchemeIsInPlan ==
    ASSUME NEW input \in Text, NEW parser, parser.plan \in Seq(Operated), parser.strict,
           NEW a, Course(parser, input, a), a[Len(parser.plan)].err = NoError,
           a[Len(parser.plan)].proxy.scheme # <<>>
    PROVE  \E k \in 1 .. Len(parser.plan) : parser.plan[k].field = "t"
  <1> DEFINE n == Len(parser.plan)
             P == { i \in 0 .. n : a[i].proxy.scheme = <<>> }
  <1>1. n \in Nat /\ \A i \in 1 .. n : parser.plan[i] \in Operated
    OBVIOUS
  <1>2. \A i \in 1 .. n : InTurn(parser, input, a, i)
    BY StrictCourse
  <1>3. \A i \in 0 .. n : a[i] \in Cursors(input)
    BY DEF Course
  <1>4. a[n].proxy.scheme # <<>>
    OBVIOUS
  <1> HIDE DEF n
  <1> SUFFICES ASSUME \A k \in 1 .. n : parser.plan[k].field # "t"
               PROVE  FALSE
    BY DEF n
  <1>5. ASSUME NEW i \in 0 .. n - 1, i \in P
        PROVE  i + 1 \in P
    <2> DEFINE st == a[i]
               r == a[i + 1]
               k == i + 1
    <2>1. k \in 1 .. n /\ k - 1 = i /\ k \in 0 .. n /\ i \in 0 .. n
      BY <1>1, SMT
    <2>2. (st.next = k /\ Turn(parser, input, st, k, r)) \/ r = st
      BY <1>2, <2>1 DEF InTurn
    <2>3. st \in Cursors(input) /\ parser.plan[k] \in Operated /\ parser.plan[k].field # "t"
      BY <1>1, <1>3, <2>1
    <2>4. st.proxy.scheme = <<>>
      BY <1>5
    <2> HIDE DEF st, r, k
    <2>5. r.proxy.scheme = <<>>
      <3>1. CASE Turn(parser, input, st, k, r)
        <4>1. r.proxy.scheme = st.proxy.scheme
          BY <2>3, <3>1, SchemeStays
        <4> QED
          BY <2>4, <4>1
      <3> QED
        BY <2>2, <2>4, <3>1
    <2> QED
      BY <2>1, <2>5 DEF r, k
  <1>6. 0 \in P
    <2>1. a[0] = Locals(ZeroProxy)
      BY StrictBegins
    <2>2. Locals(ZeroProxy).proxy.scheme = <<>>
      BY DEF Locals, Reset, ZeroProxy
    <2> QED
      BY <1>1, <2>1, <2>2
  <1> HIDE DEF P
  <1>7. n \in P
    <2>1. 0 \in Nat /\ n \in 0 .. n
      BY <1>1, SMT
    <2> QED
      BY <1>1, <1>5, <1>6, <2>1, HoldsUpTo
  <1> QED
    BY <1>4, <1>7 DEF P

\* Who has a %h in the format gets to a host, be it an empty one.
LEMMA HostIsSaid ==
    ASSUME NEW input \in Text, NEW parser, parser.plan \in Seq(Operated), parser.strict,
           IsLinked(parser.plan),
           NEW a, Course(parser, input, a), a[Len(parser.plan)].err = NoError,
           NEW h \in 1 .. Len(parser.plan), parser.plan[h].field = "h"
    PROVE  HostSaid(a[Len(parser.plan)])
  <1> DEFINE n == Len(parser.plan)
             P == { i \in 0 .. n : HostSaid(a[i]) }
  <1>1. n \in Nat /\ h \in 0 .. n /\ h \in Nat /\ n \in h .. n /\ h - 1 \in 0 .. n
    <2>1. n \in Nat
      OBVIOUS
    <2> HIDE DEF n
    <2> QED
      BY <2>1, SMT DEF n
  <1>2. \A i \in 1 .. n : InTurn(parser, input, a, i)
    BY StrictCourse
  <1>3. \A i \in 0 .. n : a[i] \in Cursors(input)
    BY DEF Course
  <1> HIDE DEF n
  <1>4. h \in P
    <2> DEFINE st == a[h - 1]
               r == a[h]
    <2>1. Turn(parser, input, st, h, r)
      BY <1>2, CapturesHaveTurns DEF n
    <2>2. st \in Cursors(input)
      BY <1>1, <1>3
    <2> HIDE DEF st, r
    <2>3. HostSaid(r)
      BY <2>1, <2>2, HostStaysSaid, Zenon
    <2> QED
      BY <1>1, <2>3 DEF r
  <1>5. ASSUME NEW i \in h .. n - 1, i \in P
        PROVE  i + 1 \in P
    <2> DEFINE st == a[i]
               r == a[i + 1]
               k == i + 1
    <2>1. k \in 1 .. n /\ k - 1 = i /\ k \in 0 .. n /\ i \in 0 .. n
      BY <1>1, SMT DEF n
    <2>2. (st.next = k /\ Turn(parser, input, st, k, r)) \/ r = st
      BY <1>2, <2>1 DEF InTurn
    <2>3. st \in Cursors(input) /\ HostSaid(st)
      BY <1>3, <1>5, <2>1
    <2> HIDE DEF st, r, k
    <2>4. HostSaid(r)
      <3>1. CASE Turn(parser, input, st, k, r)
        BY <2>3, <3>1, HostStaysSaid, Zenon
      <3> QED
        BY <2>2, <2>3, <3>1
    <2> QED
      BY <2>1, <2>4 DEF r, k
  <1> HIDE DEF P
  <1>6. n \in P
    BY <1>1, <1>4, <1>5, HoldsUpTo
  <1> QED
    BY <1>6 DEF P, n

\* A lenient parser that begins like the strict one of its plan ends like it.
LEMMA LenientEnds ==
    ASSUME NEW input \in Text, NEW parser, parser.plan \in Seq(Operated), parser.strict,
           IsLinked(parser.plan), EndOf(parser, input, ZeroProxy).err = NoError,
           NEW lenient, lenient.plan = parser.plan, lenient.hasScheme
    PROVE  EndOf(lenient, input, ZeroProxy) = EndOf(parser, input, ZeroProxy)
  <1> DEFINE n == Len(parser.plan)
  <1>1. n \in Nat
    OBVIOUS
  <1>2. PICK a : Course(parser, input, a)
    BY CourseExists
  <1>3. PICK b : Course(lenient, input, b)
    BY CourseExists
  <1>4. a[n].err = NoError
    BY <1>2 DEF Course
  <1> DEFINE P == { i \in 0 .. n : b[i] = a[i] }
  <1>5. a[0] = Locals(ZeroProxy) /\ b[0] = Locals(ZeroProxy)
    <2>1. b[0] = Begin(lenient, input, ZeroProxy)
      BY <1>3, Zenon DEF Course
    <2>2. Begin(lenient, input, ZeroProxy) = Locals(ZeroProxy)
      BY Zenon DEF Begin
    <2> QED
      BY <1>2, <2>1, <2>2, StrictBegins
  <1>6. \A k \in 1 .. n : b[k] = Step(lenient, input, b[k - 1], k)
    BY <1>3 DEF Course
  <1>7. \A k \in 1 .. n : Step(lenient, input, a[k - 1], k) = a[k]
    BY <1>2, <1>4, LenientTurn
  <1>8. ASSUME NEW i \in 0 .. n - 1, i \in P
        PROVE  i + 1 \in P
    <2>1. i + 1 \in 1 .. n /\ (i + 1) - 1 = i /\ i + 1 \in 0 .. n
      <3> HIDE DEF n
      <3> QED
        BY <1>1, SMT
    <2>2. b[i] = a[i]
      BY <1>8
    <2>3. b[i + 1] = Step(lenient, input, b[i], i + 1) /\ Step(lenient, input, a[i], i + 1) = a[i + 1]
      BY <1>6, <1>7, <2>1
    <2> QED
      BY <2>1, <2>2, <2>3
  <1>9. 0 \in P
    BY <1>1, <1>5
  <1> HIDE DEF P
  <1>10. n \in P
    <2> HIDE DEF n
    <2>1. 0 \in Nat /\ n \in 0 .. n
      BY <1>1, SMT
    <2> QED
      BY <1>1, <1>8, <1>9, <2>1, HoldsUpTo
  <1>11. b[n] = a[n]
    BY <1>10 DEF P
  <1> QED
    BY <1>2, <1>3, <1>11 DEF Course

\* The format has a host.
HasHost(plan) == \E k \in DOMAIN plan : plan[k].field = "h"

\* So a lenient parser reads what the strict one of its plan accepts.
LEMMA LenientReads ==
    ASSUME NEW input \in Text, NEW parser, parser.plan \in Seq(Operated), parser.strict,
           IsLinked(parser.plan), HasHost(parser.plan),
           NEW lenient, lenient.plan = parser.plan, ~ lenient.strict,
           lenient.hasScheme = (\E k \in DOMAIN parser.plan : parser.plan[k].field = "t"),
           parseGeneric(parser, input, ZeroProxy, "scalar").err = NoError
    PROVE  parseGeneric(lenient, input, ZeroProxy, "scalar")
             = parseGeneric(parser, input, ZeroProxy, "scalar")
  <1> DEFINE end == EndOf(parser, input, ZeroProxy)
             n == Len(parser.plan)
             p == end.proxy
  <1>1. parseGeneric(parser, input, ZeroProxy, "scalar")
          = Result(end.proxy, Verdict(parser, input, end, "scalar"))
    BY Zenon DEF parseGeneric, EndOf
  <1>2. parseGeneric(lenient, input, ZeroProxy, "scalar")
          = LET e == EndOf(lenient, input, ZeroProxy)
            IN  Result(e.proxy, Verdict(lenient, input, e, "scalar"))
    BY Zenon DEF parseGeneric, EndOf
  <1> HIDE DEF end
  <1>3. Verdict(parser, input, end, "scalar") = NoError
    BY <1>1 DEF Result
  <1>4. Validate(p) = "ok"
    BY <1>3, UsableOfVerdict
  <1>5. end.err = NoError /\ ~ (end.emptyHost \/ end.emptyPort)
    <2>1. end.err = NoError
      BY <1>3, Zenon DEF Verdict
    <2>2. \A kind, delim : kind # "none" => Failure(kind, delim) # NoError
      BY FailuresAreErrors, Zenon
    <2>3. /\ "ErrUnexpectedTrail" # "none" /\ "ErrInvalidScheme" # "none"
          /\ "ErrInvalidPort" # "none" /\ "ErrInvalidHost" # "none"
      OBVIOUS
    <2>4. Failure(IF ~IsValidScheme(p.scheme) THEN "ErrInvalidScheme"
                  ELSE IF p.host # <<>> /\ end.emptyPort THEN "ErrInvalidPort"
                  ELSE "ErrInvalidHost", <<>>) # NoError
      BY <2>2, <2>3, Zenon
    <2> QED
      BY <1>3, <2>1, <2>2, <2>3, <2>4, Zenon DEF Verdict
  <1>6. end \in Cursors(input)
    BY EndIsIn DEF end
  <1>7. PICK a : Course(parser, input, a)
    BY CourseExists
  <1>8. a[n] = end
    BY <1>7 DEF Course, end
  <1>9. p.scheme # <<>> /\ p.host # <<>>
    <2>1. IsValidScheme(p.scheme) /\ validateHostnamePort(p.host) = "ok"
      BY <1>4, Zenon DEF Validate, FirstOf
    <2>2. p.scheme # <<>>
      BY <2>1 DEF IsValidScheme
    <2>3. p.host # <<>>
      BY <2>1, Zenon DEF validateHostnamePort
    <2> QED
      BY <2>2, <2>3
  <1>10. DOMAIN parser.plan = 1 .. n
    OBVIOUS
  <1>11. lenient.hasScheme
    <2>1. a[n].err = NoError /\ a[n].proxy.scheme # <<>>
      BY <1>5, <1>8, <1>9
    <2>2. \E k \in 1 .. n : parser.plan[k].field = "t"
      BY <1>7, <2>1, SchemeIsInPlan
    <2> QED
      BY <1>10, <2>2
  <1>12. end.hostParsed
    <2>1. PICK h \in 1 .. n : parser.plan[h].field = "h"
      BY <1>10 DEF HasHost
    <2>2. HostSaid(a[n])
      BY <1>5, <1>7, <1>8, <2>1, HostIsSaid
    <2>3. end.hostParsed \in BOOLEAN /\ end.emptyHost \in BOOLEAN
      BY <1>6 DEF Cursors, LocalState
    <2> QED
      BY <1>5, <1>8, <2>2, <2>3 DEF HostSaid
  <1>13. EndOf(lenient, input, ZeroProxy) = end
    BY <1>5, <1>11, LenientEnds DEF end
  <1>14. Verdict(lenient, input, end, "scalar") = NoError
    <2>1. IsUsable(input, p, "scalar")
      BY <1>4, Zenon DEF IsUsable
    <2>2. ~ Trail(lenient, input, end)
      BY Zenon DEF Trail
    <2> QED
      BY <1>5, <1>9, <1>12, <2>1, <2>2, Zenon DEF Verdict
  <1> QED
    BY <1>1, <1>2, <1>3, <1>13, <1>14

-----------------------------------------------------------------------------
(* The plans of the two formats that have a strict parser of their own.    *)

\* What the loop of New has read after one more round.
ReadNext(format, st) ==
    IF st.next > Len(format) THEN st
    ELSE [plan |-> Append(st.plan, Operation(format, st.next).op),
          next |-> Operation(format, st.next).next]

\* The rounds of New's loop.
Reading(format, g) ==
    /\ g \in [0 .. Len(format) -> PlanState]
    /\ g[0] = [plan |-> <<>>, next |-> 1]
    /\ \A k \in 1 .. Len(format) : g[k] = ReadNext(format, g[k - 1])
    /\ Operations(format) = g[Len(format)].plan

\* The loop reads the format round by round.
LEMMA OperationsAreRead ==
    ASSUME NEW format \in Text
    PROVE  \E g : Reading(format, g)
  <1> DEFINE n == Len(format)
             Read(st) == IF st.next > n THEN st
                         ELSE [plan |-> Append(st.plan, Operation(format, st.next).op),
                               next |-> Operation(format, st.next).next]
             base == [plan |-> <<>>, next |-> 1]
             Rounds(g) == g = [k \in 0 .. n |-> IF k = 0 THEN base ELSE Read(g[k - 1])]
             step == [k \in 1 .. n |-> [st \in PlanState |-> Read(st)]]
             after == CHOOSE g : Rounds(g)
  <1>1. n \in Nat
    BY DEF Text
  <1>2. Operations(format) = after[n].plan
    BY Zenon DEF Operations
  <1>3. base \in PlanState
    <2>1. <<>> \in Seq(Operated) /\ 1 \in Nat \ {0}
      OBVIOUS
    <2> QED
      BY <2>1 DEF PlanState
  <1>4. ASSUME NEW st \in PlanState
        PROVE  Read(st) \in PlanState
    <2>1. st.plan \in Seq(Operated) /\ st.next \in Nat \ {0}
      BY DEF PlanState
    <2>2. CASE st.next > n
      BY <2>2
    <2>3. CASE ~ (st.next > n)
      <3> DEFINE at == st.next
      <3>1. at \in 1 .. n
        <4>1. at \in Nat \ {0} /\ ~ (at > n)
          BY <2>1, <2>3
        <4> HIDE DEF at, n
        <4> QED
          BY <1>1, <4>1, SMT
      <3>2. Operation(format, at).op \in Operated /\ Operation(format, at).next \in Nat \ {0}
        BY <3>1, OperationIsTyped
      <3> DEFINE op == Operation(format, at).op
                 next == Operation(format, at).next
      <3>3. Append(st.plan, op) \in Seq(Operated)
        <4> HIDE DEF op
        <4>1. op \in Operated
          BY <3>2 DEF op
        <4> QED
          BY <2>1, <4>1
      <3>4. Read(st) = [plan |-> Append(st.plan, op), next |-> next]
        BY <2>3
      <3>5. next \in Nat \ {0}
        BY <3>2
      <3> HIDE DEF op, next, Read
      <3> QED
        BY <3>3, <3>4, <3>5 DEF PlanState
    <2> QED
      BY <2>2, <2>3
  <1>5. \A st : ReadNext(format, st) = Read(st)
    BY Zenon DEF ReadNext
  <1> HIDE DEF base, n
  <1>6. step \in [1 .. n -> [PlanState -> PlanState]]
    <2> HIDE DEF Read
    <2> QED
      BY <1>4
  <1>7. PICK f \in [0 .. n -> PlanState] :
            f[0] = base /\ \A i \in 1 .. n : f[i] = step[i][f[i - 1]]
    <2> HIDE DEF step
    <2>1. LoopRuns(PlanState, n, base, step)
      BY <1>1, <1>3, <1>6, LoopExists
    <2> QED
      BY <2>1, Zenon DEF LoopRuns
  <1> HIDE DEF Read
  <1>8. \A i \in 1 .. n : i \in 0 .. n /\ i # 0 /\ i - 1 \in 0 .. n
    BY <1>1, SMT
  <1>9. \A i \in 1 .. n : f[i] = Read(f[i - 1])
    BY <1>7, <1>8
  <1>10. Rounds(f)
    <2>1. \A k \in 0 .. n : k # 0 => k \in 1 .. n
      BY <1>1, SMT
    <2>2. \A k \in 0 .. n : f[k] = IF k = 0 THEN base ELSE Read(f[k - 1])
      BY <1>7, <1>9, <2>1
    <2>3. f = [k \in 0 .. n |-> f[k]]
      BY <1>7
    <2> QED
      BY <2>2, <2>3
  <1>11. Rounds(after)
    <2> HIDE DEF Rounds
    <2> QED
      BY <1>10, Zenon
  <1> HIDE DEF after
  <1>12. after[0] = base /\ \A i \in 1 .. n : after[i] = Read(after[i - 1])
    <2>1. \A k \in 0 .. n : after[k] = IF k = 0 THEN base ELSE Read(after[k - 1])
      BY <1>11, Zenon
    <2>2. 0 \in 0 .. n
      BY <1>1, SMT
    <2> QED
      BY <1>8, <2>1, <2>2
  <1>13. \A i \in 1 .. n : after[i - 1] \in PlanState => after[i] = step[i][after[i - 1]]
    BY <1>12
  <1> HIDE DEF step
  <1>14. after[0] = f[0]
    BY <1>7, <1>12
  <1>15. \A i \in 0 .. n : after[i] = f[i]
    <2>1. LoopsAlike(PlanState, n, step, f, after)
      BY <1>7, <1>13, <1>14 DEF LoopsAlike
    <2>2. SameUpTo(n, f, after)
      BY <1>1, <2>1, LoopIsUnique, Zenon
    <2> QED
      BY <2>2 DEF SameUpTo
  <1>16. n \in 0 .. n
    BY <1>1, SMT
  <1>17. Operations(format) = f[n].plan
    BY <1>2, <1>15, <1>16
  <1>18. \A i \in 1 .. n : f[i] = ReadNext(format, f[i - 1])
    BY <1>5, <1>9
  <1>19. Reading(format, f)
    BY <1>7, <1>17, <1>18 DEF Reading, base, n
  <1> QED
    BY <1>19

\* next is where the verb at i ends,
VerbAt(format, i, verb, next) ==
    /\ i \in Nat /\ i >= 1 /\ i < Len(format) /\ next = i + 2
    /\ format[i] = "%" /\ verb \in Verbs /\ format[i + 1] = verb

\* or where the text at i ends that is no verb.
TextAt(format, i, text, next) ==
    /\ i \in Nat /\ i >= 1 /\ next \in Nat /\ i < next /\ next <= Len(format)
    /\ format[next] = "%" /\ (\A k \in i .. next - 1 : format[k] # "%")
    /\ SubSeq(format, i, next - 1) = text

\* A round that has read op and goes on from next.
HasRead(st, op, next, after) ==
    /\ after.plan = Append(st.plan, op)
    /\ after.next = next

\* A round that reads a verb,
LEMMA VerbIsRead ==
    ASSUME NEW format \in Text, NEW st, NEW verb, NEW next, VerbAt(format, st.next, verb, next)
    PROVE  HasRead(st, Capture(verb), next, ReadNext(format, st))
  <1> DEFINE n == Len(format)
             i == st.next
             percents == { k \in i .. n : format[k] = "%" }
             percent == IF percents # {} THEN Min(percents) ELSE 0
             end == IF percent = 0 THEN n + 1 ELSE percent
             op == Capture(verb)
             plan == st.plan
             r == ReadNext(format, st)
  <1>1. /\ i \in Nat /\ i >= 1 /\ i < n /\ next = i + 2
        /\ format[i] = "%" /\ verb \in Verbs /\ format[i + 1] = verb
    BY Zenon DEF VerbAt
  <1>2. n \in Nat /\ ~ (i > n) /\ i # n
    BY <1>1 DEF Text
  <1>3. Operation(format, i)
          = IF format[i] # "%" THEN [op |-> Delimiter(SubSeq(format, i, end - 1)), next |-> end]
            ELSE IF i = n THEN [op |-> Wrong, next |-> n + 1]
            ELSE IF format[i + 1] = "%" THEN [op |-> Delimiter(<<"%">>), next |-> i + 2]
            ELSE IF format[i + 1] \in Verbs THEN [op |-> Capture(format[i + 1]), next |-> i + 2]
            ELSE [op |-> Wrong, next |-> n + 1]
    BY DEF Operation, SelectInSubSeq
  <1>4. verb # "%"
    BY <1>1 DEF Verbs
  <1>5. Operation(format, i) = [op |-> op, next |-> next]
    <2> HIDE DEF end, n
    <2> QED
      BY <1>1, <1>2, <1>3, <1>4
  <1> HIDE DEF op
  <1>6. Operation(format, i).op = op /\ Operation(format, i).next = next
    BY <1>5
  <1>7. r = [plan |-> Append(plan, op), next |-> next]
    BY <1>2, <1>6, Zenon DEF ReadNext
  <1> HIDE DEF r, i, plan
  <1>8. r.plan = Append(plan, op) /\ r.next = next
    BY <1>7
  <1> QED
    BY <1>8, Zenon DEF r, op, plan, HasRead

\* and one that reads a delimiter up to the next '%'.
LEMMA DelimiterIsRead ==
    ASSUME NEW format \in Text, NEW st, NEW text, NEW next, TextAt(format, st.next, text, next)
    PROVE  HasRead(st, Delimiter(text), next, ReadNext(format, st))
  <1> DEFINE n == Len(format)
             i == st.next
             percents == { k \in i .. n : format[k] = "%" }
             m == Min(percents)
             percent == IF percents # {} THEN m ELSE 0
             end == IF percent = 0 THEN n + 1 ELSE percent
             op == Delimiter(text)
             plan == st.plan
             r == ReadNext(format, st)
  <1>1. /\ i \in Nat /\ i >= 1 /\ next \in Nat /\ i < next /\ next <= n
        /\ format[next] = "%" /\ (\A k \in i .. next - 1 : format[k] # "%")
        /\ SubSeq(format, i, next - 1) = text
    BY Zenon DEF TextAt
  <1>2. n \in Nat /\ ~ (i > n) /\ i \in i .. next - 1
    BY <1>1 DEF Text
  <1>3. Operation(format, i)
          = IF format[i] # "%" THEN [op |-> Delimiter(SubSeq(format, i, end - 1)), next |-> end]
            ELSE IF i = n THEN [op |-> Wrong, next |-> n + 1]
            ELSE IF format[i + 1] = "%" THEN [op |-> Delimiter(<<"%">>), next |-> i + 2]
            ELSE IF format[i + 1] \in Verbs THEN [op |-> Capture(format[i + 1]), next |-> i + 2]
            ELSE [op |-> Wrong, next |-> n + 1]
    BY DEF Operation, SelectInSubSeq
  <1>4. next \in percents
    BY <1>1 DEF Text
  <1>5. percents \in SUBSET Nat
    <2> HIDE DEF n
    <2> QED
      BY <1>1, <1>2, SMT
  <1>6. m \in percents /\ m \in Nat /\ \A x \in percents : m <= x
    BY <1>4, <1>5, MinIsLeast
  <1>7. m \in i .. n /\ format[m] = "%" /\ m <= next /\ m \in Nat
    BY <1>4, <1>6
  <1>8. percent = m
    BY <1>4
  <1> HIDE DEF m, n, percents
  <1>9. m = next
    <2>1. m # next => m \in i .. next - 1
      BY <1>1, <1>2, <1>7, SMT
    <2> QED
      BY <1>1, <1>7, <2>1
  <1>10. end = next
    <2>1. next # 0
      BY <1>1
    <2> HIDE DEF percent
    <2> QED
      BY <1>8, <1>9, <2>1
  <1>11. Operation(format, i) = [op |-> op, next |-> next]
    <2>1. format[i] # "%"
      BY <1>1, <1>2
    <2> HIDE DEF end
    <2> QED
      BY <1>1, <1>3, <1>10, <2>1
  <1> HIDE DEF op
  <1>12. Operation(format, i).op = op /\ Operation(format, i).next = next
    BY <1>11
  <1>13. r = [plan |-> Append(plan, op), next |-> next]
    BY <1>2, <1>12, Zenon DEF ReadNext, n
  <1> HIDE DEF r, i, plan
  <1>14. r.plan = Append(plan, op) /\ r.next = next
    BY <1>13
  <1> QED
    BY <1>14, Zenon DEF r, op, plan, HasRead

\* A format that has been read has been read.
LEMMA ReadIsRead ==
    ASSUME NEW format \in Text, NEW g, Reading(format, g), NEW m \in 0 .. Len(format),
           g[m].next > Len(format)
    PROVE  Operations(format) = g[m].plan
  <1> DEFINE n == Len(format)
             last == g[m]
             P == { i \in 0 .. n : g[i] = last }
  <1>1. n \in Nat /\ m \in 0 .. n
    BY DEF Text
  <1>2. last.next > n
    OBVIOUS
  <1>3. \A k \in 1 .. n : g[k] = ReadNext(format, g[k - 1])
    BY DEF Reading
  <1> HIDE DEF last
  <1>4. ReadNext(format, last) = last
    BY <1>2, Zenon DEF ReadNext
  <1> HIDE DEF n
  <1>5. ASSUME NEW i \in m .. n - 1, i \in P
        PROVE  i + 1 \in P
    <2>1. i + 1 \in 1 .. n /\ (i + 1) - 1 = i /\ i + 1 \in 0 .. n
      BY <1>1, SMT
    <2>2. g[i] = last
      BY <1>5
    <2>3. g[i + 1] = ReadNext(format, g[i])
      BY <1>3, <2>1
    <2> QED
      BY <1>4, <2>1, <2>2, <2>3
  <1>6. m \in P
    BY <1>1 DEF last
  <1> HIDE DEF P
  <1>7. m \in Nat /\ n \in m .. n
    BY <1>1, SMT
  <1>8. n \in P
    BY <1>1, <1>5, <1>6, <1>7, HoldsUpTo
  <1>9. g[n] = last
    BY <1>8 DEF P
  <1> QED
    BY <1>9 DEF Reading, n, last

\* Three symbols of a text, and one.
LEMMA ShortCuts ==
    ASSUME NEW S, NEW s \in Seq(S), NEW m \in Nat, m >= 1
    PROVE  /\ m + 2 <= Len(s) =>
                /\ Len(SubSeq(s, m, m + 2)) = 3
                /\ SubSeq(s, m, m + 2) = << s[m], s[m + 1], s[m + 2] >>
           /\ m <= Len(s) => SubSeq(s, m, m) = << s[m] >>
  <1>1. ASSUME m + 2 <= Len(s)
        PROVE  SubSeq(s, m, m + 2) = << s[m], s[m + 1], s[m + 2] >>
    <2> DEFINE t == SubSeq(s, m, m + 2)
    <2>1. t = [i \in 1 .. 3 |-> s[m + i - 1]]
      BY <1>1
    <2>2. t = [i \in 1 .. 3 |-> t[i]] /\ t[1] = s[m] /\ t[2] = s[m + 1] /\ t[3] = s[m + 2]
      BY <2>1
    <2>3. ASSUME NEW u, u = [i \in 1 .. 3 |-> u[i]]
          PROVE  u = << u[1], u[2], u[3] >>
      BY <2>3
    <2> HIDE DEF t
    <2>4. t = << t[1], t[2], t[3] >>
      BY <2>2, <2>3
    <2> QED
      BY <2>2, <2>4 DEF t
  <1>2. ASSUME m <= Len(s)
        PROVE  SubSeq(s, m, m) = << s[m] >>
    <2> DEFINE t == SubSeq(s, m, m)
    <2>1. t = [i \in 1 .. 1 |-> s[m + i - 1]]
      BY <1>2
    <2> QED
      BY <2>1
  <1> QED
    BY <1>1, <1>2

\* A plan to which one operation has been appended
IsLonger(longer, plan, op, n) ==
    /\ Len(longer) = n + 1 /\ longer[n + 1] = op
    /\ \A i \in 1 .. n : longer[i] = plan[i]

\* is that plan and the operation.
LEMMA OneAppended ==
    ASSUME NEW plan \in Seq(Operated), NEW op, NEW n \in Nat, Len(plan) = n,
           NEW longer, longer = Append(plan, op)
    PROVE  IsLonger(longer, plan, op, n)
  <1>1. /\ Len(longer) = n + 1 /\ longer[n + 1] = op
        /\ \A i \in 1 .. n : longer[i] = plan[i]
    OBVIOUS
  <1> QED
    BY <1>1 DEF IsLonger

\* The operations of the one format,
HostPortPlan(plan) ==
    /\ Len(plan) = 5
    /\ plan[1] = Capture("t")
    /\ plan[2] = Delimiter(schemeSeparator)
    /\ plan[3] = Capture("h")
    /\ plan[4] = Delimiter(<<":">>)
    /\ plan[5] = Capture("d")

\* and of the other.
CredentialsPlan(plan) ==
    /\ Len(plan) = 9
    /\ plan[1] = Capture("t")
    /\ plan[2] = Delimiter(schemeSeparator)
    /\ plan[3] = Capture("u")
    /\ plan[4] = Delimiter(<<":">>)
    /\ plan[5] = Capture("p")
    /\ plan[6] = Delimiter(<<"@">>)
    /\ plan[7] = Capture("h")
    /\ plan[8] = Delimiter(<<":">>)
    /\ plan[9] = Capture("d")

\* The operations of the one format are read so,
LEMMA HostPortOperations ==
    ASSUME SchemeHostPort \in Text
    PROVE  HostPortPlan(Operations(SchemeHostPort))
  <1> DEFINE f == SchemeHostPort
  <1>1. /\ Len(f) = 10
        /\ f[1] = "%" /\ f[2] = "t" /\ f[3] = ":" /\ f[4] = "/" /\ f[5] = "/" /\ f[6] = "%"
        /\ f[7] = "h" /\ f[8] = ":" /\ f[9] = "%" /\ f[10] = "d"
    BY DEF SchemeHostPort
  <1>2. f \in Text
    OBVIOUS
  <1> HIDE DEF f
  <1>3. PICK g : Reading(f, g)
    BY <1>2, OperationsAreRead
  <1>4. /\ g[0] = [plan |-> <<>>, next |-> 1]
        /\ \A k \in 1 .. 10 : g[k] = ReadNext(f, g[k - 1])
        /\ \A k \in 0 .. 10 : g[k].plan \in Seq(Operated)
    BY <1>1, <1>3 DEF Reading, PlanState
  <1>5. g[0].next = 1 /\ Len(g[0].plan) = 0
    BY <1>4
  <1>6. /\ g[1].next = 3 /\ Len(g[1].plan) = 1
        /\ g[1].plan[1] = Capture("t")
    <2>1. VerbAt(f, 1, "t", 3)
      BY <1>1 DEF VerbAt, Verbs
    <2>2. HasRead(g[0], Capture("t"), 3, g[1])
      <3>1. 1 \in 1 .. 10 /\ 1 - 1 = 0
        OBVIOUS
      <3>2. g[1] = ReadNext(f, g[0])
        BY <1>4, <3>1
      <3> QED
        BY <1>2, <1>5, <2>1, <3>2, VerbIsRead, Zenon
    <2>3. g[0].plan \in Seq(Operated) /\ g[1].plan = Append(g[0].plan, Capture("t"))
      BY <1>4, <2>2 DEF HasRead
    <2>4. Len(g[0].plan) = 0 /\ 0 \in Nat
      BY <1>5
    <2>5. IsLonger(g[1].plan, g[0].plan, Capture("t"), 0)
      BY <2>3, <2>4, OneAppended, Zenon
    <2>6. /\ Len(g[1].plan) = 0 + 1 /\ g[1].plan[0 + 1] = Capture("t")
          /\ \A i \in 1 .. 0 : g[1].plan[i] = g[0].plan[i]
      BY <2>5 DEF IsLonger
    <2> QED
      BY <2>2, <2>6 DEF HasRead
  <1>7. /\ g[2].next = 6 /\ Len(g[2].plan) = 2
        /\ g[2].plan[2] = Delimiter(schemeSeparator)
        /\ \A i \in 1 .. 1 : g[2].plan[i] = g[1].plan[i]
    <2>0. SubSeq(f, 3, 6 - 1) = schemeSeparator
      BY <1>1, <1>2, ShortCuts DEF Text, schemeSeparator
    <2>1. TextAt(f, 3, schemeSeparator, 6)
      BY <1>1, <2>0 DEF TextAt
    <2>2. HasRead(g[1], Delimiter(schemeSeparator), 6, g[2])
      <3>1. 2 \in 1 .. 10 /\ 2 - 1 = 1
        OBVIOUS
      <3>2. g[2] = ReadNext(f, g[1])
        BY <1>4, <3>1
      <3> QED
        BY <1>2, <1>6, <2>1, <3>2, DelimiterIsRead, Zenon
    <2>3. g[1].plan \in Seq(Operated) /\ g[2].plan = Append(g[1].plan, Delimiter(schemeSeparator))
      BY <1>4, <2>2 DEF HasRead
    <2>4. Len(g[1].plan) = 1 /\ 1 \in Nat
      BY <1>6
    <2>5. IsLonger(g[2].plan, g[1].plan, Delimiter(schemeSeparator), 1)
      BY <2>3, <2>4, OneAppended, Zenon
    <2>6. /\ Len(g[2].plan) = 1 + 1 /\ g[2].plan[1 + 1] = Delimiter(schemeSeparator)
          /\ \A i \in 1 .. 1 : g[2].plan[i] = g[1].plan[i]
      BY <2>5 DEF IsLonger
    <2> QED
      BY <2>2, <2>6 DEF HasRead
  <1>8. /\ g[3].next = 8 /\ Len(g[3].plan) = 3
        /\ g[3].plan[3] = Capture("h")
        /\ \A i \in 1 .. 2 : g[3].plan[i] = g[2].plan[i]
    <2>1. VerbAt(f, 6, "h", 8)
      BY <1>1 DEF VerbAt, Verbs
    <2>2. HasRead(g[2], Capture("h"), 8, g[3])
      <3>1. 3 \in 1 .. 10 /\ 3 - 1 = 2
        OBVIOUS
      <3>2. g[3] = ReadNext(f, g[2])
        BY <1>4, <3>1
      <3> QED
        BY <1>2, <1>7, <2>1, <3>2, VerbIsRead, Zenon
    <2>3. g[2].plan \in Seq(Operated) /\ g[3].plan = Append(g[2].plan, Capture("h"))
      BY <1>4, <2>2 DEF HasRead
    <2>4. Len(g[2].plan) = 2 /\ 2 \in Nat
      BY <1>7
    <2>5. IsLonger(g[3].plan, g[2].plan, Capture("h"), 2)
      BY <2>3, <2>4, OneAppended, Zenon
    <2>6. /\ Len(g[3].plan) = 2 + 1 /\ g[3].plan[2 + 1] = Capture("h")
          /\ \A i \in 1 .. 2 : g[3].plan[i] = g[2].plan[i]
      BY <2>5 DEF IsLonger
    <2> QED
      BY <2>2, <2>6 DEF HasRead
  <1>9. /\ g[4].next = 9 /\ Len(g[4].plan) = 4
        /\ g[4].plan[4] = Delimiter(<<":">>)
        /\ \A i \in 1 .. 3 : g[4].plan[i] = g[3].plan[i]
    <2>0. SubSeq(f, 8, 9 - 1) = <<":">>
      BY <1>1, <1>2, ShortCuts DEF Text
    <2>1. TextAt(f, 8, <<":">>, 9)
      BY <1>1, <2>0 DEF TextAt
    <2>2. HasRead(g[3], Delimiter(<<":">>), 9, g[4])
      <3>1. 4 \in 1 .. 10 /\ 4 - 1 = 3
        OBVIOUS
      <3>2. g[4] = ReadNext(f, g[3])
        BY <1>4, <3>1
      <3> QED
        BY <1>2, <1>8, <2>1, <3>2, DelimiterIsRead, Zenon
    <2>3. g[3].plan \in Seq(Operated) /\ g[4].plan = Append(g[3].plan, Delimiter(<<":">>))
      BY <1>4, <2>2 DEF HasRead
    <2>4. Len(g[3].plan) = 3 /\ 3 \in Nat
      BY <1>8
    <2>5. IsLonger(g[4].plan, g[3].plan, Delimiter(<<":">>), 3)
      BY <2>3, <2>4, OneAppended, Zenon
    <2>6. /\ Len(g[4].plan) = 3 + 1 /\ g[4].plan[3 + 1] = Delimiter(<<":">>)
          /\ \A i \in 1 .. 3 : g[4].plan[i] = g[3].plan[i]
      BY <2>5 DEF IsLonger
    <2> QED
      BY <2>2, <2>6 DEF HasRead
  <1>10. /\ g[5].next = 11 /\ Len(g[5].plan) = 5
        /\ g[5].plan[5] = Capture("d")
        /\ \A i \in 1 .. 4 : g[5].plan[i] = g[4].plan[i]
    <2>1. VerbAt(f, 9, "d", 11)
      BY <1>1 DEF VerbAt, Verbs
    <2>2. HasRead(g[4], Capture("d"), 11, g[5])
      <3>1. 5 \in 1 .. 10 /\ 5 - 1 = 4
        OBVIOUS
      <3>2. g[5] = ReadNext(f, g[4])
        BY <1>4, <3>1
      <3> QED
        BY <1>2, <1>9, <2>1, <3>2, VerbIsRead, Zenon
    <2>3. g[4].plan \in Seq(Operated) /\ g[5].plan = Append(g[4].plan, Capture("d"))
      BY <1>4, <2>2 DEF HasRead
    <2>4. Len(g[4].plan) = 4 /\ 4 \in Nat
      BY <1>9
    <2>5. IsLonger(g[5].plan, g[4].plan, Capture("d"), 4)
      BY <2>3, <2>4, OneAppended, Zenon
    <2>6. /\ Len(g[5].plan) = 4 + 1 /\ g[5].plan[4 + 1] = Capture("d")
          /\ \A i \in 1 .. 4 : g[5].plan[i] = g[4].plan[i]
      BY <2>5 DEF IsLonger
    <2> QED
      BY <2>2, <2>6 DEF HasRead
  <1>11. Operations(f) = g[5].plan
    <2>1. 5 \in 0 .. Len(f) /\ g[5].next > Len(f)
      BY <1>1, <1>10
    <2> QED
      BY <1>2, <1>3, <2>1, ReadIsRead, Zenon
  <1> QED
    BY <1>6, <1>7, <1>8, <1>9, <1>10, <1>11 DEF f, HostPortPlan

\* and those of the other.
LEMMA CredentialsOperations ==
    ASSUME FullCredentials \in Text
    PROVE  CredentialsPlan(Operations(FullCredentials))
  <1> DEFINE f == FullCredentials
  <1>1. /\ Len(f) = 16
        /\ f[1] = "%" /\ f[2] = "t" /\ f[3] = ":" /\ f[4] = "/" /\ f[5] = "/" /\ f[6] = "%"
        /\ f[7] = "u" /\ f[8] = ":" /\ f[9] = "%" /\ f[10] = "p" /\ f[11] = "@" /\ f[12] = "%"
        /\ f[13] = "h" /\ f[14] = ":" /\ f[15] = "%" /\ f[16] = "d"
    BY DEF FullCredentials
  <1>2. f \in Text
    OBVIOUS
  <1> HIDE DEF f
  <1>3. PICK g : Reading(f, g)
    BY <1>2, OperationsAreRead
  <1>4. /\ g[0] = [plan |-> <<>>, next |-> 1]
        /\ \A k \in 1 .. 16 : g[k] = ReadNext(f, g[k - 1])
        /\ \A k \in 0 .. 16 : g[k].plan \in Seq(Operated)
    BY <1>1, <1>3 DEF Reading, PlanState
  <1>5. g[0].next = 1 /\ Len(g[0].plan) = 0
    BY <1>4
  <1>6. /\ g[1].next = 3 /\ Len(g[1].plan) = 1
        /\ g[1].plan[1] = Capture("t")
    <2>1. VerbAt(f, 1, "t", 3)
      BY <1>1 DEF VerbAt, Verbs
    <2>2. HasRead(g[0], Capture("t"), 3, g[1])
      <3>1. 1 \in 1 .. 16 /\ 1 - 1 = 0
        OBVIOUS
      <3>2. g[1] = ReadNext(f, g[0])
        BY <1>4, <3>1
      <3> QED
        BY <1>2, <1>5, <2>1, <3>2, VerbIsRead, Zenon
    <2>3. g[0].plan \in Seq(Operated) /\ g[1].plan = Append(g[0].plan, Capture("t"))
      BY <1>4, <2>2 DEF HasRead
    <2>4. Len(g[0].plan) = 0 /\ 0 \in Nat
      BY <1>5
    <2>5. IsLonger(g[1].plan, g[0].plan, Capture("t"), 0)
      BY <2>3, <2>4, OneAppended, Zenon
    <2>6. /\ Len(g[1].plan) = 0 + 1 /\ g[1].plan[0 + 1] = Capture("t")
          /\ \A i \in 1 .. 0 : g[1].plan[i] = g[0].plan[i]
      BY <2>5 DEF IsLonger
    <2> QED
      BY <2>2, <2>6 DEF HasRead
  <1>7. /\ g[2].next = 6 /\ Len(g[2].plan) = 2
        /\ g[2].plan[2] = Delimiter(schemeSeparator)
        /\ \A i \in 1 .. 1 : g[2].plan[i] = g[1].plan[i]
    <2>0. SubSeq(f, 3, 6 - 1) = schemeSeparator
      BY <1>1, <1>2, ShortCuts DEF Text, schemeSeparator
    <2>1. TextAt(f, 3, schemeSeparator, 6)
      BY <1>1, <2>0 DEF TextAt
    <2>2. HasRead(g[1], Delimiter(schemeSeparator), 6, g[2])
      <3>1. 2 \in 1 .. 16 /\ 2 - 1 = 1
        OBVIOUS
      <3>2. g[2] = ReadNext(f, g[1])
        BY <1>4, <3>1
      <3> QED
        BY <1>2, <1>6, <2>1, <3>2, DelimiterIsRead, Zenon
    <2>3. g[1].plan \in Seq(Operated) /\ g[2].plan = Append(g[1].plan, Delimiter(schemeSeparator))
      BY <1>4, <2>2 DEF HasRead
    <2>4. Len(g[1].plan) = 1 /\ 1 \in Nat
      BY <1>6
    <2>5. IsLonger(g[2].plan, g[1].plan, Delimiter(schemeSeparator), 1)
      BY <2>3, <2>4, OneAppended, Zenon
    <2>6. /\ Len(g[2].plan) = 1 + 1 /\ g[2].plan[1 + 1] = Delimiter(schemeSeparator)
          /\ \A i \in 1 .. 1 : g[2].plan[i] = g[1].plan[i]
      BY <2>5 DEF IsLonger
    <2> QED
      BY <2>2, <2>6 DEF HasRead
  <1>8. /\ g[3].next = 8 /\ Len(g[3].plan) = 3
        /\ g[3].plan[3] = Capture("u")
        /\ \A i \in 1 .. 2 : g[3].plan[i] = g[2].plan[i]
    <2>1. VerbAt(f, 6, "u", 8)
      BY <1>1 DEF VerbAt, Verbs
    <2>2. HasRead(g[2], Capture("u"), 8, g[3])
      <3>1. 3 \in 1 .. 16 /\ 3 - 1 = 2
        OBVIOUS
      <3>2. g[3] = ReadNext(f, g[2])
        BY <1>4, <3>1
      <3> QED
        BY <1>2, <1>7, <2>1, <3>2, VerbIsRead, Zenon
    <2>3. g[2].plan \in Seq(Operated) /\ g[3].plan = Append(g[2].plan, Capture("u"))
      BY <1>4, <2>2 DEF HasRead
    <2>4. Len(g[2].plan) = 2 /\ 2 \in Nat
      BY <1>7
    <2>5. IsLonger(g[3].plan, g[2].plan, Capture("u"), 2)
      BY <2>3, <2>4, OneAppended, Zenon
    <2>6. /\ Len(g[3].plan) = 2 + 1 /\ g[3].plan[2 + 1] = Capture("u")
          /\ \A i \in 1 .. 2 : g[3].plan[i] = g[2].plan[i]
      BY <2>5 DEF IsLonger
    <2> QED
      BY <2>2, <2>6 DEF HasRead
  <1>9. /\ g[4].next = 9 /\ Len(g[4].plan) = 4
        /\ g[4].plan[4] = Delimiter(<<":">>)
        /\ \A i \in 1 .. 3 : g[4].plan[i] = g[3].plan[i]
    <2>0. SubSeq(f, 8, 9 - 1) = <<":">>
      BY <1>1, <1>2, ShortCuts DEF Text
    <2>1. TextAt(f, 8, <<":">>, 9)
      BY <1>1, <2>0 DEF TextAt
    <2>2. HasRead(g[3], Delimiter(<<":">>), 9, g[4])
      <3>1. 4 \in 1 .. 16 /\ 4 - 1 = 3
        OBVIOUS
      <3>2. g[4] = ReadNext(f, g[3])
        BY <1>4, <3>1
      <3> QED
        BY <1>2, <1>8, <2>1, <3>2, DelimiterIsRead, Zenon
    <2>3. g[3].plan \in Seq(Operated) /\ g[4].plan = Append(g[3].plan, Delimiter(<<":">>))
      BY <1>4, <2>2 DEF HasRead
    <2>4. Len(g[3].plan) = 3 /\ 3 \in Nat
      BY <1>8
    <2>5. IsLonger(g[4].plan, g[3].plan, Delimiter(<<":">>), 3)
      BY <2>3, <2>4, OneAppended, Zenon
    <2>6. /\ Len(g[4].plan) = 3 + 1 /\ g[4].plan[3 + 1] = Delimiter(<<":">>)
          /\ \A i \in 1 .. 3 : g[4].plan[i] = g[3].plan[i]
      BY <2>5 DEF IsLonger
    <2> QED
      BY <2>2, <2>6 DEF HasRead
  <1>10. /\ g[5].next = 11 /\ Len(g[5].plan) = 5
        /\ g[5].plan[5] = Capture("p")
        /\ \A i \in 1 .. 4 : g[5].plan[i] = g[4].plan[i]
    <2>1. VerbAt(f, 9, "p", 11)
      BY <1>1 DEF VerbAt, Verbs
    <2>2. HasRead(g[4], Capture("p"), 11, g[5])
      <3>1. 5 \in 1 .. 16 /\ 5 - 1 = 4
        OBVIOUS
      <3>2. g[5] = ReadNext(f, g[4])
        BY <1>4, <3>1
      <3> QED
        BY <1>2, <1>9, <2>1, <3>2, VerbIsRead, Zenon
    <2>3. g[4].plan \in Seq(Operated) /\ g[5].plan = Append(g[4].plan, Capture("p"))
      BY <1>4, <2>2 DEF HasRead
    <2>4. Len(g[4].plan) = 4 /\ 4 \in Nat
      BY <1>9
    <2>5. IsLonger(g[5].plan, g[4].plan, Capture("p"), 4)
      BY <2>3, <2>4, OneAppended, Zenon
    <2>6. /\ Len(g[5].plan) = 4 + 1 /\ g[5].plan[4 + 1] = Capture("p")
          /\ \A i \in 1 .. 4 : g[5].plan[i] = g[4].plan[i]
      BY <2>5 DEF IsLonger
    <2> QED
      BY <2>2, <2>6 DEF HasRead
  <1>11. /\ g[6].next = 12 /\ Len(g[6].plan) = 6
        /\ g[6].plan[6] = Delimiter(<<"@">>)
        /\ \A i \in 1 .. 5 : g[6].plan[i] = g[5].plan[i]
    <2>0. SubSeq(f, 11, 12 - 1) = <<"@">>
      BY <1>1, <1>2, ShortCuts DEF Text
    <2>1. TextAt(f, 11, <<"@">>, 12)
      BY <1>1, <2>0 DEF TextAt
    <2>2. HasRead(g[5], Delimiter(<<"@">>), 12, g[6])
      <3>1. 6 \in 1 .. 16 /\ 6 - 1 = 5
        OBVIOUS
      <3>2. g[6] = ReadNext(f, g[5])
        BY <1>4, <3>1
      <3> QED
        BY <1>2, <1>10, <2>1, <3>2, DelimiterIsRead, Zenon
    <2>3. g[5].plan \in Seq(Operated) /\ g[6].plan = Append(g[5].plan, Delimiter(<<"@">>))
      BY <1>4, <2>2 DEF HasRead
    <2>4. Len(g[5].plan) = 5 /\ 5 \in Nat
      BY <1>10
    <2>5. IsLonger(g[6].plan, g[5].plan, Delimiter(<<"@">>), 5)
      BY <2>3, <2>4, OneAppended, Zenon
    <2>6. /\ Len(g[6].plan) = 5 + 1 /\ g[6].plan[5 + 1] = Delimiter(<<"@">>)
          /\ \A i \in 1 .. 5 : g[6].plan[i] = g[5].plan[i]
      BY <2>5 DEF IsLonger
    <2> QED
      BY <2>2, <2>6 DEF HasRead
  <1>12. /\ g[7].next = 14 /\ Len(g[7].plan) = 7
        /\ g[7].plan[7] = Capture("h")
        /\ \A i \in 1 .. 6 : g[7].plan[i] = g[6].plan[i]
    <2>1. VerbAt(f, 12, "h", 14)
      BY <1>1 DEF VerbAt, Verbs
    <2>2. HasRead(g[6], Capture("h"), 14, g[7])
      <3>1. 7 \in 1 .. 16 /\ 7 - 1 = 6
        OBVIOUS
      <3>2. g[7] = ReadNext(f, g[6])
        BY <1>4, <3>1
      <3> QED
        BY <1>2, <1>11, <2>1, <3>2, VerbIsRead, Zenon
    <2>3. g[6].plan \in Seq(Operated) /\ g[7].plan = Append(g[6].plan, Capture("h"))
      BY <1>4, <2>2 DEF HasRead
    <2>4. Len(g[6].plan) = 6 /\ 6 \in Nat
      BY <1>11
    <2>5. IsLonger(g[7].plan, g[6].plan, Capture("h"), 6)
      BY <2>3, <2>4, OneAppended, Zenon
    <2>6. /\ Len(g[7].plan) = 6 + 1 /\ g[7].plan[6 + 1] = Capture("h")
          /\ \A i \in 1 .. 6 : g[7].plan[i] = g[6].plan[i]
      BY <2>5 DEF IsLonger
    <2> QED
      BY <2>2, <2>6 DEF HasRead
  <1>13. /\ g[8].next = 15 /\ Len(g[8].plan) = 8
        /\ g[8].plan[8] = Delimiter(<<":">>)
        /\ \A i \in 1 .. 7 : g[8].plan[i] = g[7].plan[i]
    <2>0. SubSeq(f, 14, 15 - 1) = <<":">>
      BY <1>1, <1>2, ShortCuts DEF Text
    <2>1. TextAt(f, 14, <<":">>, 15)
      BY <1>1, <2>0 DEF TextAt
    <2>2. HasRead(g[7], Delimiter(<<":">>), 15, g[8])
      <3>1. 8 \in 1 .. 16 /\ 8 - 1 = 7
        OBVIOUS
      <3>2. g[8] = ReadNext(f, g[7])
        BY <1>4, <3>1
      <3> QED
        BY <1>2, <1>12, <2>1, <3>2, DelimiterIsRead, Zenon
    <2>3. g[7].plan \in Seq(Operated) /\ g[8].plan = Append(g[7].plan, Delimiter(<<":">>))
      BY <1>4, <2>2 DEF HasRead
    <2>4. Len(g[7].plan) = 7 /\ 7 \in Nat
      BY <1>12
    <2>5. IsLonger(g[8].plan, g[7].plan, Delimiter(<<":">>), 7)
      BY <2>3, <2>4, OneAppended, Zenon
    <2>6. /\ Len(g[8].plan) = 7 + 1 /\ g[8].plan[7 + 1] = Delimiter(<<":">>)
          /\ \A i \in 1 .. 7 : g[8].plan[i] = g[7].plan[i]
      BY <2>5 DEF IsLonger
    <2> QED
      BY <2>2, <2>6 DEF HasRead
  <1>14. /\ g[9].next = 17 /\ Len(g[9].plan) = 9
        /\ g[9].plan[9] = Capture("d")
        /\ \A i \in 1 .. 8 : g[9].plan[i] = g[8].plan[i]
    <2>1. VerbAt(f, 15, "d", 17)
      BY <1>1 DEF VerbAt, Verbs
    <2>2. HasRead(g[8], Capture("d"), 17, g[9])
      <3>1. 9 \in 1 .. 16 /\ 9 - 1 = 8
        OBVIOUS
      <3>2. g[9] = ReadNext(f, g[8])
        BY <1>4, <3>1
      <3> QED
        BY <1>2, <1>13, <2>1, <3>2, VerbIsRead, Zenon
    <2>3. g[8].plan \in Seq(Operated) /\ g[9].plan = Append(g[8].plan, Capture("d"))
      BY <1>4, <2>2 DEF HasRead
    <2>4. Len(g[8].plan) = 8 /\ 8 \in Nat
      BY <1>13
    <2>5. IsLonger(g[9].plan, g[8].plan, Capture("d"), 8)
      BY <2>3, <2>4, OneAppended, Zenon
    <2>6. /\ Len(g[9].plan) = 8 + 1 /\ g[9].plan[8 + 1] = Capture("d")
          /\ \A i \in 1 .. 8 : g[9].plan[i] = g[8].plan[i]
      BY <2>5 DEF IsLonger
    <2> QED
      BY <2>2, <2>6 DEF HasRead
  <1>15. Operations(f) = g[9].plan
    <2>1. 9 \in 0 .. Len(f) /\ g[9].next > Len(f)
      BY <1>1, <1>14
    <2> QED
      BY <1>2, <1>3, <2>1, ReadIsRead, Zenon
  <1> QED
    BY <1>6, <1>7, <1>8, <1>9, <1>10, <1>11, <1>12, <1>13, <1>14, <1>15 DEF f, CredentialsPlan

\* A capture that takes its delimiter with it,
Takes(op, field, delim) == op.field = field /\ op.delim = delim /\ op.consume = TRUE

\* as one does whose delimiter comes next;
LEMMA NextIsTaken ==
    ASSUME NEW plan, NEW linked, IsLinked(linked), KeepsOperations(linked, plan),
           Len(plan) \in Nat, NEW k \in 1 .. Len(plan) - 1, plan[k].field # "none", plan[k + 1].field = "none"
    PROVE  Takes(linked[k], plan[k].field, plan[k + 1].delim)
  <1> DEFINE n == Len(plan)
             j == k + 1
  <1>1. n \in Nat /\ k \in 1 .. n /\ j \in 1 .. n /\ j \in k .. n /\ k \in Nat /\ j = k + 1
    BY SMT
  <1>2. /\ Len(linked) = n /\ linked[k].field = plan[k].field /\ linked[j] = plan[j]
    BY <1>1 DEF KeepsOperations
  <1> HIDE DEF n
  <1>3. \/ \E m \in k + 1 .. n :
             /\ linked[m].field = "none" /\ \A i \in k .. m - 1 : linked[i].field # "none"
             /\ linked[k].delim = linked[m].delim /\ linked[k].consume = (m = k + 1)
        \/ \A i \in k .. n : linked[i].field # "none"
    <2>1. Len(linked) = n /\ k \in 1 .. Len(linked) /\ linked[k].field # "none"
      BY <1>1, <1>2
    <2> QED
      BY <2>1 DEF IsLinked
  <1> HIDE DEF j
  <1>4. PICK m \in k + 1 .. n :
             /\ linked[m].field = "none" /\ \A i \in k .. m - 1 : linked[i].field # "none"
             /\ linked[k].delim = linked[m].delim /\ linked[k].consume = (m = k + 1)
    BY <1>1, <1>2, <1>3
  <1>5. m = j
    <2>1. m # j => j \in k .. m - 1
      BY <1>1, <1>4, SMT
    <2> QED
      BY <1>1, <1>2, <1>4, <2>1
  <1> QED
    BY <1>1, <1>2, <1>4, <1>5 DEF Takes

\* and one that takes the rest of the input,
IsLast(op, field) == op.field = field /\ op.delim = <<>> /\ op.consume = FALSE

\* as the last operation does.
LEMMA LastTakesRest ==
    ASSUME NEW plan, NEW linked, IsLinked(linked), KeepsOperations(linked, plan),
           Len(plan) \in Nat, NEW k \in 1 .. Len(plan), k = Len(plan), plan[k].field # "none"
    PROVE  IsLast(linked[k], plan[k].field)
  <1> DEFINE n == Len(plan)
  <1>2. /\ Len(linked) = n /\ linked[k].field = plan[k].field
    BY DEF KeepsOperations
  <1>3. \/ \E m \in k + 1 .. n : TRUE
        \/ linked[k].delim = <<>> /\ linked[k].consume = FALSE
    BY <1>2 DEF IsLinked
  <1> QED
    BY <1>2, <1>3 DEF IsLast

\* The two plans as New links them.
HostPortLinks(plan) ==
    /\ Len(plan) = 5
    /\ Takes(plan[1], "t", schemeSeparator)
    /\ Takes(plan[3], "h", <<":">>)
    /\ IsLast(plan[5], "d")

\* The other one captures the credentials, too.
CredentialsLinks(plan) ==
    /\ Len(plan) = 9
    /\ Takes(plan[1], "t", schemeSeparator)
    /\ Takes(plan[3], "u", <<":">>)
    /\ Takes(plan[5], "p", <<"@">>)
    /\ Takes(plan[7], "h", <<":">>)
    /\ IsLast(plan[9], "d")

\* The one is linked so,
LEMMA HostPortIsLinked ==
    ASSUME SchemeHostPort \in Text
    PROVE  HostPortLinks(Linked(Operations(SchemeHostPort))) /\ IsLinked(Linked(Operations(SchemeHostPort)))
  <1> DEFINE plan == Operations(SchemeHostPort)
             linked == Linked(plan)
  <1>1. HostPortPlan(plan)
    BY HostPortOperations, Zenon
  <1>2. plan \in Seq(Operated)
    BY PlansAreTyped
  <1> HIDE DEF plan
  <1>3. IsLinked(linked) /\ KeepsOperations(linked, plan)
    BY <1>2, LinkedIsLinked, Zenon
  <1> HIDE DEF linked
  <1>4. /\ Len(plan) \in Nat /\ Len(plan) = 5
        /\ 1 \in 1 .. Len(plan) - 1 /\ plan[1].field = "t" /\ plan[1 + 1].field = "none"
        /\ plan[1 + 1].delim = schemeSeparator
        /\ 3 \in 1 .. Len(plan) - 1 /\ plan[3].field = "h" /\ plan[3 + 1].field = "none"
        /\ plan[3 + 1].delim = <<":">>
        /\ 5 \in 1 .. Len(plan) /\ plan[5].field = "d"
    BY <1>1 DEF HostPortPlan, Capture, Delimiter
  <1>5. Takes(linked[1], "t", schemeSeparator)
    <2>1. plan[1].field # "none"
      BY <1>4
    <2>2. Takes(linked[1], plan[1].field, plan[1 + 1].delim)
      BY <1>3, <1>4, <2>1, NextIsTaken, Zenon
    <2> QED
      BY <1>4, <2>2, Zenon
  <1>6. Takes(linked[3], "h", <<":">>)
    <2>1. plan[3].field # "none"
      BY <1>4
    <2>2. Takes(linked[3], plan[3].field, plan[3 + 1].delim)
      BY <1>3, <1>4, <2>1, NextIsTaken, Zenon
    <2> QED
      BY <1>4, <2>2, Zenon
  <1>7. IsLast(linked[5], "d")
    <2>1. plan[5].field # "none" /\ 5 = Len(plan)
      BY <1>4
    <2>2. IsLast(linked[5], plan[5].field)
      BY <1>3, <1>4, <2>1, LastTakesRest, Zenon
    <2> QED
      BY <1>4, <2>2, Zenon
  <1>8. Len(linked) = 5
    BY <1>3, <1>4, Zenon DEF KeepsOperations
  <1> QED
    BY <1>3, <1>5, <1>6, <1>7, <1>8, Zenon DEF plan, linked, HostPortLinks

\* and the other.
LEMMA CredentialsAreLinked ==
    ASSUME FullCredentials \in Text
    PROVE  CredentialsLinks(Linked(Operations(FullCredentials))) /\ IsLinked(Linked(Operations(FullCredentials)))
  <1> DEFINE plan == Operations(FullCredentials)
             linked == Linked(plan)
  <1>1. CredentialsPlan(plan)
    BY CredentialsOperations, Zenon
  <1>2. plan \in Seq(Operated)
    BY PlansAreTyped
  <1> HIDE DEF plan
  <1>3. IsLinked(linked) /\ KeepsOperations(linked, plan)
    BY <1>2, LinkedIsLinked, Zenon
  <1> HIDE DEF linked
  <1>4. /\ Len(plan) \in Nat /\ Len(plan) = 9
        /\ 1 \in 1 .. Len(plan) - 1 /\ plan[1].field = "t" /\ plan[1 + 1].field = "none"
        /\ plan[1 + 1].delim = schemeSeparator
        /\ 3 \in 1 .. Len(plan) - 1 /\ plan[3].field = "u" /\ plan[3 + 1].field = "none"
        /\ plan[3 + 1].delim = <<":">>
        /\ 5 \in 1 .. Len(plan) - 1 /\ plan[5].field = "p" /\ plan[5 + 1].field = "none"
        /\ plan[5 + 1].delim = <<"@">>
        /\ 7 \in 1 .. Len(plan) - 1 /\ plan[7].field = "h" /\ plan[7 + 1].field = "none"
        /\ plan[7 + 1].delim = <<":">>
        /\ 9 \in 1 .. Len(plan) /\ plan[9].field = "d"
    BY <1>1 DEF CredentialsPlan, Capture, Delimiter
  <1>5. Takes(linked[1], "t", schemeSeparator)
    <2>1. plan[1].field # "none"
      BY <1>4
    <2>2. Takes(linked[1], plan[1].field, plan[1 + 1].delim)
      BY <1>3, <1>4, <2>1, NextIsTaken, Zenon
    <2> QED
      BY <1>4, <2>2, Zenon
  <1>6. Takes(linked[3], "u", <<":">>)
    <2>1. plan[3].field # "none"
      BY <1>4
    <2>2. Takes(linked[3], plan[3].field, plan[3 + 1].delim)
      BY <1>3, <1>4, <2>1, NextIsTaken, Zenon
    <2> QED
      BY <1>4, <2>2, Zenon
  <1>7. Takes(linked[5], "p", <<"@">>)
    <2>1. plan[5].field # "none"
      BY <1>4
    <2>2. Takes(linked[5], plan[5].field, plan[5 + 1].delim)
      BY <1>3, <1>4, <2>1, NextIsTaken, Zenon
    <2> QED
      BY <1>4, <2>2, Zenon
  <1>8. Takes(linked[7], "h", <<":">>)
    <2>1. plan[7].field # "none"
      BY <1>4
    <2>2. Takes(linked[7], plan[7].field, plan[7 + 1].delim)
      BY <1>3, <1>4, <2>1, NextIsTaken, Zenon
    <2> QED
      BY <1>4, <2>2, Zenon
  <1>9. IsLast(linked[9], "d")
    <2>1. plan[9].field # "none" /\ 9 = Len(plan)
      BY <1>4
    <2>2. IsLast(linked[9], plan[9].field)
      BY <1>3, <1>4, <2>1, LastTakesRest, Zenon
    <2> QED
      BY <1>4, <2>2, Zenon
  <1>10. Len(linked) = 9
    BY <1>3, <1>4, Zenon DEF KeepsOperations
  <1> QED
    BY <1>3, <1>5, <1>6, <1>7, <1>8, <1>9, <1>10, Zenon DEF plan, linked, CredentialsLinks

\* The first place of a symbol is where Find finds it.
LEMMA SymbolIsFound ==
    ASSUME NEW s \in Text, NEW c, NEW from \in Nat, NEW at \in Nat, from <= at, at < Len(s),
           s[at + 1] = c, \A i \in from + 1 .. at : s[i] # c
    PROVE  Find(s, <<c>>, from) = at
  <1> DEFINE text == <<c>>
             n == Len(s)
             found == { i \in from .. n - Len(text) : Slice(s, i, i + Len(text)) = text }
  <1>1. Find(s, text, from) = IF found = {} THEN Absent ELSE Min(found)
    BY DEF Find
  <1>2. Len(text) = 1 /\ n \in Nat /\ text[1] = c
    BY DEF Text
  <1>3. \A i \in from .. n - 1 : i \in Nat /\ i + 1 \in 1 .. n /\ i + 1 \in from + 1 .. n
    BY <1>2, SMT
  <1>4. at \in from .. n - 1
    BY <1>2
  <1>5. \A i \in from .. n - 1 : Slice(s, i, i + 1) = <<s[i + 1]>>
    <2> TAKE i \in from .. n - 1
    <2>1. /\ i \in Nat /\ i + 1 \in Nat /\ i + 1 >= 1 /\ i + 1 <= n
      <3> HIDE DEF n
      <3> QED
        BY <1>2, <1>3
    <2>2. SubSeq(s, i + 1, i + 1) = <<s[i + 1]>>
      BY <2>1, ShortCuts DEF Text
    <2> QED
      BY <2>2 DEF Slice
  <1> HIDE DEF text
  <1>6. at \in found
    <2>1. Slice(s, at, at + 1) = text
      BY <1>4, <1>5 DEF text
    <2> QED
      BY <1>2, <1>4, <2>1
  <1>7. \A i \in found : i \in from .. n - 1 /\ s[i + 1] = c
    <2> TAKE i \in found
    <2>1. i \in from .. n - 1 /\ Slice(s, i, i + 1) = text
      BY <1>2
    <2>2. <<s[i + 1]>> = text
      BY <1>5, <2>1
    <2>3. s[i + 1] = text[1]
      BY <2>2
    <2> QED
      BY <1>2, <2>1, <2>3
  <1> HIDE DEF found, n
  <1> DEFINE m == Min(found)
  <1>8. found \in SUBSET Nat
    BY <1>3, <1>7
  <1>9. m \in found /\ m <= at /\ m \in Nat
    BY <1>6, <1>8, MinIsLeast
  <1>10. m \in from .. n - 1 /\ s[m + 1] = c
    BY <1>7, <1>9
  <1> HIDE DEF m
  <1>11. m # at => m + 1 \in from + 1 .. at
    BY <1>4, <1>9, <1>10, SMT
  <1>12. m = at
    BY <1>10, <1>11
  <1> QED
    BY <1>1, <1>6, <1>12 DEF m, text

\* The colon between the host and the port that the rest of the input is.
SplitsAt(input, op, at, c) ==
    /\ c \in Nat /\ at < c /\ c + 1 < Len(input) /\ input[c + 1] = ":"
    /\ FieldEnd(input, op, at) = c

\* A strict plan finds it behind any bracket.
LEMMA PortIsFound ==
    ASSUME NEW input \in Text, NEW at \in Nat, at <= Len(input),
           validateHostnamePort(Rest(input, at)) = "ok", NEW op, Takes(op, "h", <<":">>)
    PROVE  \E c : SplitsAt(input, op, at, c)
  <1> DEFINE s == Rest(input, at)
             n == Len(s)
             N == Len(input)
             pair == SplitHostnamePort(s)
  <1>1. s \in Text /\ n = N - at /\ (\A i \in 1 .. n : s[i] = input[at + i]) /\ N \in Nat
    <2>1. s = Slice(input, at, N) /\ N \in Nat
      BY RestIsSlice
    <2>2. N <= N
      BY <2>1
    <2> HIDE DEF s
    <2> QED
      BY <2>1, <2>2, SliceIsText
  <1>2. s # <<>> /\ pair.ok /\ isValidPort(pair.port) /\ pair.host # <<>>
    <2>1. "ok" # "ErrInvalidPort" /\ "ok" # "ErrInvalidHost"
      OBVIOUS
    <2> QED
      BY <2>1, Zenon DEF validateHostnamePort
  <1>3. pair.port # <<>>
    BY <1>2, Zenon DEF isValidPort
  <1>4. op.field = "h" /\ op.delim = <<":">> /\ <<":">> # <<>>
    BY DEF Takes
  <1> DEFINE bracketed == at < N /\ input[at + 1] = "["
             close == IndexByte(input, "]", at)
             from == IF bracketed /\ close # Absent THEN close + 1 ELSE at
  <1>5. FieldEnd(input, op, at) = Find(input, <<":">>, from)
    BY <1>4, Zenon DEF FieldEnd
  <1> HIDE DEF s, n
  <1>6. n \in Nat /\ n >= 1 /\ at < N /\ s[1] = input[at + 1] /\ Len(s) = n
    <2>1. n # 0
      BY <1>1, <1>2 DEF n, Text
    <2>2. n \in Nat /\ Len(s) = n
      BY <1>1 DEF n, Text
    <2> QED
      BY <1>1, <2>1, <2>2
  <1>7. CASE s[1] # "["
    <2>1. PICK c \in 0 .. n - 1 :
             /\ s[c + 1] = ":" /\ (\A i \in 1 .. c : s[i] # ":")
             /\ pair = [host |-> Slice(s, 0, c), port |-> Rest(s, c + 1),
                        bracketed |-> FALSE, ok |-> TRUE]
      BY <1>1, <1>2, <1>6, <1>7, SplitForms
    <2>2. Slice(s, 0, c) # <<>> /\ Rest(s, c + 1) # <<>>
      BY <1>2, <1>3, <2>1
    <2>3. c # 0 /\ c + 1 # n
      <3>1. c = 0 => Slice(s, 0, c) = <<>>
        BY DEF Slice
      <3>2. c + 1 = n => Rest(s, c + 1) = <<>>
        BY <1>6 DEF Rest
      <3> QED
        BY <2>2, <3>1, <3>2
    <2> DEFINE m == at + c
    <2>4. /\ m \in Nat /\ at <= m /\ at < m /\ m < N /\ m + 1 < N /\ m + 1 = at + (c + 1)
          /\ c + 1 \in 1 .. n
      BY <1>1, <1>6, <2>3
    <2>5. \A i \in at + 1 .. m : i - at \in 1 .. c /\ i - at \in 1 .. n /\ at + (i - at) = i
      BY <1>1, <1>6, <2>3
    <2>6. input[m + 1] = ":" /\ \A i \in at + 1 .. m : input[i] # ":"
      <3>1. input[m + 1] = ":"
        BY <1>1, <2>1, <2>4
      <3>2. ASSUME NEW i \in at + 1 .. m
            PROVE  input[i] # ":"
        <4> DEFINE j == i - at
        <4>1. j \in 1 .. c /\ j \in 1 .. n /\ at + j = i
          BY <2>5
        <4> HIDE DEF j
        <4>2. s[j] # ":" /\ s[j] = input[at + j]
          BY <1>1, <2>1, <4>1
        <4> QED
          BY <4>1, <4>2
      <3> QED
        BY <3>1, <3>2
    <2> HIDE DEF m
    <2>7. Find(input, <<":">>, at) = m
      BY <2>4, <2>6, SymbolIsFound
    <2>8. from = at
      BY <1>6, <1>7
    <2> HIDE DEF from
    <2>9. SplitsAt(input, op, at, m)
      BY <1>5, <2>4, <2>6, <2>7, <2>8 DEF SplitsAt
    <2> QED
      BY <2>9
  <1>8. CASE s[1] = "["
    <2>1. PICK e \in 1 .. n - 2 :
             /\ s[e + 1] = "]" /\ (\A i \in 1 .. e : s[i] # "]") /\ s[e + 2] = ":"
             /\ pair = [host |-> Slice(s, 1, e), port |-> Rest(s, e + 2),
                        bracketed |-> TRUE, ok |-> TRUE]
      BY <1>1, <1>2, <1>6, <1>8, SplitForms
    <2>2. Rest(s, e + 2) # <<>>
      BY <1>3, <2>1
    <2>3. e + 2 # n
      <3>1. e + 2 = n => Rest(s, e + 2) = <<>>
        BY <1>6 DEF Rest
      <3> QED
        BY <2>2, <3>1
    <2> DEFINE k == at + e
               m == k + 1
    <2>4. /\ k \in Nat /\ at <= k /\ k < N /\ k + 1 = at + (e + 1) /\ e + 1 \in 1 .. n
          /\ m \in Nat /\ at < m /\ m < N /\ m + 1 < N /\ m + 1 = at + (e + 2) /\ e + 2 \in 1 .. n
          /\ k # Absent /\ k + 1 = m /\ m <= m
      BY <1>1, <1>6, <2>3 DEF Absent
    <2>5. \A i \in at + 1 .. k : i - at \in 1 .. e /\ i - at \in 1 .. n /\ at + (i - at) = i
      BY <1>1, <1>6
    <2>6. /\ input[k + 1] = "]" /\ (\A i \in at + 1 .. k : input[i] # "]")
          /\ input[m + 1] = ":" /\ \A i \in m + 1 .. m : input[i] # ":"
      <3>1. input[k + 1] = "]"
        BY <1>1, <2>1, <2>4
      <3>2. ASSUME NEW i \in at + 1 .. k
            PROVE  input[i] # "]"
        <4> DEFINE j == i - at
        <4>1. j \in 1 .. e /\ j \in 1 .. n /\ at + j = i
          BY <2>5
        <4> HIDE DEF j
        <4>2. s[j] # "]" /\ s[j] = input[at + j]
          BY <1>1, <2>1, <4>1
        <4> QED
          BY <4>1, <4>2
      <3>3. input[m + 1] = ":"
        BY <1>1, <2>1, <2>4
      <3> HIDE DEF m
      <3>4. \A i \in m + 1 .. m : FALSE
        BY <2>4
      <3> QED
        BY <3>1, <3>2, <3>3, <3>4
    <2> HIDE DEF k, m
    <2>7. close = k
      BY <2>4, <2>6, IndexByteIs
    <2>8. Find(input, <<":">>, m) = m
      BY <2>4, <2>6, SymbolIsFound
    <2>9. from = m
      <3>1. bracketed
        BY <1>6, <1>8
      <3> HIDE DEF close, bracketed
      <3> QED
        BY <2>4, <2>7, <3>1
    <2> HIDE DEF from
    <2>10. SplitsAt(input, op, at, m)
      BY <1>5, <2>4, <2>6, <2>8, <2>9 DEF SplitsAt
    <2> QED
      BY <2>10
  <1> QED
    BY <1>7, <1>8

\* Where a field ends that a strict parser can cut out.
EndsAt(input, op, start, end) ==
    \/ op.delim # <<>> /\ end # Absent /\ FieldEnd(input, op, start) = end
    \/ op.delim = <<>> /\ end = Len(input)

\* The step takes the field of the operation, up to the offset.
CutsOut(parser, input, st, k, end) ==
    Step(parser, input, st, k) = TakeField(input, st, parser.plan[k], end)

\* A strict parser cuts such a field out,
LEMMA StrictTakes ==
    ASSUME NEW input, NEW parser, parser.strict, NEW st, NEW k, st.next = k, st.err = NoError,
           parser.plan[k].field # "none", NEW end, EndsAt(input, parser.plan[k], st.pos, end)
    PROVE  CutsOut(parser, input, st, k, end)
  <1> DEFINE op == parser.plan[k]
             idx == FieldEnd(input, op, st.pos)
             missing == op.delim # <<>> /\ idx = Absent
  <1>1. Step(parser, input, st, k) = CaptureField(parser, input, st, op)
    BY Zenon DEF Step
  <1>2. CaptureField(parser, input, st, op)
          = IF IsUsernameOnly(parser, input, st, op, Absent, idx) THEN
               [st EXCEPT !.proxy = [@ EXCEPT !.username = Slice(input, st.pos, Absent),
                                              !.password = <<>>],
                          !.pos = Absent + 1, !.next = op.credentialEnd + 1]
            ELSE IF missing
            THEN [st EXCEPT !.err = Failure("ErrSubseqDelimNotFound", op.delim)]
            ELSE TakeField(input, st, op, IF op.delim = <<>> THEN Len(input) ELSE idx)
    BY Zenon DEF CaptureField
  <1>3. ~ IsUsernameOnly(parser, input, st, op, Absent, idx)
    BY DEF IsUsernameOnly
  <1>4. ~ missing /\ (IF op.delim = <<>> THEN Len(input) ELSE idx) = end
    BY Zenon DEF EndsAt
  <1> HIDE DEF op, missing
  <1>5. CaptureField(parser, input, st, op) = TakeField(input, st, op, end)
    BY <1>2, <1>3, <1>4, Zenon
  <1> QED
    BY <1>1, <1>5, Zenon DEF op, CutsOut

\* and passes over the delimiter that a field took with it.
LEMMA StepWaits ==
    ASSUME NEW parser, NEW input, NEW st, NEW k, st.next # k
    PROVE  Step(parser, input, st, k) = st
  BY Zenon DEF Step

\* How far a strict parser has come, without anything to complain of.
Reached(st, next, pos, p) ==
    /\ st.next = next /\ st.pos = pos /\ st.proxy = p
    /\ st.err = NoError /\ st.emptyHost = FALSE /\ st.emptyPort = FALSE

\* It reads a scheme or a credential,
LEMMA TextIsTaken ==
    ASSUME NEW input, NEW st \in LocalState, NEW k, NEW pos, NEW p, Reached(st, k, pos, p),
           NEW op, NEW field \in {"t", "u", "p"}, NEW delim, Takes(op, field, delim), NEW end
    PROVE  Reached(TakeField(input, st, op, end), k + 2, end + Len(delim),
                   assignField(p, field, Slice(input, pos, end), pos))
  <1> DEFINE t == TakeField(input, st, op, end)
             l == Len(delim)
             value == Slice(input, pos, end)
  <1>1. MovedOn(st, op, end, t) /\ FieldTaken(input, st, op, end, t)
    BY TakeFieldDoes, Zenon
  <1>2. /\ op.field = field /\ op.delim = delim /\ op.consume = TRUE
        /\ op.field \notin {"h", "d"} /\ op.field # "h"
    BY DEF Takes
  <1>3. /\ st.next = k /\ st.pos = pos /\ st.proxy = p
        /\ st.err = NoError /\ st.emptyHost = FALSE /\ st.emptyPort = FALSE
    BY DEF Reached
  <1> HIDE DEF t
  <1>4. t.next = k + 2 /\ t.pos = end + l /\ t.err = NoError
    BY <1>1, <1>2, <1>3 DEF MovedOn
  <1>5. /\ t.proxy = assignField(st.proxy, op.field, Slice(input, st.pos, end), st.pos)
        /\ t.emptyPort = st.emptyPort /\ t.emptyHost = st.emptyHost
    BY <1>1, <1>2, Zenon DEF FieldTaken
  <1>6. /\ t.proxy = assignField(p, field, value, pos)
        /\ t.emptyPort = FALSE /\ t.emptyHost = FALSE
    BY <1>2, <1>3, <1>5, Zenon
  <1> QED
    BY <1>4, <1>6, Zenon DEF Reached, t, l, value

\* The state t after a host was cut out between two offsets.
HostCut(input, t, k, pos, p, end) ==
    /\ Reached(t, k + 2, end + 1, WithHost(p, Slice(input, pos, end), pos))
    /\ t.hostStart = pos /\ t.hostEnd = end

\* a host,
LEMMA HostIsTaken ==
    ASSUME NEW input, NEW st \in LocalState, NEW k, NEW pos, NEW p, Reached(st, k, pos, p),
           NEW op, Takes(op, "h", <<":">>), NEW end, Slice(input, pos, end) # <<>>
    PROVE  HostCut(input, TakeField(input, st, op, end), k, pos, p, end)
  <1> DEFINE t == TakeField(input, st, op, end)
             value == Slice(input, pos, end)
  <1>1. MovedOn(st, op, end, t) /\ FieldTaken(input, st, op, end, t)
    BY TakeFieldDoes, Zenon
  <1>2. op.field = "h" /\ op.delim = <<":">> /\ op.consume = TRUE /\ Len(op.delim) = 1
    BY DEF Takes
  <1>3. /\ st.next = k /\ st.pos = pos /\ st.proxy = p
        /\ st.err = NoError /\ st.emptyHost = FALSE /\ st.emptyPort = FALSE
    BY DEF Reached
  <1> HIDE DEF t
  <1>4. t.next = k + 2 /\ t.pos = end + 1 /\ t.err = NoError
    BY <1>1, <1>2, <1>3 DEF MovedOn
  <1>5. /\ t.proxy = WithHost(st.proxy, Slice(input, st.pos, end), st.pos)
        /\ t.emptyHost = (st.emptyHost \/ Slice(input, st.pos, end) = <<>>)
        /\ t.emptyPort = st.emptyPort
        /\ t.hostStart = st.pos /\ t.hostEnd = end
    BY <1>1, <1>2, Zenon DEF FieldTaken
  <1> HIDE DEF value
  <1>6. /\ t.proxy = WithHost(p, value, pos) /\ t.emptyHost = FALSE /\ t.emptyPort = FALSE
        /\ t.hostStart = pos /\ t.hostEnd = end
    BY <1>3, <1>5 DEF value
  <1> QED
    BY <1>4, <1>6, Zenon DEF Reached, HostCut, t, value

\* and a port behind it, so that the host is cut out with it.
LEMMA PortIsTaken ==
    ASSUME NEW input, NEW st \in LocalState, NEW k, NEW pos, NEW p, Reached(st, k, pos, p),
           NEW op, IsLast(op, "d"), NEW end, end \in Int, Slice(input, pos, end) # <<>>,
           NEW at, at # Absent, st.hostStart = at, st.hostEnd + 1 = pos,
           input[st.hostEnd + 1] = ":"
    PROVE  Reached(TakeField(input, st, op, end), k + 1, end,
                   WithHost(p, Slice(input, at, end), at))
  <1> DEFINE t == TakeField(input, st, op, end)
             value == Slice(input, pos, end)
             adjacent == st.hostStart # Absent /\ st.hostEnd + 1 = st.pos
                         /\ input[st.hostEnd + 1] = ":"
             hp == WithHost(st.proxy, Slice(input, st.hostStart, end), st.hostStart)
  <1>1. MovedOn(st, op, end, t) /\ FieldTaken(input, st, op, end, t)
    BY TakeFieldDoes, Zenon
  <1>2. op.field = "d" /\ op.delim = <<>> /\ op.consume = FALSE /\ op.field # "h"
    BY DEF IsLast
  <1>3. /\ st.next = k /\ st.pos = pos /\ st.proxy = p
        /\ st.err = NoError /\ st.emptyHost = FALSE /\ st.emptyPort = FALSE
    BY DEF Reached
  <1> HIDE DEF t
  <1>4. t.next = k + 1 /\ t.pos = end /\ t.err = NoError
    BY <1>1, <1>2, <1>3 DEF MovedOn
  <1>5. /\ t.proxy = (IF adjacent THEN hp ELSE Joined(st.proxy, Slice(input, st.pos, end), st.pos))
        /\ t.emptyPort = (st.emptyPort \/ Slice(input, st.pos, end) = <<>>)
        /\ t.emptyHost = st.emptyHost
    BY <1>1, <1>2, Zenon DEF FieldTaken
  <1>6. adjacent
    BY <1>3
  <1> HIDE DEF adjacent, hp, value
  <1>7. t.proxy = hp /\ t.emptyPort = FALSE /\ t.emptyHost = FALSE
    BY <1>3, <1>5, <1>6 DEF value
  <1>8. hp = WithHost(p, Slice(input, at, end), at)
    BY <1>3, Zenon DEF hp
  <1> QED
    BY <1>4, <1>7, <1>8, Zenon DEF Reached, t

\* Taking the host again replaces it.
LEMMA HostTwice ==
    ASSUME NEW p \in Texts, NEW v, NEW w, NEW at, NEW to
    PROVE  WithHost(WithHost(p, v, at), w, to) = WithHost(p, w, to)
  BY DEF WithHost, Texts

\* A strict plan that ends in a host and a port reads those that are valid.
LEMMA HostPortIsRead ==
    ASSUME NEW input \in Text, NEW parser, parser.plan \in Seq(Operated), parser.strict,
           NEW a, Course(parser, input, a),
           NEW k \in Nat, k >= 1, k + 2 = Len(parser.plan),
           Takes(parser.plan[k], "h", <<":">>), IsLast(parser.plan[k + 2], "d"),
           NEW at \in Nat, at <= Len(input), NEW p \in Texts, Reached(a[k - 1], k, at, p),
           validateHostnamePort(Rest(input, at)) = "ok"
    PROVE  Reached(a[k + 2], k + 3, Len(input), WithHost(p, Rest(input, at), at))
  <1> DEFINE N == Len(input)
             j == k + 1
             m == k + 2
             host == parser.plan[k]
             port == parser.plan[m]
  <1>1. PICK c : SplitsAt(input, host, at, c)
    BY PortIsFound
  <1>2. /\ c \in Nat /\ at < c /\ c + 1 < N /\ input[c + 1] = ":" /\ FieldEnd(input, host, at) = c
        /\ N \in Nat /\ c \in Int /\ N \in Int
    BY <1>1 DEF SplitsAt, Text
  <1>3. /\ k - 1 \in 0 .. Len(parser.plan) /\ k \in 1 .. Len(parser.plan)
        /\ j \in 1 .. Len(parser.plan) /\ m \in 1 .. Len(parser.plan)
        /\ k \in 0 .. Len(parser.plan) /\ j \in 0 .. Len(parser.plan) /\ j - 1 = k /\ m - 1 = j
        /\ m # j /\ m + 1 = k + 3
    BY SMT
  <1>4. /\ a[k] = Step(parser, input, a[k - 1], k)
        /\ a[j] = Step(parser, input, a[k], j)
        /\ a[m] = Step(parser, input, a[j], m)
        /\ a[k - 1] \in LocalState /\ a[k] \in LocalState
    <2>1. /\ \A i \in 1 .. Len(parser.plan) : a[i] = Step(parser, input, a[i - 1], i)
          /\ a \in [0 .. Len(parser.plan) -> Cursors(input)]
      BY Zenon DEF Course
    <2>2. /\ a[k] = Step(parser, input, a[k - 1], k)
          /\ a[j] = Step(parser, input, a[j - 1], j)
          /\ a[m] = Step(parser, input, a[m - 1], m)
      BY <1>3, <2>1, Zenon
    <2>3. a[k - 1] \in Cursors(input) /\ a[k] \in Cursors(input)
      BY <1>3, <2>1
    <2> QED
      BY <1>3, <2>2, <2>3 DEF Cursors
  <1>5. /\ a[k - 1].next = k /\ a[k - 1].pos = at /\ a[k - 1].err = NoError
        /\ host.field # "none" /\ host.delim # <<>> /\ port.field # "none" /\ port.delim = <<>>
    BY DEF Reached, Takes, IsLast
  <1> HIDE DEF host, port, j, m
  <1>6. EndsAt(input, host, a[k - 1].pos, c)
    <2>1. c # Absent
      BY <1>2 DEF Absent
    <2> QED
      BY <1>2, <1>5, <2>1 DEF EndsAt
  <1>7. a[k] = TakeField(input, a[k - 1], host, c)
    <2>1. a[k - 1].next = k /\ a[k - 1].err = NoError /\ parser.plan[k].field # "none"
      BY <1>5 DEF host
    <2>2. EndsAt(input, parser.plan[k], a[k - 1].pos, c)
      BY <1>6, Zenon DEF host
    <2>3. CutsOut(parser, input, a[k - 1], k, c)
      BY <2>1, <2>2, StrictTakes, Zenon
    <2> QED
      BY <1>4, <2>3, Zenon DEF host, CutsOut
  <1> DEFINE v == Slice(input, at, c)
             rest == Slice(input, c + 1, N)
  <1>8. v # <<>> /\ rest # <<>> /\ rest = Slice(input, c + 1, N)
    <2>1. c <= N /\ c + 1 <= N /\ N <= N /\ at <= c /\ c + 1 \in Nat /\ c - at # 0 /\ N - (c + 1) # 0
      BY <1>2, SMT
    <2>2. Len(v) = c - at /\ Len(rest) = N - (c + 1)
      BY <1>2, <2>1, SliceIsText
    <2>3. Len(<<>>) = 0
      OBVIOUS
    <2> HIDE DEF v, rest
    <2>4. v # <<>> /\ rest # <<>>
      BY <2>1, <2>2, <2>3
    <2> QED
      BY <2>4 DEF rest
  <1>9. /\ Reached(a[k], k + 2, c + 1, WithHost(p, v, at))
        /\ a[k].hostStart = at /\ a[k].hostEnd = c
    <2>1. Takes(host, "h", <<":">>)
      BY DEF host
    <2> DEFINE t == TakeField(input, a[k - 1], host, c)
    <2>2. HostCut(input, t, k, at, p, c)
      BY <1>4, <1>8, <2>1, HostIsTaken, Zenon
    <2> HIDE DEF t
    <2>3. a[k] = t
      BY <1>7 DEF t
    <2> QED
      BY <2>2, <2>3, Zenon DEF HostCut
  <1>10. a[j] = a[k]
    <2>1. a[k].next # j
      BY <1>3, <1>9 DEF Reached, m
    <2> QED
      BY <1>4, <2>1, StepWaits, Zenon
  <1> HIDE DEF v
  <1>11. Reached(a[j], m, c + 1, WithHost(p, v, at)) /\ a[j].hostStart = at /\ a[j].hostEnd = c
    BY <1>9, <1>10, Zenon DEF m
  <1>12. a[m] = TakeField(input, a[j], port, N)
    <2>1. a[j].next = m /\ a[j].err = NoError
      BY <1>11 DEF Reached
    <2>2. EndsAt(input, port, a[j].pos, N)
      BY <1>5, Zenon DEF EndsAt
    <2>3. EndsAt(input, parser.plan[m], a[j].pos, N) /\ parser.plan[m].field # "none"
      BY <1>5, <2>2, Zenon DEF port
    <2>4. CutsOut(parser, input, a[j], m, N)
      BY <2>1, <2>3, StrictTakes, Zenon
    <2> QED
      BY <1>4, <2>4, Zenon DEF port, CutsOut
  <1>13. Reached(a[m], m + 1, N, WithHost(WithHost(p, v, at), Slice(input, at, N), at))
    <2>1. IsLast(port, "d")
      BY DEF port, m
    <2>2. /\ at # Absent /\ a[j].hostEnd + 1 = c + 1 /\ input[a[j].hostEnd + 1] = ":"
          /\ Slice(input, c + 1, N) # <<>> /\ a[j] \in LocalState
      BY <1>2, <1>4, <1>8, <1>10, <1>11 DEF Absent
    <2> QED
      BY <1>2, <1>11, <1>12, <2>1, <2>2, PortIsTaken, Zenon
  <1>14. WithHost(WithHost(p, v, at), Slice(input, at, N), at) = WithHost(p, Rest(input, at), at)
    <2>1. Rest(input, at) = Slice(input, at, N)
      BY RestIsSlice
    <2> QED
      BY <2>1, HostTwice
  <1>15. Reached(a[m], k + 3, N, WithHost(p, Rest(input, at), at))
    BY <1>3, <1>13, <1>14
  <1> QED
    BY <1>15 DEF m

\* What it has read to the end it gives when it is valid.
LEMMA ReadIsGiven ==
    ASSUME NEW input \in Text, NEW parser, parser.plan \in Seq(Operated), parser.strict,
           NEW a, Course(parser, input, a), NEW next, NEW p,
           Reached(a[Len(parser.plan)], next, Len(input), p), Validate(p) = "ok"
    PROVE  parseGeneric(parser, input, ZeroProxy, "scalar") = Result(p, NoError)
  <1> DEFINE end == EndOf(parser, input, ZeroProxy)
  <1>1. parseGeneric(parser, input, ZeroProxy, "scalar")
          = Result(end.proxy, Verdict(parser, input, end, "scalar"))
    BY Zenon DEF parseGeneric, EndOf
  <1>2. Reached(end, next, Len(input), p)
    BY Zenon DEF Course
  <1> HIDE DEF end
  <1>3. /\ end.pos = Len(input) /\ end.proxy = p /\ end.err = NoError
        /\ end.emptyHost = FALSE /\ end.emptyPort = FALSE
    BY <1>2 DEF Reached
  <1>4. ~ Trail(parser, input, end)
    BY <1>3 DEF Trail, Text
  <1>5. IsUsable(input, p, "scalar")
    BY Zenon DEF IsUsable
  <1>6. Verdict(parser, input, end, "scalar") = NoError
    BY <1>3, <1>4, <1>5, Zenon DEF Verdict
  <1> QED
    BY <1>1, <1>3, <1>6, Zenon

\* A strict plan's parser reads a scheme or a credential whose delimiter it finds,
LEMMA TextIsRead ==
    ASSUME NEW input \in Text, NEW parser, parser.plan \in Seq(Operated), parser.strict,
           NEW a, Course(parser, input, a), NEW k \in 1 .. Len(parser.plan) - 1,
           NEW field \in {"t", "u", "p"}, NEW delim, delim # <<>>,
           Takes(parser.plan[k], field, delim), NEW pos, NEW p, Reached(a[k - 1], k, pos, p),
           NEW end, end # Absent, Find(input, delim, pos) = end
    PROVE  Reached(a[k + 1], k + 2, end + Len(delim),
                   assignField(p, field, Slice(input, pos, end), pos))
  <1> DEFINE j == k + 1
             op == parser.plan[k]
             l == Len(delim)
             q == assignField(p, field, Slice(input, pos, end), pos)
  <1>1. /\ k \in Nat /\ k - 1 \in 0 .. Len(parser.plan) /\ k \in 1 .. Len(parser.plan)
        /\ j \in 1 .. Len(parser.plan) /\ j - 1 = k /\ k + 2 # j
    BY SMT
  <1>2. /\ a[k] = Step(parser, input, a[k - 1], k)
        /\ a[j] = Step(parser, input, a[k], j)
        /\ a[k - 1] \in LocalState
    <2>1. /\ \A i \in 1 .. Len(parser.plan) : a[i] = Step(parser, input, a[i - 1], i)
          /\ a \in [0 .. Len(parser.plan) -> Cursors(input)]
      BY Zenon DEF Course
    <2>2. /\ a[k] = Step(parser, input, a[k - 1], k)
          /\ a[j] = Step(parser, input, a[j - 1], j)
      BY <1>1, <2>1, Zenon
    <2>3. a[k - 1] \in Cursors(input)
      BY <1>1, <2>1
    <2> QED
      BY <1>1, <2>2, <2>3 DEF Cursors
  <1> HIDE DEF j
  <1>3. /\ a[k - 1].next = k /\ a[k - 1].pos = pos /\ a[k - 1].err = NoError
        /\ op.field = field /\ op.delim = delim /\ op.field # "none" /\ op.field # "h"
    BY DEF Reached, Takes
  <1>4. FieldEnd(input, op, pos) = end
    <2> DEFINE close == IndexByte(input, "]", pos)
    <2>1. FieldEnd(input, op, pos)
            = LET bracketed == op.field = "h" /\ pos < Len(input) /\ input[pos + 1] = "["
                  from == IF bracketed /\ close # Absent THEN close + 1 ELSE pos
              IN  IF op.delim = <<>> THEN Absent ELSE Find(input, op.delim, from)
      BY Zenon DEF FieldEnd
    <2> HIDE DEF close, op
    <2> QED
      BY <1>3, <2>1
  <1>5. EndsAt(input, op, a[k - 1].pos, end)
    BY <1>3, <1>4, Zenon DEF EndsAt
  <1>6. a[k] = TakeField(input, a[k - 1], op, end)
    <2>1. CutsOut(parser, input, a[k - 1], k, end)
      BY <1>3, <1>5, StrictTakes, Zenon
    <2> QED
      BY <1>2, <2>1, Zenon DEF CutsOut
  <1>7. Reached(a[k], k + 2, end + l, q)
    <2> DEFINE t == TakeField(input, a[k - 1], op, end)
    <2>1. Reached(t, k + 2, end + l, q)
      BY <1>2, TextIsTaken, Zenon
    <2> HIDE DEF t
    <2>2. a[k] = t
      BY <1>6 DEF t
    <2> QED
      BY <2>1, <2>2, Zenon
  <1>8. a[j] = a[k]
    <2>1. a[k].next # j
      BY <1>1, <1>7 DEF Reached
    <2> QED
      BY <1>2, <2>1, Zenon DEF Step
  <1>9. Reached(a[j], k + 2, end + l, q)
    BY <1>7, <1>8, Zenon
  <1> QED
    BY <1>9 DEF j

\* after it has begun at the front of the input.
LEMMA BeginsAtFront ==
    ASSUME NEW input, NEW parser, parser.strict, NEW a, Course(parser, input, a)
    PROVE  Reached(a[0], 1, 0, ZeroProxy)
  <1>1. a[0] = Locals(ZeroProxy)
    BY StrictBegins
  <1> QED
    BY <1>1 DEF Locals, Reset, Reached

\* Setting a text field.
LEMMA Assigned ==
    ASSUME NEW p, NEW val, NEW at
    PROVE  /\ assignField(p, "t", val, at) = [p EXCEPT !.scheme = schemeOf(val)]
           /\ assignField(p, "u", val, at) = [p EXCEPT !.username = val]
           /\ assignField(p, "p", val, at) = [p EXCEPT !.password = val]
  <1>1. /\ "t" # "u" /\ "t" # "p" /\ "u" # "p" /\ "t" \notin {"h", "d"}
        /\ "u" \notin {"h", "d"} /\ "p" \notin {"h", "d"}
    OBVIOUS
  <1> QED
    BY <1>1 DEF assignField

\* What the parser of the one format accepts, its plan reads to the same.
LEMMA HostPortPlanReads ==
    ASSUME NEW input \in Text, NEW parser, parser.plan \in Seq(Operated), parser.strict,
           HostPortLinks(parser.plan), parseStrictSchemeHostPort(input).err = NoError
    PROVE  parseGeneric(parser, input, ZeroProxy, "scalar") = parseStrictSchemeHostPort(input)
  <1> DEFINE at == Find(input, schemeSeparator, 0)
             r == parseStrictSchemeHostPort(input)
             scheme == schemeOf(Slice(input, 0, at))
             q == [ZeroProxy EXCEPT !.scheme = scheme]
             p == WithHost(q, Rest(input, at + 3), at + 3)
             failure == Failure("ErrSubseqDelimNotFound", schemeSeparator)
             N == Len(input)
  <1>1. r = IF at = Absent THEN Result(ZeroProxy, failure) ELSE Validated(p)
    BY Zenon DEF parseStrictSchemeHostPort, WithHost
  <1> HIDE DEF q, r, N
  <1>2. failure # NoError /\ Result(ZeroProxy, failure).err = failure
    BY FailuresAreErrors DEF Result
  <1> HIDE DEF p
  <1>3. at # Absent /\ r = Validated(p)
    BY <1>1, <1>2, Zenon DEF r
  <1>4. Validate(p) = "ok" /\ r = Result(p, NoError)
    <2>1. Validate(p) = "ok"
      BY <1>3, ValidatedIsValid DEF r
    <2> QED
      BY <1>3, <2>1, Zenon DEF Validated
  <1>5. at \in Nat /\ at + 3 <= N /\ at + 3 \in Nat /\ N \in Nat /\ at <= N /\ 0 \in Nat /\ 0 <= at
    <2>1. at \in Nat /\ at + 3 <= N
      BY <1>3, SeparatorIsText, FindFinds DEF N
    <2>2. N \in Nat
      BY DEF N, Text
    <2> HIDE DEF at
    <2> QED
      BY <2>1, <2>2, SMT
  <1>6. PICK a : Course(parser, input, a)
    BY CourseExists
  <1>7. /\ Len(parser.plan) = 5
        /\ Takes(parser.plan[1], "t", schemeSeparator)
        /\ Takes(parser.plan[3], "h", <<":">>)
        /\ IsLast(parser.plan[5], "d")
    BY Zenon DEF HostPortLinks
  <1>8. Reached(a[2], 3, at + 3, q)
    <2>1. Reached(a[0], 1, 0, ZeroProxy)
      BY <1>6, BeginsAtFront
    <2>2. 1 \in 1 .. Len(parser.plan) - 1 /\ 1 - 1 = 0 /\ 1 + 1 = 2 /\ 1 + 2 = 3
      BY <1>7
    <2>3. schemeSeparator # <<>> /\ Len(schemeSeparator) = 3
      BY DEF schemeSeparator
    <2> HIDE DEF at
    <2>4. Reached(a[1 - 1], 1, 0, ZeroProxy)
      BY <2>1, <2>2
    <2>5. Reached(a[1 + 1], 1 + 2, at + Len(schemeSeparator),
                  assignField(ZeroProxy, "t", Slice(input, 0, at), 0))
      <3>1. "t" \in {"t", "u", "p"}
        OBVIOUS
      <3> QED
        BY <1>3, <1>6, <1>7, <2>2, <2>3, <2>4, <3>1, TextIsRead, ZenonT(60) DEF at
    <2>6. assignField(ZeroProxy, "t", Slice(input, 0, at), 0) = q
      BY Assigned DEF q, at
    <2> QED
      BY <2>2, <2>3, <2>5, <2>6
  <1>9. q \in Texts
    <2> HIDE DEF at
    <2>1. Slice(input, 0, at) \in Text
      BY <1>5, CutIsText DEF N
    <2>2. scheme \in Text
      BY <2>1, SchemeIsText
    <2> HIDE DEF scheme
    <2> QED
      BY <2>2, ZeroIsText, SetCredentials DEF q
  <1>10. validateHostnamePort(Rest(input, at + 3)) = "ok"
    <2> HIDE DEF at
    <2>1. Rest(input, at + 3) \in Text
      <3>1. Slice(input, at + 3, N) \in Text
        BY <1>5, CutIsText DEF N
      <3> QED
        BY <3>1, RestIsSlice DEF N
    <2>2. p \in Texts /\ p.host = Rest(input, at + 3)
      <3>1. at + 3 \in Int
        BY <1>5
      <3> QED
        BY <1>9, <2>1, <3>1, SetHost DEF p
    <2> QED
      BY <1>4, <2>2, ValidParts
  <1> HIDE DEF at
  <1> DEFINE from == at + 3
  <1>11. Reached(a[5], 6, N, p)
    <2>1. 3 \in Nat /\ 3 >= 1 /\ 3 + 2 = Len(parser.plan) /\ 3 - 1 = 2 /\ 3 + 2 = 5 /\ 3 + 3 = 6
      BY <1>7
    <2>2. from \in Nat /\ from <= N /\ validateHostnamePort(Rest(input, from)) = "ok"
      BY <1>5, <1>10
    <2>3. p = WithHost(q, Rest(input, from), from)
      BY DEF p
    <2>4. Reached(a[3 - 1], 3, from, q)
      BY <1>8, <2>1
    <2> HIDE DEF from
    <2>5. Reached(a[3 + 2], 3 + 3, Len(input), WithHost(q, Rest(input, from), from))
      BY <1>6, <1>7, <1>9, <2>1, <2>2, <2>4, HostPortIsRead DEF N
    <2> QED
      BY <2>1, <2>3, <2>5 DEF N
  <1>12. parseGeneric(parser, input, ZeroProxy, "scalar") = Result(p, NoError)
    BY <1>4, <1>6, <1>7, <1>11, ReadIsGiven DEF N
  <1> QED
    BY <1>4, <1>12 DEF r

\* A proxy filled in field by field
Filled(s, u, w) ==
    [[[ZeroProxy EXCEPT !.scheme = s] EXCEPT !.username = u] EXCEPT !.password = w]

\* and given a host
IsFilled(q, s, u, w, h, at) ==
    /\ q \in Texts
    /\ WithHost(q, h, at)
         = [scheme |-> s, host |-> h, hostAt |-> at, username |-> u, password |-> w]

\* is a proxy.
LEMMA FilledIn ==
    ASSUME NEW s \in Text, NEW u \in Text, NEW w \in Text, NEW h \in Text, NEW at \in Int
    PROVE  IsFilled(Filled(s, u, w), s, u, w, h, at)
  <1> DEFINE q == Filled(s, u, w)
  <1>1. <<>> \in Text /\ Absent \in Int
    BY DEF Text, Absent
  <1>2. q = [scheme |-> s, host |-> <<>>, hostAt |-> Absent, username |-> u, password |-> w]
    <2> DEFINE q1 == [ZeroProxy EXCEPT !.scheme = s]
               q2 == [q1 EXCEPT !.username = u]
    <2>1. q1 = [scheme |-> s, host |-> <<>>, hostAt |-> Absent, username |-> <<>>,
                password |-> <<>>]
      BY DEF ZeroProxy
    <2> HIDE DEF q1
    <2>2. q2 = [scheme |-> s, host |-> <<>>, hostAt |-> Absent, username |-> u,
                password |-> <<>>]
      BY <2>1
    <2> HIDE DEF q2
    <2>3. [q2 EXCEPT !.password = w]
            = [scheme |-> s, host |-> <<>>, hostAt |-> Absent, username |-> u, password |-> w]
      BY <2>2
    <2> QED
      BY <2>3 DEF q1, q2, Filled
  <1> HIDE DEF q
  <1>3. q \in Texts
    BY <1>1, <1>2 DEF Texts
  <1>4. WithHost(q, h, at) = [scheme |-> s, host |-> h, hostAt |-> at, username |-> u, password |-> w]
    <2> DEFINE h1 == [q EXCEPT !.host = h]
    <2>1. h1 = [scheme |-> s, host |-> h, hostAt |-> Absent, username |-> u, password |-> w]
      BY <1>2
    <2> HIDE DEF h1
    <2>2. [h1 EXCEPT !.hostAt = at]
            = [scheme |-> s, host |-> h, hostAt |-> at, username |-> u, password |-> w]
      BY <2>1
    <2>3. WithHost(q, h, at) = [h1 EXCEPT !.hostAt = at]
      BY Zenon DEF WithHost, h1
    <2> QED
      BY <2>2, <2>3
  <1> QED
    BY <1>3, <1>4, Zenon DEF q, IsFilled

\* Where IndexByte finds a symbol Find does.
LEMMA BothFind ==
    ASSUME NEW s \in Text, NEW c, NEW from \in Nat, IndexByte(s, c, from) # Absent
    PROVE  /\ Find(s, <<c>>, from) = IndexByte(s, c, from)
           /\ IndexByte(s, c, from) \in Nat
           /\ from <= IndexByte(s, c, from) /\ IndexByte(s, c, from) < Len(s)
  <1> DEFINE at == IndexByte(s, c, from)
             n == Len(s)
  <1>1. at \in from .. n - 1 /\ s[at + 1] = c /\ \A k \in from + 1 .. at : s[k] # c
    BY IndexByteFinds
  <1>2. n \in Nat
    BY DEF Text
  <1> HIDE DEF at, n
  <1>3. at \in Nat /\ from <= at /\ at < n
    BY <1>1, <1>2, SMT
  <1>4. Find(s, <<c>>, from) = at
    BY <1>1, <1>3, SymbolIsFound DEF n
  <1> QED
    BY <1>3, <1>4 DEF at, n

\* What the parser of the other format accepts, its plan reads to the same.
LEMMA CredentialsPlanReads ==
    ASSUME NEW input \in Text, NEW parser, parser.plan \in Seq(Operated), parser.strict,
           CredentialsLinks(parser.plan), parseStrictFullCredentials(input).err = NoError
    PROVE  parseGeneric(parser, input, ZeroProxy, "scalar") = parseStrictFullCredentials(input)
  <1> DEFINE schemeEnd == Find(input, schemeSeparator, 0)
             usernameEnd == IndexByte(input, ":", schemeEnd + 3)
             passwordEnd == IndexByte(input, "@", usernameEnd + 1)
             NotFound(delim) == Result(ZeroProxy, Failure("ErrSubseqDelimNotFound", delim))
             r == parseStrictFullCredentials(input)
             scheme == schemeOf(Slice(input, 0, schemeEnd))
             username == Slice(input, schemeEnd + 3, usernameEnd)
             password == Slice(input, usernameEnd + 1, passwordEnd)
             from == passwordEnd + 1
             p == [scheme |-> scheme, host |-> Rest(input, from), hostAt |-> from,
                   username |-> username, password |-> password]
             q1 == [ZeroProxy EXCEPT !.scheme = scheme]
             q2 == [q1 EXCEPT !.username = username]
             q3 == [q2 EXCEPT !.password = password]
             N == Len(input)
  <1>1. r = IF schemeEnd = Absent THEN NotFound(schemeSeparator)
            ELSE IF usernameEnd = Absent THEN NotFound(<<":">>)
            ELSE IF passwordEnd = Absent THEN NotFound(<<"@">>)
            ELSE Validated(p)
    BY Zenon DEF parseStrictFullCredentials
  <1> HIDE DEF p, r, q1, q2, q3
  <1>2. \A delim : NotFound(delim).err # NoError
    BY FailuresAreErrors DEF Result
  <1>3. /\ schemeEnd # Absent /\ usernameEnd # Absent /\ passwordEnd # Absent
        /\ r = Validated(p)
    <2> HIDE DEF NotFound, schemeEnd, usernameEnd, passwordEnd
    <2> QED
      BY <1>1, <1>2, Zenon DEF r
  <1>4. Validate(p) = "ok" /\ r = Result(p, NoError)
    <2>1. Validate(p) = "ok"
      BY <1>3, ValidatedIsValid DEF r
    <2> QED
      BY <1>3, <2>1, Zenon DEF Validated
  <1>5. N \in Nat /\ schemeEnd \in Nat /\ schemeEnd + 3 <= N /\ schemeEnd + 3 \in Nat
    <2>1. schemeEnd \in Nat /\ schemeEnd + 3 <= N
      BY <1>3, SeparatorIsText, FindFinds
    <2> HIDE DEF schemeEnd
    <2> QED
      BY <2>1 DEF Text
  <1> HIDE DEF schemeEnd
  <1>6. /\ Find(input, <<":">>, schemeEnd + 3) = usernameEnd
        /\ usernameEnd \in Nat /\ schemeEnd + 3 <= usernameEnd /\ usernameEnd < N
    BY <1>3, <1>5, BothFind
  <1>7. usernameEnd + 1 \in Nat
    BY <1>6
  <1> HIDE DEF usernameEnd
  <1>8. /\ Find(input, <<"@">>, usernameEnd + 1) = passwordEnd
        /\ passwordEnd \in Nat /\ usernameEnd + 1 <= passwordEnd /\ passwordEnd < N
    BY <1>3, <1>7, BothFind
  <1> HIDE DEF passwordEnd
  <1>9. /\ 0 \in Nat /\ 0 <= schemeEnd /\ schemeEnd <= N
        /\ usernameEnd <= N /\ passwordEnd <= N
        /\ from \in Nat /\ from <= N /\ N <= N /\ from \in Int
    <2> HIDE DEF N
    <2> QED
      BY <1>5, <1>6, <1>8, SMT
  <1>10. /\ scheme \in Text /\ username \in Text /\ password \in Text
         /\ Rest(input, from) \in Text
    <2>1. /\ Slice(input, 0, schemeEnd) \in Text /\ username \in Text /\ password \in Text
          /\ Slice(input, from, N) \in Text
      <3> HIDE DEF from
      <3> QED
        BY <1>5, <1>6, <1>7, <1>8, <1>9, CutIsText
    <2> QED
      BY <2>1, SchemeIsText, RestIsSlice
  <1> HIDE DEF from
  <1>11. q3 \in Texts /\ p = WithHost(q3, Rest(input, from), from)
    <2> HIDE DEF scheme, username, password
    <2> DEFINE h == Rest(input, from)
    <2>1. IsFilled(Filled(scheme, username, password), scheme, username, password, h, from)
      BY <1>9, <1>10, FilledIn, Zenon
    <2>2. Filled(scheme, username, password) = q3
      BY Zenon DEF q1, q2, q3, Filled
    <2> QED
      BY <2>1, <2>2, Zenon DEF p, IsFilled
  <1>12. p \in Texts /\ p.host = Rest(input, from)
    BY <1>9, <1>10, <1>11, SetHost
  <1>13. validateHostnamePort(Rest(input, from)) = "ok"
    BY <1>4, <1>12, ValidParts
  <1>14. PICK a : Course(parser, input, a)
    BY CourseExists
  <1>15. /\ Len(parser.plan) = 9
         /\ Takes(parser.plan[1], "t", schemeSeparator)
         /\ Takes(parser.plan[3], "u", <<":">>)
         /\ Takes(parser.plan[5], "p", <<"@">>)
         /\ Takes(parser.plan[7], "h", <<":">>)
         /\ IsLast(parser.plan[9], "d")
    BY Zenon DEF CredentialsLinks
  <1>16. /\ schemeSeparator # <<>> /\ Len(schemeSeparator) = 3
         /\ <<":">> # <<>> /\ Len(<<":">>) = 1 /\ <<"@">> # <<>> /\ Len(<<"@">>) = 1
         /\ "t" \in {"t", "u", "p"} /\ "u" \in {"t", "u", "p"} /\ "p" \in {"t", "u", "p"}
    BY DEF schemeSeparator
  <1>17. Reached(a[2], 3, schemeEnd + 3, q1)
    <2>1. 1 \in 1 .. Len(parser.plan) - 1 /\ 1 - 1 = 0 /\ 1 + 1 = 2 /\ 1 + 2 = 3
      BY <1>15
    <2>2. Reached(a[1 - 1], 1, 0, ZeroProxy)
      <3>1. Reached(a[0], 1, 0, ZeroProxy)
        BY <1>14, BeginsAtFront
      <3> QED
        BY <2>1, <3>1
    <2>4. Reached(a[1 + 1], 1 + 2, schemeEnd + Len(schemeSeparator),
                  assignField(ZeroProxy, "t", Slice(input, 0, schemeEnd), 0))
      <3>1. /\ schemeEnd # Absent /\ Takes(parser.plan[1], "t", schemeSeparator)
            /\ 1 \in 1 .. Len(parser.plan) - 1 /\ schemeSeparator # <<>> /\ "t" \in {"t", "u", "p"}
        BY <1>3, <1>15, <1>16, <2>1
      <3> QED
        BY <1>14, <2>2, <3>1, TextIsRead, ZenonT(60) DEF schemeEnd
    <2>5. assignField(ZeroProxy, "t", Slice(input, 0, schemeEnd), 0) = q1
      BY Assigned DEF q1
    <2> QED
      BY <1>16, <2>1, <2>4, <2>5
  <1>18. Reached(a[4], 5, usernameEnd + 1, q2)
    <2>1. 3 \in 1 .. Len(parser.plan) - 1 /\ 3 - 1 = 2 /\ 3 + 1 = 4 /\ 3 + 2 = 5
      BY <1>15
    <2>2. Reached(a[3 - 1], 3, schemeEnd + 3, q1)
      BY <1>17, <2>1
    <2>3. Reached(a[3 + 1], 3 + 2, usernameEnd + Len(<<":">>),
                  assignField(q1, "u", username, schemeEnd + 3))
      BY <1>3, <1>6, <1>14, <1>15, <1>16, <2>1, <2>2, TextIsRead, ZenonT(60)
    <2>4. assignField(q1, "u", username, schemeEnd + 3) = q2
      BY Assigned DEF q2
    <2> QED
      BY <1>16, <2>1, <2>3, <2>4
  <1>19. Reached(a[6], 7, from, q3)
    <2>1. 5 \in 1 .. Len(parser.plan) - 1 /\ 5 - 1 = 4 /\ 5 + 1 = 6 /\ 5 + 2 = 7
      BY <1>15
    <2>2. Reached(a[5 - 1], 5, usernameEnd + 1, q2)
      BY <1>18, <2>1
    <2>3. Reached(a[5 + 1], 5 + 2, passwordEnd + Len(<<"@">>),
                  assignField(q2, "p", password, usernameEnd + 1))
      <3>1. /\ passwordEnd # Absent /\ Takes(parser.plan[5], "p", <<"@">>)
            /\ Find(input, <<"@">>, usernameEnd + 1) = passwordEnd
        BY <1>3, <1>8, <1>15
      <3> QED
        BY <1>14, <1>16, <2>1, <2>2, <3>1, TextIsRead, ZenonT(60)
    <2>4. assignField(q2, "p", password, usernameEnd + 1) = q3
      BY Assigned DEF q3
    <2> QED
      BY <1>16, <2>1, <2>3, <2>4 DEF from
  <1>20. Reached(a[9], 10, N, p)
    <2>1. 7 \in Nat /\ 7 >= 1 /\ 7 + 2 = Len(parser.plan) /\ 7 - 1 = 6 /\ 7 + 2 = 9 /\ 7 + 3 = 10
      BY <1>15
    <2>2. Reached(a[7 - 1], 7, from, q3)
      BY <1>19, <2>1
    <2>3. Reached(a[7 + 2], 7 + 3, N, WithHost(q3, Rest(input, from), from))
      BY <1>9, <1>11, <1>13, <1>14, <1>15, <2>1, <2>2, HostPortIsRead
    <2> QED
      BY <1>11, <2>1, <2>3
  <1>21. parseGeneric(parser, input, ZeroProxy, "scalar") = Result(p, NoError)
    BY <1>4, <1>14, <1>15, <1>20, ReadIsGiven
  <1> QED
    BY <1>4, <1>21 DEF r

\* The parsers New makes of a format,
LEMMA ParsersMade ==
    ASSUME NEW f, NEW strict \in BOOLEAN
    PROVE  /\ New(f, strict).strict = strict
           /\ New(f, strict).kind = detectParserKind(f, strict)
           /\ New(f, strict).kind = "generic" =>
                /\ New(f, strict).plan = Linked(Operations(f))
                /\ New(f, strict).hasScheme
                     = (\E k \in DOMAIN New(f, strict).plan : New(f, strict).plan[k].field = "t")
  <1> DEFINE kind == detectParserKind(f, strict)
             plan == IF kind = "generic" THEN Linked(Operations(f)) ELSE <<>>
             hasScheme == \E k \in DOMAIN plan : plan[k].field = "t"
             ok == Wrong \notin {plan[k] : k \in DOMAIN plan}
             parser == New(f, strict)
  <1>1. parser = [format |-> f, strict |-> strict, kind |-> kind, plan |-> plan,
                  hasScheme |-> hasScheme, ok |-> ok]
    BY Zenon DEF New
  <1> HIDE DEF parser, kind, hasScheme, ok
  <1>2. parser.strict = strict /\ parser.kind = kind /\ parser.plan = plan
        /\ parser.hasScheme = hasScheme
    BY <1>1
  <1>3. hasScheme = (\E k \in DOMAIN parser.plan : parser.plan[k].field = "t")
    BY <1>2, Zenon DEF hasScheme
  <1> QED
    BY <1>2, <1>3, Zenon DEF parser, kind

\* and their kinds.
LEMMA KindsOfParsers ==
    ASSUME NEW f
    PROVE  /\ New(f, FALSE).kind = "generic"
           /\ \/ New(f, TRUE).kind = "generic"
              \/ f = SchemeHostPort /\ New(f, TRUE).kind = "strictSchemeHostPort"
              \/ f = FullCredentials /\ New(f, TRUE).kind = "strictFullCredentials"
  <1>1. New(f, FALSE).kind = detectParserKind(f, FALSE) /\ New(f, TRUE).kind = detectParserKind(f, TRUE)
    BY ParsersMade
  <1> QED
    BY <1>1, Zenon DEF detectParserKind

\* A strict parser reads as the plan of its format does, if it has no such plan.
LEMMA PlansRead ==
    ASSUME NEW f \in Formats, NEW input \in Text,
           ParseInto(New(f, TRUE), input, ZeroProxy, "scalar").err = NoError
    PROVE  \E parser : /\ parser.plan = Linked(Operations(f)) /\ parser.strict
                       /\ parseGeneric(parser, input, ZeroProxy, "scalar")
                            = ParseInto(New(f, TRUE), input, ZeroProxy, "scalar")
  <1> DEFINE own == New(f, TRUE)
             r == ParseInto(own, input, ZeroProxy, "scalar")
             credentials == own.kind = "strictFullCredentials"
             generic == New(f, FALSE)
             parser == [strict |-> TRUE, plan |-> generic.plan]
  <1>1. r = IF own.kind = "generic" THEN parseGeneric(own, input, ZeroProxy, "scalar")
            ELSE IF credentials THEN parseStrictFullCredentials(input)
            ELSE parseStrictSchemeHostPort(input)
    BY Zenon DEF ParseInto
  <1>2. own.strict = TRUE /\ (own.kind = "generic" => own.plan = Linked(Operations(f)))
    BY ParsersMade
  <1>3. generic.plan = Linked(Operations(f)) /\ generic.plan \in Seq(Operated)
    BY ParsersMade, KindsOfParsers, ParsersAreTyped
  <1>4. f \in Text
    BY TextsAssumption
  <1>5. \/ own.kind = "generic"
        \/ f = SchemeHostPort /\ own.kind = "strictSchemeHostPort"
        \/ f = FullCredentials /\ own.kind = "strictFullCredentials"
    BY KindsOfParsers
  <1> HIDE DEF own, generic, r
  <1>6. parser.strict = TRUE /\ parser.plan = generic.plan
    OBVIOUS
  <1> HIDE DEF parser
  <1>7. r.err = NoError
    BY DEF r, own
  <1>8. CASE own.kind = "generic"
    <2>1. own.plan = Linked(Operations(f)) /\ own.strict
          /\ parseGeneric(own, input, ZeroProxy, "scalar") = r
      BY <1>1, <1>2, <1>8
    <2> QED
      BY <2>1, Zenon DEF own, r
  <1>9. CASE f = SchemeHostPort /\ own.kind = "strictSchemeHostPort"
    <2>1. r = parseStrictSchemeHostPort(input)
      BY <1>1, <1>9
    <2>2. HostPortLinks(parser.plan)
      <3>1. HostPortLinks(Linked(Operations(f)))
        BY <1>4, <1>9, HostPortIsLinked, Zenon
      <3> QED
        BY <1>3, <1>6, <3>1, Zenon
    <2>3. parseGeneric(parser, input, ZeroProxy, "scalar") = r
      BY <1>3, <1>6, <1>7, <2>1, <2>2, HostPortPlanReads
    <2> QED
      BY <1>3, <1>6, <2>3, Zenon DEF own, r
  <1>10. CASE f = FullCredentials /\ own.kind = "strictFullCredentials"
    <2>1. r = parseStrictFullCredentials(input)
      BY <1>1, <1>10
    <2>2. CredentialsLinks(parser.plan)
      <3>1. CredentialsLinks(Linked(Operations(f)))
        BY <1>4, <1>10, CredentialsAreLinked, Zenon
      <3> QED
        BY <1>3, <1>6, <3>1, Zenon
    <2>3. parseGeneric(parser, input, ZeroProxy, "scalar") = r
      BY <1>3, <1>6, <1>7, <2>1, <2>2, CredentialsPlanReads
    <2> QED
      BY <1>3, <1>6, <2>3, Zenon DEF own, r
  <1> QED
    BY <1>5, <1>8, <1>9, <1>10

\* So the lenient parser of a format reads what the strict one accepts.
LEMMA LenientCall ==
    ASSUME NEW f \in Formats, NEW input \in Text, HasHost(New(f, FALSE).plan),
           ParseInto(New(f, TRUE), input, ZeroProxy, "scalar").err = NoError
    PROVE  ParseInto(New(f, FALSE), input, ZeroProxy, "scalar")
             = ParseInto(New(f, TRUE), input, ZeroProxy, "scalar")
  <1> DEFINE lenient == New(f, FALSE)
             plan == Linked(Operations(f))
             r == ParseInto(New(f, TRUE), input, ZeroProxy, "scalar")
  <1>1. /\ lenient.strict = FALSE /\ lenient.kind = "generic" /\ lenient.plan = plan
        /\ lenient.hasScheme = (\E k \in DOMAIN lenient.plan : lenient.plan[k].field = "t")
    BY ParsersMade, KindsOfParsers
  <1>2. ParseInto(lenient, input, ZeroProxy, "scalar")
          = parseGeneric(lenient, input, ZeroProxy, "scalar")
    BY <1>1, Zenon DEF ParseInto
  <1>3. PICK parser : /\ parser.plan = plan /\ parser.strict
                      /\ parseGeneric(parser, input, ZeroProxy, "scalar") = r
    BY PlansRead, Zenon
  <1>4. plan \in Seq(Operated)
    BY <1>1, ParsersAreTyped
  <1>5. IsLinked(plan)
    <2>1. f \in Text
      BY TextsAssumption
    <2>2. Operations(f) \in Seq(Operated)
      BY <2>1, PlansAreTyped
    <2> QED
      BY <2>2, LinkedIsLinked, Zenon
  <1> HIDE DEF lenient, plan, r
  <1>6. /\ lenient.hasScheme = (\E k \in DOMAIN parser.plan : parser.plan[k].field = "t")
        /\ lenient.plan = parser.plan /\ ~ lenient.strict
        /\ parser.plan \in Seq(Operated) /\ IsLinked(parser.plan)
    BY <1>1, <1>3, <1>4, <1>5
  <1>7. HasHost(parser.plan)
    BY <1>1, <1>3 DEF lenient
  <1>8. parseGeneric(parser, input, ZeroProxy, "scalar").err = NoError
    BY <1>3 DEF r
  <1>9. parseGeneric(lenient, input, ZeroProxy, "scalar")
          = parseGeneric(parser, input, ZeroProxy, "scalar")
    BY <1>3, <1>6, <1>7, <1>8, LenientReads, Zenon
  <1> QED
    BY <1>2, <1>3, <1>9 DEF lenient, r

\* What a call reads stays as it was: the line is no longer damaged once it has
\* been parsed, so its results are what the parsers make of it now.
LineInv ==
    /\ intact \in BOOLEAN
    /\ intact => Called = {}
    /\ \A name \in Called \cap {"strict", "lenient"} :
         results[name]["scalar"] = ParseInto(parsers[name], line, ZeroProxy, "scalar")

\* It holds before the first call,
LEMMA LineStarts == Init => LineInv
  <1> SUFFICES ASSUME Init
               PROVE  LineInv
    OBVIOUS
  <1>1. Called = {} /\ intact = TRUE
    BY DEF Init, Called
  <1> QED
    BY <1>1, Zenon DEF LineInv

\* after a call,
LEMMA LineCalled ==
    ASSUME LineInv, NEW name, NEW parser, NEW input, Call(name, parser, input),
           name \in {"strict", "lenient"} => parser = parsers[name] /\ input = line
    PROVE  LineInv'
  <1> DEFINE To(t) == ParseInto(parser, input, IF t = "scalar" THEN ZeroProxy ELSE proxy, t)
             r == [t \in Tiers |-> To(t)]
  <1>1. /\ results' = [n \in Called \cup {name} |-> IF n = name THEN r ELSE results[n]]
        /\ line' = line /\ parsers' = parsers /\ intact' = FALSE
    BY Zenon DEF Call
  <1>2. r["scalar"] = ParseInto(parser, input, ZeroProxy, "scalar")
    <2>1. "scalar" \in Tiers
      BY DEF Tiers
    <2>2. r["scalar"] = To("scalar")
      BY <2>1, Zenon
    <2> QED
      BY <2>2, Zenon
  <1> HIDE DEF r
  <1>3. Called' = Called \cup {name}
    BY <1>1 DEF Called
  <1>4. ASSUME NEW n \in Called', n \in {"strict", "lenient"}
        PROVE  results'[n]["scalar"] = ParseInto(parsers'[n], line', ZeroProxy, "scalar")
    <2>1. CASE n = name
      <3>1. results'[n] = r /\ parser = parsers[n] /\ input = line
        BY <1>1, <1>3, <1>4, <2>1
      <3> QED
        BY <1>1, <1>2, <3>1
    <2>2. CASE n # name
      <3>1. n \in Called /\ results'[n] = results[n]
        BY <1>1, <1>3, <2>2
      <3>2. results[n]["scalar"] = ParseInto(parsers[n], line, ZeroProxy, "scalar")
        BY <1>4, <3>1 DEF LineInv
      <3> QED
        BY <1>1, <3>1, <3>2
    <2> QED
      BY <2>1, <2>2
  <1>5. intact' \in BOOLEAN /\ (intact' => Called' = {})
    BY <1>1
  <1>6. \A n \in Called' \cap {"strict", "lenient"} :
           results'[n]["scalar"] = ParseInto(parsers'[n], line', ZeroProxy, "scalar")
    BY <1>4
  <1> QED
    BY <1>5, <1>6, Zenon DEF LineInv

\* and every step of the caller keeps it.
LEMMA LineSteps == LineInv /\ [Next]_vars => LineInv'
  <1> SUFFICES ASSUME LineInv, [Next]_vars
               PROVE  LineInv'
    OBVIOUS
  <1>1. ASSUME MayDamage, Damaged
        PROVE  LineInv'
    <2>1. Called = {} /\ intact' = FALSE /\ results' = results
      BY <1>1 DEF LineInv, MayDamage, Damaged
    <2>2. Called' = {}
      BY <2>1 DEF Called
    <2>3. intact' \in BOOLEAN /\ (intact' => Called' = {})
      BY <2>1
    <2> QED
      BY <2>2, <2>3, Zenon DEF LineInv
  <1>2. CASE InsertSymbol \/ DropSymbol \/ ReplaceSymbol
    BY <1>1, <1>2, Zenon DEF InsertSymbol, DropSymbol, ReplaceSymbol
  <1>3. CASE ParseLine
    <2>1. PICK name \in {"strict", "lenient"} : Call(name, parsers[name], line)
      BY <1>3, Zenon DEF ParseLine
    <2> QED
      BY <2>1, LineCalled, Zenon
  <1>4. CASE Write
    <2>1. intact' = FALSE /\ UNCHANGED <<line, parsers, results>>
      BY <1>4 DEF Write
    <2>2. Called' = Called
      BY <2>1 DEF Called
    <2>3. intact' \in BOOLEAN /\ (intact' => Called' = {})
      BY <2>1
    <2> QED
      BY <2>1, <2>2, <2>3, Zenon DEF LineInv
  <1>5. CASE ParseWritten
    <2>1. "written" \notin {"strict", "lenient"}
      OBVIOUS
    <2>2. Call("written", parsers.strict, Written(said))
      BY <1>5, Zenon DEF ParseWritten
    <2> QED
      BY <2>1, <2>2, LineCalled, Zenon
  <1>6. CASE UNCHANGED vars
    <2>1. intact' = intact /\ UNCHANGED <<line, parsers, results>>
      BY <1>6 DEF vars
    <2>2. Called' = Called
      BY <2>1 DEF Called
    <2> QED
      BY <2>1, <2>2, Zenon DEF LineInv
  <1> QED
    BY <1>2, <1>3, <1>4, <1>5, <1>6, Zenon DEF Next

\* What the strict parser of a format with a host accepts, its lenient one reads
\* as the same proxy, however the line was damaged: no delimiter, no bracket and
\* no '@' leads the lenient one astray.  A format that takes the host and the
\* port with one %d has a strict parser only, the lenient one wants an %h.  It is
\* about New, parseGeneric and the two strict parsers of proxyparser.go.
THEOREM LenientReadsAlike == Spec => [](HasHost(parsers.lenient.plan) => LenientExtendsStrict)
  <1>1. ParserInv /\ LineInv => (HasHost(parsers.lenient.plan) => LenientExtendsStrict)
    <2> SUFFICES ASSUME ParserInv, LineInv, HasHost(parsers.lenient.plan),
                        Accepted("strict"), "lenient" \in Called
                 PROVE  /\ Accepted("lenient")
                        /\ Fields(results["lenient"]["scalar"].proxy)
                             = Fields(results["strict"]["scalar"].proxy)
      BY DEF LenientExtendsStrict
    <2>1. PICK f \in Formats : parsers = [strict |-> New(f, TRUE), lenient |-> New(f, FALSE)]
      BY DEF ParserInv
    <2>2. line \in Text
      BY DEF ParserInv
    <2>3. parsers["strict"] = New(f, TRUE) /\ parsers["lenient"] = New(f, FALSE)
      BY <2>1
    <2>4. "strict" \in Called /\ results["strict"]["scalar"].err = NoError
      BY DEF Accepted
    <2>5. /\ results["strict"]["scalar"] = ParseInto(New(f, TRUE), line, ZeroProxy, "scalar")
          /\ results["lenient"]["scalar"] = ParseInto(New(f, FALSE), line, ZeroProxy, "scalar")
      BY <2>3, <2>4 DEF LineInv
    <2>6. results["lenient"]["scalar"] = results["strict"]["scalar"]
      <3>1. HasHost(New(f, FALSE).plan)
        BY <2>3
      <3>2. ParseInto(New(f, TRUE), line, ZeroProxy, "scalar").err = NoError
        BY <2>4, <2>5, Zenon
      <3>3. ParseInto(New(f, FALSE), line, ZeroProxy, "scalar")
              = ParseInto(New(f, TRUE), line, ZeroProxy, "scalar")
        BY <2>2, <3>1, <3>2, LenientCall, Zenon
      <3> QED
        BY <2>5, <3>3, Zenon
    <2> QED
      BY <2>4, <2>6, Zenon DEF Accepted
  <1> QED
    BY <1>1, CallerStarts, CallerSteps, LineStarts, LineSteps, PTL DEF Spec

-----------------------------------------------------------------------------
(* What a strict parser accepts, written out.                              *)

\* A symbol once its case is folded.
Fold(c) == IF c \in DOMAIN Folded THEN Folded[c] ELSE c

\* The text w is what lies in s between two offsets, but for the case of schemes.
Matches(w, s, from, to) ==
    /\ w \in Text /\ Len(w) = to - from
    /\ \A i \in 1 .. to - from : Fold(w[i]) = Fold(s[from + i])

\* What is cut out matches,
LEMMA CutMatches ==
    ASSUME NEW s \in Text, NEW from \in Nat, NEW to \in Nat, from <= to, to <= Len(s)
    PROVE  Matches(Slice(s, from, to), s, from, to)
  BY SliceIsText, Zenon DEF Matches

\* and two texts do that match one behind the other.
LEMMA BothMatch ==
    ASSUME NEW s, NEW m \in Nat, NEW k \in Nat, m <= k,
           NEW t, Matches(t, s, 0, m), NEW w, Matches(w, s, m, k)
    PROVE  Matches(t \o w, s, 0, k)
  <1> DEFINE tw == t \o w
  <1>1. /\ t \in Text /\ Len(t) = m /\ \A i \in 1 .. m : Fold(t[i]) = Fold(s[i])
    <2>1. m - 0 = m /\ \A i \in 1 .. m : 0 + i = i
      OBVIOUS
    <2> QED
      BY <2>1 DEF Matches
  <1>2. w \in Text /\ Len(w) = k - m /\ \A i \in 1 .. k - m : Fold(w[i]) = Fold(s[m + i])
    BY DEF Matches
  <1>3. /\ tw \in Text /\ Len(tw) = Len(t) + Len(w)
        /\ \A i \in 1 .. Len(tw) : tw[i] = IF i <= Len(t) THEN t[i] ELSE w[i - Len(t)]
    BY <1>1, <1>2, ConcatProperties DEF Text
  <1> HIDE DEF tw
  <1>4. Len(tw) = k /\ k - 0 = k
    BY <1>1, <1>2, <1>3
  <1>5. ASSUME NEW i \in 1 .. k
        PROVE  Fold(tw[i]) = Fold(s[i])
    <2>1. CASE i <= m
      <3>1. i \in 1 .. m
        BY <2>1
      <3>2. tw[i] = t[i]
        BY <1>1, <1>3, <1>4, <2>1
      <3> QED
        BY <1>1, <3>1, <3>2
    <2>2. CASE ~ (i <= m)
      <3> DEFINE j == i - m
      <3>1. j \in 1 .. k - m /\ m + j = i
        BY <2>2
      <3>2. tw[i] = w[j]
        BY <1>1, <1>3, <1>4, <2>2
      <3> HIDE DEF j
      <3> QED
        BY <1>2, <3>1, <3>2
    <2> QED
      BY <2>1, <2>2
  <1>6. \A i \in 1 .. k : 0 + i = i
    OBVIOUS
  <1> QED
    BY <1>3, <1>4, <1>5, <1>6 DEF Matches, tw

\* Texts that match one behind the other match when they are put together.
LEMMA PiecesMatch ==
    ASSUME NEW s, NEW n \in Nat, NEW seqs \in Seq(Text), Len(seqs) = n + 1,
           NEW stop \in [0 .. n + 1 -> Nat], stop[0] = 0,
           \A k \in 1 .. n + 1 :
             stop[k - 1] <= stop[k] /\ Matches(seqs[k], s, stop[k - 1], stop[k])
    PROVE  Matches(FlattenSeq(seqs), s, 0, stop[n + 1])
  <1>1. PICK h \in [0 .. n -> Text] :
             /\ h[0] = seqs[1] /\ \A i \in 1 .. n : h[i] = h[i - 1] \o seqs[i + 1]
             /\ FlattenSeq(seqs) = h[n]
    BY FlatRuns
  <1> DEFINE P == { i \in 0 .. n : Matches(h[i], s, 0, stop[i + 1]) }
  <1>2. 0 \in P
    <2>1. 0 \in 0 .. n /\ 0 + 1 = 1 /\ 1 \in 1 .. n + 1 /\ 1 - 1 = 0
      OBVIOUS
    <2>2. Matches(seqs[1], s, stop[0], stop[1])
      BY <2>1
    <2> QED
      BY <1>1, <2>1, <2>2
  <1>3. ASSUME NEW i \in 0 .. n - 1, i \in P
        PROVE  i + 1 \in P
    <2> DEFINE k == i + 2
    <2>1. /\ k \in 1 .. n + 1 /\ k - 1 = i + 1 /\ i + 1 \in 1 .. n /\ (i + 1) - 1 = i
          /\ (i + 1) + 1 = k /\ i + 1 \in 0 .. n /\ i + 1 \in 0 .. n + 1 /\ k \in 0 .. n + 1
      OBVIOUS
    <2> HIDE DEF k
    <2>2. h[i + 1] = h[i] \o seqs[k]
      BY <1>1, <2>1
    <2>3. Matches(h[i], s, 0, stop[i + 1])
      BY <1>3
    <2>4. stop[i + 1] <= stop[k] /\ Matches(seqs[k], s, stop[i + 1], stop[k])
      BY <2>1
    <2>5. stop[i + 1] \in Nat /\ stop[k] \in Nat
      BY <2>1
    <2>6. Matches(h[i] \o seqs[k], s, 0, stop[k])
      BY <2>3, <2>4, <2>5, BothMatch
    <2> QED
      BY <2>1, <2>2, <2>6
  <1> HIDE DEF P
  <1>4. n \in P
    <2>1. 0 \in Nat /\ n \in 0 .. n
      OBVIOUS
    <2> QED
      BY <1>2, <1>3, <2>1, HoldsUpTo
  <1> QED
    BY <1>1, <1>4 DEF P

\* Where in the input the text of the k-th operation ends.
Stop(parser, input, a, k) ==
    IF k = 0 THEN 0
    ELSE IF parser.plan[k].field = "none" THEN a[k].pos
    ELSE CaptureEnd(input, parser.plan[k], a[k - 1].pos)

\* That text.
Cut(parser, input, a, k) ==
    Slice(input, Stop(parser, input, a, k - 1), Stop(parser, input, a, k))

\* An operation that has its turn begins where the text of the last one ended.
LEMMA TurnsBeginAtStop ==
    ASSUME NEW input \in Text, NEW parser, parser.plan \in Seq(Operated), parser.strict,
           IsLinked(parser.plan),
           NEW a, Course(parser, input, a), a[Len(parser.plan)].err = NoError,
           NEW k \in 1 .. Len(parser.plan), a[k - 1].next = k
    PROVE  a[k - 1].pos = Stop(parser, input, a, k - 1)
  <1> DEFINE n == Len(parser.plan)
             i == k - 1
             op == parser.plan[i]
             st == a[i - 1]
             end == CaptureEnd(input, op, st.pos)
  <1>1. \A j \in 1 .. n : InTurn(parser, input, a, j)
    BY StrictCourse
  <1>2. CASE i = 0
    <2>1. a[0] = Locals(ZeroProxy)
      BY StrictBegins
    <2>2. Locals(ZeroProxy).pos = 0
      BY DEF Locals
    <2> QED
      BY <1>2, <2>1, <2>2 DEF Stop
  <1>3. CASE i # 0 /\ op.field = "none"
    BY <1>3, Zenon DEF Stop
  <1>4. CASE i # 0 /\ op.field # "none"
    <2>1. i \in 1 .. n /\ i - 1 \in 0 .. n /\ i + 1 = k
      BY <1>4
    <2>2. Stop(parser, input, a, i) = end
      BY <1>4, Zenon DEF Stop
    <2>3. st \in LocalState
      BY <2>1 DEF Course, Cursors
    <2> HIDE DEF i
    <2>4. st.next = i /\ Turn(parser, input, st, i, a[i])
      BY <1>1, <1>4, <2>1, CapturesHaveTurns
    <2>5. a[i] = TakeField(input, st, op, end)
      BY <1>4, <2>4, Zenon DEF Turn
    <2>6. MovedOn(st, op, end, a[i])
      BY <2>3, <2>5, TakeFieldDoes, Zenon
    <2>7. a[i].next = k
      BY DEF i
    <2>8. op.consume = FALSE
      <3>1. op.consume \in BOOLEAN
        BY <2>1, OperationFields
      <3>2. a[i].next = i + (IF op.consume THEN 2 ELSE 1)
        BY <2>4, <2>6 DEF MovedOn
      <3> HIDE DEF op, st
      <3>3. op.consume => k = i + 2
        BY <2>7, <3>2
      <3> QED
        BY <2>1, <3>1, <3>3
    <2>9. end \in Nat
      BY <1>4, <2>4, Zenon DEF Turn
    <2>10. a[i].pos = end
      <3>1. a[i].pos = end + (IF op.consume THEN Len(op.delim) ELSE 0)
        BY <2>6, Zenon DEF MovedOn
      <3> HIDE DEF op, end
      <3> QED
        BY <2>8, <2>9, <3>1
    <2> QED
      BY <2>2, <2>10 DEF i
  <1> QED
    BY <1>2, <1>3, <1>4

\* The text of a delimiter is the delimiter, and that of a field is cut out.
Piece(parser, input, a, k) ==
    LET from == Stop(parser, input, a, k - 1)
        to == Stop(parser, input, a, k)
    IN  /\ from \in Nat /\ to \in Nat /\ from <= to /\ to <= Len(input)
        /\ parser.plan[k].field = "none" => Slice(input, from, to) = parser.plan[k].delim
        /\ parser.plan[k].field # "none" =>
             a[k - 1].next = k /\ a[k - 1].pos = from /\ Turn(parser, input, a[k - 1], k, a[k])

\* Every operation has a piece of the input to itself.
LEMMA PiecesLie ==
    ASSUME NEW input \in Text, NEW parser, parser.plan \in Seq(Operated), parser.strict,
           IsLinked(parser.plan),
           NEW a, Course(parser, input, a), a[Len(parser.plan)].err = NoError,
           NEW k \in 1 .. Len(parser.plan)
    PROVE  Piece(parser, input, a, k)
  <1> DEFINE n == Len(parser.plan)
             op == parser.plan[k]
             st == a[k - 1]
             from == Stop(parser, input, a, k - 1)
             to == Stop(parser, input, a, k)
  <1>1. \A j \in 1 .. n : InTurn(parser, input, a, j)
    BY StrictCourse
  <1>2. st \in Cursors(input) /\ st.pos \in Nat /\ op \in Operated
    <2>1. k - 1 \in 0 .. n
      OBVIOUS
    <2>2. st \in Cursors(input)
      BY <2>1 DEF Course
    <2> QED
      BY <2>2, CursorsHold
  <1>3. k # 0
    OBVIOUS
  <1>4. st.next = k => st.pos = from
    BY TurnsBeginAtStop
  <1>5. CASE op.field # "none"
    <2>1. st.next = k /\ Turn(parser, input, st, k, a[k])
      BY <1>1, <1>5, CapturesHaveTurns
    <2>2. to = CaptureEnd(input, op, st.pos)
      BY <1>3, <1>5, Zenon DEF Stop
    <2>3. to \in Nat /\ st.pos <= to /\ to <= Len(input)
      BY <1>5, <2>1, <2>2, Zenon DEF Turn
    <2> HIDE DEF to, from
    <2> QED
      BY <1>2, <1>4, <1>5, <2>1, <2>3 DEF Piece, to, from
  <1>6. CASE op.field = "none" /\ st.next = k
    <2>1. Turn(parser, input, st, k, a[k])
      <3>1. k # k + 1
        OBVIOUS
      <3> QED
        BY <1>1, <1>6, <3>1, Zenon DEF InTurn
    <2>2. to = a[k].pos
      BY <1>3, <1>6, Zenon DEF Stop
    <2> DEFINE end == st.pos + Len(op.delim)
    <2>3. /\ end \in Nat /\ st.pos <= end /\ end <= Len(input)
          /\ Slice(input, st.pos, end) = op.delim
          /\ a[k] = [st EXCEPT !.next = @ + 1, !.pos = end]
      BY <1>6, <2>1, Zenon DEF Turn
    <2> HIDE DEF end
    <2>4. a[k].pos = end
      BY <1>2, <2>3 DEF Cursors, LocalState
    <2> HIDE DEF to, from
    <2> QED
      BY <1>2, <1>4, <1>6, <2>2, <2>3, <2>4 DEF Piece, to, from
  <1>7. CASE op.field = "none" /\ st.next # k
    <2> DEFINE i == k - 1
               field == parser.plan[i]
               before == a[i - 1]
               end == CaptureEnd(input, field, before.pos)
    <2>1. /\ a[k] = st /\ i \in 1 .. n
          /\ Turn(parser, input, before, i, st)
          /\ field.field # "none" /\ field.consume = TRUE
      BY <1>1, <1>7, Zenon DEF InTurn
    <2>2. from = end
      <3>1. i # 0
        BY <2>1
      <3> QED
        BY <2>1, <3>1, Zenon DEF Stop
    <2>3. to = a[k].pos
      BY <1>3, <1>7, Zenon DEF Stop
    <2>4. /\ end \in Nat /\ before.pos <= end /\ end <= Len(input)
          /\ st = TakeField(input, before, field, end)
          /\ field.delim # <<>> =>
                /\ end + Len(field.delim) <= Len(input)
                /\ Slice(input, end, end + Len(field.delim)) = field.delim
      BY <2>1, Zenon DEF Turn
    <2>5. before \in LocalState
      <3>1. i - 1 \in 0 .. n
        BY <2>1
      <3> QED
        BY <3>1 DEF Course, Cursors
    <2>6. field.delim = op.delim
      <3>1. \/ \E m \in i + 1 .. n :
                 /\ parser.plan[m].field = "none"
                 /\ field.delim = parser.plan[m].delim /\ field.consume = (m = i + 1)
            \/ field.consume = FALSE
        BY <2>1, Zenon DEF IsLinked
      <3>2. i + 1 = k
        OBVIOUS
      <3> QED
        BY <2>1, <3>1, <3>2
    <2>7. st.pos = end + Len(field.delim)
      <3>1. MovedOn(before, field, end, st)
        BY <2>4, <2>5, TakeFieldDoes, Zenon
      <3> QED
        BY <2>1, <3>1, Zenon DEF MovedOn
    <2>8. Len(field.delim) \in Nat /\ field.delim \in Text /\ Len(<<>>) = 0
      BY <1>2, <2>6, OperationFields DEF Text
    <2>9. Slice(input, end, end + 0) = <<>>
      BY <2>4 DEF Slice
    <2> HIDE DEF to, from, end, field, before, i
    <2>10. Slice(input, end, st.pos) = op.delim /\ st.pos <= Len(input) /\ end <= st.pos
      <3>1. CASE field.delim = <<>>
        BY <2>4, <2>6, <2>7, <2>8, <2>9, <3>1
      <3>2. CASE field.delim # <<>>
        BY <2>4, <2>6, <2>7, <2>8, <3>2
      <3> QED
        BY <3>1, <3>2
    <2> QED
      BY <1>2, <1>7, <2>1, <2>2, <2>3, <2>4, <2>10 DEF Piece, to, from
  <1> QED
    BY <1>5, <1>6, <1>7

\* A strict parser that leaves no text behind stops at the end of the input.
LEMMA StopsAtEnd ==
    ASSUME NEW input \in Text, NEW parser, parser.plan \in Seq(Operated), parser.strict,
           IsLinked(parser.plan),
           NEW a, Course(parser, input, a), a[Len(parser.plan)].err = NoError,
           Len(parser.plan) # 0, ~ (a[Len(parser.plan)].pos < Len(input))
    PROVE  Stop(parser, input, a, Len(parser.plan)) = Len(input)
  <1> DEFINE n == Len(parser.plan)
             op == parser.plan[n]
  <1>1. n \in 1 .. n /\ n \in Nat /\ n # 0 /\ Len(input) \in Nat
    BY DEF Text
  <1>2. Piece(parser, input, a, n)
    BY <1>1, PiecesLie
  <1>3. CASE op.field = "none"
    <2> DEFINE to == Stop(parser, input, a, n)
    <2>1. to = a[n].pos
      BY <1>1, <1>3, Zenon DEF Stop
    <2>2. to \in Nat /\ to <= Len(input)
      BY <1>2, Zenon DEF Piece
    <2> HIDE DEF to
    <2> QED
      BY <1>1, <2>1, <2>2 DEF to
  <1>4. CASE op.field # "none"
    <2>1. \/ \E m \in n + 1 .. n : op.delim = parser.plan[m].delim
          \/ op.delim = <<>>
      BY <1>1, <1>4, Zenon DEF IsLinked
    <2>2. ~ \E m \in n + 1 .. n : TRUE
      BY <1>1
    <2>3. op.delim = <<>>
      BY <2>1, <2>2
    <2> QED
      BY <1>1, <1>4, <2>3, Zenon DEF Stop, CaptureEnd
  <1> QED
    BY <1>3, <1>4

\* The fields that a parser cuts out as they are.
TextFields == {"t", "u", "p"}

\* What is written for them.
LEMMA TextsWritten ==
    ASSUME NEW p
    PROVE  /\ FieldText(p, "t") = p.scheme
           /\ FieldText(p, "u") = p.username
           /\ FieldText(p, "p") = p.password
  BY Zenon DEF FieldText

\* A field stays as it is while another one is read.
LEMMA TextStays ==
    ASSUME NEW input \in Text, NEW st \in Cursors(input), NEW parser, NEW k,
           parser.plan[k] \in Operated, NEW verb \in TextFields, parser.plan[k].field # verb,
           NEW after, Turn(parser, input, st, k, after)
    PROVE  FieldText(after.proxy, verb) = FieldText(st.proxy, verb)
  <1> DEFINE op == parser.plan[k]
             end == CaptureEnd(input, op, st.pos)
             value == Slice(input, st.pos, end)
             p == st.proxy
             Same(q) == q.scheme = p.scheme /\ q.username = p.username /\ q.password = p.password
  <1>1. IF op.field = "none" THEN OnlyMoved(st, after)
        ELSE FieldTaken(input, st, op, end, after)
    BY TurnTakes, Zenon
  <1>2. p \in Texts
    BY CursorsHold
  <1>3. op.field \in {"none", "t", "h", "d", "u", "p"}
    BY OperationFields DEF Verbs
  <1>4. \A q : Same(q) => FieldText(q, verb) = FieldText(p, verb)
    BY TextsWritten DEF TextFields
  <1>5. (\A v, at : Same(WithHost(p, v, at))) /\ (\A v, at : Same(Joined(p, v, at)))
    BY <1>2 DEF Texts, WithHost, Joined
  <1> HIDE DEF op, p, end
  <1>6. CASE op.field = "none"
    <2>1. after.proxy = p
      BY <1>1, <1>6 DEF OnlyMoved, p
    <2> QED
      BY <2>1 DEF p
  <1>7. CASE op.field \in {"h", "d"}
    <2>1. \/ \E v, at : after.proxy = WithHost(p, v, at)
          \/ \E v, at : after.proxy = Joined(p, v, at)
      BY <1>1, <1>7 DEF FieldTaken, p
    <2> HIDE DEF Same
    <2>2. Same(after.proxy)
      BY <1>5, <2>1
    <2> QED
      BY <1>4, <2>2 DEF p
  <1>8. CASE op.field \in TextFields
    <2>1. after.proxy = assignField(p, op.field, value, st.pos)
      BY <1>1, <1>8 DEF FieldTaken, p, TextFields
    <2>2. op.field # verb
      BY DEF op
    <2>3. /\ FieldText([p EXCEPT !.scheme = schemeOf(value)], "u") = FieldText(p, "u")
          /\ FieldText([p EXCEPT !.scheme = schemeOf(value)], "p") = FieldText(p, "p")
          /\ FieldText([p EXCEPT !.username = value], "t") = FieldText(p, "t")
          /\ FieldText([p EXCEPT !.username = value], "p") = FieldText(p, "p")
          /\ FieldText([p EXCEPT !.password = value], "t") = FieldText(p, "t")
          /\ FieldText([p EXCEPT !.password = value], "u") = FieldText(p, "u")
      BY <1>2, TextsWritten DEF Texts
    <2>4. /\ assignField(p, "t", value, st.pos) = [p EXCEPT !.scheme = schemeOf(value)]
          /\ assignField(p, "u", value, st.pos) = [p EXCEPT !.username = value]
          /\ assignField(p, "p", value, st.pos) = [p EXCEPT !.password = value]
      BY Assigned
    <2> HIDE DEF value
    <2> QED
      BY <1>8, <2>1, <2>2, <2>3, <2>4 DEF TextFields, p
  <1> QED
    BY <1>3, <1>6, <1>7, <1>8 DEF TextFields

\* What a field is read to.
TextOf(verb, value) == IF verb = "t" THEN schemeOf(value) ELSE value

\* A field that is read is what was cut out.
LEMMA TextIsSet ==
    ASSUME NEW input \in Text, NEW st \in Cursors(input), NEW parser, NEW k,
           NEW verb \in TextFields, parser.plan[k].field = verb,
           NEW after, Turn(parser, input, st, k, after)
    PROVE  FieldText(after.proxy, verb)
             = TextOf(verb, Slice(input, st.pos, CaptureEnd(input, parser.plan[k], st.pos)))
  <1> DEFINE op == parser.plan[k]
             end == CaptureEnd(input, op, st.pos)
             value == Slice(input, st.pos, end)
             p == st.proxy
  <1>1. IF op.field = "none" THEN OnlyMoved(st, after)
        ELSE FieldTaken(input, st, op, end, after)
    BY TurnTakes, Zenon
  <1>2. p \in Texts
    BY CursorsHold
  <1>3. after.proxy = assignField(p, op.field, value, st.pos)
    <2>1. op.field # "none" /\ op.field \notin {"h", "d"}
      BY DEF TextFields
    <2> HIDE DEF value, end, op, p
    <2> QED
      BY <1>1, <2>1 DEF FieldTaken, value, p
  <1>4. /\ FieldText([p EXCEPT !.scheme = schemeOf(value)], "t") = schemeOf(value)
        /\ FieldText([p EXCEPT !.username = value], "u") = value
        /\ FieldText([p EXCEPT !.password = value], "p") = value
    BY <1>2, TextsWritten DEF Texts
  <1>5. /\ assignField(p, "t", value, st.pos) = [p EXCEPT !.scheme = schemeOf(value)]
        /\ assignField(p, "u", value, st.pos) = [p EXCEPT !.username = value]
        /\ assignField(p, "p", value, st.pos) = [p EXCEPT !.password = value]
    BY Assigned
  <1> HIDE DEF value, p
  <1>6. op.field = verb
    OBVIOUS
  <1> HIDE DEF op
  <1>7. FieldText(after.proxy, verb) = TextOf(verb, value)
    BY <1>3, <1>4, <1>5, <1>6 DEF TextFields, TextOf
  <1> QED
    BY <1>7 DEF value, op

\* Each verb is in the plan at most once.
OncePerVerb(plan) ==
    \A j, k \in 1 .. Len(plan) :
        plan[j].field # "none" /\ plan[j].field = plan[k].field => j = k

\* A field that is read is to the end what was cut out for it.
LEMMA TextIsKept ==
    ASSUME NEW input \in Text, NEW parser, parser.plan \in Seq(Operated), parser.strict,
           IsLinked(parser.plan), OncePerVerb(parser.plan),
           NEW a, Course(parser, input, a), a[Len(parser.plan)].err = NoError,
           NEW k \in 1 .. Len(parser.plan), parser.plan[k].field \in TextFields
    PROVE  FieldText(a[Len(parser.plan)].proxy, parser.plan[k].field)
             = TextOf(parser.plan[k].field, Cut(parser, input, a, k))
  <1> DEFINE n == Len(parser.plan)
             verb == parser.plan[k].field
             value == Cut(parser, input, a, k)
             P == { i \in 0 .. n : FieldText(a[i].proxy, verb) = TextOf(verb, value) }
  <1>1. /\ n \in Nat /\ k \in 0 .. n /\ k \in Nat /\ n \in k .. n /\ k - 1 \in 0 .. n /\ k # 0
        /\ \A i \in 1 .. n : parser.plan[i] \in Operated
    <2>1. n \in Nat
      OBVIOUS
    <2> HIDE DEF n
    <2> QED
      BY <2>1, SMT DEF n
  <1>2. \A i \in 1 .. n : InTurn(parser, input, a, i)
    BY StrictCourse
  <1>3. \A i \in 0 .. n : a[i] \in Cursors(input)
    BY DEF Course
  <1>4. k \in 1 .. n /\ verb \in TextFields /\ verb # "none"
    BY DEF TextFields
  <1>5. \A i \in 1 .. n : i # k => parser.plan[i].field # verb
    BY <1>4 DEF OncePerVerb
  <1> HIDE DEF n
  <1>6. k \in P
    <2> DEFINE st == a[k - 1]
    <2>1. Piece(parser, input, a, k)
      BY PiecesLie
    <2>2. st.pos = Stop(parser, input, a, k - 1) /\ Turn(parser, input, st, k, a[k])
      BY <1>4, <2>1, Zenon DEF Piece
    <2>3. Stop(parser, input, a, k) = CaptureEnd(input, parser.plan[k], st.pos)
      BY <1>1, <1>4, Zenon DEF Stop
    <2>4. st \in Cursors(input)
      BY <1>1, <1>3
    <2> HIDE DEF st
    <2>5. FieldText(a[k].proxy, verb)
            = TextOf(verb, Slice(input, st.pos, CaptureEnd(input, parser.plan[k], st.pos)))
      <3>1. verb \in TextFields /\ parser.plan[k].field = verb
        BY <1>4
      <3> HIDE DEF verb
      <3> QED
        BY <2>2, <2>4, <3>1, TextIsSet
    <2> QED
      BY <1>1, <2>2, <2>3, <2>5 DEF Cut
  <1> HIDE DEF value
  <1>7. ASSUME NEW i \in k .. n - 1, i \in P
        PROVE  i + 1 \in P
    <2> DEFINE st == a[i]
               r == a[i + 1]
               j == i + 1
    <2>1. j \in 1 .. n /\ j - 1 = i /\ j \in 0 .. n /\ i \in 0 .. n /\ j # k
      BY <1>1, SMT
    <2>2. (st.next = j /\ Turn(parser, input, st, j, r)) \/ r = st
      BY <1>2, <2>1 DEF InTurn
    <2>3. st \in Cursors(input) /\ parser.plan[j] \in Operated /\ parser.plan[j].field # verb
      BY <1>1, <1>3, <1>5, <2>1
    <2>4. FieldText(st.proxy, verb) = TextOf(verb, value)
      BY <1>7
    <2> HIDE DEF st, r, j, verb
    <2>5. FieldText(r.proxy, verb) = TextOf(verb, value)
      <3>1. CASE Turn(parser, input, st, j, r)
        <4>1. FieldText(r.proxy, verb) = FieldText(st.proxy, verb)
          BY <1>4, <2>3, <3>1, TextStays
        <4> QED
          BY <2>4, <4>1
      <3> QED
        BY <2>2, <2>4, <3>1
    <2> QED
      BY <2>1, <2>5 DEF r, j
  <1> HIDE DEF P
  <1>8. n \in P
    BY <1>1, <1>6, <1>7, HoldsUpTo
  <1> QED
    BY <1>8 DEF P, n, value

\* What a strict parser remembers of an empty host or port.
WasEmpty(st, verb) == (IF verb = "h" THEN st.emptyHost ELSE st.emptyPort) = TRUE

\* An empty host or port is remembered.
LEMMA EmptyIsRemembered ==
    ASSUME NEW input \in Text, NEW st \in Cursors(input), NEW parser, NEW k,
           NEW verb \in {"h", "d"},
           \/ WasEmpty(st, verb)
           \/ /\ parser.plan[k].field = verb
              /\ Slice(input, st.pos, CaptureEnd(input, parser.plan[k], st.pos)) = <<>>,
           NEW after, Turn(parser, input, st, k, after)
    PROVE  WasEmpty(after, verb)
  <1> DEFINE op == parser.plan[k]
             end == CaptureEnd(input, op, st.pos)
             value == Slice(input, st.pos, end)
  <1>1. IF op.field = "none" THEN OnlyMoved(st, after)
        ELSE FieldTaken(input, st, op, end, after)
    BY TurnTakes, Zenon
  <1>2. WasEmpty(st, verb) \/ (op.field = verb /\ value = <<>>)
    OBVIOUS
  <1> HIDE DEF op, end
  <1>3. CASE op.field = "none"
    BY <1>1, <1>2, <1>3 DEF OnlyMoved, WasEmpty
  <1>4. CASE op.field # "none"
    <2>1. /\ op.field = "h" =>
               /\ after.emptyHost = (st.emptyHost \/ value = <<>>)
               /\ after.emptyPort = st.emptyPort
          /\ op.field = "d" => after.emptyPort = (st.emptyPort \/ value = <<>>)
          /\ op.field \notin {"h", "d"} => after.emptyPort = st.emptyPort
          /\ op.field # "h" => after.emptyHost = st.emptyHost
      BY <1>1, <1>4, Zenon DEF FieldTaken
    <2> HIDE DEF value
    <2> QED
      BY <1>2, <2>1 DEF WasEmpty
  <1> QED
    BY <1>3, <1>4

\* So a strict parser that has neither met none.
LEMMA NothingWasEmpty ==
    ASSUME NEW input \in Text, NEW parser, parser.plan \in Seq(Operated), parser.strict,
           IsLinked(parser.plan),
           NEW a, Course(parser, input, a), a[Len(parser.plan)].err = NoError,
           NEW k \in 1 .. Len(parser.plan), parser.plan[k].field \in {"h", "d"},
           ~ WasEmpty(a[Len(parser.plan)], parser.plan[k].field)
    PROVE  Cut(parser, input, a, k) # <<>>
  <1> DEFINE n == Len(parser.plan)
             verb == parser.plan[k].field
             value == Cut(parser, input, a, k)
             P == { i \in 0 .. n : WasEmpty(a[i], verb) }
  <1> SUFFICES ASSUME value = <<>>
               PROVE  FALSE
    OBVIOUS
  <1>1. /\ n \in Nat /\ k \in 0 .. n /\ k \in Nat /\ n \in k .. n /\ k - 1 \in 0 .. n /\ k # 0
    <2>1. n \in Nat
      OBVIOUS
    <2> HIDE DEF n
    <2> QED
      BY <2>1, SMT DEF n
  <1>2. \A i \in 1 .. n : InTurn(parser, input, a, i)
    BY StrictCourse
  <1>3. \A i \in 0 .. n : a[i] \in Cursors(input)
    BY DEF Course
  <1>4. k \in 1 .. n /\ verb \in {"h", "d"} /\ verb # "none"
    OBVIOUS
  <1>5. ~ WasEmpty(a[n], verb)
    OBVIOUS
  <1> HIDE DEF n
  <1>6. k \in P
    <2> DEFINE st == a[k - 1]
    <2>1. Piece(parser, input, a, k)
      BY PiecesLie
    <2>2. st.pos = Stop(parser, input, a, k - 1) /\ Turn(parser, input, st, k, a[k])
      BY <1>4, <2>1, Zenon DEF Piece
    <2>3. Stop(parser, input, a, k) = CaptureEnd(input, parser.plan[k], st.pos)
      BY <1>1, <1>4, Zenon DEF Stop
    <2>4. st \in Cursors(input)
      BY <1>1, <1>3
    <2>5. Slice(input, st.pos, CaptureEnd(input, parser.plan[k], st.pos)) = <<>>
      BY <2>2, <2>3 DEF Cut
    <2> HIDE DEF st
    <2>6. WasEmpty(a[k], verb)
      BY <1>4, <2>2, <2>4, <2>5, EmptyIsRemembered
    <2> QED
      BY <1>1, <2>6
  <1> HIDE DEF value
  <1>7. ASSUME NEW i \in k .. n - 1, i \in P
        PROVE  i + 1 \in P
    <2> DEFINE st == a[i]
               r == a[i + 1]
               j == i + 1
    <2>1. j \in 1 .. n /\ j - 1 = i /\ j \in 0 .. n /\ i \in 0 .. n
      BY <1>1, SMT
    <2>2. (st.next = j /\ Turn(parser, input, st, j, r)) \/ r = st
      BY <1>2, <2>1 DEF InTurn
    <2>3. st \in Cursors(input) /\ WasEmpty(st, verb)
      BY <1>3, <1>7, <2>1
    <2> HIDE DEF st, r, j, verb
    <2>4. WasEmpty(r, verb)
      <3>1. CASE Turn(parser, input, st, j, r)
        BY <1>4, <2>3, <3>1, EmptyIsRemembered, Zenon
      <3> QED
        BY <2>2, <2>3, <3>1
    <2> QED
      BY <2>1, <2>4 DEF r, j
  <1> HIDE DEF P
  <1>8. n \in P
    BY <1>1, <1>6, <1>7, HoldsUpTo
  <1> QED
    BY <1>5, <1>8 DEF P

\* A host that lies between two offsets of the input
HostAt(st, host, from, to) ==
    st.proxy.host = host /\ st.hostStart = from /\ st.hostEnd = to

\* stays while another field is read.
LEMMA HostStays ==
    ASSUME NEW input \in Text, NEW st \in Cursors(input), NEW parser, NEW k,
           parser.plan[k] \in Operated, parser.plan[k].field \notin {"h", "d"},
           NEW after, Turn(parser, input, st, k, after)
    PROVE  HostAt(after, st.proxy.host, st.hostStart, st.hostEnd)
  <1> DEFINE op == parser.plan[k]
             end == CaptureEnd(input, op, st.pos)
             value == Slice(input, st.pos, end)
             p == st.proxy
  <1>1. IF op.field = "none" THEN OnlyMoved(st, after)
        ELSE FieldTaken(input, st, op, end, after)
    BY TurnTakes, Zenon
  <1>2. p \in Texts
    BY CursorsHold
  <1>3. op.field \in {"none", "t", "u", "p"}
    BY OperationFields DEF Verbs
  <1>4. /\ assignField(p, "t", value, st.pos).host = p.host
        /\ assignField(p, "u", value, st.pos).host = p.host
        /\ assignField(p, "p", value, st.pos).host = p.host
    <2>1. \A v : /\ [p EXCEPT !.scheme = v].host = p.host
                 /\ [p EXCEPT !.username = v].host = p.host
                 /\ [p EXCEPT !.password = v].host = p.host
      BY <1>2 DEF Texts
    <2>2. /\ assignField(p, "t", value, st.pos) = [p EXCEPT !.scheme = schemeOf(value)]
          /\ assignField(p, "u", value, st.pos) = [p EXCEPT !.username = value]
          /\ assignField(p, "p", value, st.pos) = [p EXCEPT !.password = value]
      BY Assigned
    <2> HIDE DEF p, value
    <2> QED
      BY <2>1, <2>2
  <1> HIDE DEF op, p, end, value
  <1>5. CASE op.field = "none"
    BY <1>1, <1>5 DEF OnlyMoved, HostAt
  <1>6. CASE op.field \in {"t", "u", "p"}
    <2>1. /\ after.proxy = assignField(p, op.field, value, st.pos)
          /\ after.hostStart = st.hostStart /\ after.hostEnd = st.hostEnd
      BY <1>1, <1>6 DEF FieldTaken, p, value
    <2> QED
      BY <1>4, <1>6, <2>1 DEF HostAt, p
  <1> QED
    BY <1>3, <1>5, <1>6

\* A host is cut out,
LEMMA HostIsSet ==
    ASSUME NEW input \in Text, NEW st \in Cursors(input), NEW parser, NEW k,
           parser.plan[k].field = "h", NEW after, Turn(parser, input, st, k, after)
    PROVE  LET end == CaptureEnd(input, parser.plan[k], st.pos)
           IN  HostAt(after, Slice(input, st.pos, end), st.pos, end)
  <1> DEFINE op == parser.plan[k]
             end == CaptureEnd(input, op, st.pos)
             value == Slice(input, st.pos, end)
             p == st.proxy
  <1>1. IF op.field = "none" THEN OnlyMoved(st, after)
        ELSE FieldTaken(input, st, op, end, after)
    BY TurnTakes, Zenon
  <1>2. p \in Texts
    BY CursorsHold
  <1>3. \A v, at : WithHost(p, v, at).host = v
    BY <1>2 DEF Texts, WithHost
  <1>4. op.field = "h"
    OBVIOUS
  <1> HIDE DEF op, p, end, value
  <1>5. after.proxy = WithHost(p, value, st.pos) /\ after.hostStart = st.pos /\ after.hostEnd = end
    BY <1>1, <1>4 DEF FieldTaken, p, value
  <1>6. HostAt(after, value, st.pos, end)
    BY <1>3, <1>5 DEF HostAt
  <1> QED
    BY <1>6 DEF value, end, op

\* and a port is put behind it.
LEMMA PortIsSet ==
    ASSUME NEW input \in Text, NEW st \in Cursors(input), NEW parser, NEW k,
           parser.plan[k].field = "d", NEW after, Turn(parser, input, st, k, after),
           NEW from \in Nat, NEW to \in Nat, from <= to, to <= st.pos,
           HostAt(st, Slice(input, from, to), from, to), Slice(input, from, to) # <<>>,
           Slice(input, st.pos, CaptureEnd(input, parser.plan[k], st.pos)) # <<>>
    PROVE  after.proxy.host
             = WithPort(Slice(input, from, to),
                        Slice(input, st.pos, CaptureEnd(input, parser.plan[k], st.pos)))
  <1> DEFINE op == parser.plan[k]
             end == CaptureEnd(input, op, st.pos)
             value == Slice(input, st.pos, end)
             host == Slice(input, from, to)
             p == st.proxy
             adjacent == st.hostStart # Absent /\ st.hostEnd + 1 = st.pos
                         /\ input[st.hostEnd + 1] = ":"
  <1>1. IF op.field = "none" THEN OnlyMoved(st, after)
        ELSE FieldTaken(input, st, op, end, after)
    BY TurnTakes, Zenon
  <1>2. p \in Texts /\ st.pos \in Nat
    BY CursorsHold
  <1>3. /\ \A v, at : WithHost(p, v, at).host = v
        /\ \A v, at : p.host # <<>> /\ v # <<>> => Joined(p, v, at).host = p.host \o <<":">> \o v
    BY <1>2 DEF Texts, WithHost, Joined
  <1>4. op.field = "d"
    OBVIOUS
  <1>5. end \in Nat /\ st.pos <= end /\ end <= Len(input) /\ Len(input) \in Nat
    BY <1>4, Zenon, RestIsSlice DEF Turn
  <1>6. p.host = host /\ st.hostStart = from /\ st.hostEnd = to
    BY DEF HostAt
  <1>7. value # <<>> /\ host # <<>>
    OBVIOUS
  <1>8. after.proxy = IF adjacent THEN WithHost(p, Slice(input, st.hostStart, end), st.hostStart)
                      ELSE Joined(p, value, st.pos)
    <2> HIDE DEF op, p, end, value
    <2> QED
      BY <1>1, <1>4, Zenon DEF FieldTaken, p, value
  <1>9. CASE adjacent
    <2> DEFINE whole == Slice(input, from, end)
               joined == WithPort(host, value)
    <2>1. after.proxy.host = whole
      BY <1>3, <1>6, <1>8, <1>9
    <2>2. to + 1 = st.pos /\ input[to + 1] = ":"
      BY <1>6, <1>9
    <2> HIDE DEF end
    <2>3. /\ host \in Text /\ Len(host) = to - from /\ \A i \in 1 .. to - from : host[i] = input[from + i]
          /\ value \in Text /\ Len(value) = end - st.pos
          /\ \A i \in 1 .. end - st.pos : value[i] = input[st.pos + i]
          /\ whole \in Text /\ Len(whole) = end - from
          /\ \A i \in 1 .. end - from : whole[i] = input[from + i]
      <3>1. to <= Len(input) /\ from <= end
        BY <1>2, <1>5
      <3> QED
        BY <1>2, <1>5, <3>1, SliceIsText
    <2> HIDE DEF host, value, whole
    <2>4. /\ joined \in Text /\ Len(joined) = Len(host) + 1 + Len(value)
          /\ \A i \in 1 .. Len(host) : joined[i] = host[i]
          /\ joined[Len(host) + 1] = ":"
          /\ \A i \in 1 .. Len(value) : joined[Len(host) + 1 + i] = value[i]
      BY <2>3, JoinedParts
    <2> HIDE DEF joined
    <2>5. Len(joined) = Len(whole)
      <3>1. Len(joined) = (to - from) + 1 + (end - st.pos) /\ Len(whole) = end - from
        BY <2>3, <2>4
      <3>2. st.pos = to + 1 /\ end \in Nat
        BY <1>5, <2>2
      <3> QED
        BY <3>1, <3>2
    <2>6. ASSUME NEW i \in 1 .. Len(joined)
          PROVE  joined[i] = whole[i]
      <3>1. i \in 1 .. end - from
        BY <2>3, <2>5
      <3>2. CASE i <= to - from
        <4>1. i \in 1 .. to - from
          BY <3>2
        <4> QED
          BY <2>3, <2>4, <3>1, <4>1
      <3>3. CASE i = (to - from) + 1
        <4>1. from + i = to + 1
          BY <3>3
        <4> QED
          BY <2>2, <2>3, <2>4, <3>1, <3>3, <4>1
      <3>4. CASE i > (to - from) + 1
        <4> DEFINE j == i - ((to - from) + 1)
        <4>1. /\ j \in 1 .. end - st.pos /\ (to - from) + 1 + j = i
              /\ st.pos + j = from + i
          BY <1>2, <1>5, <2>2, <3>1, <3>4
        <4> HIDE DEF j
        <4>2. joined[i] = value[j] /\ value[j] = input[st.pos + j]
          BY <2>3, <2>4, <4>1
        <4> QED
          BY <2>3, <3>1, <4>1, <4>2
      <3> QED
        BY <3>1, <3>2, <3>3, <3>4
    <2>7. joined = whole
      BY <2>3, <2>4, <2>5, <2>6, SameText
    <2> QED
      BY <2>1, <2>7 DEF joined, host, value, end
  <1>10. CASE ~ adjacent
    <2>1. after.proxy.host = p.host \o <<":">> \o value
      <3>1. after.proxy = Joined(p, value, st.pos)
        BY <1>8, <1>10
      <3> HIDE DEF value
      <3> QED
        BY <1>3, <1>6, <1>7, <3>1
    <2> QED
      BY <1>6, <2>1, Zenon DEF WithPort
  <1> QED
    BY <1>9, <1>10

\* A strict parser that cuts a host out, and later a port, ends with the two.
LEMMA HostIsJoined ==
    ASSUME NEW input \in Text, NEW parser, parser.plan \in Seq(Operated), parser.strict,
           IsLinked(parser.plan), OncePerVerb(parser.plan),
           NEW a, Course(parser, input, a), a[Len(parser.plan)].err = NoError,
           NEW h \in 1 .. Len(parser.plan), parser.plan[h].field = "h",
           NEW d \in 1 .. Len(parser.plan), parser.plan[d].field = "d", h < d,
           Cut(parser, input, a, h) # <<>>, Cut(parser, input, a, d) # <<>>
    PROVE  a[Len(parser.plan)].proxy.host
             = WithPort(Cut(parser, input, a, h), Cut(parser, input, a, d))
  <1> DEFINE n == Len(parser.plan)
             from == Stop(parser, input, a, h - 1)
             to == Stop(parser, input, a, h)
             host == Cut(parser, input, a, h)
             port == Cut(parser, input, a, d)
             m == d - 1
  <1>1. /\ n \in Nat /\ h \in 1 .. n /\ d \in 1 .. n /\ h \in Nat /\ d \in Nat /\ h < d
        /\ h - 1 \in 0 .. n /\ h \in 0 .. n /\ m \in 0 .. n /\ d \in 0 .. n /\ h # 0 /\ d # 0
        /\ m \in Nat /\ m \in h .. m /\ m \in h .. n /\ n \in d .. n
        /\ \A i \in 1 .. n : parser.plan[i] \in Operated
    <2>1. n \in Nat
      OBVIOUS
    <2> HIDE DEF n
    <2> QED
      BY <2>1, SMT DEF n
  <1>2. \A i \in 1 .. n : InTurn(parser, input, a, i)
    BY StrictCourse
  <1>3. \A i \in 0 .. n : a[i] \in Cursors(input)
    BY DEF Course
  <1>4. \A i \in 1 .. n : Piece(parser, input, a, i)
    BY PiecesLie
  <1>5. \A i \in 1 .. n : i # h /\ i # d => parser.plan[i].field \notin {"h", "d"}
    <2>1. "h" # "none" /\ "d" # "none"
      OBVIOUS
    <2> QED
      BY <1>1, <2>1 DEF OncePerVerb
  <1>6. parser.plan[h].field = "h" /\ parser.plan[d].field = "d"
    OBVIOUS
  <1>7. host = Slice(input, from, to) /\ host # <<>> /\ port # <<>>
    BY DEF Cut
  <1>8. h \in 0 .. n /\ HostAt(a[h], host, from, to) /\ a[h].pos >= to
    <2> DEFINE st == a[h - 1]
               op == parser.plan[h]
    <2>1. st.pos = from /\ Turn(parser, input, st, h, a[h])
      BY <1>1, <1>4, <1>6, Zenon DEF Piece
    <2>2. to = CaptureEnd(input, op, st.pos)
      BY <1>1, <1>6, Zenon DEF Stop
    <2>3. st \in Cursors(input) /\ st \in LocalState /\ op \in Operated
      BY <1>1, <1>3 DEF Cursors
    <2>4. to \in Nat /\ a[h] = TakeField(input, st, op, to)
      BY <1>6, <2>1, <2>2, Zenon DEF Turn
    <2>5. Len(op.delim) \in Nat
      BY <2>3, OperationFields DEF Text
    <2> HIDE DEF st, to, from
    <2>6. MovedOn(st, op, to, a[h])
      BY <2>3, <2>4, TakeFieldDoes, Zenon
    <2>7. a[h].pos = to + (IF op.consume THEN Len(op.delim) ELSE 0)
      BY <2>6, Zenon DEF MovedOn
    <2>8. a[h].pos >= to
      <3> HIDE DEF op
      <3> QED
        BY <2>4, <2>5, <2>7
    <2>9. HostAt(a[h], Slice(input, st.pos, CaptureEnd(input, op, st.pos)), st.pos,
                 CaptureEnd(input, op, st.pos))
      BY <1>6, <2>1, <2>3, HostIsSet, Zenon
    <2>10. HostAt(a[h], host, from, to)
      BY <1>7, <2>1, <2>2, <2>9
    <2> QED
      BY <1>1, <2>8, <2>10 DEF to, from
  <1>9. to \in Nat /\ from \in Nat /\ from <= to
    BY <1>1, <1>4, Zenon DEF Piece
  <1> HIDE DEF n
  <1> DEFINE P == { i \in 0 .. n : HostAt(a[i], host, from, to) }
  <1>10. ASSUME NEW i \in h .. m - 1, i \in P
         PROVE  i + 1 \in P
    <2> DEFINE st == a[i]
               r == a[i + 1]
               j == i + 1
    <2>1. j \in 1 .. n /\ j - 1 = i /\ j \in 0 .. n /\ i \in 0 .. n /\ j # h /\ j # d
      BY <1>1, SMT
    <2>2. (st.next = j /\ Turn(parser, input, st, j, r)) \/ r = st
      BY <1>2, <2>1 DEF InTurn
    <2>3. st \in Cursors(input) /\ parser.plan[j] \in Operated
          /\ parser.plan[j].field \notin {"h", "d"}
      BY <1>1, <1>3, <1>5, <2>1
    <2>4. HostAt(st, host, from, to)
      BY <1>10
    <2> HIDE DEF st, r, j, host, from, to
    <2>5. HostAt(r, host, from, to)
      <3>1. CASE Turn(parser, input, st, j, r)
        <4>1. HostAt(r, st.proxy.host, st.hostStart, st.hostEnd)
          BY <2>3, <3>1, HostStays
        <4> QED
          BY <2>4, <4>1, Zenon DEF HostAt
      <3> QED
        BY <2>2, <2>4, <3>1
    <2> QED
      BY <2>1, <2>5 DEF r, j
  <1>11. m \in P
    <2> HIDE DEF host, from, to
    <2>1. h \in P
      BY <1>8
    <2> HIDE DEF P, m
    <2> QED
      BY <1>1, <1>10, <2>1, HoldsUpTo
  <1> DEFINE Q == { i \in 0 .. n : a[i].proxy.host = WithPort(host, port) }
  <1>12. d \in Q
    <2> DEFINE st == a[m]
               op == parser.plan[d]
    <2>1. st.pos = Stop(parser, input, a, m) /\ Turn(parser, input, st, d, a[d])
      BY <1>1, <1>4, <1>6, Zenon DEF Piece
    <2>2. Stop(parser, input, a, d) = CaptureEnd(input, op, st.pos)
      BY <1>1, <1>6, Zenon DEF Stop
    <2>3. port = Slice(input, st.pos, CaptureEnd(input, op, st.pos))
      BY <2>1, <2>2 DEF Cut
    <2>4. st \in Cursors(input) /\ st.pos \in Nat
      <3>1. st \in Cursors(input)
        BY <1>1, <1>3
      <3> QED
        BY <3>1, CursorsHold
    <2>5. a[h].pos <= st.pos
      BY <1>1, NeverBackwards DEF n
    <2>6. to <= st.pos
      <3>1. a[h].pos \in Nat
        BY <1>1, <1>3, CursorsHold
      <3> HIDE DEF to, st
      <3> QED
        BY <1>8, <1>9, <2>4, <2>5, <3>1
    <2>7. HostAt(st, host, from, to)
      BY <1>11
    <2> HIDE DEF st, host, port, from, to
    <2>8. a[d].proxy.host = WithPort(Slice(input, from, to), Slice(input, st.pos, CaptureEnd(input, op, st.pos)))
      BY <1>6, <1>7, <1>9, <2>1, <2>3, <2>4, <2>6, <2>7, PortIsSet
    <2> QED
      BY <1>1, <1>7, <2>3, <2>8
  <1>13. ASSUME NEW i \in d .. n - 1, i \in Q
         PROVE  i + 1 \in Q
    <2> DEFINE st == a[i]
               r == a[i + 1]
               j == i + 1
    <2>1. j \in 1 .. n /\ j - 1 = i /\ j \in 0 .. n /\ i \in 0 .. n /\ j # h /\ j # d
      BY <1>1, SMT
    <2>2. (st.next = j /\ Turn(parser, input, st, j, r)) \/ r = st
      BY <1>2, <2>1 DEF InTurn
    <2>3. st \in Cursors(input) /\ parser.plan[j] \in Operated
          /\ parser.plan[j].field \notin {"h", "d"}
      BY <1>1, <1>3, <1>5, <2>1
    <2>4. st.proxy.host = WithPort(host, port)
      BY <1>13
    <2> HIDE DEF st, r, j, host, port
    <2>5. r.proxy.host = WithPort(host, port)
      <3>1. CASE Turn(parser, input, st, j, r)
        <4>1. HostAt(r, st.proxy.host, st.hostStart, st.hostEnd)
          BY <2>3, <3>1, HostStays
        <4> QED
          BY <2>4, <4>1, Zenon DEF HostAt
      <3> QED
        BY <2>2, <2>4, <3>1
    <2> QED
      BY <2>1, <2>5 DEF r, j
  <1>14. n \in Q
    <2> HIDE DEF Q, P, m
    <2> QED
      BY <1>1, <1>12, <1>13, HoldsUpTo
  <1> QED
    BY <1>14 DEF n

\* s has the symbol c.
Has(s, c) == \E i \in 1 .. Len(s) : s[i] = c

\* A host that opens a bracket is cut out with the one that closes it.
LEMMA BracketIsClosed ==
    ASSUME NEW input \in Text, NEW op \in Operated, op.field = "h",
           NEW start \in Nat, start < Len(input), input[start + 1] = "[",
           NEW end \in Nat, end = CaptureEnd(input, op, start), start <= end, end <= Len(input),
           op.delim # <<>> => end # Absent,
           NEW q \in Nat, start <= q, q < Len(input), input[q + 1] = "]"
    PROVE  Has(Slice(input, start, end), "]")
  <1> DEFINE value == Slice(input, start, end)
             n == Len(input)
             close == IndexByte(input, "]", start)
  <1>1. /\ value \in Text /\ Len(value) = end - start
        /\ \A i \in 1 .. end - start : value[i] = input[start + i]
    BY SliceIsText
  <1>2. n \in Nat
    BY DEF Text
  <1>3. close \in start .. n - 1 /\ input[close + 1] = "]"
    <2>1. \/ /\ close = Absent
             /\ \A k \in start + 1 .. n : input[k] # "]"
          \/ /\ close \in start .. n - 1
             /\ input[close + 1] = "]"
      BY IndexByteFinds
    <2> HIDE DEF close
    <2>2. q + 1 \in start + 1 .. n
      BY <1>2
    <2> QED
      BY <2>1, <2>2
  <1>4. close < end
    <2>1. CASE op.delim = <<>>
      <3>1. end = n
        BY <2>1 DEF CaptureEnd
      <3> HIDE DEF close
      <3> QED
        BY <1>2, <1>3, <3>1
    <2>2. CASE op.delim # <<>>
      <3>1. close # Absent
        <4> HIDE DEF close
        <4> QED
          BY <1>3 DEF Absent
      <3>2. end = Find(input, op.delim, close + 1)
        BY <2>2, <3>1, Zenon DEF CaptureEnd, FieldEnd
      <3>3. end # Absent
        BY <2>2
      <3> HIDE DEF close
      <3>4. close + 1 \in Nat /\ op.delim \in Text
        BY <1>3, OperationFields
      <3>5. end \in close + 1 .. n - Len(op.delim)
        BY <3>2, <3>3, <3>4, FindFinds
      <3> QED
        BY <1>3, <3>5
    <2> QED
      BY <2>1, <2>2
  <1> HIDE DEF close, value
  <1> DEFINE j == (close - start) + 1
  <1>5. j \in 1 .. end - start /\ start + j = close + 1
    BY <1>3, <1>4
  <1> HIDE DEF j
  <1> QED
    BY <1>1, <1>3, <1>5 DEF Has, value

\* The colon between a host and a port is the last one of what is valid.
LEMMA PortIsBehind ==
    ASSUME NEW h \in Text, h # <<>>, NEW d \in Text, validateHostnamePort(WithPort(h, d)) = "ok",
           h[1] = "[" /\ Has(d, "]") => Has(h, "]")
    PROVE  PortColon(WithPort(h, d)) = Len(h) + 1
  <1> DEFINE s == WithPort(h, d)
             n == Len(s)
             at == Len(h) + 1
             pair == SplitHostnamePort(s)
  <1>1. /\ s \in Text /\ n = at + Len(d) /\ Len(h) \in Nat /\ Len(d) \in Nat
        /\ (\A i \in 1 .. Len(h) : s[i] = h[i]) /\ s[at] = ":"
        /\ \A i \in 1 .. Len(d) : s[at + i] = d[i]
    BY JoinedParts
  <1>2. s # <<>> /\ pair.ok /\ isValidPort(pair.port)
    <2>1. "ok" # "ErrInvalidPort" /\ "ok" # "ErrInvalidHost"
      OBVIOUS
    <2> QED
      BY <2>1, Zenon DEF validateHostnamePort
  <1>3. Len(h) >= 1
    <2>1. Len(h) # 0
      BY DEF Text
    <2> QED
      BY <1>1, <2>1
  <1> HIDE DEF s
  <1>4. n \in Nat /\ at \in 1 .. n
    <2> HIDE DEF n
    <2> QED
      BY <1>1
  <1> HIDE DEF n
  <1>5. \A i \in at + 1 .. n : s[i] # ":"
    <2>1. CASE s[1] # "["
      <3>1. PICK c \in 0 .. n - 1 :
               /\ s[c + 1] = ":" /\ (\A i \in 1 .. c : s[i] # ":")
               /\ \A i \in c + 2 .. n : s[i] # ":"
        BY <1>1, <1>2, <2>1, SplitForms DEF n
      <3>2. c + 1 = at
        <4>1. at \in 1 .. c => FALSE
          BY <1>1, <3>1
        <4>2. at \in c + 2 .. n => FALSE
          BY <1>1, <3>1
        <4> HIDE DEF at
        <4> QED
          BY <1>4, <4>1, <4>2
      <3> HIDE DEF at
      <3>3. at + 1 = c + 2
        BY <3>2
      <3> QED
        BY <3>1, <3>3
    <2>2. CASE s[1] = "["
      <3>1. PICK e \in 1 .. n - 2 :
               /\ s[e + 1] = "]" /\ (\A i \in 1 .. e : s[i] # "]") /\ s[e + 2] = ":"
               /\ pair = [host |-> Slice(s, 1, e), port |-> Rest(s, e + 2),
                          bracketed |-> TRUE, ok |-> TRUE]
        BY <1>1, <1>2, <2>2, SplitForms DEF n
      <3>2. \A i \in e + 3 .. n : s[i] # ":"
        <4> DEFINE port == Rest(s, e + 2)
        <4>1. e + 2 \in Nat /\ e + 2 <= n /\ n <= n /\ e \in Nat
          BY <1>4
        <4>2. /\ port \in Text /\ Len(port) = n - (e + 2)
              /\ \A i \in 1 .. n - (e + 2) : port[i] = s[(e + 2) + i]
          <5> DEFINE from == e + 2
          <5>1. port = Slice(s, from, n) /\ s \in Text
            BY <1>1, RestIsSlice DEF n
          <5>2. from \in Nat /\ n \in Nat /\ from <= n /\ n <= Len(s)
            BY <1>4, <4>1 DEF n
          <5> HIDE DEF from, port
          <5>3. /\ port \in Text /\ Len(port) = n - from
                /\ \A i \in 1 .. n - from : port[i] = s[from + i]
            BY <5>1, <5>2, SliceIsText
          <5> QED
            BY <5>3 DEF from
        <4>3. isValidPort(port)
          BY <1>2, <3>1
        <4> HIDE DEF port
        <4>4. AllIn(port, Digits)
          BY <4>2, <4>3, PortsAreDigits
        <4>5. ASSUME NEW i \in e + 3 .. n
              PROVE  s[i] # ":"
          <5> DEFINE j == i - (e + 2)
          <5>1. j \in 1 .. n - (e + 2) /\ (e + 2) + j = i
            BY <1>4, <4>1
          <5> HIDE DEF j
          <5>2. port[j] \in Digits /\ port[j] = s[i]
            BY <4>2, <4>4, <5>1 DEF AllIn
          <5>3. ":" \notin Digits
            BY DEF Digits
          <5> QED
            BY <5>2, <5>3
        <4> QED
          BY <4>5
      <3>3. at >= e + 2
        <4> SUFFICES ASSUME at < e + 2
                     PROVE  FALSE
          <5> HIDE DEF at
          <5> QED
            BY <1>4
        <4>1. at # e + 1
          <5>1. "]" # ":"
            OBVIOUS
          <5> QED
            BY <1>1, <3>1, <5>1
        <4> DEFINE j == (e + 1) - at
        <4>2. j \in 1 .. Len(d) /\ at + j = e + 1
          <5>1. at \in Int /\ n = at + Len(d)
            BY <1>1
          <5> HIDE DEF at
          <5> QED
            BY <1>1, <1>4, <4>1, <5>1
        <4> HIDE DEF j
        <4>3. Has(d, "]")
          BY <1>1, <3>1, <4>2 DEF Has
        <4>4. h[1] = "["
          BY <1>1, <1>3, <2>2
        <4>5. PICK i \in 1 .. Len(h) : h[i] = "]"
          BY <4>3, <4>4 DEF Has
        <4>6. i \in 1 .. e
          BY <1>1
        <4> QED
          BY <1>1, <3>1, <4>5, <4>6
      <3> HIDE DEF at
      <3>4. \A i \in at + 1 .. n : i \in e + 3 .. n
        BY <1>4, <3>3
      <3> QED
        BY <3>2, <3>4
    <2> QED
      BY <2>1, <2>2
  <1>6. PortColon(s) = at
    <2>1. at \in 1 .. Len(s) /\ s[at] = ":" /\ \A i \in at + 1 .. Len(s) : s[i] # ":"
      BY <1>1, <1>4, <1>5 DEF n
    <2> HIDE DEF at
    <2> QED
      BY <1>1, <2>1, PortColonIs
  <1> QED
    BY <1>6 DEF s

\* Such a host and port are written out as they were cut out.
LEMMA HostPortWritten ==
    ASSUME NEW p, NEW h \in Text, NEW d \in Text, p.host = WithPort(h, d),
           PortColon(WithPort(h, d)) = Len(h) + 1
    PROVE  FieldText(p, "h") = h /\ FieldText(p, "d") = d
  <1> DEFINE s == WithPort(h, d)
             at == Len(h) + 1
             first == SubSeq(s, 1, at - 1)
             second == SubSeq(s, at + 1, Len(s))
  <1>1. /\ s \in Text /\ Len(s) = at + Len(d) /\ Len(h) \in Nat /\ Len(d) \in Nat
        /\ (\A i \in 1 .. Len(h) : s[i] = h[i]) /\ s[at] = ":"
        /\ \A i \in 1 .. Len(d) : s[at + i] = d[i]
    BY JoinedParts
  <1>2. FieldText(p, "h") = first /\ FieldText(p, "d") = second
    BY Zenon DEF FieldText
  <1> HIDE DEF s
  <1>3. first = h
    <2> DEFINE m == Len(h)
    <2>1. first = Slice(s, 0, m)
      BY <1>1 DEF Slice
    <2>2. 0 \in Nat /\ m \in Nat /\ 0 <= m /\ m <= Len(s) /\ m - 0 = m /\ \A i \in 1 .. m : 0 + i = i
      BY <1>1
    <2> HIDE DEF first, m
    <2>3. /\ Slice(s, 0, m) \in Text /\ Len(Slice(s, 0, m)) = m
          /\ \A i \in 1 .. m : Slice(s, 0, m)[i] = s[i]
      <3>1. s \in Text
        BY <1>1
      <3>2. /\ Slice(s, 0, m) \in Text /\ Len(Slice(s, 0, m)) = m - 0
            /\ \A i \in 1 .. m - 0 : Slice(s, 0, m)[i] = s[0 + i]
        BY <2>2, <3>1, SliceIsText, Zenon
      <3> QED
        BY <2>2, <3>2
    <2> QED
      BY <1>1, <2>1, <2>3, SameText DEF m
  <1>4. second = d
    <2> DEFINE m == Len(s)
    <2>1. second = Slice(s, at, m)
      BY DEF Slice
    <2>2. at \in Nat /\ m \in Nat /\ at <= m /\ m - at = Len(d) /\ m <= Len(s)
      BY <1>1
    <2> HIDE DEF second, m, at
    <2>3. /\ Slice(s, at, m) \in Text /\ Len(Slice(s, at, m)) = Len(d)
          /\ \A i \in 1 .. Len(d) : Slice(s, at, m)[i] = s[at + i]
      <3>1. s \in Text
        BY <1>1
      <3>2. /\ Slice(s, at, m) \in Text /\ Len(Slice(s, at, m)) = m - at
            /\ \A i \in 1 .. m - at : Slice(s, at, m)[i] = s[at + i]
        BY <2>2, <3>1, SliceIsText, Zenon
      <3> QED
        BY <2>2, <3>2
    <2>4. \A i \in 1 .. Len(d) : s[at + i] = d[i]
      BY <1>1 DEF at
    <2> QED
      BY <2>1, <2>3, <2>4, SameText
  <1> QED
    BY <1>2, <1>3, <1>4

\* A scheme is written out with its case folded.
LEMMA SchemeMatches ==
    ASSUME NEW s \in Text, NEW from \in Nat, NEW to \in Nat, from <= to, to <= Len(s)
    PROVE  Matches(schemeOf(Slice(s, from, to)), s, from, to)
  <1> DEFINE v == Slice(s, from, to)
             w == schemeOf(v)
  <1>1. /\ v \in Text /\ Len(v) = to - from
        /\ \A i \in 1 .. to - from : v[i] = s[from + i]
    BY SliceIsText
  <1> HIDE DEF v
  <1>2. w \in Text
    BY <1>1, SchemeIsText
  <1>3. Len(w) = Len(v) /\ \A i \in 1 .. Len(v) : Fold(w[i]) = Fold(v[i])
    <2>1. CASE w = v
      BY <2>1
    <2>2. CASE w # v
      <3>1. Len(v) = 1 /\ v[1] \in DOMAIN Folded /\ w = <<Folded[v[1]]>>
        BY <2>2, Zenon DEF schemeOf, ParseScheme
      <3>2. /\ Folded[v[1]] \in {"http", "socks5"}
            /\ Folded[v[1]] \notin DOMAIN Folded
        BY <3>1, FoldedNames DEF Folded
      <3>3. Fold(Folded[v[1]]) = Folded[v[1]] /\ Fold(v[1]) = Folded[v[1]]
        BY <3>1, <3>2 DEF Fold
      <3>4. Len(w) = 1 /\ w[1] = Folded[v[1]]
        BY <3>1
      <3> QED
        BY <3>1, <3>3, <3>4
    <2> QED
      BY <2>1, <2>2
  <1> HIDE DEF w
  <1>4. \A i \in 1 .. to - from : Fold(w[i]) = Fold(s[from + i])
    BY <1>1, <1>3
  <1> QED
    BY <1>1, <1>2, <1>3, <1>4, Zenon DEF Matches, w, v

\* A host and port that are valid are written out as they were cut out.
LEMMA HostPortIsExact ==
    ASSUME NEW input \in Text, NEW parser, parser.plan \in Seq(Operated), parser.strict,
           IsLinked(parser.plan), OncePerVerb(parser.plan),
           NEW a, Course(parser, input, a), a[Len(parser.plan)].err = NoError,
           ~ WasEmpty(a[Len(parser.plan)], "h"), ~ WasEmpty(a[Len(parser.plan)], "d"),
           NEW h \in 1 .. Len(parser.plan), parser.plan[h].field = "h",
           NEW d \in 1 .. Len(parser.plan), parser.plan[d].field = "d", h < d,
           validateHostnamePort(a[Len(parser.plan)].proxy.host) = "ok"
    PROVE  /\ FieldText(a[Len(parser.plan)].proxy, "h") = Cut(parser, input, a, h)
           /\ FieldText(a[Len(parser.plan)].proxy, "d") = Cut(parser, input, a, d)
  <1> DEFINE n == Len(parser.plan)
             p == a[n].proxy
             host == Cut(parser, input, a, h)
             port == Cut(parser, input, a, d)
             from == Stop(parser, input, a, h - 1)
             to == Stop(parser, input, a, h)
             at == Stop(parser, input, a, d - 1)
             end == Stop(parser, input, a, d)
             op == parser.plan[h]
  <1>1. host # <<>> /\ port # <<>>
    <2>1. parser.plan[h].field \in {"h", "d"} /\ parser.plan[d].field \in {"h", "d"}
      OBVIOUS
    <2>2. ~ WasEmpty(a[n], parser.plan[h].field) /\ ~ WasEmpty(a[n], parser.plan[d].field)
      OBVIOUS
    <2> QED
      BY <2>1, <2>2, NothingWasEmpty
  <1>2. p.host = WithPort(host, port)
    BY <1>1, HostIsJoined
  <1>3. Piece(parser, input, a, h) /\ Piece(parser, input, a, d)
    BY PiecesLie
  <1>4. /\ from \in Nat /\ to \in Nat /\ from <= to /\ to <= Len(input)
        /\ at \in Nat /\ end \in Nat /\ at <= end /\ end <= Len(input) /\ Len(input) \in Nat
    BY <1>3, RestIsSlice, Zenon DEF Piece
  <1>5. /\ a[h - 1].pos = from /\ a[d - 1].pos = at
        /\ Turn(parser, input, a[h - 1], h, a[h])
    <2>1. parser.plan[h].field # "none" /\ parser.plan[d].field # "none"
      OBVIOUS
    <2> QED
      BY <1>3, <2>1, Zenon DEF Piece
  <1>6. from <= at
    <2>1. h - 1 \in 0 .. n /\ d - 1 \in h - 1 .. n
      <3>1. n \in Nat
        OBVIOUS
      <3> HIDE DEF n
      <3> QED
        BY <3>1 DEF n
    <2> HIDE DEF from, at
    <2> QED
      BY <1>5, <2>1, NeverBackwards
  <1>7. host = Slice(input, from, to) /\ port = Slice(input, at, end)
    BY DEF Cut
  <1>8. to = CaptureEnd(input, op, from)
    <2>1. h # 0 /\ parser.plan[h].field # "none"
      OBVIOUS
    <2> QED
      BY <1>5, <2>1, Zenon DEF Stop
  <1>9. op.delim # <<>> => to # Absent
    <2>1. op.field # "none"
      OBVIOUS
    <2> HIDE DEF to, from, op
    <2> QED
      BY <1>5, <1>8, <2>1, Zenon DEF Turn, op
  <1>10. op \in Operated /\ op.field = "h"
    OBVIOUS
  <1> HIDE DEF from, to, at, end, host, port, op
  <1>11. /\ host \in Text /\ Len(host) = to - from
         /\ \A i \in 1 .. to - from : host[i] = input[from + i]
    BY <1>4, <1>7, SliceIsText
  <1>12. /\ port \in Text /\ Len(port) = end - at
         /\ \A i \in 1 .. end - at : port[i] = input[at + i]
    BY <1>4, <1>7, SliceIsText
  <1>13. ASSUME host[1] = "[", Has(port, "]")
         PROVE  Has(host, "]")
    <2>1. PICK i \in 1 .. Len(port) : port[i] = "]"
      BY <1>13 DEF Has
    <2> DEFINE q == (at + i) - 1
    <2>2. q \in Nat /\ from <= q /\ q < Len(input) /\ q + 1 = at + i /\ i \in 1 .. end - at
      BY <1>4, <1>6, <1>12
    <2>3. input[q + 1] = "]"
      BY <1>12, <2>1, <2>2
    <2>4. Len(host) # 0
      BY <1>1, <1>11 DEF Text
    <2>5. 1 \in 1 .. to - from /\ from < Len(input)
      BY <1>4, <1>11, <2>4
    <2>6. input[from + 1] = "["
      BY <1>11, <1>13, <2>5
    <2> HIDE DEF q
    <2>7. Has(Slice(input, from, to), "]")
      BY <1>4, <1>8, <1>9, <1>10, <2>2, <2>3, <2>5, <2>6, BracketIsClosed
    <2> QED
      BY <1>7, <2>7
  <1>14. PortColon(WithPort(host, port)) = Len(host) + 1
    <2>1. validateHostnamePort(WithPort(host, port)) = "ok"
      BY <1>2
    <2> QED
      BY <1>1, <1>11, <1>12, <1>13, <2>1, PortIsBehind
  <1>15. FieldText(p, "h") = host /\ FieldText(p, "d") = port
    <2> HIDE DEF p
    <2> QED
      BY <1>2, <1>11, <1>12, <1>14, HostPortWritten
  <1> QED
    BY <1>15 DEF host, port

\* The format has a host and, behind it, a port, and no verb twice.
IsComplete(plan) ==
    /\ OncePerVerb(plan)
    /\ \E h, d \in 1 .. Len(plan) : plan[h].field = "h" /\ plan[d].field = "d" /\ h < d

\* What is written for the k-th operation.
PartOf(plan, p, k) ==
    IF plan[k].field = "none" THEN plan[k].delim ELSE FieldText(p, plan[k].field)

\* What a strict parser has read of a complete format is written out as it was.
LEMMA PartsMatch ==
    ASSUME NEW input \in Text, NEW parser, parser.plan \in Seq(Operated), parser.strict,
           IsLinked(parser.plan), IsComplete(parser.plan),
           NEW a, Course(parser, input, a), a[Len(parser.plan)].err = NoError,
           ~ WasEmpty(a[Len(parser.plan)], "h"), ~ WasEmpty(a[Len(parser.plan)], "d"),
           validateHostnamePort(a[Len(parser.plan)].proxy.host) = "ok",
           NEW k \in 1 .. Len(parser.plan)
    PROVE  Matches(PartOf(parser.plan, a[Len(parser.plan)].proxy, k), input,
                   Stop(parser, input, a, k - 1), Stop(parser, input, a, k))
  <1> DEFINE n == Len(parser.plan)
             p == a[n].proxy
             op == parser.plan[k]
             cut == Cut(parser, input, a, k)
             from == Stop(parser, input, a, k - 1)
             to == Stop(parser, input, a, k)
             part == PartOf(parser.plan, p, k)
  <1>1. Piece(parser, input, a, k)
    BY PiecesLie
  <1>2. from \in Nat /\ to \in Nat /\ from <= to /\ to <= Len(input) /\ cut = Slice(input, from, to)
    BY <1>1, Zenon DEF Piece, Cut
  <1>3. Matches(cut, input, from, to) /\ Matches(schemeOf(cut), input, from, to)
    <2> HIDE DEF from, to, cut
    <2> QED
      BY <1>2, CutMatches, SchemeMatches
  <1>4. op.field \in {"none", "t", "h", "d", "u", "p"}
    BY OperationFields DEF Verbs
  <1>5. OncePerVerb(parser.plan)
    BY DEF IsComplete
  <1>6. CASE op.field = "none"
    <2>1. cut = op.delim
      BY <1>1, <1>6, Zenon DEF Piece, Cut
    <2>2. part = op.delim
      BY <1>6, Zenon DEF PartOf
    <2> QED
      BY <1>3, <2>1, <2>2
  <1>7. CASE op.field \in TextFields
    <2>1. FieldText(p, op.field) = TextOf(op.field, cut)
      BY <1>5, <1>7, TextIsKept
    <2>2. part = FieldText(p, op.field)
      BY <1>7, Zenon DEF PartOf, TextFields
    <2>3. TextOf(op.field, cut) \in {cut, schemeOf(cut)}
      BY DEF TextOf
    <2> HIDE DEF cut, from, to, part, op, p
    <2>4. Matches(part, input, from, to)
      BY <1>3, <2>1, <2>2, <2>3
    <2> QED
      BY <2>4 DEF from, to, part, p
  <1>8. CASE op.field \in {"h", "d"}
    <2>1. PICK h \in 1 .. n, d \in 1 .. n :
             parser.plan[h].field = "h" /\ parser.plan[d].field = "d" /\ h < d
      BY DEF IsComplete
    <2>2. FieldText(p, "h") = Cut(parser, input, a, h) /\ FieldText(p, "d") = Cut(parser, input, a, d)
      BY <1>5, <2>1, HostPortIsExact
    <2>3. k = (IF op.field = "h" THEN h ELSE d)
      BY <1>5, <1>8, <2>1 DEF OncePerVerb
    <2>4. FieldText(p, op.field) = cut
      BY <1>8, <2>2, <2>3
    <2>5. part = FieldText(p, op.field)
      BY <1>8, Zenon DEF PartOf
    <2> QED
      BY <1>3, <2>4, <2>5
  <1> QED
    BY <1>4, <1>6, <1>7, <1>8 DEF TextFields

\* The proxy p written out along a plan.
WrittenAlong(plan, p) == FlattenSeq([k \in DOMAIN plan |-> PartOf(plan, p, k)])

\* So a strict parser accepts nothing but what it returns, written out.
LEMMA ExactlyRead ==
    ASSUME NEW input \in Text, NEW parser, parser.plan \in Seq(Operated), parser.strict,
           IsLinked(parser.plan), IsComplete(parser.plan),
           parseGeneric(parser, input, ZeroProxy, "scalar").err = NoError
    PROVE  LET p == parseGeneric(parser, input, ZeroProxy, "scalar").proxy
           IN  Matches(WrittenAlong(parser.plan, p), input, 0, Len(input))
  <1> DEFINE end == EndOf(parser, input, ZeroProxy)
             plan == parser.plan
             n == Len(plan)
             p == end.proxy
  <1>1. parseGeneric(parser, input, ZeroProxy, "scalar")
          = Result(end.proxy, Verdict(parser, input, end, "scalar"))
    BY Zenon DEF parseGeneric, EndOf
  <1> HIDE DEF end
  <1>2. Verdict(parser, input, end, "scalar") = NoError
    BY <1>1 DEF Result
  <1>3. Validate(p) = "ok"
    BY <1>2, UsableOfVerdict
  <1>4. end.err = NoError /\ ~ (end.emptyHost \/ end.emptyPort) /\ ~ Trail(parser, input, end)
    <2>1. end.err = NoError
      BY <1>2, Zenon DEF Verdict
    <2>2. \A kind, delim : kind # "none" => Failure(kind, delim) # NoError
      BY FailuresAreErrors, Zenon
    <2>3. /\ "ErrUnexpectedTrail" # "none" /\ "ErrInvalidScheme" # "none"
          /\ "ErrInvalidPort" # "none" /\ "ErrInvalidHost" # "none"
      OBVIOUS
    <2>4. Failure(IF ~IsValidScheme(p.scheme) THEN "ErrInvalidScheme"
                  ELSE IF p.host # <<>> /\ end.emptyPort THEN "ErrInvalidPort"
                  ELSE "ErrInvalidHost", <<>>) # NoError
      BY <2>2, <2>3, Zenon
    <2> QED
      BY <1>2, <2>1, <2>2, <2>3, <2>4, Zenon DEF Verdict
  <1>5. PICK a : Course(parser, input, a)
    BY CourseExists
  <1>6. a[n] = end
    BY <1>5 DEF Course, end
  <1>7. validateHostnamePort(p.host) = "ok"
    BY <1>3, Zenon DEF Validate, FirstOf
  <1>8. ~ WasEmpty(end, "h") /\ ~ WasEmpty(end, "d")
    BY <1>4 DEF WasEmpty
  <1>9. n \in Nat /\ n # 0 /\ DOMAIN plan = 1 .. n
    <2>1. \E h \in 1 .. n : TRUE
      BY DEF IsComplete
    <2> QED
      BY <2>1
  <1> DEFINE stop == [k \in 0 .. n |-> Stop(parser, input, a, k)]
             seqs == [k \in 1 .. n |-> PartOf(plan, p, k)]
             m == n - 1
  <1>10. \A k \in 1 .. n : Piece(parser, input, a, k)
    BY <1>4, <1>5, <1>6, PiecesLie
  <1>11. \A k \in 1 .. n : Matches(PartOf(plan, p, k), input,
                                   Stop(parser, input, a, k - 1), Stop(parser, input, a, k))
    BY <1>4, <1>5, <1>6, <1>7, <1>8, PartsMatch
  <1>12. Stop(parser, input, a, n) = Len(input)
    <2>1. ~ (a[n].pos < Len(input))
      BY <1>4, <1>6 DEF Trail
    <2> QED
      BY <1>4, <1>5, <1>6, <1>9, <2>1, StopsAtEnd
  <1> HIDE DEF p, plan, n
  <1>13. /\ m \in Nat /\ m + 1 = n /\ 0 \in 0 .. n /\ n \in 0 .. n
         /\ \A k \in 1 .. n : k - 1 \in 0 .. n /\ k \in 0 .. n
    BY <1>9
  <1>14. stop[0] = 0 /\ stop[n] = Len(input)
    BY <1>12, <1>13 DEF Stop
  <1>15. \A k \in 1 .. n : /\ stop[k - 1] \in Nat /\ stop[k] \in Nat /\ stop[k - 1] <= stop[k]
                           /\ Matches(seqs[k], input, stop[k - 1], stop[k])
    BY <1>10, <1>11, <1>13 DEF Piece
  <1>16. seqs \in Seq(Text) /\ Len(seqs) = n
    <2>1. \A k \in 1 .. n : PartOf(plan, p, k) \in Text
      BY <1>11 DEF Matches
    <2> QED
      BY <1>9, <2>1
  <1>17. stop \in [0 .. n -> Nat]
    <2>1. \A k \in 0 .. n : k = 0 \/ k \in 1 .. n
      BY <1>9
    <2>2. \A k \in 0 .. n : stop[k] \in Nat
      BY <1>14, <1>15, <2>1
    <2> DEFINE f == stop
    <2>3. f = [k \in 0 .. n |-> f[k]]
      OBVIOUS
    <2>4. \A k \in 0 .. n : f[k] \in Nat
      BY <2>2
    <2> HIDE DEF f
    <2>5. f \in [0 .. n -> Nat]
      BY <2>3, <2>4
    <2> QED
      BY <2>5 DEF f
  <1>18. Matches(FlattenSeq(seqs), input, 0, stop[n])
    <2> HIDE DEF stop, seqs, m
    <2>1. Matches(FlattenSeq(seqs), input, 0, stop[m + 1])
      BY <1>13, <1>14, <1>15, <1>16, <1>17, PiecesMatch
    <2> QED
      BY <1>13, <2>1
  <1>19. WrittenAlong(plan, p) = FlattenSeq(seqs)
    BY <1>9, Zenon DEF WrittenAlong
  <1>20. parseGeneric(parser, input, ZeroProxy, "scalar").proxy = p
    BY <1>1 DEF Result, p
  <1> QED
    BY <1>14, <1>18, <1>19, <1>20 DEF plan

\* A text that matches all of another one is the same once the case is folded.
LEMMA MatchesAll ==
    ASSUME NEW w, NEW s \in Text, Matches(w, s, 0, Len(s))
    PROVE  Unfolded(w) = Unfolded(s)
  <1> DEFINE n == Len(s)
  <1>1. n \in Nat /\ n - 0 = n /\ DOMAIN s = 1 .. n /\ \A i \in 1 .. n : 0 + i = i
    BY DEF Text
  <1>2. w \in Text /\ Len(w) = n /\ \A i \in 1 .. n : Fold(w[i]) = Fold(s[i])
    <2> HIDE DEF n
    <2>1. w \in Text /\ Len(w) = n - 0 /\ \A i \in 1 .. n - 0 : Fold(w[i]) = Fold(s[0 + i])
      BY DEF Matches, n
    <2> QED
      BY <1>1, <2>1
  <1>3. DOMAIN w = 1 .. n
    BY <1>2 DEF Text
  <1>4. Unfolded(w) = [i \in 1 .. n |-> Fold(w[i])] /\ Unfolded(s) = [i \in 1 .. n |-> Fold(s[i])]
    BY <1>1, <1>3, Zenon DEF Unfolded, Fold
  <1> HIDE DEF n
  <1> QED
    BY <1>2, <1>4

\* What the strict parser of a complete format accepts is what it returns,
\* written out, and valid.
LEMMA StrictCall ==
    ASSUME NEW f \in Formats, NEW input \in Text, IsComplete(New(f, FALSE).plan),
           ParseInto(New(f, TRUE), input, ZeroProxy, "scalar").err = NoError
    PROVE  LET p == ParseInto(New(f, TRUE), input, ZeroProxy, "scalar").proxy
           IN  /\ Validate(p) = "ok"
               /\ Unfolded(WrittenAlong(New(f, FALSE).plan, p)) = Unfolded(input)
  <1> DEFINE plan == New(f, FALSE).plan
             r == ParseInto(New(f, TRUE), input, ZeroProxy, "scalar")
  <1>1. plan = Linked(Operations(f)) /\ plan \in Seq(Operated)
    BY ParsersMade, KindsOfParsers, ParsersAreTyped
  <1>2. PICK parser : /\ parser.plan = Linked(Operations(f)) /\ parser.strict
                      /\ parseGeneric(parser, input, ZeroProxy, "scalar") = r
    BY PlansRead, Zenon
  <1>3. IsLinked(plan)
    <2>1. f \in Text
      BY TextsAssumption
    <2>2. Operations(f) \in Seq(Operated)
      BY <2>1, PlansAreTyped
    <2>3. IsLinked(Linked(Operations(f)))
      BY <2>2, LinkedIsLinked, Zenon
    <2> QED
      BY <1>1, <2>3, Zenon
  <1>4. Validate(r.proxy) = "ok"
    BY AcceptedIsValid
  <1>5. IsComplete(plan) /\ r.err = NoError
    OBVIOUS
  <1> HIDE DEF plan, r
  <1>6. parser.plan = plan /\ parser.plan \in Seq(Operated) /\ IsLinked(parser.plan)
        /\ IsComplete(parser.plan)
    BY <1>1, <1>2, <1>3, <1>5
  <1>7. parseGeneric(parser, input, ZeroProxy, "scalar").err = NoError
    BY <1>2, <1>5
  <1>8. Matches(WrittenAlong(parser.plan, parseGeneric(parser, input, ZeroProxy, "scalar").proxy),
                input, 0, Len(input))
    BY <1>2, <1>6, <1>7, ExactlyRead, Zenon
  <1>9. Matches(WrittenAlong(plan, r.proxy), input, 0, Len(input))
    BY <1>2, <1>6, <1>8, Zenon
  <1>10. Unfolded(WrittenAlong(plan, r.proxy)) = Unfolded(input)
    BY <1>9, MatchesAll
  <1> QED
    BY <1>4, <1>10 DEF plan, r

\* A strict parser accepts nothing but its format, written out with the fields
\* it returns in the case the line gives the scheme, and those are valid: no
\* symbol of the line is skipped, read twice or left behind, whatever lies
\* between its delimiters.  The format has to have a host and a port behind it,
\* and no verb twice: of two %u the second one is returned, and of a %d in front
\* of the %h nothing.  It is about parseGeneric and the two strict parsers.
THEOREM StrictReadsExactly == Spec => [](IsComplete(parsers.lenient.plan) => StrictIsExact)
  <1>1. ParserInv /\ LineInv => (IsComplete(parsers.lenient.plan) => StrictIsExact)
    <2> SUFFICES ASSUME ParserInv, LineInv, IsComplete(parsers.lenient.plan), Accepted("strict")
                 PROVE  LET p == results["strict"]["scalar"].proxy
                        IN  Validate(p) = "ok" /\ Unfolded(Written(p)) = Unfolded(line)
      BY Zenon DEF StrictIsExact
    <2> DEFINE p == results["strict"]["scalar"].proxy
    <2>1. PICK f \in Formats : parsers = [strict |-> New(f, TRUE), lenient |-> New(f, FALSE)]
      BY DEF ParserInv
    <2>2. line \in Text
      BY DEF ParserInv
    <2>3. parsers["strict"] = New(f, TRUE) /\ parsers.lenient = New(f, FALSE)
      BY <2>1
    <2>4. "strict" \in Called /\ results["strict"]["scalar"].err = NoError
      BY DEF Accepted
    <2>5. results["strict"]["scalar"] = ParseInto(New(f, TRUE), line, ZeroProxy, "scalar")
      BY <2>3, <2>4 DEF LineInv
    <2>6. /\ Validate(p) = "ok"
          /\ Unfolded(WrittenAlong(New(f, FALSE).plan, p)) = Unfolded(line)
      <3>1. IsComplete(New(f, FALSE).plan)
        BY <2>3
      <3>2. ParseInto(New(f, TRUE), line, ZeroProxy, "scalar").err = NoError
        BY <2>4, <2>5, Zenon
      <3> QED
        BY <2>2, <2>5, <3>1, <3>2, StrictCall, Zenon
    <2>7. Written(p) = WrittenAlong(New(f, FALSE).plan, p)
      <3>1. Written(p) = WrittenAlong(parsers.lenient.plan, p)
        BY Zenon DEF Written, WrittenAlong, PartOf
      <3> QED
        BY <2>3, <3>1
    <2> QED
      BY <2>6, <2>7
  <1> QED
    BY <1>1, CallerStarts, CallerSteps, LineStarts, LineSteps, PTL DEF Spec

-----------------------------------------------------------------------------
(* A proxy that is written out, read back.                                 *)

\* Texts can be joined, in any order.
LEMMA TextsJoin ==
    /\ \A x \in Text, y \in Text, z \in Text : (x \o y) \o z = x \o (y \o z)
    /\ \A x \in Text, y \in Text : x \o y \in Text
  <1>1. \A S : \A x \in Seq(S), y \in Seq(S), z \in Seq(S) : (x \o y) \o z = x \o (y \o z)
    BY ConcatAssociative
  <1>2. \A S : \A x \in Seq(S), y \in Seq(S) : x \o y \in Seq(S)
    BY ConcatProperties
  <1>3. /\ \A x \in Seq(Symbols), y \in Seq(Symbols), z \in Seq(Symbols) :
              (x \o y) \o z = x \o (y \o z)
        /\ \A x \in Seq(Symbols), y \in Seq(Symbols) : x \o y \in Seq(Symbols)
    BY <1>1, <1>2
  <1>4. Text = Seq(Symbols)
    BY DEF Text
  <1> QED
    BY <1>3, <1>4

\* The text w is s and t joined, which are cut again where s ends.
IsJoined(w, s, t) ==
    /\ w \in Text /\ Len(s) \in Nat /\ Len(t) \in Nat /\ Len(w) = Len(s) + Len(t)
    /\ \A i \in 1 .. Len(s) : w[i] = s[i]
    /\ \A i \in 1 .. Len(t) : w[Len(s) + i] = t[i]
    /\ Slice(w, 0, Len(s)) = s /\ Rest(w, Len(s)) = t

\* Two texts are joined.
LEMMA JoinedIsCut ==
    ASSUME NEW s \in Text, NEW t \in Text
    PROVE  IsJoined(s \o t, s, t)
  <1> DEFINE w == s \o t
             m == Len(s)
             n == Len(t)
  <1>1. m \in Nat /\ n \in Nat
    BY DEF Text
  <1>2. /\ w \in Text /\ Len(w) = m + n
        /\ \A i \in 1 .. m + n : w[i] = IF i <= m THEN s[i] ELSE t[i - m]
    BY ConcatProperties DEF Text
  <1> HIDE DEF w
  <1>3. \A i \in 1 .. m : w[i] = s[i]
    <2>1. \A i \in 1 .. m : i \in 1 .. m + n /\ i <= m
      BY <1>1, SMT
    <2> QED
      BY <1>2, <2>1, Zenon
  <1>4. \A i \in 1 .. n : w[m + i] = t[i]
    <2>1. \A i \in 1 .. n : m + i \in 1 .. m + n /\ ~ (m + i <= m) /\ (m + i) - m = i
      BY <1>1, SMT
    <2> QED
      BY <1>2, <2>1, Zenon
  <1>5. Slice(w, 0, m) = s
    <2>1. 0 \in Nat /\ 0 <= m /\ m <= Len(w) /\ m - 0 = m /\ \A i \in 1 .. m : 0 + i = i
      BY <1>1, <1>2, SMT
    <2>2. /\ Slice(w, 0, m) \in Text /\ Len(Slice(w, 0, m)) = m - 0
          /\ \A i \in 1 .. m - 0 : Slice(w, 0, m)[i] = w[0 + i]
      BY <1>1, <1>2, <2>1, SliceIsText, Zenon
    <2>3. Len(Slice(w, 0, m)) = m /\ \A i \in 1 .. m : Slice(w, 0, m)[i] = s[i]
      BY <1>3, <2>1, <2>2, Zenon
    <2> QED
      BY <2>2, <2>3, SameText
  <1>6. Rest(w, m) = t
    <2> DEFINE k == Len(w)
    <2>1. m <= k /\ k <= Len(w) /\ k - m = n /\ k \in Nat
      BY <1>1, <1>2, SMT
    <2>2. Rest(w, m) = Slice(w, m, k)
      BY DEF Rest, Slice
    <2> HIDE DEF k
    <2>3. /\ Slice(w, m, k) \in Text /\ Len(Slice(w, m, k)) = k - m
          /\ \A i \in 1 .. k - m : Slice(w, m, k)[i] = w[m + i]
      BY <1>1, <1>2, <2>1, SliceIsText, Zenon
    <2>4. Len(Slice(w, m, k)) = n /\ \A i \in 1 .. n : Slice(w, m, k)[i] = t[i]
      BY <1>4, <2>1, <2>3, Zenon
    <2>5. Slice(w, m, k) = t
      BY <2>3, <2>4, SameText
    <2> QED
      BY <2>2, <2>5
  <1> QED
    BY <1>1, <1>2, <1>3, <1>4, <1>5, <1>6 DEF w, IsJoined

\* A field w behind s is cut out that ends at the first c, behind which t lies.
FieldCut(input, s, w, c, t) ==
    /\ input \in Text
    /\ IndexByte(input, c, Len(s)) = Len(s) + Len(w)
    /\ Slice(input, Len(s), Len(s) + Len(w)) = w
    /\ Rest(input, Len(s) + Len(w) + 1) = t

\* A field without a c is cut out at the c behind it.
LEMMA FieldIsCut ==
    ASSUME NEW s \in Text, NEW w \in Text, NEW c \in Symbols, NEW t \in Text, ~ Contains(w, c)
    PROVE  FieldCut(s \o (w \o (<<c>> \o t)), s, w, c, t)
  <1> DEFINE input == s \o (w \o (<<c>> \o t))
             m == Len(s)
             n == Len(w)
             behind == <<c>> \o t
             field == w \o behind
  <1>1. <<c>> \in Text /\ Len(<<c>>) = 1 /\ <<c>>[1] = c
    BY DEF Text
  <1>2. /\ behind \in Text /\ Len(behind) = 1 + Len(t) /\ behind[1] = c /\ Len(t) \in Nat
    <2>1. /\ <<c>> \o t \in Text /\ Len(<<c>> \o t) = Len(<<c>>) + Len(t) /\ Len(t) \in Nat
          /\ \A i \in 1 .. Len(<<c>>) : (<<c>> \o t)[i] = <<c>>[i]
      BY <1>1, JoinedIsCut DEF IsJoined
    <2>2. 1 \in 1 .. Len(<<c>>)
      OBVIOUS
    <2>3. (<<c>> \o t)[1] = c
      BY <1>1, <2>1, <2>2, Zenon
    <2> QED
      BY <1>1, <2>1, <2>3, Zenon
  <1> HIDE DEF behind
  <1>3. /\ field \in Text /\ n \in Nat /\ Len(field) = n + Len(behind)
        /\ \A i \in 1 .. n : field[i] = w[i]
        /\ \A i \in 1 .. Len(behind) : field[n + i] = behind[i]
    <2>1. IsJoined(field, w, behind)
      BY <1>2, JoinedIsCut
    <2> QED
      BY <2>1, Zenon DEF IsJoined
  <1>4. input = s \o field
    BY DEF field, behind
  <1> HIDE DEF field, input
  <1>5. /\ input \in Text /\ m \in Nat /\ Len(input) = m + Len(field)
        /\ \A i \in 1 .. Len(field) : input[m + i] = field[i]
    <2>1. IsJoined(input, s, field)
      BY <1>3, <1>4, JoinedIsCut
    <2> QED
      BY <2>1, Zenon DEF IsJoined
  <1>6. /\ m + n \in Nat /\ m <= m + n /\ m + n < Len(input) /\ m + n <= Len(input)
        /\ Len(input) = (m + n + 1) + Len(t) /\ (m + n) - m = n
    BY <1>2, <1>3, <1>5, SMT
  <1>7. \A i \in 1 .. n : input[m + i] = w[i]
    <2>1. \A i \in 1 .. n : i \in 1 .. Len(field)
      BY <1>2, <1>3, SMT
    <2> QED
      BY <1>3, <1>5, <2>1, Zenon
  <1>8. input[(m + n) + 1] = c
    <2>1. n + 1 \in 1 .. Len(field) /\ 1 \in 1 .. Len(behind) /\ (m + n) + 1 = m + (n + 1)
      BY <1>2, <1>3, <1>5, SMT
    <2> QED
      BY <1>2, <1>3, <1>5, <2>1, Zenon
  <1>9. \A i \in m + 1 .. m + n : input[i] # c
    <2> SUFFICES ASSUME NEW i \in m + 1 .. m + n
                 PROVE  input[i] # c
      OBVIOUS
    <2>1. i - m \in 1 .. n /\ m + (i - m) = i
      BY <1>3, <1>5, SMT
    <2>2. w[i - m] # c
      BY <2>1 DEF Contains
    <2> QED
      BY <1>7, <2>1, <2>2
  <1>10. IndexByte(input, c, m) = m + n
    <2>1. /\ input \in Text /\ m \in Nat /\ m + n \in Nat /\ m <= m + n /\ m + n < Len(input)
          /\ input[(m + n) + 1] = c /\ \A i \in m + 1 .. m + n : input[i] # c
      BY <1>5, <1>6, <1>8, <1>9
    <2> HIDE DEF m, n
    <2> QED
      BY <2>1, IndexByteIs
  <1>11. Slice(input, m, m + n) = w
    <2>1. /\ Slice(input, m, m + n) \in Text /\ Len(Slice(input, m, m + n)) = (m + n) - m
          /\ \A i \in 1 .. (m + n) - m : Slice(input, m, m + n)[i] = input[m + i]
      BY <1>5, <1>6, SliceIsText, Zenon
    <2>2. Len(Slice(input, m, m + n)) = n /\ \A i \in 1 .. n : Slice(input, m, m + n)[i] = w[i]
      BY <1>6, <1>7, <2>1, Zenon
    <2> QED
      BY <2>1, <2>2, SameText
  <1>12. Rest(input, m + n + 1) = t
    <2> DEFINE front == s \o (w \o <<c>>)
    <2>1. w \o <<c>> \in Text /\ Len(w \o <<c>>) = n + Len(<<c>>)
      BY <1>1, JoinedIsCut DEF IsJoined
    <2>2. front \in Text /\ Len(front) = m + Len(w \o <<c>>)
      BY <2>1, JoinedIsCut DEF IsJoined
    <2>3. Len(front) = m + n + 1
      BY <1>1, <1>3, <1>5, <2>1, <2>2
    <2>4. input = front \o t
      <3> USE DEF input
      <3>1. \A x \in Text, y \in Text, z \in Text : (x \o y) \o z = x \o (y \o z)
        BY TextsJoin
      <3>2. w \o (<<c>> \o t) = (w \o <<c>>) \o t
        BY <1>1, <3>1
      <3>3. s \o ((w \o <<c>>) \o t) = front \o t
        BY <2>1, <3>1
      <3> QED
        BY <3>2, <3>3
    <2> HIDE DEF front
    <2>5. Rest(front \o t, Len(front)) = t
      BY <2>2, JoinedIsCut DEF IsJoined
    <2> QED
      BY <2>3, <2>4, <2>5
  <1> QED
    BY <1>5, <1>10, <1>11, <1>12 DEF FieldCut, input

\* The scheme s stands in front of t.
SchemeCut(input, s, t) ==
    /\ input \in Text /\ s \o schemeSeparator \in Text /\ Len(s \o schemeSeparator) = 4
    /\ Find(input, schemeSeparator, 0) = 1
    /\ schemeOf(Slice(input, 0, 1)) = s
    /\ Rest(input, 4) = t

\* A valid scheme is cut out of the front.
LEMMA SchemeInFront ==
    ASSUME NEW s \in Text, IsValidScheme(s), NEW t \in Text
    PROVE  SchemeCut((s \o schemeSeparator) \o t, s, t)
  <1> DEFINE input == (s \o schemeSeparator) \o t
             front == s \o schemeSeparator
  <1>1. Len(s) = 1
    BY DEF IsValidScheme
  <1>2. /\ front \in Text /\ Len(front) = Len(s) + 3
        /\ \A i \in 1 .. Len(s) : front[i] = s[i]
        /\ \A i \in 1 .. 3 : front[Len(s) + i] = schemeSeparator[i]
    <2>1. schemeSeparator \in Text /\ Len(schemeSeparator) = 3
      BY SeparatorIsText
    <2>2. IsJoined(front, s, schemeSeparator)
      BY <2>1, JoinedIsCut
    <2> HIDE DEF front
    <2> QED
      BY <2>1, <2>2, Zenon DEF IsJoined
  <1>3. Len(front) = 4
    BY <1>1, <1>2
  <1>4. input = front \o t
    OBVIOUS
  <1> HIDE DEF front, input
  <1>5. /\ input \in Text /\ Len(input) = 4 + Len(t) /\ Len(t) \in Nat
        /\ \A i \in 1 .. 4 : input[i] = front[i]
        /\ Rest(input, 4) = t
    <2>1. input = front \o t
      BY <1>4
    <2>2. IsJoined(input, front, t)
      BY <1>2, <2>1, JoinedIsCut
    <2> QED
      BY <1>3, <2>2, Zenon DEF IsJoined
  <1>6. Slice(input, 0, 1) = s
    <2>1. 0 \in Nat /\ 1 \in Nat /\ 0 <= 1 /\ 1 <= Len(input) /\ 1 - 0 = 1
      BY <1>5, SMT
    <2>2. /\ Slice(input, 0, 1) \in Text /\ Len(Slice(input, 0, 1)) = 1 - 0
          /\ \A i \in 1 .. 1 - 0 : Slice(input, 0, 1)[i] = input[0 + i]
      BY <1>5, <2>1, SliceIsText, Zenon
    <2>3. \A i \in 1 .. 1 : 0 + i = i /\ i \in 1 .. 4
      BY SMT
    <2>4. Len(Slice(input, 0, 1)) = 1 /\ \A i \in 1 .. 1 : Slice(input, 0, 1)[i] = s[i]
      BY <1>1, <1>2, <1>5, <2>1, <2>2, <2>3, Zenon
    <2> QED
      BY <1>1, <2>2, <2>4, SameText
  <1>7. Slice(input, 1, 4) = schemeSeparator
    <2>1. 1 \in Nat /\ 4 \in Nat /\ 1 <= 4 /\ 4 <= Len(input) /\ 4 - 1 = 3
      BY <1>5, SMT
    <2>2. /\ Slice(input, 1, 4) \in Text /\ Len(Slice(input, 1, 4)) = 4 - 1
          /\ \A i \in 1 .. 4 - 1 : Slice(input, 1, 4)[i] = input[1 + i]
      BY <1>5, <2>1, SliceIsText, Zenon
    <2>3. \A i \in 1 .. 3 : 1 + i \in 1 .. 4
      BY SMT
    <2>4. \A i \in 1 .. 3 : Slice(input, 1, 4)[i] = schemeSeparator[i]
      BY <1>1, <1>2, <1>5, <2>1, <2>2, <2>3, Zenon
    <2>5. schemeSeparator \in Text /\ Len(schemeSeparator) = 3 /\ Len(Slice(input, 1, 4)) = 3
      BY <2>1, <2>2, SeparatorIsText, Zenon
    <2> QED
      BY <2>2, <2>4, <2>5, SameText
  <1>8. BeginsWithScheme(input)
    <2>1. Len(input) >= 4
      BY <1>5, SMT
    <2>2. schemeSeparator = <<":", "/", "/">>
      BY DEF schemeSeparator
    <2> QED
      BY <1>6, <1>7, <2>1, <2>2, Zenon DEF BeginsWithScheme
  <1>9. Find(input, schemeSeparator, 0) = 1 /\ schemeOf(Slice(input, 0, 1)) = Slice(input, 0, 1)
    BY <1>5, <1>8, SchemeIsFound
  <1> QED
    BY <1>2, <1>3, <1>5, <1>6, <1>9 DEF front, input, SchemeCut

\* A valid host and port is written out with the ':' between the two.
LEMMA HostIsItsParts ==
    ASSUME NEW p \in Texts, validateHostnamePort(p.host) = "ok"
    PROVE  /\ FieldText(p, "h") \in Text /\ FieldText(p, "d") \in Text
           /\ p.host = WithPort(FieldText(p, "h"), FieldText(p, "d"))
  <1> DEFINE s == p.host
             n == Len(s)
             colons == { i \in 1 .. n : s[i] = ":" }
             at == PortColon(s)
             h == SubSeq(s, 1, at - 1)
             d == SubSeq(s, at + 1, n)
  <1>1. s \in Text /\ n \in Nat
    BY DEF Texts, Text
  <1>2. FieldText(p, "h") = h /\ FieldText(p, "d") = d
    BY Zenon DEF FieldText
  <1>3. at = IF colons # {} THEN Max(colons) ELSE 0
    BY DEF PortColon, SelectLastInSeq
  <1>4. Len(h) >= 1
    <2> HIDE DEF s
    <2>1. PlainHost(SubSeq(s, 1, PortColon(s) - 1)) \/ BracketedHost(SubSeq(s, 1, PortColon(s) - 1))
      <3>1. s \in Text /\ validateHostnamePort(s) = "ok"
        BY <1>1 DEF s
      <3> HIDE DEF n, at, h
      <3> QED
        BY <3>1, ValidHostParts, Zenon
    <2>2. h = SubSeq(s, 1, PortColon(s) - 1)
      OBVIOUS
    <2> HIDE DEF h
    <2>3. PlainHost(h) \/ BracketedHost(h)
      BY <2>1, <2>2, Zenon
    <2>4. ASSUME PlainHost(h)
          PROVE  Len(h) >= 1
      BY <2>4, Zenon DEF PlainHost
    <2>5. ASSUME BracketedHost(h)
          PROVE  Len(h) >= 1
      <3>1. h \in Text /\ Len(h) >= 2
        BY <2>5, Zenon DEF BracketedHost
      <3>2. Len(h) \in Nat
        BY <3>1 DEF Text
      <3> QED
        BY <3>1, <3>2
    <2> QED
      BY <2>3, <2>4, <2>5
  <1>5. colons # {}
    <2> SUFFICES ASSUME colons = {}
                 PROVE  FALSE
      OBVIOUS
    <2>1. at = 0
      BY <1>3
    <2> HIDE DEF at, s
    <2>2. h = SubSeq(s, 1, 0 - 1)
      BY <2>1
    <2>3. Len(SubSeq(s, 1, 0 - 1)) = 0
      BY <1>1 DEF Text
    <2>4. ~ (0 >= 1)
      OBVIOUS
    <2> HIDE DEF h
    <2>5. Len(h) = 0
      BY <2>2, <2>3
    <2> QED
      BY <1>4, <2>4, <2>5
  <1> HIDE DEF s, n, at
  <1>6. at \in 1 .. n /\ s[at] = ":"
    <2>1. \A i \in 1 .. n : i \in 0 .. n
      BY <1>1, SMT
    <2>2. colons \in SUBSET (0 .. n)
      BY <2>1, Zenon
    <2>3. Max(colons) \in colons
      BY <1>1, <1>5, <2>2, MaxIsGreatest
    <2> QED
      BY <1>3, <1>5, <2>3
  <1> DEFINE m == at - 1
  <1>7. /\ m \in Nat /\ at \in Nat /\ 0 \in Nat /\ 0 <= m /\ m <= n /\ at <= n /\ n <= n
        /\ m - 0 = m /\ n = m + 1 + (n - at) /\ m + 1 = at /\ at >= 1
        /\ \A i \in 1 .. m : 0 + i = i
    BY <1>1, <1>6, SMT
  <1>8. h \in Text /\ Len(h) = m /\ \A i \in 1 .. m : h[i] = s[i]
    <2>1. /\ Slice(s, 0, m) \in Text /\ Len(Slice(s, 0, m)) = m - 0
          /\ \A i \in 1 .. m - 0 : Slice(s, 0, m)[i] = s[0 + i]
      BY <1>1, <1>7, SliceIsText, Zenon DEF n
    <2>2. h = Slice(s, 0, m)
      BY DEF Slice
    <2> QED
      BY <1>7, <2>1, <2>2, Zenon
  <1>9. d \in Text /\ Len(d) = n - at /\ \A i \in 1 .. n - at : d[i] = s[at + i]
    <2>1. /\ Slice(s, at, n) \in Text /\ Len(Slice(s, at, n)) = n - at
          /\ \A i \in 1 .. n - at : Slice(s, at, n)[i] = s[at + i]
      BY <1>1, <1>7, SliceIsText, Zenon DEF n
    <2>2. d = Slice(s, at, n)
      BY DEF Slice
    <2> QED
      BY <2>1, <2>2, Zenon
  <1> HIDE DEF h, d
  <1>10. s = WithPort(h, d)
    <2> DEFINE w == WithPort(h, d)
    <2>1. /\ w \in Text /\ Len(w) = Len(h) + 1 + Len(d)
          /\ \A i \in 1 .. Len(h) : w[i] = h[i]
          /\ w[Len(h) + 1] = ":"
          /\ \A i \in 1 .. Len(d) : w[Len(h) + 1 + i] = d[i]
      BY <1>8, <1>9, JoinedParts
    <2> HIDE DEF w
    <2>2. Len(w) = n /\ Len(s) = n
      BY <1>7, <1>8, <1>9, <2>1 DEF n
    <2>3. \A i \in 1 .. m : w[i] = s[i]
      BY <1>8, <2>1
    <2>4. w[at] = s[at]
      BY <1>6, <1>7, <1>8, <2>1
    <2>5. ASSUME NEW i \in 1 .. n, i > at
          PROVE  w[i] = s[i]
      <3>1. i - at \in 1 .. n - at /\ at + (i - at) = i /\ m + 1 + (i - at) = i
        BY <1>1, <1>7, <2>5, SMT
      <3>2. Len(h) + 1 + (i - at) = i
        BY <1>8, <3>1
      <3>3. d[i - at] = s[at + (i - at)]
        BY <1>9, <3>1, Zenon
      <3>4. w[Len(h) + 1 + (i - at)] = d[i - at]
        BY <1>9, <2>1, <3>1
      <3> QED
        BY <3>1, <3>2, <3>3, <3>4
    <2>6. \A i \in 1 .. n : i \in 1 .. m \/ i = at \/ i > at
      BY <1>1, <1>7, SMT
    <2>7. \A i \in 1 .. n : s[i] = w[i]
      BY <2>3, <2>4, <2>5, <2>6
    <2> QED
      BY <1>1, <2>1, <2>2, <2>7, SameText DEF w
  <1> QED
    BY <1>2, <1>8, <1>9, <1>10 DEF s

\* Texts can be put together in another order.
LEMMA Regrouped ==
    ASSUME NEW x \in Text, NEW y \in Text, NEW z \in Text
    PROVE  (x \o y) \o z = x \o (y \o z)
  BY TextsJoin

\* Five texts put together.
LEMMA FlatFive ==
    ASSUME NEW seqs \in Seq(Text), Len(seqs) = 5
    PROVE  FlattenSeq(seqs)
             = (seqs[1] \o seqs[2]) \o (seqs[3] \o seqs[4] \o seqs[5])
  <1> DEFINE x1 == seqs[1]
             x2 == seqs[2]
             x3 == seqs[3]
             x4 == seqs[4]
             x5 == seqs[5]
  <1>1. 4 \in Nat /\ 4 + 1 = 5
    OBVIOUS
  <1>2. /\ x1 \in Text /\ x2 \in Text /\ x3 \in Text /\ x4 \in Text /\ x5 \in Text
    <2>1. \A i \in 1 .. Len(seqs) : seqs[i] \in Text
      BY ElementOfSeq
    <2>2. \A i \in 1 .. 5 : seqs[i] \in Text
      BY <2>1
    <2> QED
      BY <2>2
  <1>3. PICK h \in [0 .. 4 -> Text] :
          /\ h[0] = seqs[1] /\ \A i \in 1 .. 4 : h[i] = h[i - 1] \o seqs[i + 1]
          /\ FlattenSeq(seqs) = h[4]
    <2> QED
      BY <1>1, FlatRuns
  <1>4. h[1] = x1 \o x2 /\ h[2] = h[1] \o x3 /\ h[3] = h[2] \o x4 /\ h[4] = h[3] \o x5
    <2>1. h[1] = h[0] \o seqs[2]
      <3>1. 1 \in 1 .. 4 /\ 1 - 1 = 0 /\ 1 + 1 = 2
        OBVIOUS
      <3> QED
        BY <1>3, <3>1, Zenon
    <2>2. h[2] = h[1] \o seqs[3]
      <3>1. 2 \in 1 .. 4 /\ 2 - 1 = 1 /\ 2 + 1 = 3
        OBVIOUS
      <3> QED
        BY <1>3, <3>1, Zenon
    <2>3. h[3] = h[2] \o seqs[4]
      <3>1. 3 \in 1 .. 4 /\ 3 - 1 = 2 /\ 3 + 1 = 4
        OBVIOUS
      <3> QED
        BY <1>3, <3>1, Zenon
    <2>4. h[4] = h[3] \o seqs[5]
      <3>1. 4 \in 1 .. 4 /\ 4 - 1 = 3 /\ 4 + 1 = 5
        OBVIOUS
      <3> QED
        BY <1>3, <3>1, Zenon
    <2> QED
      BY <1>3, <2>1, <2>2, <2>3, <2>4
  <1> DEFINE h1 == h[1]
             h2 == h[2]
             h3 == h[3]
             h4 == h[4]
  <1>5. h1 = x1 \o x2 /\ h2 = h1 \o x3 /\ h3 = h2 \o x4 /\ h4 = h3 \o x5
    BY <1>4
  <1>6. FlattenSeq(seqs) = h4
    BY <1>3
  <1> HIDE DEF x1, x2, x3, x4, x5
  <1> HIDE DEF h1, h2, h3, h4
  <1>7. \A x \in Text, y \in Text : x \o y \in Text
    BY TextsJoin
  <1>8. h1 \in Text /\ x4 \o x5 \in Text /\ x3 \o (x4 \o x5) \in Text /\ h1 \o x3 \in Text
    BY <1>2, <1>5, <1>7
  <1>9. h4 = h1 \o (x3 \o (x4 \o x5))
    <2>1. h2 \in Text
      BY <1>2, <1>5, <1>8
    <2>2. h4 = h2 \o (x4 \o x5)
      <3>1. h2 \in Text /\ x4 \in Text /\ x5 \in Text /\ h3 = h2 \o x4 /\ h4 = h3 \o x5
        BY <1>2, <1>5, <2>1
      <3>2. (h2 \o x4) \o x5 = h2 \o (x4 \o x5)
        BY <3>1, Regrouped, Zenon
      <3> QED
        BY <3>1, <3>2
    <2> QED
      <3>1. h1 \in Text /\ x3 \in Text /\ (x4 \o x5) \in Text /\ h2 = h1 \o x3 /\ h4 = h2 \o (x4 \o x5)
        BY <1>2, <1>5, <1>8, <2>2
      <3>2. (h1 \o x3) \o (x4 \o x5) = h1 \o (x3 \o (x4 \o x5))
        BY <3>1, Regrouped, Zenon
      <3> QED
        BY <3>1, <3>2
  <1>10. x3 \o x4 \o x5 = x3 \o (x4 \o x5)
    BY <1>2, Regrouped, Zenon
  <1> QED
    BY <1>5, <1>6, <1>9, <1>10 DEF x1, x2, x3, x4, x5

\* Nine texts put together: four more in front of the last three.
LEMMA FlatNine ==
    ASSUME NEW seqs \in Seq(Text), Len(seqs) = 9
    PROVE  FlattenSeq(seqs)
             = (seqs[1] \o seqs[2])
                 \o (seqs[3] \o (seqs[4] \o (seqs[5] \o (seqs[6]
                      \o (seqs[7] \o seqs[8] \o seqs[9])))))
  <1> DEFINE x1 == seqs[1]
             x2 == seqs[2]
             x3 == seqs[3]
             x4 == seqs[4]
             x5 == seqs[5]
             x6 == seqs[6]
             x7 == seqs[7]
             x8 == seqs[8]
             x9 == seqs[9]
  <1>1. 8 \in Nat /\ 8 + 1 = 9
    OBVIOUS
  <1>2. /\ x1 \in Text /\ x2 \in Text /\ x3 \in Text /\ x4 \in Text /\ x5 \in Text
        /\ x6 \in Text /\ x7 \in Text /\ x8 \in Text /\ x9 \in Text
    <2>1. \A i \in 1 .. Len(seqs) : seqs[i] \in Text
      BY ElementOfSeq
    <2>2. \A i \in 1 .. 9 : seqs[i] \in Text
      BY <2>1
    <2> QED
      BY <2>2
  <1>3. PICK h \in [0 .. 8 -> Text] :
          /\ h[0] = seqs[1] /\ \A i \in 1 .. 8 : h[i] = h[i - 1] \o seqs[i + 1]
          /\ FlattenSeq(seqs) = h[8]
    <2> QED
      BY <1>1, FlatRuns
  <1>4. /\ h[1] = x1 \o x2 /\ h[2] = h[1] \o x3 /\ h[3] = h[2] \o x4 /\ h[4] = h[3] \o x5
        /\ h[5] = h[4] \o x6 /\ h[6] = h[5] \o x7 /\ h[7] = h[6] \o x8 /\ h[8] = h[7] \o x9
    <2>1. h[1] = h[0] \o seqs[2]
      <3>1. 1 \in 1 .. 8 /\ 1 - 1 = 0 /\ 1 + 1 = 2
        OBVIOUS
      <3> QED
        BY <1>3, <3>1, Zenon
    <2>2. h[2] = h[1] \o seqs[3]
      <3>1. 2 \in 1 .. 8 /\ 2 - 1 = 1 /\ 2 + 1 = 3
        OBVIOUS
      <3> QED
        BY <1>3, <3>1, Zenon
    <2>3. h[3] = h[2] \o seqs[4]
      <3>1. 3 \in 1 .. 8 /\ 3 - 1 = 2 /\ 3 + 1 = 4
        OBVIOUS
      <3> QED
        BY <1>3, <3>1, Zenon
    <2>4. h[4] = h[3] \o seqs[5]
      <3>1. 4 \in 1 .. 8 /\ 4 - 1 = 3 /\ 4 + 1 = 5
        OBVIOUS
      <3> QED
        BY <1>3, <3>1, Zenon
    <2>5. h[5] = h[4] \o seqs[6]
      <3>1. 5 \in 1 .. 8 /\ 5 - 1 = 4 /\ 5 + 1 = 6
        OBVIOUS
      <3> QED
        BY <1>3, <3>1, Zenon
    <2>6. h[6] = h[5] \o seqs[7]
      <3>1. 6 \in 1 .. 8 /\ 6 - 1 = 5 /\ 6 + 1 = 7
        OBVIOUS
      <3> QED
        BY <1>3, <3>1, Zenon
    <2>7. h[7] = h[6] \o seqs[8]
      <3>1. 7 \in 1 .. 8 /\ 7 - 1 = 6 /\ 7 + 1 = 8
        OBVIOUS
      <3> QED
        BY <1>3, <3>1, Zenon
    <2>8. h[8] = h[7] \o seqs[9]
      <3>1. 8 \in 1 .. 8 /\ 8 - 1 = 7 /\ 8 + 1 = 9
        OBVIOUS
      <3> QED
        BY <1>3, <3>1, Zenon
    <2> QED
      BY <1>3, <2>1, <2>2, <2>3, <2>4, <2>5, <2>6, <2>7, <2>8
  <1> DEFINE h1 == h[1]
             h2 == h[2]
             h3 == h[3]
             h4 == h[4]
             h5 == h[5]
             h6 == h[6]
             h7 == h[7]
             h8 == h[8]
  <1>5. /\ h1 = x1 \o x2 /\ h2 = h1 \o x3 /\ h3 = h2 \o x4 /\ h4 = h3 \o x5
        /\ h5 = h4 \o x6 /\ h6 = h5 \o x7 /\ h7 = h6 \o x8 /\ h8 = h7 \o x9
    BY <1>4
  <1>6. FlattenSeq(seqs) = h8
    BY <1>3
  <1> HIDE DEF x1, x2, x3, x4, x5, x6, x7, x8, x9
  <1> HIDE DEF h1, h2, h3, h4, h5, h6, h7, h8
  <1>7. \A x \in Text, y \in Text : x \o y \in Text
    BY TextsJoin
  <1>8. /\ h1 \in Text /\ h2 \in Text /\ h3 \in Text /\ h4 \in Text /\ h5 \in Text
        /\ h6 \in Text
    BY <1>2, <1>5, <1>7
  <1> DEFINE y7 == x7 \o (x8 \o x9)
             y6 == x6 \o y7
             y5 == x5 \o y6
             y4 == x4 \o y5
  <1>9. x8 \o x9 \in Text /\ y7 \in Text /\ y6 \in Text /\ y5 \in Text /\ y4 \in Text
    BY <1>2, <1>7
  <1>10. h8 = h5 \o y7
    <2>1. h8 = h6 \o (x8 \o x9)
      <3>1. h6 \in Text /\ x8 \in Text /\ x9 \in Text /\ h7 = h6 \o x8 /\ h8 = h7 \o x9
        BY <1>2, <1>5, <1>8
      <3>2. (h6 \o x8) \o x9 = h6 \o (x8 \o x9)
        BY <3>1, Regrouped, Zenon
      <3> QED
        BY <3>1, <3>2
    <2> QED
      <3>1. h5 \in Text /\ x7 \in Text /\ (x8 \o x9) \in Text /\ h6 = h5 \o x7 /\ h8 = h6 \o (x8 \o x9)
        BY <1>2, <1>5, <1>8, <1>9, <2>1
      <3>2. (h5 \o x7) \o (x8 \o x9) = h5 \o (x7 \o (x8 \o x9))
        BY <3>1, Regrouped, Zenon
      <3> QED
        BY <3>1, <3>2
  <1> HIDE DEF y7
  <1>11. h8 = h4 \o y6
    <2>1. h4 \in Text /\ x6 \in Text /\ y7 \in Text /\ h5 = h4 \o x6 /\ h8 = h5 \o y7
      BY <1>2, <1>5, <1>8, <1>9, <1>10
    <2>2. (h4 \o x6) \o y7 = h4 \o (x6 \o y7)
      BY <2>1, Regrouped, Zenon
    <2> QED
      BY <2>1, <2>2
  <1> HIDE DEF y6
  <1>12. h8 = h3 \o y5
    <2>1. h3 \in Text /\ x5 \in Text /\ y6 \in Text /\ h4 = h3 \o x5 /\ h8 = h4 \o y6
      BY <1>2, <1>5, <1>8, <1>9, <1>11
    <2>2. (h3 \o x5) \o y6 = h3 \o (x5 \o y6)
      BY <2>1, Regrouped, Zenon
    <2> QED
      BY <2>1, <2>2
  <1> HIDE DEF y5
  <1>13. h8 = h2 \o y4
    <2>1. h2 \in Text /\ x4 \in Text /\ y5 \in Text /\ h3 = h2 \o x4 /\ h8 = h3 \o y5
      BY <1>2, <1>5, <1>8, <1>9, <1>12
    <2>2. (h2 \o x4) \o y5 = h2 \o (x4 \o y5)
      BY <2>1, Regrouped, Zenon
    <2> QED
      BY <2>1, <2>2
  <1> HIDE DEF y4
  <1>14. h8 = h1 \o (x3 \o y4)
    <2>1. h1 \in Text /\ x3 \in Text /\ y4 \in Text /\ h2 = h1 \o x3 /\ h8 = h2 \o y4
      BY <1>2, <1>5, <1>8, <1>9, <1>13
    <2>2. (h1 \o x3) \o y4 = h1 \o (x3 \o y4)
      BY <2>1, Regrouped, Zenon
    <2> QED
      BY <2>1, <2>2
  <1>15. y7 = x7 \o x8 \o x9
    <2>1. x7 \in Text /\ x8 \in Text /\ x9 \in Text
      BY <1>2
    <2>2. (x7 \o x8) \o x9 = x7 \o (x8 \o x9)
      BY <2>1, Regrouped
    <2> QED
      BY <2>2 DEF y7
  <1> QED
    BY <1>5, <1>6, <1>14, <1>15 DEF y4, y5, y6, x1, x2, x3, x4, x5, x6, x7, x8, x9

\* What is written of an operation: its delimiter or its field.
LEMMA PartsOfPlan ==
    ASSUME NEW format \in Text, NEW p \in Texts
    PROVE  LET plan == Operations(format)
               linked == Linked(plan)
               seqs == [k \in DOMAIN linked |-> PartOf(linked, p, k)]
           IN  /\ seqs \in Seq(Text) /\ Len(seqs) = Len(plan)
               /\ WrittenAlong(linked, p) = FlattenSeq(seqs)
               /\ \A k \in 1 .. Len(plan) : seqs[k] = PartOf(plan, p, k)
  <1> DEFINE plan == Operations(format)
             linked == Linked(plan)
             part(k) == PartOf(linked, p, k)
             seqs == [k \in DOMAIN linked |-> part(k)]
             n == Len(plan)
  <1>1. plan \in Seq(Operated)
    BY PlansAreTyped
  <1>2. WrittenAlong(linked, p) = FlattenSeq(seqs)
    BY Zenon DEF WrittenAlong
  <1> HIDE DEF plan
  <1>3. KeepsOperations(linked, plan) /\ linked \in Seq(Operated)
    BY <1>1, LinkedIsLinked, LinkedIsTyped, Zenon
  <1> HIDE DEF linked
  <1>4. n \in Nat /\ DOMAIN linked = 1 .. n
    <2>1. Len(linked) = n /\ n \in Nat
      BY <1>1, <1>3 DEF KeepsOperations
    <2> QED
      BY <1>3, <2>1
  <1>5. ASSUME NEW k \in 1 .. n
        PROVE  part(k) \in Text /\ part(k) = PartOf(plan, p, k)
    <2>1. plan[k] \in Operated
      BY <1>1
    <2>2. plan[k].field \in {"none"} \cup Verbs /\ plan[k].delim \in Text
      BY <2>1, OperationFields
    <2>3. /\ linked[k].field = plan[k].field
          /\ plan[k].field = "none" => linked[k] = plan[k]
      BY <1>3, Zenon DEF KeepsOperations
    <2>4. part(k) = PartOf(plan, p, k)
      BY <2>3 DEF PartOf
    <2>5. PartOf(plan, p, k) \in Text
      <3>1. CASE plan[k].field = "none"
        BY <2>2, <3>1 DEF PartOf
      <3>2. CASE plan[k].field # "none"
        <4>1. plan[k].field \in Verbs
          BY <2>2, <3>2
        <4>2. FieldText(p, plan[k].field) \in Text
          BY <4>1, FieldTextIsText
        <4> QED
          BY <3>2, <4>2 DEF PartOf
      <3> QED
        BY <3>1, <3>2
    <2> HIDE DEF part
    <2> QED
      BY <2>4, <2>5
  <1>6. seqs = [k \in 1 .. n |-> part(k)]
    BY <1>4
  <1> HIDE DEF part, n
  <1>7. seqs \in Seq(Text) /\ Len(seqs) = n /\ \A k \in 1 .. n : seqs[k] = part(k)
    <2>1. DOMAIN seqs = 1 .. n /\ \A k \in 1 .. n : seqs[k] = part(k)
      BY <1>6
    <2>2. seqs \in [1 .. n -> Text]
      BY <1>5, <1>6
    <2> HIDE DEF seqs
    <2> QED
      BY <1>4, <2>1, <2>2
  <1>8. \A k \in 1 .. n : seqs[k] = PartOf(plan, p, k)
    <2> HIDE DEF seqs
    <2> QED
      BY <1>5, <1>7, Zenon
  <1> QED
    BY <1>2, <1>7, <1>8 DEF plan, linked, part, n

\* A proxy written out in the format of a scheme, a host and a port.
LEMMA HostPortText ==
    ASSUME SchemeHostPort \in Text, NEW p \in Texts, validateHostnamePort(p.host) = "ok"
    PROVE  WrittenAlong(Linked(Operations(SchemeHostPort)), p) = (p.scheme \o schemeSeparator) \o p.host
  <1> DEFINE plan == Operations(SchemeHostPort)
             linked == Linked(plan)
             seqs == [k \in DOMAIN linked |-> PartOf(linked, p, k)]
             h == FieldText(p, "h")
             d == FieldText(p, "d")
  <1>1. HostPortPlan(plan)
    BY HostPortOperations, Zenon
  <1>2. /\ seqs \in Seq(Text) /\ Len(seqs) = Len(plan)
        /\ WrittenAlong(linked, p) = FlattenSeq(seqs)
        /\ \A k \in 1 .. Len(plan) : seqs[k] = PartOf(plan, p, k)
    BY PartsOfPlan, Zenon
  <1> HIDE DEF plan
  <1> HIDE DEF linked
  <1> HIDE DEF seqs, h, d
  <1>3. /\ Len(plan) = 5
        /\ plan[1].field = "t"
        /\ plan[2].field = "none" /\ plan[2].delim = schemeSeparator
        /\ plan[3].field = "h"
        /\ plan[4].field = "none" /\ plan[4].delim = <<":">>
        /\ plan[5].field = "d"
    BY <1>1 DEF HostPortPlan, Capture, Delimiter
  <1>4. /\ seqs[1] = PartOf(plan, p, 1) /\ seqs[2] = PartOf(plan, p, 2)
        /\ seqs[3] = PartOf(plan, p, 3) /\ seqs[4] = PartOf(plan, p, 4)
        /\ seqs[5] = PartOf(plan, p, 5) /\ Len(seqs) = 5
    BY <1>2, <1>3
  <1>5. /\ seqs[1] = p.scheme /\ seqs[2] = schemeSeparator
        /\ seqs[3] = h /\ seqs[4] = <<":">> /\ seqs[5] = d
    <2>1. p.scheme = FieldText(p, "t")
      BY TextsWritten
    <2> QED
      BY <1>3, <1>4, <2>1 DEF PartOf, h, d
  <1>6. FlattenSeq(seqs) = (seqs[1] \o seqs[2]) \o (seqs[3] \o seqs[4] \o seqs[5])
    BY <1>2, <1>4, FlatFive
  <1>7. p.host = (h \o <<":">>) \o d
    BY HostIsItsParts, Zenon DEF WithPort, h, d
  <1>8. WrittenAlong(linked, p) = (p.scheme \o schemeSeparator) \o p.host
    BY <1>2, <1>5, <1>6, <1>7, Zenon
  <1> QED
    BY <1>8 DEF linked, plan

\* A proxy written out in the format that has the credentials, too.
LEMMA CredentialsText ==
    ASSUME FullCredentials \in Text, NEW p \in Texts, validateHostnamePort(p.host) = "ok"
    PROVE  WrittenAlong(Linked(Operations(FullCredentials)), p)
             = (p.scheme \o schemeSeparator)
                 \o (p.username \o (<<":">> \o (p.password \o (<<"@">> \o p.host))))
  <1> DEFINE plan == Operations(FullCredentials)
             linked == Linked(plan)
             seqs == [k \in DOMAIN linked |-> PartOf(linked, p, k)]
             h == FieldText(p, "h")
             d == FieldText(p, "d")
  <1>1. CredentialsPlan(plan)
    BY CredentialsOperations, Zenon
  <1>2. /\ seqs \in Seq(Text) /\ Len(seqs) = Len(plan)
        /\ WrittenAlong(linked, p) = FlattenSeq(seqs)
        /\ \A k \in 1 .. Len(plan) : seqs[k] = PartOf(plan, p, k)
    BY PartsOfPlan, Zenon
  <1> HIDE DEF plan
  <1> HIDE DEF linked
  <1> HIDE DEF seqs, h, d
  <1>3. /\ Len(plan) = 9
        /\ plan[1].field = "t"
        /\ plan[2].field = "none" /\ plan[2].delim = schemeSeparator
        /\ plan[3].field = "u"
        /\ plan[4].field = "none" /\ plan[4].delim = <<":">>
        /\ plan[5].field = "p"
        /\ plan[6].field = "none" /\ plan[6].delim = <<"@">>
        /\ plan[7].field = "h"
        /\ plan[8].field = "none" /\ plan[8].delim = <<":">>
        /\ plan[9].field = "d"
    BY <1>1 DEF CredentialsPlan, Capture, Delimiter
  <1>4. /\ seqs[1] = PartOf(plan, p, 1) /\ seqs[2] = PartOf(plan, p, 2)
        /\ seqs[3] = PartOf(plan, p, 3) /\ seqs[4] = PartOf(plan, p, 4)
        /\ seqs[5] = PartOf(plan, p, 5) /\ seqs[6] = PartOf(plan, p, 6)
        /\ seqs[7] = PartOf(plan, p, 7) /\ seqs[8] = PartOf(plan, p, 8)
        /\ seqs[9] = PartOf(plan, p, 9) /\ Len(seqs) = 9
    BY <1>2, <1>3
  <1>5. /\ seqs[1] = p.scheme /\ seqs[2] = schemeSeparator
        /\ seqs[3] = p.username /\ seqs[4] = <<":">>
        /\ seqs[5] = p.password /\ seqs[6] = <<"@">>
        /\ seqs[7] = h /\ seqs[8] = <<":">> /\ seqs[9] = d
    <2>1. /\ p.scheme = FieldText(p, "t") /\ p.username = FieldText(p, "u")
          /\ p.password = FieldText(p, "p")
      BY TextsWritten
    <2> QED
      BY <1>3, <1>4, <2>1 DEF PartOf, h, d
  <1>6. FlattenSeq(seqs)
          = (seqs[1] \o seqs[2])
              \o (seqs[3] \o (seqs[4] \o (seqs[5] \o (seqs[6]
                   \o (seqs[7] \o seqs[8] \o seqs[9])))))
    BY <1>2, <1>4, FlatNine
  <1>7. p.host = (h \o <<":">>) \o d
    BY HostIsItsParts, Zenon DEF WithPort, h, d
  <1>8. WrittenAlong(linked, p)
          = (p.scheme \o schemeSeparator)
              \o (p.username \o (<<":">> \o (p.password \o (<<"@">> \o p.host))))
    BY <1>2, <1>5, <1>6, <1>7, Zenon
  <1> QED
    BY <1>8 DEF linked, plan

\* Where the host lies is no matter of what is valid.
LEMMA SameIsValid ==
    ASSUME NEW p, NEW q, q.scheme = p.scheme, q.host = p.host, q.username = p.username,
           q.password = p.password
    PROVE  Validate(q) = Validate(p) /\ Fields(q) = Fields(p)
  BY Zenon DEF Validate, Fields

\* The text of the format of a scheme, a host and a port is read back.
LEMMA HostPortComesBack ==
    ASSUME NEW p \in Texts, Validate(p) = "ok", p.username = <<>>, NEW input,
           input = (p.scheme \o schemeSeparator) \o p.host
    PROVE  LET r == parseStrictSchemeHostPort(input)
           IN  r.err = NoError /\ Fields(r.proxy) = Fields(p)
  <1> DEFINE q == [ZeroProxy EXCEPT !.scheme = schemeOf(Slice(input, 0, 1)),
                                    !.host = Rest(input, 4), !.hostAt = 4]
  <1>1. IsValidScheme(p.scheme) /\ p.password = <<>>
    BY ValidParts, Zenon
  <1>2. p.scheme \in Text /\ p.host \in Text
    BY FieldsOfTexts
  <1>3. /\ Find(input, schemeSeparator, 0) = 1
        /\ schemeOf(Slice(input, 0, 1)) = p.scheme /\ Rest(input, 4) = p.host
    <2>1. SchemeCut((p.scheme \o schemeSeparator) \o p.host, p.scheme, p.host)
      BY <1>1, <1>2, SchemeInFront
    <2> QED
      BY <2>1, Zenon DEF SchemeCut
  <1>4. /\ q.scheme = p.scheme /\ q.host = p.host /\ q.username = p.username
        /\ q.password = p.password
    BY <1>1, <1>3 DEF ZeroProxy
  <1>5. 1 # Absent /\ 1 + 3 = 4
    BY DEF Absent
  <1>6. parseStrictSchemeHostPort(input) = Validated(q)
    BY <1>3, <1>5, Zenon DEF parseStrictSchemeHostPort
  <1> HIDE DEF q
  <1>7. Validate(q) = "ok" /\ Fields(q) = Fields(p)
    BY <1>4, SameIsValid, Zenon
  <1>8. parseStrictSchemeHostPort(input) = Result(q, NoError)
    BY <1>6, <1>7, Zenon DEF Validated
  <1> QED
    BY <1>7, <1>8 DEF Result

\* So is the text of the format that has the credentials, too.
LEMMA CredentialsComeBack ==
    ASSUME FullCredentials \in Text, NEW p \in Texts, Validate(p) = "ok",
           ~ Contains(p.username, ":"), ~ Contains(p.password, "@"), NEW input,
           input = (p.scheme \o schemeSeparator)
                     \o (p.username \o (<<":">> \o (p.password \o (<<"@">> \o p.host))))
    PROVE  LET r == parseStrictFullCredentials(input)
           IN  r.err = NoError /\ Fields(r.proxy) = Fields(p)
  <1> DEFINE s == p.scheme
             u == p.username
             w == p.password
             h == p.host
             front == s \o schemeSeparator
             behindUser == w \o (<<"@">> \o h)
             behind == u \o (<<":">> \o behindUser)
             upToPassword == front \o (u \o <<":">>)
             m == Len(u)
             n == Len(w)
  <1>1. IsValidScheme(s)
    BY ValidParts, Zenon
  <1>2. s \in Text /\ u \in Text /\ w \in Text /\ h \in Text
    BY FieldsOfTexts
  <1>3. ":" \in Symbols /\ "@" \in Symbols
    <2>1. ":" \in Symbols
      BY TextsAssumption
    <2>2. 11 \in 1 .. Len(FullCredentials) /\ FullCredentials[11] = "@"
      <3>1. Len(FullCredentials) = 16 /\ 11 \in 1 .. 16
        BY DEF FullCredentials
      <3>2. FullCredentials[11] = "@"
        BY DEF FullCredentials
      <3> QED
        BY <3>1, <3>2
    <2>3. FullCredentials[11] \in Symbols
      <3>1. FullCredentials \in Seq(Symbols)
        BY DEF Text
      <3> QED
        BY <2>2, <3>1, ElementOfSeq
    <2> QED
      BY <2>1, <2>2, <2>3
  <1>4. <<":">> \in Text /\ <<"@">> \in Text /\ Len(<<":">>) = 1
    BY <1>3 DEF Text
  <1>5. ~ Contains(u, ":") /\ ~ Contains(w, "@")
    OBVIOUS
  <1>6. input = front \o behind
    OBVIOUS
  <1> HIDE DEF s, u, w, h
  <1>7. \A x \in Text, y \in Text : x \o y \in Text
    BY TextsJoin
  <1>8. <<"@">> \o h \in Text /\ behindUser \in Text
    BY <1>2, <1>4, <1>7
  <1>9. <<":">> \o behindUser \in Text /\ behind \in Text /\ u \o <<":">> \in Text
    <2> HIDE DEF behindUser
    <2> QED
      BY <1>2, <1>4, <1>7, <1>8
  <1> HIDE DEF behind
  <1>10. /\ front \in Text /\ Len(front) = 4 /\ Find(input, schemeSeparator, 0) = 1
         /\ schemeOf(Slice(input, 0, 1)) = s
    <2>1. SchemeCut((s \o schemeSeparator) \o behind, s, behind)
      BY <1>1, <1>2, <1>9, SchemeInFront
    <2> QED
      BY <1>6, <2>1, Zenon DEF SchemeCut
  <1> HIDE DEF front
  <1>11. m \in Nat /\ n \in Nat
    BY <1>2 DEF Text
  <1>12. /\ IndexByte(input, ":", 4) = 4 + m /\ Slice(input, 4, 4 + m) = u
    <2>1. /\ IndexByte(input, ":", Len(front)) = Len(front) + Len(u)
          /\ Slice(input, Len(front), Len(front) + Len(u)) = u
      <3>1. input = front \o (u \o (<<":">> \o behindUser))
        BY <1>6 DEF behind
      <3> HIDE DEF behindUser
      <3> QED
        <4>1. u \in Text /\ front \in Text /\ behindUser \in Text /\ ":" \in Symbols /\ ~ Contains(u, ":")
          BY <1>2, <1>3, <1>5, <1>8, <1>10
        <4>2. FieldCut(front \o (u \o (<<":">> \o behindUser)), front, u, ":", behindUser)
          BY <4>1, FieldIsCut
        <4> QED
          BY <3>1, <4>2, Zenon DEF FieldCut
    <2> QED
      BY <1>10, <2>1
  <1>13. upToPassword \in Text /\ Len(upToPassword) = 5 + m
    <2>1. Len(u \o <<":">>) = m + 1
      BY <1>2, <1>4, JoinedIsCut DEF IsJoined
    <2>2. Len(front \o (u \o <<":">>)) = Len(front) + Len(u \o <<":">>)
      BY <1>9, <1>10, JoinedIsCut DEF IsJoined
    <2>3. upToPassword \in Text
      BY <1>7, <1>9, <1>10
    <2> QED
      BY <1>10, <1>11, <2>1, <2>2, <2>3
  <1>14. input = upToPassword \o behindUser
    <2> HIDE DEF behindUser
    <2>1. (u \o <<":">>) \o behindUser = u \o (<<":">> \o behindUser)
      <3>1. u \in Text /\ <<":">> \in Text /\ behindUser \in Text
        BY <1>2, <1>4, <1>8
      <3> QED
        BY <3>1, Regrouped
    <2>2. (front \o (u \o <<":">>)) \o behindUser = front \o ((u \o <<":">>) \o behindUser)
      BY <1>8, <1>9, <1>10, Regrouped
    <2> QED
      BY <1>6, <2>1, <2>2 DEF behind
  <1> HIDE DEF upToPassword
  <1>15. /\ IndexByte(input, "@", 5 + m) = 5 + m + n /\ Slice(input, 5 + m, 5 + m + n) = w
         /\ Rest(input, 5 + m + n + 1) = h
    <2>1. /\ IndexByte(input, "@", Len(upToPassword)) = Len(upToPassword) + Len(w)
          /\ Slice(input, Len(upToPassword), Len(upToPassword) + Len(w)) = w
          /\ Rest(input, Len(upToPassword) + Len(w) + 1) = h
      <3>1. /\ upToPassword \in Text /\ w \in Text /\ "@" \in Symbols /\ h \in Text
            /\ ~ Contains(w, "@")
        BY <1>2, <1>3, <1>5, <1>13
      <3>2. FieldCut(upToPassword \o (w \o (<<"@">> \o h)), upToPassword, w, "@", h)
        BY <3>1, FieldIsCut
      <3> QED
        BY <1>14, <3>2, Zenon DEF FieldCut
    <2> QED
      BY <1>13, <2>1
  <1> HIDE DEF m, n
  <1> DEFINE q == [scheme |-> s, host |-> h, hostAt |-> 5 + m + n + 1, username |-> u, password |-> w]
  <1>16. parseStrictFullCredentials(input) = Validated(q)
    <2>1. /\ 1 # Absent /\ 1 + 3 = 4 /\ 4 + m # Absent /\ (4 + m) + 1 = 5 + m
          /\ 5 + m + n # Absent
      BY <1>11 DEF Absent
    <2> DEFINE usernameEnd == IndexByte(input, ":", Find(input, schemeSeparator, 0) + 3)
               passwordEnd == IndexByte(input, "@", usernameEnd + 1)
    <2>2. usernameEnd = 4 + m
      BY <1>10, <1>12, <2>1, Zenon
    <2>3. usernameEnd + 1 = 5 + m
      BY <2>1, <2>2, Zenon
    <2>4. passwordEnd = 5 + m + n
      BY <1>15, <2>3, Zenon
    <2>5. /\ Slice(input, Find(input, schemeSeparator, 0) + 3, usernameEnd) = u
          /\ Slice(input, usernameEnd + 1, passwordEnd) = w
          /\ Rest(input, passwordEnd + 1) = h
          /\ schemeOf(Slice(input, 0, Find(input, schemeSeparator, 0))) = s
      BY <1>10, <1>12, <1>15, <2>1, <2>2, <2>3, <2>4, Zenon
    <2>6. Find(input, schemeSeparator, 0) # Absent /\ usernameEnd # Absent /\ passwordEnd # Absent
      BY <1>10, <2>1, <2>2, <2>4, Zenon
    <2>7. passwordEnd + 1 = 5 + m + n + 1
      BY <2>4
    <2>8. parseStrictFullCredentials(input)
            = Validated([scheme |-> schemeOf(Slice(input, 0, Find(input, schemeSeparator, 0))),
                         host |-> Rest(input, passwordEnd + 1), hostAt |-> passwordEnd + 1,
                         username |-> Slice(input, Find(input, schemeSeparator, 0) + 3, usernameEnd),
                         password |-> Slice(input, usernameEnd + 1, passwordEnd)])
      BY <2>6, Zenon DEF parseStrictFullCredentials
    <2> HIDE DEF usernameEnd, passwordEnd
    <2> QED
      BY <2>5, <2>7, <2>8
  <1>17. /\ q.scheme = p.scheme /\ q.host = p.host /\ q.username = p.username
         /\ q.password = p.password
    BY DEF s, u, w, h
  <1> HIDE DEF q
  <1>18. Validate(q) = "ok" /\ Fields(q) = Fields(p)
    BY <1>17, SameIsValid, Zenon
  <1>19. parseStrictFullCredentials(input) = Result(q, NoError)
    BY <1>16, <1>18, Zenon DEF Validated
  <1> QED
    BY <1>18, <1>19 DEF Result

\* A username ends before any ':' and a password before any '@'; a format without a field for
\* them (none) leaves both empty.
Apart(p, none) ==
    /\ ~ Contains(p.username, ":") /\ ~ Contains(p.password, "@")
    /\ none => p.username = <<>> /\ p.password = <<>>

\* An operation that takes them so.
SetsApart(op, none) ==
    /\ op.field = "u" => op.delim = <<":">>
    /\ op.field = "p" => op.delim = <<"@">>
    /\ none => op.field \notin {"u", "p"}

\* What is cut out before the first c has none.
LEMMA NoneInCut ==
    ASSUME NEW input \in Text, NEW c, NEW from \in Nat, NEW end \in Nat, from <= end,
           end <= Len(input),
           Find(input, <<c>>, from) # Absent => end <= Find(input, <<c>>, from)
    PROVE  ~ Contains(Slice(input, from, end), c)
  <1> DEFINE j == IndexByte(input, c, from)
             n == Len(input)
  <1>1. n \in Nat
    BY DEF Text
  <1>2. \A i \in from + 1 .. end : input[i] # c
    <2>1. CASE j = Absent
      <3>1. \A i \in from + 1 .. n : input[i] # c
        <4>1. j \notin from .. n - 1
          BY <2>1 DEF Absent
        <4> QED
          BY <4>1, IndexByteFinds
      <3> QED
        BY <1>1, <3>1
    <2>2. CASE j # Absent
      <3>1. Find(input, <<c>>, from) = j
        BY <2>2, BothFind
      <3>2. end <= j
        BY <2>2, <3>1
      <3>3. j \in from .. n - 1 /\ \A i \in from + 1 .. j : input[i] # c
        BY <2>2, IndexByteFinds
      <3> HIDE DEF j
      <3>4. \A i \in from + 1 .. end : i \in from + 1 .. j
        BY <1>1, <3>2, <3>3
      <3> QED
        BY <3>3, <3>4, Zenon
    <2> QED
      BY <2>1, <2>2
  <1> DEFINE s == Slice(input, from, end)
  <1>3. /\ Len(s) = end - from /\ \A i \in 1 .. end - from : s[i] = input[from + i]
    BY SliceIsText
  <1> HIDE DEF s, n, j
  <1>4. \A i \in 1 .. end - from : from + i \in from + 1 .. end
    OBVIOUS
  <1>5. \A i \in 1 .. Len(s) : s[i] # c
    BY <1>2, <1>3, <1>4, Zenon
  <1> QED
    BY <1>5, Zenon DEF Contains, s

\* A field put into the proxy keeps the credentials apart.
LEMMA AssignApart ==
    ASSUME NEW p \in Texts, NEW none, Apart(p, none), NEW field \in Verbs, NEW val, NEW at,
           field = "u" => ~ Contains(val, ":"), field = "p" => ~ Contains(val, "@"),
           none => field \notin {"u", "p"}
    PROVE  Apart(assignField(p, field, val, at), none)
  <1> DEFINE q == assignField(p, field, val, at)
  <1>1. CASE field = "t"
    <2>1. q = [p EXCEPT !.scheme = schemeOf(val)]
      BY <1>1, Assigned
    <2>2. q.username = p.username /\ q.password = p.password
      BY <2>1 DEF Texts
    <2> HIDE DEF q
    <2> QED
      BY <2>2, Zenon DEF Apart, q
  <1>2. CASE field = "u"
    <2>1. q = [p EXCEPT !.username = val]
      BY <1>2, Assigned
    <2>2. q.username = val /\ q.password = p.password
      BY <2>1 DEF Texts
    <2>3. ~ none
      BY <1>2
    <2> HIDE DEF q
    <2> QED
      BY <1>2, <2>2, <2>3, Zenon DEF Apart, q
  <1>3. CASE field = "p"
    <2>1. q = [p EXCEPT !.password = val]
      BY <1>3, Assigned
    <2>2. q.password = val /\ q.username = p.username
      BY <2>1 DEF Texts
    <2>3. ~ none
      BY <1>3
    <2> HIDE DEF q
    <2> QED
      BY <1>3, <2>2, <2>3, Zenon DEF Apart, q
  <1>4. CASE field \in {"h", "d"}
    <2>1. q = Joined(p, val, at)
      BY <1>4 DEF assignField
    <2>2. q.password = p.password /\ q.username = p.username
      BY <2>1 DEF Texts, Joined
    <2> HIDE DEF q
    <2> QED
      BY <2>2, Zenon DEF Apart, q
  <1> QED
    BY <1>1, <1>2, <1>3, <1>4 DEF Verbs

\* So does a field that is cut out up to its delimiter.
LEMMA TakeFieldApart ==
    ASSUME NEW input \in Text, NEW st \in Cursors(input), NEW op \in Operated, op.field \in Verbs,
           NEW none, SetsApart(op, none), Apart(st.proxy, none), NEW end \in Nat, st.pos <= end,
           end <= Len(input), op.field \in {"u", "p"} => Find(input, op.delim, st.pos) = end
    PROVE  Apart(TakeField(input, st, op, end).proxy, none)
  <1> DEFINE t == TakeField(input, st, op, end)
             p == st.proxy
             start == st.pos
             val == Slice(input, start, end)
  <1>1. st \in LocalState
    BY DEF Cursors
  <1>2. FieldTaken(input, st, op, end, t)
    BY <1>1, TakeFieldDoes
  <1>3. p \in Texts /\ start \in Nat
    BY CursorsHold
  <1>4. CASE op.field = "h"
    <2>1. t.proxy = WithHost(p, val, start)
      BY <1>2, <1>4, Zenon DEF FieldTaken
    <2> HIDE DEF t, val, p, start
    <2>2. t.proxy.username = p.username /\ t.proxy.password = p.password
      BY <1>3, <2>1 DEF WithHost, Texts
    <2> QED
      BY <2>2, Zenon DEF Apart, t, p
  <1>5. CASE op.field = "d"
    <2>1. \/ t.proxy = WithHost(p, Slice(input, st.hostStart, end), st.hostStart)
          \/ t.proxy = Joined(p, val, start)
      BY <1>2, <1>5 DEF FieldTaken
    <2> HIDE DEF t, val, p, start
    <2>2. t.proxy.username = p.username /\ t.proxy.password = p.password
      BY <1>3, <2>1 DEF WithHost, Joined, Texts
    <2> QED
      BY <2>2, Zenon DEF Apart, t, p
  <1>6. CASE op.field \in {"t", "u", "p"}
    <2>1. t.proxy = assignField(p, op.field, val, start)
      <3>1. op.field \notin {"h", "d"}
        BY <1>6
      <3> QED
        BY <1>2, <3>1, Zenon DEF FieldTaken
    <2>2. op.field = "u" => ~ Contains(val, ":")
      <3> SUFFICES ASSUME op.field = "u"
                   PROVE  ~ Contains(val, ":")
        OBVIOUS
      <3>1. Find(input, <<":">>, start) = end
        BY DEF SetsApart
      <3>2. Find(input, <<":">>, start) # Absent => end <= Find(input, <<":">>, start)
        BY <3>1
      <3> QED
        BY <1>3, <3>2, NoneInCut
    <2>3. op.field = "p" => ~ Contains(val, "@")
      <3> SUFFICES ASSUME op.field = "p"
                   PROVE  ~ Contains(val, "@")
        OBVIOUS
      <3>1. Find(input, <<"@">>, start) = end
        BY DEF SetsApart
      <3>2. Find(input, <<"@">>, start) # Absent => end <= Find(input, <<"@">>, start)
        BY <3>1
      <3> QED
        BY <1>3, <3>2, NoneInCut
    <2>4. none => op.field \notin {"u", "p"}
      BY Zenon DEF SetsApart
    <2> HIDE DEF val, start
    <2>5. Apart(assignField(p, op.field, val, start), none)
      BY <1>3, <2>2, <2>3, <2>4, AssignApart
    <2> QED
      BY <2>1, <2>5
  <1> QED
    BY <1>4, <1>5, <1>6 DEF Verbs

\* Where Find finds a text is a number.
LEMMA FindIsInt ==
    ASSUME NEW input \in Text, NEW c, NEW from \in Nat
    PROVE  Find(input, <<c>>, from) \in Int
  <1> DEFINE found == {i \in from .. Len(input) - Len(<<c>>) : Slice(input, i, i + Len(<<c>>)) = <<c>>}
  <1>1. Find(input, <<c>>, from) = IF found = {} THEN Absent ELSE Min(found)
    BY DEF Find
  <1>2. Len(input) \in Nat
    BY DEF Text
  <1>3. CASE found = {}
    BY <1>1, <1>3 DEF Absent
  <1>4. CASE found # {}
    <2>1. found \in SUBSET Nat
      BY <1>2
    <2> HIDE DEF found
    <2>2. Min(found) \in found
      BY <1>4, <2>1, MinIsLeast
    <2>3. Find(input, <<c>>, from) = Min(found)
      BY <1>1, <1>4
    <2>4. Min(found) \in Nat
      BY <2>1, <2>2
    <2> QED
      BY <2>3, <2>4
  <1> QED
    BY <1>3, <1>4

\* So does a field whose delimiter is missing.
LEMMA TakeUnendedApart ==
    ASSUME NEW input \in Text, NEW st \in Cursors(input), NEW op \in Operated, op.field \in Verbs,
           NEW none, SetsApart(op, none), Apart(st.proxy, none),
           op.field \in {"u", "p"} => Find(input, op.delim, st.pos) = Absent
    PROVE  Apart(TakeUnended(input, st, op).proxy, none)
  <1> DEFINE start == st.pos
             n == Len(input)
             p == st.proxy
             at == IndexByte(input, "@", start)
             after == [st EXCEPT !.next = st.next + 1]
             Read(end) == assignField(p, op.field, Slice(input, start, end), start)
             To(end) == [[after EXCEPT !.proxy = assignField(after.proxy, op.field,
                                                             Slice(input, start, end), start)]
                           EXCEPT !.pos = end]
             t == TakeUnended(input, st, op)
  <1>1. /\ st \in LocalState /\ p \in Texts /\ start \in Nat /\ n \in Nat /\ start <= n
    BY CursorsHold DEF Cursors
  <1>2. t = CASE op.field = "h" ->
                   [[[To(n) EXCEPT !.hostStart = start] EXCEPT !.hostEnd = n]
                      EXCEPT !.hostParsed = To(n).hostParsed \/ start < n]
              [] op.field = "u" -> IF at # Absent THEN To(at)
                                   ELSE IF op.delim = <<":">> THEN To(n) ELSE after
              [] op.field = "p" -> IF at # Absent THEN To(at) ELSE after
              [] OTHER -> To(n)
    BY DEF TakeUnended
  <1> HIDE DEF t
  <1>3. DOMAIN st = {"next", "pos", "proxy", "hostStart", "hostEnd", "hostParsed", "schemeParsed",
                     "emptyHost", "emptyPort", "err"}
    BY <1>1 DEF LocalState
  <1>4. after.proxy = p /\ DOMAIN after = DOMAIN st
    BY <1>3
  <1> HIDE DEF after
  <1>5. \A end : To(end).proxy = Read(end) /\ DOMAIN To(end) = DOMAIN st
    <2> TAKE end
    <2> DEFINE q == Read(end)
    <2>1. To(end) = [[after EXCEPT !.proxy = q] EXCEPT !.pos = end]
      BY <1>4
    <2> HIDE DEF q, To
    <2>2. To(end).proxy = q /\ DOMAIN To(end) = DOMAIN st
      BY <1>3, <1>4, <2>1
    <2> QED
      BY <2>2 DEF q
  <1> HIDE DEF To
  <1>6. /\ op.field \in {"h", "t", "d"} => t.proxy = Read(n)
        /\ op.field = "u" => \/ t.proxy = p \/ t.proxy = Read(n)
                             \/ at # Absent /\ t.proxy = Read(at)
        /\ op.field = "p" => \/ t.proxy = p
                             \/ at # Absent /\ t.proxy = Read(at)
    <2> HIDE DEF Read, at, n, start
    <2>1. CASE op.field = "h"
      <3>1. t = [[[To(n) EXCEPT !.hostStart = start] EXCEPT !.hostEnd = n]
                      EXCEPT !.hostParsed = To(n).hostParsed \/ start < n]
        BY <1>2, <2>1, Zenon
      <3>2. t.proxy = To(n).proxy
        BY <1>3, <1>5, <3>1
      <3> QED
        BY <1>5, <2>1, <3>2
    <2>2. CASE op.field \in {"t", "d"}
      <3>1. t = To(n)
        BY <1>2, <2>2
      <3> QED
        BY <1>5, <2>2, <3>1
    <2>3. CASE op.field = "u"
      <3>1. t = To(n) \/ t = after \/ (at # Absent /\ t = To(at))
        BY <1>2, <2>3
      <3> QED
        BY <1>4, <1>5, <2>3, <3>1
    <2>4. CASE op.field = "p"
      <3>1. t = after \/ (at # Absent /\ t = To(at))
        BY <1>2, <2>4
      <3> QED
        BY <1>4, <1>5, <2>4, <3>1
    <2> QED
      BY <2>1, <2>2, <2>3, <2>4
  <1>7. at # Absent => at \in Nat /\ start <= at /\ at <= n
    <2>1. at = Absent \/ at \in start .. n - 1
      BY <1>1, IndexByteFinds
    <2> HIDE DEF at, start, n
    <2> QED
      BY <1>1, <2>1, SMT
  <1>8. ASSUME NEW end \in Nat, start <= end, end <= n
        PROVE  Apart(Read(end), none)
    <2> DEFINE val == Slice(input, start, end)
    <2>1. op.field = "u" => ~ Contains(val, ":")
      <3> SUFFICES ASSUME op.field = "u"
                   PROVE  ~ Contains(val, ":")
        OBVIOUS
      <3>1. Find(input, <<":">>, start) = Absent
        BY DEF SetsApart
      <3> QED
        BY <1>1, <1>8, <3>1, NoneInCut
    <2>2. op.field = "p" => ~ Contains(val, "@")
      <3> SUFFICES ASSUME op.field = "p"
                   PROVE  ~ Contains(val, "@")
        OBVIOUS
      <3>1. Find(input, <<"@">>, start) = Absent
        BY DEF SetsApart
      <3> QED
        BY <1>1, <1>8, <3>1, NoneInCut
    <2>3. none => op.field \notin {"u", "p"}
      BY Zenon DEF SetsApart
    <2> HIDE DEF val, start
    <2>4. Apart(assignField(p, op.field, val, start), none)
      BY <1>1, <2>1, <2>2, <2>3, AssignApart
    <2> QED
      BY <2>4 DEF val
  <1>9. n \in Nat /\ start <= n /\ n <= n
    BY <1>1
  <1>10. Apart(Read(n), none) /\ (at # Absent => Apart(Read(at), none)) /\ Apart(p, none)
    <2> HIDE DEF Read, at, n, start
    <2>1. Apart(p, none)
      OBVIOUS
    <2> HIDE DEF p
    <2> QED
      BY <1>7, <1>8, <1>9, <2>1
  <1> HIDE DEF Read, at, p
  <1>11. op.field \in {"h", "t", "d"} \/ op.field = "u" \/ op.field = "p"
    BY DEF Verbs
  <1>12. Apart(t.proxy, none)
    BY <1>6, <1>10, <1>11
  <1> QED
    BY <1>12 DEF t

\* So the capture of a field keeps them apart.
LEMMA CaptureApart ==
    ASSUME NEW input \in Text, NEW st \in Cursors(input), NEW op \in Operated, op.field \in Verbs,
           NEW none, SetsApart(op, none), Apart(st.proxy, none), NEW parser
    PROVE  Apart(CaptureField(parser, input, st, op).proxy, none)
  <1> DEFINE start == st.pos
             n == Len(input)
             p == st.proxy
             inCredentials == ~ parser.strict /\ op.field \in {"u", "p"} /\ op.credentialEnd # 0
             at == IF inCredentials THEN IndexByte(input, "@", start) ELSE Absent
             idx == FieldEnd(input, op, start)
             only == IsUsernameOnly(parser, input, st, op, at, idx)
             beyond == op.credentialEnd + 1
             skipped == [st EXCEPT !.next = beyond]
             named == [[p EXCEPT !.username = Slice(input, start, at)] EXCEPT !.password = <<>>]
             failed == [st EXCEPT !.err = Failure("ErrSubseqDelimNotFound", op.delim)]
             moved == [[[st EXCEPT !.proxy = named] EXCEPT !.pos = at + 1] EXCEPT !.next = beyond]
             end == IF op.delim = <<>> THEN n ELSE idx
             t == CaptureField(parser, input, st, op)
  <1>1. t = IF inCredentials /\ at = Absent THEN skipped
            ELSE IF only THEN moved
            ELSE IF op.delim # <<>> /\ idx = Absent
            THEN IF parser.strict THEN failed ELSE TakeUnended(input, st, op)
            ELSE TakeField(input, st, op, end)
    BY Zenon DEF CaptureField
  <1>2. /\ st \in LocalState /\ p \in Texts /\ start \in Nat /\ n \in Nat /\ start <= n
    BY CursorsHold DEF Cursors
  <1>3. skipped.proxy = p /\ failed.proxy = p
    BY <1>2 DEF LocalState
  <1>4. Apart(p, none)
    OBVIOUS
  <1>5. op.field \in {"u", "p"} => op.delim # <<>> /\ idx = Find(input, op.delim, start)
    <2>1. op.field \in {"u", "p"} => op.delim # <<>> /\ op.field # "h"
      <3>1. <<":">> # <<>> /\ <<"@">> # <<>>
        OBVIOUS
      <3> QED
        BY <3>1 DEF SetsApart
    <2> QED
      BY <2>1 DEF FieldEnd
  <1>6. ASSUME only
        PROVE  Apart(moved.proxy, none)
    <2>1. at # Absent /\ op.field = "u" /\ op.delim = <<":">> /\ idx > at
      BY <1>6 DEF IsUsernameOnly
    <2>2. at = IndexByte(input, "@", start)
      BY <2>1
    <2>3. at \in start .. n - 1
      BY <1>2, <2>1, <2>2, IndexByteFinds
    <2>4. idx = Find(input, <<":">>, start)
      BY <1>5, <2>1
    <2>5. ~ none
      BY <2>1 DEF SetsApart
    <2> HIDE DEF at, idx
    <2>6. at \in Nat /\ start <= at /\ at <= n
      <3> HIDE DEF start, n
      <3> QED
        BY <1>2, <2>3, SMT
    <2> DEFINE val == Slice(input, start, at)
    <2>7. ~ Contains(val, ":")
      <3>1. idx \in Int
        BY <1>2, <2>4, FindIsInt
      <3>2. Find(input, <<":">>, start) # Absent => at <= Find(input, <<":">>, start)
        BY <2>1, <2>4, <2>6, <3>1
      <3> QED
        BY <1>2, <2>6, <3>2, NoneInCut
    <2> HIDE DEF val
    <2>8. moved.proxy = [[p EXCEPT !.username = val] EXCEPT !.password = <<>>]
      BY <1>2 DEF LocalState, val
    <2> HIDE DEF moved
    <2>9. moved.proxy.username = val /\ moved.proxy.password = <<>>
      BY <1>2, <2>8 DEF Texts
    <2>10. ~ Contains(<<>>, "@")
      BY DEF Contains
    <2> QED
      BY <2>5, <2>7, <2>9, <2>10, Zenon DEF Apart
  <1>7. ASSUME op.delim # <<>>, idx = Absent
        PROVE  Apart(TakeUnended(input, st, op).proxy, none)
    <2>1. op.field \in {"u", "p"} => Find(input, op.delim, start) = Absent
      BY <1>5, <1>7
    <2> QED
      BY <2>1, TakeUnendedApart
  <1>8. ASSUME op.delim = <<>> \/ idx # Absent
        PROVE  Apart(TakeField(input, st, op, end).proxy, none)
    <2>1. end \in Nat /\ start <= end /\ end <= n
      <3>1. CASE op.delim = <<>>
        BY <1>2, <3>1
      <3>2. CASE op.delim # <<>>
        <4>1. Len(op.delim) \in Nat
          BY OperationFields
        <4>2. idx \in Nat /\ start <= idx /\ idx + Len(op.delim) <= n
          BY <1>2, <1>8, <3>2, FieldEndIsIn
        <4> HIDE DEF idx, start, n
        <4> QED
          BY <1>2, <3>2, <4>1, <4>2
      <3> QED
        BY <3>1, <3>2
    <2>2. op.field \in {"u", "p"} => Find(input, op.delim, start) = end
      BY <1>5
    <2> HIDE DEF end
    <2> QED
      BY <2>1, <2>2, TakeFieldApart
  <1> HIDE DEF t, skipped, failed, moved, only, inCredentials, idx, end, p, at
  <1>9. Apart(t.proxy, none)
    BY <1>1, <1>3, <1>4, <1>6, <1>7, <1>8
  <1> QED
    BY <1>9 DEF t

\* So does a round of the loop.
LEMMA StepApart ==
    ASSUME NEW input \in Text, NEW st \in Cursors(input), NEW parser,
           parser.plan \in Seq(Operated), NEW k \in 1 .. Len(parser.plan),
           NEW none, SetsApart(parser.plan[k], none), Apart(st.proxy, none)
    PROVE  Apart(Step(parser, input, st, k).proxy, none)
  <1> DEFINE op == parser.plan[k]
             t == Step(parser, input, st, k)
             expected == Expect(parser, input, st, op)
             captured == CaptureField(parser, input, st, op)
  <1>1. t = st \/ (op.field = "none" /\ t = expected) \/ (op.field # "none" /\ t = captured)
    BY Zenon DEF Step
  <1>2. op \in Operated
    OBVIOUS
  <1>3. op.field \in {"none"} \cup Verbs
    BY <1>2, OperationFields
  <1>4. expected.proxy = st.proxy
    <2>1. st \in LocalState
      BY DEF Cursors
    <2> DEFINE end == st.pos + Len(op.delim)
    <2>2. \/ expected = [st EXCEPT !.next = @ + 1, !.pos = end]
          \/ \E e : expected = [st EXCEPT !.err = e]
          \/ expected = [st EXCEPT !.next = @ + 1]
      BY Zenon DEF Expect
    <2> HIDE DEF end, expected
    <2> QED
      BY <2>1, <2>2 DEF LocalState
  <1>5. SetsApart(op, none)
    OBVIOUS
  <1> HIDE DEF op
  <1>6. op.field # "none" => Apart(captured.proxy, none)
    BY <1>2, <1>3, <1>5, CaptureApart
  <1> HIDE DEF t, expected, captured
  <1>7. Apart(t.proxy, none)
    BY <1>1, <1>4, <1>6
  <1> QED
    BY <1>7 DEF t

\* A parser of the plan ends with credentials that are apart.
LEMMA ReadApart ==
    ASSUME NEW input \in Text, NEW parser, parser.plan \in Seq(Operated),
           NEW none, \A k \in 1 .. Len(parser.plan) : SetsApart(parser.plan[k], none)
    PROVE  Apart(parseGeneric(parser, input, ZeroProxy, "scalar").proxy, none)
  <1> DEFINE n == Len(parser.plan)
             end == EndOf(parser, input, ZeroProxy)
  <1>1. n \in Nat
    OBVIOUS
  <1>2. PICK a : Course(parser, input, a)
    BY CourseExists
  <1>3. /\ \A k \in 0 .. n : a[k] \in Cursors(input)
        /\ a[0] = Begin(parser, input, ZeroProxy) /\ a[n] = end
        /\ \A k \in 1 .. n : a[k] = Step(parser, input, a[k - 1], k)
    BY <1>2 DEF Course
  <1> DEFINE P == {k \in 0 .. n : Apart(a[k].proxy, none)}
  <1>4. Apart(a[0].proxy, none)
    <2> DEFINE st == Locals(ZeroProxy)
               idx == Find(input, schemeSeparator, 0)
               scheme == schemeOf(Slice(input, 0, idx))
               begun == Begin(parser, input, ZeroProxy)
    <2>1. DOMAIN st = {"next", "pos", "proxy", "hostStart", "hostEnd", "hostParsed",
                       "schemeParsed", "emptyHost", "emptyPort", "err"}
      BY DEF Locals
    <2>2. st.proxy = ZeroProxy
      BY DEF Locals, Reset
    <2>3. \/ begun = st
          \/ \E e : begun = [st EXCEPT !.err = e]
          \/ begun = [st EXCEPT !.proxy = [@ EXCEPT !.scheme = scheme],
                                !.schemeParsed = scheme # <<>>, !.pos = idx + 3]
      BY Zenon DEF Begin
    <2> HIDE DEF st, scheme, idx, begun
    <2>4. begun.proxy = ZeroProxy \/ begun.proxy = [ZeroProxy EXCEPT !.scheme = scheme]
      BY <2>1, <2>2, <2>3
    <2>5. begun.proxy.username = <<>> /\ begun.proxy.password = <<>>
      BY <2>4 DEF ZeroProxy
    <2>6. ~ Contains(<<>>, ":") /\ ~ Contains(<<>>, "@")
      BY DEF Contains
    <2>7. a[0] = begun
      BY <1>3 DEF begun
    <2> QED
      BY <2>5, <2>6, <2>7, Zenon DEF Apart
  <1>5. ASSUME NEW k \in 0 .. n - 1, k \in P
        PROVE  k + 1 \in P
    <2>1. k \in 0 .. n /\ k + 1 \in 1 .. n /\ k + 1 \in 0 .. n /\ (k + 1) - 1 = k
      BY <1>1
    <2>2. a[k] \in Cursors(input) /\ Apart(a[k].proxy, none)
      BY <1>3, <1>5, <2>1
    <2>3. a[k + 1] = Step(parser, input, a[k], k + 1)
      <3>1. a[k + 1] = Step(parser, input, a[(k + 1) - 1], k + 1)
        BY <1>3, <2>1, Zenon
      <3> QED
        BY <2>1, <3>1, Zenon
    <2>4. SetsApart(parser.plan[k + 1], none)
      BY <2>1
    <2>5. Apart(Step(parser, input, a[k], k + 1).proxy, none)
      BY <2>1, <2>2, <2>4, StepApart
    <2> QED
      BY <2>1, <2>3, <2>5
  <1>6. n \in P
    <2>1. 0 \in P /\ 0 \in Nat
      BY <1>1, <1>4
    <2>2. \A i \in 0 .. n - 1 : i \in P => i + 1 \in P
      BY <1>5
    <2> HIDE DEF P, n
    <2>3. \A i \in 0 .. n : i \in P
      BY <1>1, <2>1, <2>2, HoldsUpTo
    <2> QED
      BY <1>1, <2>3
  <1>7. Apart(end.proxy, none)
    BY <1>3, <1>6
  <1>8. parseGeneric(parser, input, ZeroProxy, "scalar")
          = Result(end.proxy, Verdict(parser, input, end, "scalar"))
    BY Zenon DEF parseGeneric, EndOf
  <1> HIDE DEF end
  <1>9. parseGeneric(parser, input, ZeroProxy, "scalar").proxy = end.proxy
    BY <1>8 DEF Result
  <1> QED
    BY <1>7, <1>9

\* The formats with a strict parser of their own take them apart.
LEMMA OperationsApart ==
    ASSUME NEW f \in Formats, New(f, TRUE).kind # "generic"
    PROVE  /\ New(f, FALSE).plan = Linked(Operations(f))
           /\ \A k \in 1 .. Len(New(f, FALSE).plan) :
                 SetsApart(New(f, FALSE).plan[k], New(f, TRUE).kind = "strictSchemeHostPort")
  <1> DEFINE plan == Operations(f)
             linked == Linked(plan)
             none == New(f, TRUE).kind = "strictSchemeHostPort"
  <1>1. f \in Text
    BY TextsAssumption
  <1>2. New(f, FALSE).plan = linked
    BY KindsOfParsers, ParsersMade
  <1>3. plan \in Seq(Operated)
    BY <1>1, PlansAreTyped
  <1>4. KeepsOperations(linked, plan)
    <2> HIDE DEF plan
    <2> QED
      BY <1>3, LinkedIsLinked, Zenon
  <1>5. \/ f = SchemeHostPort /\ none
        \/ f = FullCredentials /\ ~ none
    BY KindsOfParsers
  <1>6. CASE f = SchemeHostPort
    <2>1. HostPortPlan(plan)
      BY <1>1, <1>6, HostPortOperations
    <2> HIDE DEF plan
    <2> HIDE DEF linked
    <2>2. /\ Len(plan) = 5 /\ plan[1].field = "t" /\ plan[2].field = "none" /\ plan[3].field = "h"
          /\ plan[4].field = "none" /\ plan[5].field = "d"
      BY <2>1 DEF HostPortPlan, Capture, Delimiter
    <2>3. \A k \in 1 .. 5 : linked[k].field = plan[k].field
      BY <1>4, <2>2 DEF KeepsOperations
    <2>4. \A k \in 1 .. 5 : linked[k].field \in {"none", "t", "h", "d"}
      <3> SUFFICES ASSUME NEW k \in 1 .. 5
                   PROVE  linked[k].field \in {"none", "t", "h", "d"}
        OBVIOUS
      <3>1. k = 1 \/ k = 2 \/ k = 3 \/ k = 4 \/ k = 5
        OBVIOUS
      <3> QED
        BY <2>2, <2>3, <3>1
    <2>5. \A k \in 1 .. 5 : SetsApart(linked[k], none)
      <3> SUFFICES ASSUME NEW k \in 1 .. 5
                   PROVE  SetsApart(linked[k], none)
        OBVIOUS
      <3>1. linked[k].field # "u" /\ linked[k].field # "p" /\ linked[k].field \notin {"u", "p"}
        BY <2>4
      <3> QED
        BY <3>1, Zenon DEF SetsApart
    <2>6. Len(linked) = 5
      BY <1>4, <2>2 DEF KeepsOperations
    <2> QED
      BY <1>2, <2>5, <2>6 DEF linked, plan
  <1>7. CASE f = FullCredentials
    <2>1. CredentialsPlan(plan) /\ CredentialsLinks(linked)
      BY <1>1, <1>7, CredentialsOperations, CredentialsAreLinked
    <2>2. ~ none
      BY <1>5, <1>7 DEF SchemeHostPort, FullCredentials
    <2> HIDE DEF plan
    <2> HIDE DEF linked, none
    <2>3. /\ Len(plan) = 9 /\ plan[1].field = "t" /\ plan[2].field = "none"
          /\ plan[4].field = "none" /\ plan[6].field = "none" /\ plan[7].field = "h"
          /\ plan[8].field = "none" /\ plan[9].field = "d"
      BY <2>1 DEF CredentialsPlan, Capture, Delimiter
    <2>4. /\ linked[3].field = "u" /\ linked[3].delim = <<":">>
          /\ linked[5].field = "p" /\ linked[5].delim = <<"@">>
      BY <2>1 DEF CredentialsLinks, Takes
    <2>5. \A k \in 1 .. 9 : linked[k].field = plan[k].field
      BY <1>4, <2>3 DEF KeepsOperations
    <2>6. \A k \in 1 .. 9 : k = 3 \/ k = 5 \/ linked[k].field \in {"none", "t", "h", "d"}
      <3> SUFFICES ASSUME NEW k \in 1 .. 9
                   PROVE  k = 3 \/ k = 5 \/ linked[k].field \in {"none", "t", "h", "d"}
        OBVIOUS
      <3>1. k = 1 \/ k = 2 \/ k = 3 \/ k = 4 \/ k = 5 \/ k = 6 \/ k = 7 \/ k = 8 \/ k = 9
        OBVIOUS
      <3> QED
        BY <2>3, <2>5, <3>1
    <2>7. \A k \in 1 .. 9 : SetsApart(linked[k], none)
      <3> SUFFICES ASSUME NEW k \in 1 .. 9
                   PROVE  SetsApart(linked[k], none)
        OBVIOUS
      <3>1. CASE k = 3
        <4>1. linked[k].field # "p" /\ linked[k].delim = <<":">>
          BY <2>4, <3>1
        <4> QED
          BY <2>2, <4>1, Zenon DEF SetsApart
      <3>2. CASE k = 5
        <4>1. linked[k].field # "u" /\ linked[k].delim = <<"@">>
          BY <2>4, <3>2
        <4> QED
          BY <2>2, <4>1, Zenon DEF SetsApart
      <3>3. CASE k # 3 /\ k # 5
        <4>1. linked[k].field # "u" /\ linked[k].field # "p"
          BY <2>6, <3>3
        <4> QED
          BY <2>2, <4>1, Zenon DEF SetsApart
      <3> QED
        BY <3>1, <3>2, <3>3
    <2>8. Len(linked) = 9
      BY <1>4, <2>3 DEF KeepsOperations
    <2> QED
      BY <1>2, <2>7, <2>8 DEF linked, plan, none
  <1> QED
    BY <1>5, <1>6, <1>7

\* What can be said in such a format comes back from its strict parser.
LEMMA SaidIsRead ==
    ASSUME NEW f \in Formats, New(f, TRUE).kind # "generic", NEW p \in Texts, Validate(p) = "ok",
           Apart(p, New(f, TRUE).kind = "strictSchemeHostPort")
    PROVE  LET r == ParseInto(New(f, TRUE), WrittenAlong(New(f, FALSE).plan, p), ZeroProxy, "scalar")
           IN  r.err = NoError /\ Fields(r.proxy) = Fields(p)
  <1> DEFINE parser == New(f, TRUE)
             input == WrittenAlong(New(f, FALSE).plan, p)
             r == ParseInto(parser, input, ZeroProxy, "scalar")
  <1>1. f \in Text
    BY TextsAssumption
  <1>2. input = WrittenAlong(Linked(Operations(f)), p)
    BY OperationsApart
  <1>3. validateHostnamePort(p.host) = "ok"
    BY ValidParts, Zenon
  <1>4. \/ f = SchemeHostPort /\ parser.kind = "strictSchemeHostPort"
        \/ f = FullCredentials /\ parser.kind = "strictFullCredentials"
    BY KindsOfParsers
  <1>5. r = IF parser.kind = "strictFullCredentials" THEN parseStrictFullCredentials(input)
            ELSE parseStrictSchemeHostPort(input)
    BY DEF ParseInto
  <1> HIDE DEF input, r
  <1>6. CASE f = SchemeHostPort /\ parser.kind = "strictSchemeHostPort"
    <2>1. p.username = <<>>
      BY <1>6 DEF Apart
    <2>2. r = parseStrictSchemeHostPort(input)
      BY <1>5, <1>6
    <2>3. input = (p.scheme \o schemeSeparator) \o p.host
      BY <1>1, <1>2, <1>3, <1>6, HostPortText
    <2>4. LET t == parseStrictSchemeHostPort((p.scheme \o schemeSeparator) \o p.host)
          IN  t.err = NoError /\ Fields(t.proxy) = Fields(p)
      BY <2>1, HostPortComesBack
    <2> QED
      BY <2>2, <2>3, <2>4, Zenon DEF r, input
  <1>7. CASE f = FullCredentials /\ parser.kind = "strictFullCredentials"
    <2>1. ~ Contains(p.username, ":") /\ ~ Contains(p.password, "@")
      BY Zenon DEF Apart
    <2>2. r = parseStrictFullCredentials(input)
      BY <1>5, <1>7
    <2> DEFINE text == (p.scheme \o schemeSeparator)
                         \o (p.username \o (<<":">> \o (p.password \o (<<"@">> \o p.host))))
    <2>3. input = text
      BY <1>1, <1>2, <1>3, <1>7, CredentialsText
    <2>4. LET t == parseStrictFullCredentials(text)
          IN  t.err = NoError /\ Fields(t.proxy) = Fields(p)
      BY <1>1, <1>7, <2>1, CredentialsComeBack
    <2> HIDE DEF text
    <2> QED
      BY <2>2, <2>3, <2>4, Zenon DEF r, input
  <1> QED
    BY <1>4, <1>6, <1>7

\* What the lenient parser of such a format makes of a line can be said.
LEMMA LenientApart ==
    ASSUME NEW f \in Formats, New(f, TRUE).kind # "generic", NEW input \in Text
    PROVE  Apart(ParseInto(New(f, FALSE), input, ZeroProxy, "scalar").proxy,
                 New(f, TRUE).kind = "strictSchemeHostPort")
  <1> DEFINE parser == New(f, FALSE)
             none == New(f, TRUE).kind = "strictSchemeHostPort"
  <1>1. parser.kind = "generic"
    BY KindsOfParsers
  <1>2. ParseInto(parser, input, ZeroProxy, "scalar") = parseGeneric(parser, input, ZeroProxy, "scalar")
    BY <1>1, Zenon DEF ParseInto
  <1>3. parser.plan \in Seq(Operated)
    BY ParsersAreTyped
  <1>4. \A k \in 1 .. Len(parser.plan) : SetsApart(parser.plan[k], none)
    BY OperationsApart
  <1> HIDE DEF parser, none
  <1>5. Apart(parseGeneric(parser, input, ZeroProxy, "scalar").proxy, none)
    BY <1>3, <1>4, ReadApart
  <1>6. Apart(ParseInto(parser, input, ZeroProxy, "scalar").proxy, none)
    BY <1>2, <1>5
  <1> QED
    BY <1>6 DEF parser, none

\* Every proxy that the format has fields for can be said.
LEMMA ExpressedApart ==
    ASSUME NEW f \in Formats, New(f, TRUE).kind # "generic", NEW p \in Proxies,
           Expresses(New(f, FALSE).plan, p)
    PROVE  Validate(p) = "ok" /\ Apart(p, New(f, TRUE).kind = "strictSchemeHostPort")
  <1> DEFINE plan == New(f, FALSE).plan
             none == New(f, TRUE).kind = "strictSchemeHostPort"
  <1>1. /\ p \in Texts /\ Validate(p) = "ok"
        /\ ~ Contains(p.username, ":") /\ ~ Contains(p.password, "@")
    BY ProxiesAssumption
  <1>2. p.username = <<>> => p.password = <<>>
    BY <1>1, ValidParts, Zenon
  <1>3. none => p.username = <<>>
    <2> SUFFICES ASSUME none, p.username # <<>>
                 PROVE  FALSE
      OBVIOUS
    <2>1. plan \in Seq(Operated)
      BY ParsersAreTyped
    <2>2. \A k \in 1 .. Len(plan) : SetsApart(plan[k], TRUE)
      BY OperationsApart
    <2>3. "u" \in {plan[k].field : k \in DOMAIN plan}
      BY DEF Expresses
    <2> HIDE DEF plan
    <2>4. PICK k \in DOMAIN plan : plan[k].field = "u"
      BY <2>3
    <2>5. k \in 1 .. Len(plan)
      BY <2>1
    <2>6. SetsApart(plan[k], TRUE)
      BY <2>2, <2>5
    <2> QED
      BY <2>4, <2>6 DEF SetsApart
  <1> HIDE DEF none
  <1>4. Apart(p, none)
    BY <1>1, <1>2, <1>3, Zenon DEF Apart
  <1> QED
    BY <1>1, <1>4 DEF none

\* What is said is valid and its credentials are apart; its result is that of the text written.
SaidInv ==
    /\ (said # ZeroProxy /\ parsers.strict.kind # "generic") =>
           Validate(said) = "ok" /\ Apart(said, parsers.strict.kind = "strictSchemeHostPort")
    /\ "written" \in Called =>
           /\ said # ZeroProxy
           /\ results["written"]["scalar"]
                = ParseInto(parsers.strict, Written(said), ZeroProxy, "scalar")

\* Nothing is said before the first step.
LEMMA SaidStarts == Init => SaidInv
  <1> SUFFICES ASSUME Init
               PROVE  SaidInv
    OBVIOUS
  <1>1. Called = {} /\ said = ZeroProxy
    BY DEF Init, Called
  <1>2. "written" \notin Called
    BY <1>1
  <1> QED
    BY <1>1, <1>2, Zenon DEF SaidInv

\* What was said remains so where nothing is said or parsed.
LEMMA SaidStays ==
    ASSUME SaidInv, said' = said, parsers' = parsers, "written" \in Called' => "written" \in Called,
           "written" \in Called => results'["written"] = results["written"]
    PROVE  SaidInv'
  <1>1. Written(said)' = Written(said)
    BY Zenon DEF Written
  <1> QED
    BY <1>1, Zenon DEF SaidInv

\* What was said remains so after a call.
LEMMA SaidCalled ==
    ASSUME SaidInv, NEW name, NEW parser, NEW input, Call(name, parser, input),
           name = "written" => parser = parsers.strict /\ input = Written(said) /\ said # ZeroProxy
    PROVE  SaidInv'
  <1> DEFINE To(t) == ParseInto(parser, input, IF t = "scalar" THEN ZeroProxy ELSE proxy, t)
             r == [t \in Tiers |-> To(t)]
  <1>1. /\ results' = [n \in Called \cup {name} |-> IF n = name THEN r ELSE results[n]]
        /\ said' = said /\ parsers' = parsers
    BY Zenon DEF Call
  <1>2. r["scalar"] = ParseInto(parser, input, ZeroProxy, "scalar")
    <2>1. "scalar" \in Tiers
      BY DEF Tiers
    <2>2. r["scalar"] = To("scalar")
      BY <2>1, Zenon
    <2> QED
      BY <2>2, Zenon
  <1> HIDE DEF r
  <1>3. Called' = Called \cup {name}
    BY <1>1 DEF Called
  <1>4. CASE name = "written"
    <2>1. /\ results'["written"]["scalar"] = ParseInto(parsers.strict, Written(said), ZeroProxy, "scalar")
          /\ said # ZeroProxy
      BY <1>1, <1>2, <1>3, <1>4
    <2>2. Written(said)' = Written(said)
      BY <1>1, Zenon DEF Written
    <2> QED
      BY <1>1, <2>1, <2>2, Zenon DEF SaidInv
  <1>5. CASE name # "written"
    <2>1. /\ "written" \in Called' => "written" \in Called
          /\ "written" \in Called => results'["written"] = results["written"]
      BY <1>1, <1>3, <1>5
    <2> QED
      BY <1>1, <2>1, SaidStays
  <1> QED
    BY <1>4, <1>5

\* Every step of the caller keeps it.
LEMMA SaidSteps == ParserInv /\ LineInv /\ SaidInv /\ [Next]_vars => SaidInv'
  <1> SUFFICES ASSUME ParserInv, LineInv, SaidInv, [Next]_vars
               PROVE  SaidInv'
    OBVIOUS
  <1>1. ASSUME said' = said, parsers' = parsers, results' = results
        PROVE  SaidInv'
    <2>1. Called' = Called
      BY <1>1 DEF Called
    <2> QED
      BY <1>1, <2>1, SaidStays
  <1>2. CASE InsertSymbol \/ DropSymbol \/ ReplaceSymbol
    <2>1. Damaged
      BY <1>2, Zenon DEF InsertSymbol, DropSymbol, ReplaceSymbol
    <2> QED
      BY <1>1, <2>1 DEF Damaged
  <1>3. CASE ParseLine
    <2>1. PICK name \in {"strict", "lenient"} : Call(name, parsers[name], line)
      BY <1>3, Zenon DEF ParseLine
    <2>2. name # "written"
      OBVIOUS
    <2> QED
      BY <2>1, <2>2, SaidCalled, Zenon
  <1>4. CASE Write
    <2>1. PICK f \in Formats : parsers = [strict |-> New(f, TRUE), lenient |-> New(f, FALSE)]
      BY DEF ParserInv
    <2>2. parsers.strict = New(f, TRUE) /\ parsers.lenient = New(f, FALSE) /\ parsers["lenient"] = New(f, FALSE)
      BY <2>1
    <2>3. said = ZeroProxy /\ parsers' = parsers /\ results' = results
      BY <1>4 DEF Write
    <2>4. "written" \notin Called'
      <3>1. "written" \notin Called
        BY <2>3 DEF SaidInv
      <3> QED
        BY <2>3, <3>1 DEF Called
    <2>5. parsers.strict.kind # "generic" =>
             Validate(said') = "ok" /\ Apart(said', parsers.strict.kind = "strictSchemeHostPort")
      <3> SUFFICES ASSUME New(f, TRUE).kind # "generic"
                   PROVE  Validate(said') = "ok" /\ Apart(said', New(f, TRUE).kind = "strictSchemeHostPort")
        BY <2>2, Zenon
      <3>1. CASE said' \in {p \in Proxies : Expresses(parsers.lenient.plan, p)}
        <4>1. said' \in Proxies /\ Expresses(New(f, FALSE).plan, said')
          BY <2>2, <3>1
        <4> QED
          BY <4>1, ExpressedApart, Zenon
      <3>2. CASE Accepted("lenient") /\ said' = results["lenient"]["scalar"].proxy
        <4>1. "lenient" \in Called /\ Validate(said') = "ok"
          BY <3>2 DEF Accepted, ParserInv
        <4>2. results["lenient"]["scalar"] = ParseInto(New(f, FALSE), line, ZeroProxy, "scalar")
          BY <2>2, <4>1 DEF LineInv
        <4>3. line \in Text
          BY DEF ParserInv
        <4>4. Apart(ParseInto(New(f, FALSE), line, ZeroProxy, "scalar").proxy,
                    New(f, TRUE).kind = "strictSchemeHostPort")
          BY <4>3, LenientApart
        <4> QED
          BY <3>2, <4>1, <4>2, <4>4, Zenon
      <3> QED
        BY <1>4, <3>1, <3>2, Zenon DEF Write
    <2> QED
      BY <2>3, <2>4, <2>5, Zenon DEF SaidInv
  <1>5. CASE ParseWritten
    <2>1. Call("written", parsers.strict, Written(said)) /\ said # ZeroProxy
      BY <1>5, Zenon DEF ParseWritten
    <2> QED
      BY <2>1, SaidCalled, Zenon
  <1>6. CASE UNCHANGED vars
    BY <1>1, <1>6 DEF vars
  <1> QED
    BY <1>2, <1>3, <1>4, <1>5, <1>6, Zenon DEF Next

\* A valid proxy written out in one of the two formats that have a strict parser
\* of their own is read back by it, whole: brackets, zones and credentials do
\* not confuse it, and whatever the lenient parser of that format makes of a
\* damaged line is such a proxy.  In some other formats, %t://%h.%d say, it is
\* not read back: there a delimiter may occur in the field it ends.  It is about
\* New and parseGeneric, and about parseStrictSchemeHostPort and
\* parseStrictFullCredentials of proxyparser.go.
THEOREM WrittenComesBack == Spec => [](parsers.strict.kind # "generic" => WrittenIsRead)
  <1>1. ParserInv /\ SaidInv => (parsers.strict.kind # "generic" => WrittenIsRead)
    <2> SUFFICES ASSUME ParserInv, SaidInv, parsers.strict.kind # "generic", "written" \in Called
                 PROVE  /\ Accepted("written")
                        /\ Fields(results["written"]["scalar"].proxy) = Fields(said)
      BY Zenon DEF WrittenIsRead
    <2>1. PICK f \in Formats : parsers = [strict |-> New(f, TRUE), lenient |-> New(f, FALSE)]
      BY DEF ParserInv
    <2>2. parsers.strict = New(f, TRUE) /\ parsers.lenient = New(f, FALSE)
      BY <2>1
    <2>3. said # ZeroProxy /\ said \in Texts
      BY DEF SaidInv, ParserInv
    <2>4. Validate(said) = "ok" /\ Apart(said, New(f, TRUE).kind = "strictSchemeHostPort")
      BY <2>2, <2>3 DEF SaidInv
    <2>5. New(f, TRUE).kind # "generic"
      BY <2>2
    <2>6. Written(said) = WrittenAlong(New(f, FALSE).plan, said)
      <3>1. Written(said) = WrittenAlong(parsers.lenient.plan, said)
        BY Zenon DEF Written, WrittenAlong, PartOf
      <3> QED
        BY <2>2, <3>1
    <2> DEFINE r == ParseInto(New(f, TRUE), WrittenAlong(New(f, FALSE).plan, said), ZeroProxy, "scalar")
    <2>7. results["written"]["scalar"] = r
      BY <2>2, <2>6 DEF SaidInv
    <2>8. r.err = NoError /\ Fields(r.proxy) = Fields(said)
      BY <2>3, <2>4, <2>5, SaidIsRead, Zenon
    <2> HIDE DEF r
    <2> QED
      BY <2>7, <2>8 DEF Accepted
  <1> QED
    BY <1>1, CallerStarts, CallerSteps, LineStarts, LineSteps, SaidStarts, SaidSteps, PTL DEF Spec

=============================================================================

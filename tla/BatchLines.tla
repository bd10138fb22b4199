----------------------------- MODULE BatchLines -----------------------------
(***************************************************************************)
(* proxypool.Batch: the lines of one block that NextBatch handed over, and *)
(* the two ways to take them, Batch.Next and a loop over Batch.Lines.      *)
(* Lines walks two permuted indices at a time, or runs straight through a  *)
(* block in file order, and writes its position back only when it ends.    *)
(*                                                                         *)
(* A batch belongs to one goroutine, so what happens between two lines of  *)
(* a loop is its body: it may go on, stop, panic, or pass the batch to     *)
(* NextBatch.  (It must not call Batch.Next, its comment says.)  A line is *)
(* its index in the block; where it starts and ends is in BlockLines.      *)
(***************************************************************************)
EXTENDS PoolLayout, SequencesExt

CONSTANTS
    MaxLines,  \* lines a block may hold
    MaxCalls   \* bound on calls of NextBatch

ASSUME BatchAssumption == MaxLines \in Nat /\ MaxCalls \in Nat

VARIABLES
    lines, back, next, remaining, calls,  \* fields of Batch
    yielding,  \* "idle", or which yield of Lines the loop's body runs for
    loop,      \* the local variables of Lines
    order,     \* history: the lines of the last NextBatch, as Pool.Next orders them
    given      \* history: those of them that were taken

positionVars == <<lines, back, next, remaining>>
batchVars == <<positionVars, calls, yielding, loop, order, given>>

\* index + (lines & (index >> 63)): back into the block from below.
Wrap(index, count) == IF index < 0 THEN index + count ELSE index

-----------------------------------------------------------------------------
(* NextBatch, as far as it concerns the batch. *)

\* What a pool's block may be: any number of lines, any order of
\* PermutationStep or file order, some of the lines taken already.
PoolBlocks ==
    { b \in [lines : 1 .. MaxLines, step : 0 .. MaxLines,
             first : 0 .. MaxLines - 1, taken : 0 .. MaxLines - 1] :
        /\ b.first < b.lines
        /\ b.taken < b.lines
        /\ IF b.lines = 1
           THEN b.step \in {0, 1}
           ELSE b.step \in 1 .. b.lines - 1 /\ Coprime(b.step, b.lines) }

\* The k-th line of the block, from 0, in the order of Pool.Next.
Position(b, k) == (b.first + k * b.step) % b.lines

NextBatch ==
    /\ calls < MaxCalls
    /\ calls' = calls + 1
    /\ \E b \in PoolBlocks :
         /\ lines' = b.lines
         /\ back' = b.lines - b.step
         /\ next' = Position(b, b.taken)
         /\ remaining' = b.lines - b.taken
         /\ order' = [k \in 1 .. b.lines - b.taken |-> Position(b, b.taken + k - 1)]
    /\ given' = <<>>

\* On an error the batch is empty.
NextBatchFails ==
    /\ calls < MaxCalls
    /\ calls' = calls + 1
    /\ remaining' = 0
    /\ order' = <<>>
    /\ given' = <<>>
    /\ UNCHANGED <<lines, back, next>>

Refill ==
    /\ yielding = "idle"
    /\ NextBatch \/ NextBatchFails
    /\ UNCHANGED <<yielding, loop>>

-----------------------------------------------------------------------------
(* Batch.Next. *)

Next ==
    /\ yielding = "idle"
    /\ IF remaining > 0
       THEN /\ remaining' = remaining - 1
            /\ next' = Wrap(next - back, lines)
            /\ given' = Append(given, next)
       ELSE UNCHANGED <<remaining, next, given>>
    /\ UNCHANGED <<lines, back, calls, yielding, loop, order>>

-----------------------------------------------------------------------------
(* Batch.Lines. *)

\* Two steps at a time, backwards.
BackTwice(l) == l.lines - Wrap(2 * (l.lines - l.back) - l.lines, l.lines)

TwoOn(l, index) == Wrap(index - BackTwice(l), l.lines)

\* Yield a line to the loop's body.
Yield(label, index) ==
    /\ yielding' = label
    /\ given' = Append(given, index)

\* The loop ends with the position stored in the batch.
Stop(position, left) ==
    /\ yielding' = "idle"
    /\ next' = position
    /\ remaining' = left
    /\ UNCHANGED <<lines, back, calls, loop, order, given>>

\* Mutant: a block permuted by steps of one is read past its end.
InFileOrderLoose == lines - back = 1 /\ remaining > 0

InFileOrder == lines - back = 1 /\ remaining > 0 /\ remaining <= lines - next

Begin ==
    /\ yielding = "idle"
    /\ remaining > 0
    /\ loop' = [lines |-> lines, back |-> back, calls |-> calls, next |-> next,
                remaining |-> remaining, index |-> 0,
                first |-> next, second |-> Wrap(next - back, lines),
                given |-> given]
    /\ Yield(CASE InFileOrder                      -> "linear"
               [] ~ InFileOrder /\ remaining > 1 -> "first"
               [] OTHER                            -> "last", next)
    /\ UNCHANGED <<positionVars, calls, order>>

\* checkCalls
CallsMatch == calls = loop.calls

\* The body has returned, and wants more lines or not.
Resumes(label) == yielding = label /\ CallsMatch

AfterLinear(more) ==
    /\ Resumes("linear")
    /\ IF more /\ loop.index + 1 < loop.remaining
       THEN /\ loop' = [loop EXCEPT !.index = @ + 1]
            /\ Yield("linear", loop.next + loop.index + 1)
            /\ UNCHANGED <<positionVars, calls, order>>
       ELSE Stop(loop.next + 1 + loop.index, loop.remaining - 1 - loop.index)

\* Mutant: a loop stopped after the first of two lines goes on behind the second.
AfterFirstSkips(more) ==
    /\ Resumes("first")
    /\ IF more
       THEN /\ Yield("second", loop.second)
            /\ UNCHANGED <<positionVars, calls, loop, order>>
       ELSE Stop(TwoOn(loop, loop.first), loop.remaining - 1)

AfterFirst(more) ==
    /\ Resumes("first")
    /\ IF more
       THEN /\ Yield("second", loop.second)
            /\ UNCHANGED <<positionVars, calls, loop, order>>
       ELSE Stop(loop.second, loop.remaining - 1)

\* The next two lines, or the last one of an odd number.
AfterSecond(more) ==
    /\ Resumes("second")
    /\ IF more /\ loop.remaining > 2
       THEN /\ loop' = [loop EXCEPT !.first = TwoOn(loop, @), !.second = TwoOn(loop, @),
                                    !.remaining = @ - 2]
            /\ Yield(IF loop.remaining > 3 THEN "first" ELSE "last", TwoOn(loop, loop.first))
            /\ UNCHANGED <<positionVars, calls, order>>
       ELSE Stop(TwoOn(loop, loop.first), loop.remaining - 2)

AfterLast ==
    /\ Resumes("last")
    /\ Stop(loop.second, 0)

\* The body panics, or checkCalls does; lines taken in the loop come again.
Panic ==
    /\ yielding # "idle"
    /\ yielding' = "idle"
    /\ given' = loop.given
    /\ UNCHANGED <<positionVars, calls, loop, order>>

\* The body passes the batch to NextBatch.
BodyRefills ==
    /\ yielding # "idle"
    /\ NextBatch \/ NextBatchFails
    /\ loop' = [loop EXCEPT !.given = <<>>]
    /\ UNCHANGED yielding

-----------------------------------------------------------------------------
BatchInit ==
    /\ lines = 0
    /\ back = 0
    /\ next = 0
    /\ remaining = 0
    /\ calls = 0
    /\ yielding = "idle"
    /\ loop = [lines |-> 0, back |-> 0, calls |-> 0, next |-> 0, remaining |-> 0,
               index |-> 0, first |-> 0, second |-> 0, given |-> <<>>]
    /\ order = <<>>
    /\ given = <<>>

BatchNext ==
    \/ Refill
    \/ Next
    \/ Begin
    \/ \E more \in BOOLEAN : AfterLinear(more) \/ AfterFirst(more) \/ AfterSecond(more)
    \/ AfterLast
    \/ Panic
    \/ BodyRefills

BatchSpec == BatchInit /\ [][BatchNext]_batchVars

-----------------------------------------------------------------------------
(* Properties. *)

\* However Batch.Next and loops over Batch.Lines are mixed, stopped early and
\* cut short by panics, the lines come in the order Pool.Next would have
\* returned them, none twice and none left out.
InPoolOrder == IsPrefix(given, order)

\* Outside of a loop the batch stands at the first line not taken, so that
\* "the lines it did not reach remain for Batch.Next or another iteration".
PositionKept ==
    yielding = "idle" =>
        /\ remaining = Len(order) - Len(given)
        /\ remaining > 0 => next = order[Len(given) + 1]

=============================================================================

----------------------------- MODULE LineStream -----------------------------
(***************************************************************************)
(* What a Pool promises its callers, without blocks, buffers or a mutex:   *)
(* in every cycle each of its lines is returned exactly once, in some      *)
(* order, a few at a time; EOF and the next cycle come only when no line   *)
(* is left.  Iteration may fail at any time and then stays failed until a  *)
(* Reset, which starts over.  Nothing comes after Close.                   *)
(***************************************************************************)
EXTENDS SequencesExt

VARIABLES
    lines,     \* the lines to return in each cycle
    repeats,   \* whether a cycle follows the one before
    returned,  \* those returned in this cycle, in order
    status     \* "open", "failed", "ended" or "closed"

streamVars == <<lines, repeats, returned, status>>

AllReturned == ToSet(returned) = lines

StreamInit ==
    /\ repeats \in BOOLEAN
    /\ returned = <<>>
    /\ status = "open"

Deliver ==
    LET more == SubSeq(returned', Len(returned) + 1, Len(returned'))
    IN  /\ status = "open"
        /\ IsStrictPrefix(returned, returned')
        /\ IsInjective(more)
        /\ ToSet(more) \subseteq lines \ ToSet(returned)
        /\ UNCHANGED <<lines, repeats, status>>

End ==
    /\ status = "open"
    /\ AllReturned
    /\ ~ repeats \/ lines = {}
    /\ status' = "ended"
    /\ UNCHANGED <<lines, repeats, returned>>

Repeat ==
    /\ status = "open"
    /\ AllReturned
    /\ repeats
    /\ returned' = <<>>
    /\ UNCHANGED <<lines, repeats, status>>

\* Also what a Reset does that finds the source changed.
Fail ==
    /\ status # "closed"
    /\ status' = "failed"
    /\ UNCHANGED <<lines, repeats, returned>>

Rewind ==
    /\ status # "closed"
    /\ status' = "open"
    /\ returned' = <<>>
    /\ UNCHANGED <<lines, repeats>>

Close ==
    /\ status' = "closed"
    /\ UNCHANGED <<lines, repeats, returned>>

StreamNext == Deliver \/ End \/ Repeat \/ Fail \/ Rewind \/ Close

StreamSpec == StreamInit /\ [][StreamNext]_streamVars
=============================================================================

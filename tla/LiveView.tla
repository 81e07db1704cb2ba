------------------------------ MODULE LiveView ------------------------------
(***************************************************************************)
(* What a terminal page promises about a session's output, said without a   *)
(* connection: the screen is an unbroken piece of one output stream, it     *)
(* grows in place, and it is replaced only when the stream started again or *)
(* when what should come next is no longer retained.                        *)
(***************************************************************************)
EXTENDS Integers, SequencesExt

VARIABLES
    epoch,      \* which stream the session is on
    last,       \* length of that stream
    oldest,     \* oldest position still retained
    seen,       \* the stream the screen belongs to, 0 when it shows none
    view        \* positions on the screen, first to last

vars == <<epoch, last, oldest, seen, view>>

Consecutive(lo, hi) == [i \in 1..(hi - lo + 1) |-> lo + i - 1]

Reached == IF view = <<>> THEN 0 ELSE Last(view)

Init ==
    /\ epoch = 1
    /\ last = 0
    /\ oldest = 1
    /\ seen = 0
    /\ view = <<>>

\* The program writes; old output may fall out of the buffer.
Grow ==
    /\ last' = last + 1
    /\ oldest' \in oldest..last'
    /\ UNCHANGED <<epoch, seen, view>>

\* The server comes back and reads the program's output from zero.
StartOver ==
    /\ epoch' = epoch + 1
    /\ last' = 0
    /\ oldest' = 1
    /\ UNCHANGED <<seen, view>>

\* More of the same stream, directly after what is shown.
Extend ==
    /\ seen = epoch
    /\ \E hi \in (Reached + 1)..last : view' = view \o Consecutive(Reached + 1, hi)
    /\ UNCHANGED <<epoch, last, oldest, seen>>

\* A fresh screen, skipping nothing that is still retained.
Resync ==
    /\ seen # epoch \/ Reached + 1 < oldest
    /\ seen' = epoch
    /\ \E lo \in 1..oldest, hi \in 0..last :
         /\ lo <= hi + 1
         /\ seen = epoch => lo > Reached
         /\ view' = Consecutive(lo, hi)
    /\ UNCHANGED <<epoch, last, oldest>>

\* The page is closed or reloaded.
Leave ==
    /\ seen' = 0
    /\ view' = <<>>
    /\ UNCHANGED <<epoch, last, oldest>>

Next == Grow \/ StartOver \/ Extend \/ Resync \/ Leave

Spec == Init /\ [][Next]_vars
=============================================================================

----------------------------- MODULE TailWindow -----------------------------
(***************************************************************************)
(* What the live tail promises about the rows it keeps: a window on the    *)
(* newest `size' rows that were delivered, and while it is paused a second *)
(* window for the rows that wait.  LiveTail implements it with two ring    *)
(* buffers.                                                                *)
(***************************************************************************)
EXTENDS Integers, Sequences

CONSTANTS Items, Sizes, MaxBatch

VARIABLES shown, held, size, frozen

window == <<shown, held, size, frozen>>

\* The last n items of a sequence.
Last(s, n) == IF Len(s) <= n THEN s ELSE SubSeq(s, Len(s) - n + 1, Len(s))

Init ==
    /\ shown = <<>> /\ held = <<>>
    /\ size \in Sizes
    /\ frozen = FALSE

\* A batch joins the newest end; what no longer fits leaves at the other.
Deliver(batch) ==
    /\ IF frozen
       THEN held' = Last(held \o batch, size) /\ shown' = shown
       ELSE shown' = Last(shown \o batch, size) /\ held' = held
    /\ UNCHANGED <<size, frozen>>

Freeze ==
    /\ ~frozen /\ frozen' = TRUE
    /\ UNCHANGED <<shown, held, size>>

\* The rows that waited join the window, none of them twice.
Thaw ==
    /\ frozen /\ frozen' = FALSE
    /\ shown' = Last(shown \o held, size)
    /\ held' = <<>>
    /\ UNCHANGED size

Clear ==
    /\ shown' = <<>> /\ held' = <<>>
    /\ UNCHANGED <<size, frozen>>

SetSize(n) ==
    /\ size' = n
    /\ shown' = Last(shown, n) /\ held' = Last(held, n)
    /\ UNCHANGED frozen

Renew == shown' = <<>> /\ held' = <<>> /\ frozen' = FALSE /\ size' \in Sizes

Next ==
    \/ \E n \in 1..MaxBatch : \E batch \in [1..n -> Items] : Deliver(batch)
    \/ Freeze \/ Thaw \/ Clear \/ Renew
    \/ \E n \in Sizes : SetSize(n)

Spec == Init /\ [][Next]_window
=============================================================================

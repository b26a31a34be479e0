------------------------------ MODULE PlotList ------------------------------
(***************************************************************************)
(* What a unigd device is for, as its users see it: a list of plots, each  *)
(* with the number of graphics operations drawn on it.  Drawing goes to    *)
(* the newest plot, plots are removed one by one or all together, and      *)
(* rendering any of them, at any size, changes nothing.                    *)
(*                                                                         *)
(* UnigdDevice implements it with a page store, a plot history that lags   *)
(* one plot behind, and the display list of R's graphics engine.           *)
(***************************************************************************)
EXTENDS Naturals, Sequences, SequencesExt

VARIABLES plots,   \* sequence of [id, ops], the oldest first
          nextId   \* id of the next plot

vars == <<plots, nextId>>

Init == plots = <<>> /\ nextId = 0

NewPlot ==
    /\ plots' = Append(plots, [id |-> nextId, ops |-> 0])
    /\ nextId' = nextId + 1

Draw ==
    /\ plots # <<>>
    /\ plots' = [plots EXCEPT ![Len(plots)].ops = @ + 1]
    /\ UNCHANGED nextId

RemovePlot(n) == plots' = RemoveAt(plots, n) /\ UNCHANGED nextId

Clear == plots' = <<>> /\ UNCHANGED nextId

Next ==
    \/ NewPlot
    \/ Draw
    \/ \E n \in 1..Len(plots) : RemovePlot(n)
    \/ Clear

Spec == Init /\ [][Next]_vars
=============================================================================

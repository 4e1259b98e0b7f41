---------------------------- MODULE AtomicCell ----------------------------
(***************************************************************************)
(* What a state file promises its readers: it holds one whole value or is  *)
(* missing, a save replaces the value in one step, and a power failure     *)
(* leaves one of the values the cell has held since its last flush.        *)
(***************************************************************************)
CONSTANTS Values, Missing

VARIABLES
  cell,    \* what a reader finds
  stable   \* what a reader may find after a power failure

vars == <<cell, stable>>

Init == cell \in Values \cup {Missing} /\ stable = {cell}

Put == /\ cell' \in Values
       /\ stable' = stable \cup {cell'}

Flush == stable' = {cell} /\ UNCHANGED cell

PowerFailure == /\ cell' \in stable
                /\ stable' = {cell'}

Next == Put \/ Flush \/ PowerFailure

Spec == Init /\ [][Next]_vars
=============================================================================

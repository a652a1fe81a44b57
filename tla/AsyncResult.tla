---------------------------- MODULE AsyncResult ----------------------------
(***************************************************************************)
(* What async_get promises: an outcome is decided once and for all, and    *)
(* whoever asked is told of it once.  Until then it may be told of nothing *)
(* (the process died, or there was nobody to ask).                         *)
(***************************************************************************)
EXTENDS Naturals

CONSTANTS
    Outcome,   \* what may be decided
    Pending    \* not decided yet

VARIABLES
    outcome,  \* the decision
    told      \* how often it was handed on

Init == outcome = Pending /\ told = 0

Decide ==
    /\ outcome = Pending
    /\ outcome' \in Outcome
    /\ UNCHANGED told

Tell ==
    /\ outcome # Pending /\ told = 0
    /\ told' = 1
    /\ UNCHANGED outcome

Spec == Init /\ [][Decide \/ Tell]_<<outcome, told>>
=============================================================================

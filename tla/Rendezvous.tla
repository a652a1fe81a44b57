----------------------------- MODULE Rendezvous -----------------------------
(***************************************************************************)
(* What signaling_send promises, without relays, copies and packets: a     *)
(* payload for a node that is not known is released only after that node   *)
(* was reached, and no more once a release is known to have gone out.      *)
(***************************************************************************)
EXTENDS Naturals

CONSTANT Request  \* calls of signaling_send

VARIABLES
    stage,        \* how far each call is
    outstanding,  \* payloads released, not yet known to have gone out
    closed        \* calls of which one is known to have gone out

vars == <<stage, outstanding, closed>>

Init ==
    /\ stage = [r \in Request |-> "idle"]
    /\ outstanding = [r \in Request |-> 0]
    /\ closed = {}

Moves(r, here, next) == stage[r] = here /\ stage' = [stage EXCEPT ![r] = next]

\* The destination is known and the payload sent to it, or it is asked for, is
\* reached, and gets the payload.
Go(r) ==
    /\ \/ Moves(r, "idle", "released") \/ Moves(r, "idle", "asked")
       \/ Moves(r, "asked", "reached")
       \/ Moves(r, "released", "delivered")
    /\ UNCHANGED <<outstanding, closed>>

Release(r) ==
    /\ stage[r] \in {"reached", "released", "delivered"} /\ r \notin closed
    /\ stage' = [stage EXCEPT ![r] = IF @ = "reached" THEN "released" ELSE @]
    /\ outstanding' = [outstanding EXCEPT ![r] = @ + 1]
    /\ UNCHANGED closed

Close(r) ==
    /\ outstanding[r] > 0
    /\ outstanding' = [outstanding EXCEPT ![r] = @ - 1]
    /\ closed' = closed \cup {r}
    /\ UNCHANGED stage

Spec == Init /\ [][\E r \in Request : Go(r) \/ Release(r) \/ Close(r)]_vars
=============================================================================

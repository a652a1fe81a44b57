-------------------------- MODULE MCNodeController --------------------------
(* NodeController with one sender. *)
EXTENDS NodeController

CONSTANTS p1, nobody
=============================================================================

--------------------------- MODULE MCMessagePool ---------------------------
(* MessagePool with two peers. *)
EXTENDS MessagePool

CONSTANTS p1, p2, a1

MCTimeouts == {Block, 0, 1}
=============================================================================

---------------------------- MODULE MCDhtManager ----------------------------
(* DhtManager on ids of two bits, seen from the node with id 00. *)
EXTENDS DhtManager

CONSTANTS root, far1, near

Bits(x, y) == [i \in 0 .. 1 |-> <<x, y>>[i + 1]]

\* far1 and the search root select the farther bucket, near the nearer one.
MCId == [n \in Node |-> CASE n = far1 -> Bits(1, 0)
                          [] n = near -> Bits(0, 1)
                          [] n = root -> Bits(1, 1)]

MCSelfId == Bits(0, 0)
=============================================================================

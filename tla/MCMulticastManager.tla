-------------------------- MODULE MCMulticastManager ------------------------
(* The routing table and the multicast manager on ids of three bits, seen  *)
(* from the node with id 000.                                              *)
EXTENDS MulticastManager

CONSTANTS far1, far2, far3, far4, mid1, mid2, near, self, nobody

Bits(x, y, z) == [i \in 0 .. 2 |-> <<x, y, z>>[i + 1]]

\* Up to four nodes compete for the three places of the farthest bucket; near and
\* self share slot 0.
MCId == [n \in Node |->
            CASE n = far1 -> Bits(1, 0, 0)
              [] n = far2 -> Bits(1, 0, 1)
              [] n = far3 -> Bits(1, 1, 0)
              [] n = far4 -> Bits(1, 1, 1)
              [] n = mid1 -> Bits(0, 1, 0)
              [] n = mid2 -> Bits(0, 1, 1)
              [] n = near -> Bits(0, 0, 1)
              [] n = self -> Bits(0, 0, 0)]

\* A node's id only matters for the bucket it selects.
SameBucket == Permutations({far1, far2, far3, far4}) \cup Permutations({mid1, mid2})

MCSelfId == Bits(0, 0, 0)
=============================================================================

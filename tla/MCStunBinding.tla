--------------------------- MODULE MCStunBinding ---------------------------
(* StunBinding with up to four nodes, asked in a fixed order. *)
EXTENDS StunBinding

CONSTANTS t1, t2, t3, t4, global1, global2, local

Order == <<t1, t2, t3, t4>>

\* No node to ask, or the first few: nodes differ only in what they see.
MCRequests == {SubSeq(Order, 1, n) : n \in {0, 1, 2, Cardinality(Target)}}

\* Every combination of views, but of two that differ only in which global
\* endpoint is which, one.
MCViews == {v \in [Target -> Endpoint] :
               \A i \in 1 .. Cardinality(Target) :
                  v[Order[i]] = global2 => \E j \in 1 .. i - 1 : v[Order[j]] = global1}
=============================================================================

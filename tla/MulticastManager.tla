-------------------------- MODULE MulticastManager --------------------------
(***************************************************************************)
(* multicast_manager: an application thread picks peers to send to from    *)
(* the routing table, while the io_context's thread goes on updating it.   *)
(* Nothing is locked: the walk over the buckets sees the table of the      *)
(* moment at each of them.                                                 *)
(***************************************************************************)
EXTENDS KRoutingTable

CONSTANTS
    NoNode,    \* no peer: nullptr
    MaxPicked  \* bound: peers the application puts in the context by itself

ASSUME ManagerAssumption == NoNode \notin Node /\ MaxPicked \in Nat

VARIABLES
    picked,   \* _context._picked_peers
    call,     \* what the application is waiting for
    left,     \* bucket_indexes that get_random has not tried
    result,   \* what the last call returned, "null" or "peer"
    witness,  \* (history) a node that the table held during the whole call
    dead      \* has the process died?

manager == <<picked, call, left, result, witness, dead>>

\* get_random, get_multicast_target( n ) with n > 1, and with n <= 1.
Call == {"get_random", "many", "one"}

-----------------------------------------------------------------------------

bucket_indexes_Short == 0 .. IdBits - 2

\* irange( bucket_first_index, bucket_end_index + 1 ), shuffled: the indexes are
\* tried in any order.
bucket_indexes == 0 .. IdBits - 1

\* get_multicast_target begins with get_random.
get_random(c) ==
    /\ call = "none" /\ call' = c
    /\ left' = bucket_indexes
    /\ result' = "none"
    /\ witness' \in {n \in Node : Holds(n)} \cup {NoNode}
    /\ UNCHANGED <<table, picked, dead>>

dies == dead' = TRUE /\ UNCHANGED <<table, picked, call, left, result, witness>>

\* get_multicast_target with n > 1 returns the one peer it has.  With n <= 1 it
\* goes on to convert that peer, or dereferences the null one, and dies.
returns(r) ==
    /\ call # "one"
    /\ call' = "none" /\ result' = r
    /\ left' = {}
    /\ UNCHANGED <<table, dead>>

\* convert_peers_to_k_nodes writes through begin() of an empty vector, which is
\* null, unless there is nothing to convert.
conversion_dies == picked # {}

\* One turn of the loop.  The index is passed on as a branch: get_bucket( 0 ) and
\* get_bucket( 1 ) are one bucket, and no index leads to the last one.
\* _ep_to_peer_func refers to a function object that is gone: calling it works
\* or kills the process, as may the read of a bucket that is being changed.
try_bucket(i) ==
    LET target_bucket == bucket_of_branch(i)
    IN  \/ /\ Len(target_bucket) = 0
           /\ left' = left \ {i}
           /\ UNCHANGED <<table, picked, call, result, witness, dead>>
        \/ Len(target_bucket) > 0 /\ dies
        \/ /\ Len(target_bucket) > 0 /\ ~conversion_dies
           /\ returns("peer")
           /\ picked' = picked \cup ToSet(get_node_front(target_bucket, 1, {}))
           /\ witness' = NoNode

no_bucket ==
    /\ call # "none" /\ left = {}
    /\ \/ returns("null") /\ UNCHANGED <<picked, witness>>
       \/ call = "one" /\ dies

\* The application's own calls.
update_context(p) ==
    /\ call = "none" /\ Cardinality(picked) < MaxPicked
    /\ picked' = picked \cup {p}
    /\ UNCHANGED <<table, call, left, result, witness, dead>>

clear_context ==
    /\ call = "none"
    /\ picked' = {}
    /\ UNCHANGED <<table, call, left, result, witness, dead>>

\* The io_context's thread.
TableUpdate ==
    /\ Next
    /\ witness' = IF call # "none" /\ witness \in {n \in Node : ~Holds(n)'}
                  THEN NoNode ELSE witness
    /\ UNCHANGED <<picked, call, left, result, dead>>

ManagerInit ==
    /\ Init
    /\ picked = {} /\ call = "none" /\ left = {}
    /\ result = "none" /\ witness = NoNode /\ dead = FALSE

ManagerNext ==
    /\ ~dead
    /\ \/ TableUpdate
       \/ \E c \in Call : get_random(c)
       \/ \E i \in left : try_bucket(i)
       \/ no_bucket
       \/ \E p \in Node : update_context(p)
       \/ clear_context

ManagerSpec == ManagerInit /\ [][ManagerNext]_<<table, manager>>

-----------------------------------------------------------------------------
(* Properties *)

\* get_random returns nullptr only if there was no node to pick, whatever the
\* updates between two turns of its loop: a node that the table held during the
\* whole call has been passed over only if it is in the last bucket, which no
\* index leads to (multicast_manager.cpp:43, 51).
NoNodeMissed ==
    result = "null" /\ witness # NoNode => calc_branch_index(witness) = IdBits - 1

\* The searches read nothing but the table, and it takes each of its values while
\* no call has been made.
Untouched == call = "none" /\ result = "none" /\ picked = {}

\* CollectSound, for every table (k_routing_table.cpp:75).
SearchesSound == Untouched => CollectSound

\* CollectComplete, for every table (k_routing_table.cpp:75).
SearchesComplete == Untouched => CollectComplete
=============================================================================

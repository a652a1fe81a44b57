--------------------------- MODULE KRoutingTable ---------------------------
(***************************************************************************)
(* The Kademlia routing table of one node: k_bucket, k_routing_table and   *)
(* the direct_routing_table_controller in front of them.                   *)
(*                                                                         *)
(* A k_node is a pair of an endpoint and the id computed from it; two      *)
(* k_nodes are equal when their ids are (k_node.cpp:49).  Node is the set  *)
(* of endpoints, Id gives each its id.  SHA-1, which computes the id, is   *)
(* external: all that is assumed of it is that the endpoints considered    *)
(* have different ids.                                                     *)
(*                                                                         *)
(* An id is a function from bit positions to bits, positions in the order  *)
(* in which calc_node_xor_distance scans them (byte by byte, the least     *)
(* significant bit of a byte first).                                       *)
(***************************************************************************)
EXTENDS Integers, FiniteSets, SequencesExt

CONSTANTS
    Node,       \* endpoints of peers
    IdBits,     \* K_NODE_ID_LENGTH * 8 = K_BUCKET_COUNT (160 in the code)
    K,          \* DEFAULT_K, the capacity of a bucket (4 in the code)
    Id,         \* endpoint -> node id (calc_node_id)
    SelfId      \* _self_id, the table's own copy of its node's id

BitString == [0 .. IdBits - 1 -> {0, 1}]

ASSUME IdBitsAssumption == IdBits \in Nat \ {0}
ASSUME KAssumption == K \in Nat \ {0}
ASSUME IdAssumption == /\ Id \in [Node -> BitString]
                       /\ \A m, n \in Node : Id[m] = Id[n] => m = n
                       /\ SelfId \in BitString

VARIABLE table  \* _table: bucket index -> nodes, least recently seen first

Branch == 1 .. IdBits           \* branches are numbered from 1
BucketIndex == 0 .. IdBits - 1  \* positions in the array _table

-----------------------------------------------------------------------------
(* Ids and branches *)

\* The number of leading bits in which two ids agree.
calc_node_xor_distance(a, b) ==
    Cardinality({i \in 0 .. IdBits - 1 : \A j \in 0 .. i : a[j] = b[j]})

calc_branch(n) == IdBits - calc_node_xor_distance(SelfId, Id[n])

\* std::max( branch - 1, 0 ): branch 0 (the node itself) shares slot 0 with
\* branch 1.
IndexOfBranch(branch) == IF branch - 1 > 0 THEN branch - 1 ELSE 0

calc_branch_index(n) == IndexOfBranch(calc_branch(n))

get_bucket(n) == table[calc_branch_index(n)]

bucket_of_branch(branch) == table[IndexOfBranch(branch)]

-----------------------------------------------------------------------------
(* k_bucket: operations on the node list of one bucket.                    *)
(* Operators named <definition>_<Slip> are wrong on purpose: each is a     *)
(* plausible slip in the code, put in the definition's place to show that  *)
(* a property would notice it.  No specification uses them.                *)

BucketHas(b, n) == \E i \in DOMAIN b : b[i] = n

\* std::find; a bucket holds a node at most once, so any position is the first.
Position(b, n) == CHOOSE i \in DOMAIN b : b[i] = n

is_full_OffByOne(b) == Len(b) > K

is_full(b) == Len(b) >= K

add_back(b, n) == IF is_full(b) \/ BucketHas(b, n) THEN b ELSE Append(b, n)

move_back_NoErase(b, n) == IF BucketHas(b, n) THEN Append(b, n) ELSE b

move_back_ToFront(b, n) ==
    IF BucketHas(b, n) THEN <<n>> \o RemoveAt(b, Position(b, n)) ELSE b

move_back(b, n) ==
    IF BucketHas(b, n) THEN Append(RemoveAt(b, Position(b, n)), n) ELSE b

delete_node(b, n) ==
    IF BucketHas(b, n) THEN RemoveAt(b, Position(b, n)) ELSE b

\* dest takes the position of src.
swap_node(b, src, dest) ==
    IF BucketHas(b, src) /\ ~BucketHas(b, dest)
    THEN [b EXCEPT ![Position(b, src)] = dest]
    ELSE b

auto_update_Evict(b, n) ==
    IF BucketHas(b, n) THEN move_back(b, n)
    ELSE IF is_full(b) THEN Append(Tail(b), n) ELSE add_back(b, n)

\* A full bucket keeps its nodes and drops the new one (update_state::overflow).
auto_update(b, n) ==
    IF BucketHas(b, n) THEN move_back(b, n)
    ELSE IF is_full(b) THEN b ELSE add_back(b, n)

\* The loops push a node before they compare with count: a count of 0 still
\* returns one node.
Take(s, count) ==
    SubSeq(s, 1, Min({Len(s), IF count = 0 THEN 1 ELSE count}))

get_node_front(b, count, ignore) ==
    Take(SelectSeq(b, LAMBDA n : n \notin ignore), count)

get_node_back(b, count, ignore) ==
    Take(SelectSeq(Reverse(b), LAMBDA n : n \notin ignore), count)

-----------------------------------------------------------------------------
(* k_routing_table: searches over the buckets *)

is_exist(n) == BucketHas(get_bucket(n), n)

get_node_count == FoldFunction(LAMBDA b, c : c + Len(b), 0, table)

collect_turn_MissLast(root_branch, max_count, ignore, ret, dist) ==
    LET Add(r, branch) ==
            IF branch \in Branch \ {IdBits}
            THEN r \o get_node_back(bucket_of_branch(branch),
                                    max_count - Len(r), ignore)
            ELSE r
    IN  IF max_count > Len(ret)
        THEN Add(Add(ret, root_branch - dist), root_branch + dist)
        ELSE ret

\* One turn of the while loop: the bucket `dist` branches above the root and
\* then the one `dist` below.  The remaining count is recomputed in between
\* but not compared with zero.
collect_turn(root_branch, max_count, ignore, ret, dist) ==
    LET Add(r, branch) ==
            IF branch \in Branch
            THEN r \o get_node_back(bucket_of_branch(branch),
                                    max_count - Len(r), ignore)
            ELSE r
    IN  IF max_count > Len(ret)
        THEN Add(Add(ret, root_branch - dist), root_branch + dist)
        ELSE ret

collect_node_FromZero(root, max_count, ignore) ==
    LET root_branch == calc_branch(root)
    IN  FoldLeft(LAMBDA ret, dist : collect_turn(root_branch, max_count,
                                                 ignore, ret, dist - 1),
                 get_node_back(bucket_of_branch(root_branch), max_count, ignore),
                 [d \in 1 .. IdBits |-> d])

\* After IdBits turns both directions are exhausted, whatever the root.
collect_node(root, max_count, ignore) ==
    LET root_branch == calc_branch(root)
    IN  FoldLeft(LAMBDA ret, dist : collect_turn(root_branch, max_count,
                                                 ignore, ret, dist),
                 get_node_back(bucket_of_branch(root_branch), max_count, ignore),
                 [d \in 1 .. IdBits |-> d])

\* The controller's form: endpoints in, endpoints out.  Here a node is its
\* endpoint.
collect_endpoint(root_ep, max_count, ignore_eps) ==
    collect_node(root_ep, max_count, ignore_eps)

-----------------------------------------------------------------------------
(* The operations that change the table *)

Init == table = [i \in BucketIndex |-> <<>>]

OnBucket(i, b) == table' = [table EXCEPT ![i] = b]

AutoUpdate_WrongSlot(n) ==
    OnBucket(Min({calc_branch(n), IdBits - 1}), auto_update(get_bucket(n), n))

\* A node that pinged this one, a node whose pong arrived, a boot node.
AutoUpdate(n) ==
    OnBucket(calc_branch_index(n), auto_update(get_bucket(n), n))

\* The pong of a refresh ping; the handler holds a reference to the bucket.
MoveBack(n) == OnBucket(calc_branch_index(n), move_back(get_bucket(n), n))

\* The timeout of a refresh ping.
DeleteNode(n) == OnBucket(calc_branch_index(n), delete_node(get_bucket(n), n))

\* Public, but without a caller in the library.  dest goes to the bucket of
\* src whatever its own branch is.
SwapNode(src, dest) ==
    OnBucket(calc_branch_index(src), swap_node(get_bucket(src), src, dest))

Next ==
    \/ \E n \in Node : AutoUpdate(n)
    \/ \E n \in Node : MoveBack(n)
    \/ \E n \in Node : DeleteNode(n)

\* The table as the library drives it.
Spec == Init /\ [][Next]_table

\* The table with swap_node called on it as well.
NextWithSwap ==
    \/ Next
    \/ \E src, dest \in Node : SwapNode(src, dest)

SpecWithSwap == Init /\ [][NextWithSwap]_table

-----------------------------------------------------------------------------
(* Properties *)

\* Every slot is a list of nodes, and no bucket outgrows DEFAULT_K whatever
\* the order of updates, refresh results and swaps (k_bucket::is_full guards
\* auto_update and add_back only).
TypeOK ==
    /\ table \in [BucketIndex -> Seq(Node)]
    /\ \A i \in BucketIndex : Len(table[i]) <= K

\* A bucket never holds a node twice (k_bucket::auto_update, swap_node): the
\* erase of the first match is then enough to remove it.
NoDuplicates ==
    \A i \in BucketIndex :
        \A p, q \in DOMAIN table[i] : table[i][p] = table[i][q] => p = q

\* A node is only ever in the bucket its id selects, so is_exist, which looks
\* there alone, finds every node the table holds.
WellPlaced ==
    \A i \in BucketIndex :
        \A p \in DOMAIN table[i] : calc_branch_index(table[i][p]) = i

Holds(n) == \E i \in BucketIndex : BucketHas(table[i], n)

\* l is in the bucket, and m behind it.
SeenBefore(b, l, m) == \E p, q \in DOMAIN b : p < q /\ b[p] = l /\ b[q] = m

\* c holds the nodes of b besides n, in the same order.
OthersKept(b, c, n) ==
    /\ \A m \in Node \ {n} : BucketHas(b, m) <=> BucketHas(c, m)
    /\ \A p, q \in DOMAIN b :
           p < q /\ n \notin {b[p], b[q]} => SeenBefore(c, b[p], b[q])

\* Every update leaves the other nodes of a bucket in their order, and a node
\* whose place changes goes to the back: the order is by when a node was last
\* heard of, which is what get_node_front and get_node_back rely on.
LeastRecentlySeenOrder ==
    [][\A i \in {j \in BucketIndex : table'[j] # table[j]} :
          \E n \in Node :
             /\ OthersKept(table[i], table'[i], n)
             /\ BucketHas(table'[i], n) => table'[i][Len(table'[i])] = n]_table

\* A known node is never evicted in favour of another one: it leaves the table
\* only when its own refresh ping timed out, however full its bucket is.
OnlyTimeoutRemoves ==
    [][\A n \in Node : Holds(n) /\ ~Holds(n)' => DeleteNode(n)]_table

\* The sets of ignored nodes and the counts that the searches are checked for.
SmallIgnore == {S \in SUBSET Node : Cardinality(S) <= 1}
SmallCount == 0 .. 3

BucketGap(n, root) ==
    LET d == calc_branch_index(n) - calc_branch_index(root)
    IN  IF d < 0 THEN -d ELSE d

\* collect_node walks outwards from the root's bucket: what it returns is
\* held by the table, not ignored, without repetition, and no node precedes
\* one whose bucket is nearer to the root's.  How many it returns is left out:
\* "max_count" (k_routing_table.hpp:58) is exceeded by one when the count reaches
\* 0 between the two buckets of a turn, as get_node_back( 0 ) returns a node.
\* (The node's own id as root is left out too: branch 0 and branch 1 are one
\* bucket, which is then read twice.)
CollectSound ==
    \A root \in Node, c \in SmallCount, ignore \in SmallIgnore :
        calc_branch(root) # 0 =>
        LET r == collect_node(root, c, ignore)
        IN  /\ \A p \in DOMAIN r : Holds(r[p]) /\ r[p] \notin ignore
            /\ \A p, q \in DOMAIN r :
                  p < q => /\ r[p] # r[q]
                           /\ BucketGap(r[p], root) <= BucketGap(r[q], root)

\* If collect_node returns fewer nodes than it was asked for, it has returned
\* every node of the table that is not ignored: the walk in both directions
\* skips no bucket.
CollectComplete ==
    \A root \in Node, c \in SmallCount, ignore \in SmallIgnore :
        LET r == collect_node(root, c, ignore)
        IN  Len(r) < c => \A n \in Node \ ignore :
                             Holds(n) => n \in ToSet(r)
=============================================================================

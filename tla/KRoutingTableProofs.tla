------------------------ MODULE KRoutingTableProofs ------------------------
(***************************************************************************)
(* Proofs about KRoutingTable, for every set of nodes, id length and       *)
(* bucket capacity.                                                        *)
(***************************************************************************)
EXTENDS KRoutingTable, QueueTheorems, FiniteSetTheorems

\* What the proofs need of one bucket: a list of nodes within the capacity,
\* none of them twice.
GoodBucket(b) ==
    /\ b \in Seq(Node)
    /\ Len(b) <= K
    /\ \A p, q \in DOMAIN b : b[p] = b[q] => p = q

\* The inductive invariant under all four operations.
BucketInv ==
    /\ DOMAIN table = BucketIndex
    /\ table = [i \in BucketIndex |-> table[i]]
    /\ \A i \in BucketIndex : GoodBucket(table[i])

\* The branch of a node selects a slot of the array (calc_branch_index).
LEMMA BranchIndexType == \A n \in Node : calc_branch_index(n) \in BucketIndex
<1> SUFFICES ASSUME NEW n \in Node
             PROVE  calc_branch_index(n) \in BucketIndex
  OBVIOUS
<1> DEFINE Agree == {i \in 0 .. IdBits - 1 :
                        \A j \in 0 .. i : SelfId[j] = Id[n][j]}
<1>1. IsFiniteSet(0 .. IdBits - 1) /\ Cardinality(0 .. IdBits - 1) = IdBits
  BY FS_Interval, IdBitsAssumption
<1>2. Agree \subseteq 0 .. IdBits - 1
  OBVIOUS
<1>3. Cardinality(Agree) \in Nat /\ Cardinality(Agree) <= IdBits
  <2> HIDE DEF Agree
  <2>1. IsFiniteSet(Agree) /\ Cardinality(Agree) <= Cardinality(0 .. IdBits - 1)
    BY <1>1, <1>2, FS_Subset
  <2>2. Cardinality(Agree) \in Nat
    BY <2>1, FS_CardinalityType
  <2> QED BY <2>1, <2>2, <1>1
<1>4. calc_branch(n) = IdBits - Cardinality(Agree)
  BY DEF calc_branch, calc_node_xor_distance
<1> HIDE DEF Agree
<1> QED
  BY <1>3, <1>4, IdBitsAssumption DEF calc_branch_index, IndexOfBranch, BucketIndex

\* A bucket is a function on 1 .. Len.
LEMMA BucketShape ==
    ASSUME NEW b, GoodBucket(b)
    PROVE  /\ Len(b) \in Nat
           /\ DOMAIN b = 1 .. Len(b)
           /\ \A p \in 1 .. Len(b) : b[p] \in Node
  BY LenProperties, ElementOfSeq DEF GoodBucket

\* std::find returns a position that holds the node it looks for.
LEMMA PositionFound ==
    ASSUME NEW b, GoodBucket(b), NEW n, BucketHas(b, n)
    PROVE  Position(b, n) \in 1 .. Len(b) /\ b[Position(b, n)] = n
  BY BucketShape DEF Position, BucketHas

\* Erasing an entry leaves a good bucket, one shorter, with the other nodes of
\* the old one.
LEMMA EraseGood ==
    ASSUME NEW b, GoodBucket(b), NEW k \in 1 .. Len(b)
    PROVE  /\ GoodBucket(RemoveAt(b, k))
           /\ Len(RemoveAt(b, k)) = Len(b) - 1
           /\ \A m : BucketHas(RemoveAt(b, k), m) <=> BucketHas(b, m) /\ m # b[k]
<1> DEFINE r == RemoveAt(b, k)
<1>0. /\ b \in Seq(Node) /\ Len(b) <= K
      /\ Len(b) \in Nat /\ DOMAIN b = 1 .. Len(b)
      /\ \A p, q \in 1 .. Len(b) : b[p] = b[q] => p = q
  BY BucketShape DEF GoodBucket
<1>1. /\ r \in Seq(Node)
      /\ Len(r) = Len(b) - 1
      /\ \A i \in 1 .. Len(b) - 1 : r[i] = IF i < k THEN b[i] ELSE b[i + 1]
  BY <1>0, RemoveAtProperties
<1>2. DOMAIN r = 1 .. Len(b) - 1
  BY <1>1, LenProperties
<1> HIDE DEF r
<1>3. ASSUME NEW p \in 1 .. Len(b) - 1, NEW q \in 1 .. Len(b) - 1, r[p] = r[q]
      PROVE  p = q
  <2> DEFINE P == IF p < k THEN p ELSE p + 1
             Q == IF q < k THEN q ELSE q + 1
  <2>1. P \in 1 .. Len(b) /\ Q \in 1 .. Len(b)
    BY <1>0
  <2>2. r[p] = b[P] /\ r[q] = b[Q]
    BY <1>1
  <2>3. P = Q
    BY <2>1, <2>2, <1>0, <1>3
  <2> QED BY <2>3, <1>0
<1>4. GoodBucket(r)
  <2>1. K \in Nat BY KAssumption
  <2>2. Len(r) <= K
    BY <2>1, <1>0, <1>1
  <2> QED BY <2>2, <1>1, <1>2, <1>3 DEF GoodBucket
<1>5. ASSUME NEW m, BucketHas(r, m)
      PROVE  BucketHas(b, m) /\ m # b[k]
  <2>1. PICK i \in 1 .. Len(b) - 1 : r[i] = m
    BY <1>2, <1>5 DEF BucketHas
  <2> DEFINE I == IF i < k THEN i ELSE i + 1
  <2>2. I \in 1 .. Len(b) /\ I # k /\ b[I] = m
    BY <2>1, <1>0, <1>1
  <2> HIDE DEF I
  <2> QED BY <2>2, <1>0 DEF BucketHas
<1>6. ASSUME NEW m, BucketHas(b, m), m # b[k]
      PROVE  BucketHas(r, m)
  <2>1. PICK i \in 1 .. Len(b) : b[i] = m
    BY <1>0, <1>6 DEF BucketHas
  <2> DEFINE I == IF i < k THEN i ELSE i - 1
  <2>2. i # k
    BY <2>1, <1>6
  <2>3. I \in 1 .. Len(b) - 1 /\ r[I] = m
    BY <2>1, <2>2, <1>0, <1>1
  <2> HIDE DEF I
  <2> QED BY <2>3, <1>2 DEF BucketHas
<1> QED
  BY <1>1, <1>4, <1>5, <1>6 DEF r

\* Appending a node that is absent to a bucket with room leaves a good bucket.
LEMMA AppendGood ==
    ASSUME NEW b, GoodBucket(b), NEW n \in Node, ~BucketHas(b, n), Len(b) < K
    PROVE  /\ GoodBucket(Append(b, n))
           /\ \A m : BucketHas(Append(b, n), m) <=> BucketHas(b, m) \/ m = n
<1> DEFINE a == Append(b, n)
<1>0. /\ b \in Seq(Node)
      /\ Len(b) \in Nat /\ DOMAIN b = 1 .. Len(b)
      /\ \A p, q \in 1 .. Len(b) : b[p] = b[q] => p = q
      /\ K \in Nat
  BY BucketShape, KAssumption DEF GoodBucket
<1>1. /\ a \in Seq(Node)
      /\ Len(a) = Len(b) + 1
      /\ \A i \in 1 .. Len(b) : a[i] = b[i]
      /\ a[Len(b) + 1] = n
  BY <1>0, AppendProperties
<1>2. DOMAIN a = 1 .. Len(b) + 1
  BY <1>1, LenProperties
<1> HIDE DEF a
<1>3. \A i \in 1 .. Len(b) : b[i] # n
  BY <1>0 DEF BucketHas
<1>4. \A p, q \in 1 .. Len(b) + 1 : a[p] = a[q] => p = q
  <2> SUFFICES ASSUME NEW p \in 1 .. Len(b) + 1, NEW q \in 1 .. Len(b) + 1,
                      a[p] = a[q]
               PROVE  p = q
    OBVIOUS
  <2>1. CASE p \in 1 .. Len(b) /\ q \in 1 .. Len(b)
    BY <2>1, <1>0, <1>1
  <2>2. CASE p = Len(b) + 1 \/ q = Len(b) + 1
    BY <2>2, <1>0, <1>1, <1>3
  <2> QED BY <2>1, <2>2, <1>0
<1>5. GoodBucket(a)
  BY <1>0, <1>1, <1>2, <1>4 DEF GoodBucket
<1>6. \A m : BucketHas(a, m) <=> BucketHas(b, m) \/ m = n
  <2> SUFFICES ASSUME NEW m
               PROVE  BucketHas(a, m) <=> BucketHas(b, m) \/ m = n
    OBVIOUS
  <2>1. ASSUME BucketHas(a, m) PROVE BucketHas(b, m) \/ m = n
    <3>1. PICK i \in 1 .. Len(b) + 1 : a[i] = m
      BY <2>1, <1>2 DEF BucketHas
    <3>2. CASE i = Len(b) + 1
      BY <3>1, <3>2, <1>1
    <3>3. CASE i \in 1 .. Len(b)
      BY <3>1, <3>3, <1>0, <1>1 DEF BucketHas
    <3> QED BY <3>2, <3>3, <1>0
  <2>2. ASSUME BucketHas(b, m) PROVE BucketHas(a, m)
    <3>1. PICK i \in 1 .. Len(b) : b[i] = m
      BY <2>2, <1>0 DEF BucketHas
    <3>2. i \in 1 .. Len(b) + 1 /\ a[i] = m
      BY <3>1, <1>0, <1>1
    <3> QED BY <3>2, <1>2 DEF BucketHas
  <2>3. ASSUME m = n PROVE BucketHas(a, m)
    <3>1. Len(b) + 1 \in 1 .. Len(b) + 1
      BY <1>0
    <3> QED BY <2>3, <3>1, <1>1, <1>2 DEF BucketHas
  <2> QED BY <2>1, <2>2, <2>3
<1> QED BY <1>5, <1>6 DEF a

\* k_bucket::delete_node keeps a bucket good and removes only its node.
LEMMA DeleteNodeGood ==
    ASSUME NEW b, GoodBucket(b), NEW n \in Node
    PROVE  /\ GoodBucket(delete_node(b, n))
           /\ \A m : BucketHas(delete_node(b, n), m) <=> BucketHas(b, m) /\ m # n
<1>1. CASE BucketHas(b, n)
  BY <1>1, PositionFound, EraseGood DEF delete_node
<1>2. CASE ~BucketHas(b, n)
  BY <1>2 DEF delete_node
<1> QED BY <1>1, <1>2

\* k_bucket::move_back keeps a bucket good and holds the same nodes.
LEMMA MoveBackGood ==
    ASSUME NEW b, GoodBucket(b), NEW n \in Node
    PROVE  /\ GoodBucket(move_back(b, n))
           /\ \A m : BucketHas(move_back(b, n), m) <=> BucketHas(b, m)
<1>1. CASE BucketHas(b, n)
  <2> DEFINE k == Position(b, n)
             r == RemoveAt(b, k)
  <2>1. k \in 1 .. Len(b) /\ b[k] = n
    BY <1>1, PositionFound
  <2>2. /\ GoodBucket(r)
        /\ Len(r) = Len(b) - 1
        /\ \A m : BucketHas(r, m) <=> BucketHas(b, m) /\ m # n
    BY <2>1, EraseGood
  <2>3. move_back(b, n) = Append(r, n)
    BY <1>1 DEF move_back
  <2> HIDE DEF r, k
  <2>4. Len(r) < K
    <3>1. Len(b) \in Nat /\ Len(b) <= K /\ K \in Nat
      BY BucketShape, KAssumption DEF GoodBucket
    <3> QED BY <3>1, <2>2
  <2>5. /\ GoodBucket(Append(r, n))
        /\ \A m : BucketHas(Append(r, n), m) <=> BucketHas(r, m) \/ m = n
    BY <2>2, <2>4, AppendGood
  <2> QED BY <1>1, <2>2, <2>3, <2>5
<1>2. CASE ~BucketHas(b, n)
  BY <1>2 DEF move_back
<1> QED BY <1>1, <1>2

\* k_bucket::auto_update keeps a bucket good, loses no node and adds at most
\* the one it is called with.
LEMMA AutoUpdateGood ==
    ASSUME NEW b, GoodBucket(b), NEW n \in Node
    PROVE  /\ GoodBucket(auto_update(b, n))
           /\ \A m : BucketHas(b, m) => BucketHas(auto_update(b, n), m)
           /\ \A m : BucketHas(auto_update(b, n), m) => BucketHas(b, m) \/ m = n
<1>1. CASE BucketHas(b, n)
  BY <1>1, MoveBackGood DEF auto_update
<1>2. CASE ~BucketHas(b, n) /\ is_full(b)
  BY <1>2 DEF auto_update
<1>3. CASE ~BucketHas(b, n) /\ ~is_full(b)
  <2>1. auto_update(b, n) = Append(b, n)
    BY <1>3 DEF auto_update, add_back
  <2>2. Len(b) < K
    BY <1>3, BucketShape, KAssumption DEF is_full
  <2> QED BY <1>3, <2>1, <2>2, AppendGood
<1> QED BY <1>1, <1>2, <1>3

\* k_bucket::swap_node keeps a bucket good.
LEMMA SwapNodeGood ==
    ASSUME NEW b, GoodBucket(b), NEW src \in Node, NEW dest \in Node
    PROVE  GoodBucket(swap_node(b, src, dest))
<1>1. CASE BucketHas(b, src) /\ ~BucketHas(b, dest)
  <2> DEFINE k == Position(b, src)
             r == [b EXCEPT ![k] = dest]
  <2>0. /\ b \in Seq(Node) /\ Len(b) <= K
        /\ Len(b) \in Nat /\ DOMAIN b = 1 .. Len(b)
        /\ \A p, q \in 1 .. Len(b) : b[p] = b[q] => p = q
    BY BucketShape DEF GoodBucket
  <2>1. k \in 1 .. Len(b)
    BY <1>1, PositionFound
  <2>2. swap_node(b, src, dest) = r
    BY <1>1 DEF swap_node
  <2> HIDE DEF k
  <2>3. /\ r \in Seq(Node)
        /\ Len(r) = Len(b)
        /\ \A j \in 1 .. Len(b) : r[j] = IF j = k THEN dest ELSE b[j]
    BY <2>0, <2>1, ExceptSeq
  <2>4. DOMAIN r = 1 .. Len(b)
    BY <2>0
  <2> HIDE DEF r
  <2>5. \A j \in 1 .. Len(b) : b[j] # dest
    BY <1>1, <2>0 DEF BucketHas
  <2>6. \A p, q \in 1 .. Len(b) : r[p] = r[q] => p = q
    BY <2>0, <2>3, <2>5
  <2> QED BY <2>0, <2>2, <2>3, <2>4, <2>6 DEF GoodBucket
<1>2. CASE ~(BucketHas(b, src) /\ ~BucketHas(b, dest))
  BY <1>2 DEF swap_node
<1> QED BY <1>1, <1>2

-----------------------------------------------------------------------------

LEMMA BucketInvInit == Init => BucketInv
<1> SUFFICES ASSUME Init PROVE BucketInv
  OBVIOUS
<1>1. GoodBucket(<<>>)
  BY EmptySeq, KAssumption DEF GoodBucket
<1> QED BY <1>1 DEF Init, BucketInv

\* Writing a good bucket into a slot keeps the invariant.
LEMMA BucketInvWrite ==
    ASSUME BucketInv, NEW i \in BucketIndex, NEW b, GoodBucket(b), OnBucket(i, b)
    PROVE  /\ BucketInv'
           /\ table'[i] = b
           /\ \A j \in BucketIndex \ {i} : table'[j] = table[j]
  BY DEF BucketInv, OnBucket

LEMMA BucketInvStep == BucketInv /\ [NextWithSwap]_table => BucketInv'
<1> SUFFICES ASSUME BucketInv, [NextWithSwap]_table PROVE BucketInv'
  OBVIOUS
<1>0. \A n \in Node : /\ calc_branch_index(n) \in BucketIndex
                      /\ GoodBucket(get_bucket(n))
  BY BranchIndexType DEF BucketInv, get_bucket
<1>1. ASSUME NEW n \in Node, AutoUpdate(n) PROVE BucketInv'
  BY <1>0, <1>1, AutoUpdateGood, BucketInvWrite DEF AutoUpdate
<1>2. ASSUME NEW n \in Node, MoveBack(n) PROVE BucketInv'
  BY <1>0, <1>2, MoveBackGood, BucketInvWrite DEF MoveBack
<1>3. ASSUME NEW n \in Node, DeleteNode(n) PROVE BucketInv'
  BY <1>0, <1>3, DeleteNodeGood, BucketInvWrite DEF DeleteNode
<1>4. ASSUME NEW src \in Node, NEW dest \in Node, SwapNode(src, dest)
      PROVE  BucketInv'
  BY <1>0, <1>4, SwapNodeGood, BucketInvWrite DEF SwapNode
<1>5. CASE UNCHANGED table
  BY <1>5 DEF BucketInv
<1> QED BY <1>1, <1>2, <1>3, <1>4, <1>5 DEF NextWithSwap, Next

LEMMA BucketInvImplies == BucketInv => TypeOK /\ NoDuplicates
<1> SUFFICES ASSUME BucketInv PROVE TypeOK /\ NoDuplicates
  OBVIOUS
<1>1. \A i \in BucketIndex : table[i] \in Seq(Node)
  BY DEF BucketInv, GoodBucket
<1>2. table \in [BucketIndex -> Seq(Node)]
  BY <1>1 DEF BucketInv
<1> QED BY <1>2 DEF BucketInv, GoodBucket, TypeOK, NoDuplicates

\* Whatever sequence of updates, refresh results and swaps is applied, every
\* bucket stays a list of at most DEFAULT_K nodes.
THEOREM TypeCorrect == SpecWithSwap => []TypeOK
<1>1. Init => BucketInv BY BucketInvInit
<1>2. BucketInv /\ [NextWithSwap]_table => BucketInv' BY BucketInvStep
<1>3. BucketInv => TypeOK BY BucketInvImplies
<1> QED BY <1>1, <1>2, <1>3, PTL DEF SpecWithSwap

\* ... and no bucket ever holds a node twice.
THEOREM NoDuplicatesTheorem == SpecWithSwap => []NoDuplicates
<1>1. Init => BucketInv BY BucketInvInit
<1>2. BucketInv /\ [NextWithSwap]_table => BucketInv' BY BucketInvStep
<1>3. BucketInv => NoDuplicates BY BucketInvImplies
<1> QED BY <1>1, <1>2, <1>3, PTL DEF SpecWithSwap

-----------------------------------------------------------------------------
\* Placement, without swap_node.

LEMMA NextImpliesNextWithSwap == [Next]_table => [NextWithSwap]_table
  BY DEF NextWithSwap

\* A node found in a bucket after a write was there before or is the node the
\* write is about, whose slot it is.
LEMMA WellPlacedWrite ==
    ASSUME BucketInv, WellPlaced, NEW n \in Node, NEW b, GoodBucket(b),
           OnBucket(calc_branch_index(n), b),
           \A m : BucketHas(b, m) => BucketHas(get_bucket(n), m) \/ m = n
    PROVE  WellPlaced'
<1> DEFINE i == calc_branch_index(n)
<1>1. i \in BucketIndex
  BY BranchIndexType
<1>2. /\ table'[i] = b
      /\ \A j \in BucketIndex \ {i} : table'[j] = table[j]
  BY <1>1, BucketInvWrite
<1>3. ASSUME NEW p \in DOMAIN b PROVE calc_branch_index(b[p]) = i
  <2>1. BucketHas(b, b[p])
    BY DEF BucketHas
  <2>2. CASE b[p] = n
    BY <2>2
  <2>3. CASE BucketHas(get_bucket(n), b[p])
    <3>1. PICK q \in DOMAIN table[i] : table[i][q] = b[p]
      BY <2>3 DEF BucketHas, get_bucket
    <3> QED BY <3>1, <1>1 DEF WellPlaced
  <2> QED BY <2>1, <2>2, <2>3
<1> HIDE DEF i
<1>4. \A j \in BucketIndex : \A p \in DOMAIN table'[j] :
          calc_branch_index(table'[j][p]) = j
  BY <1>1, <1>2, <1>3 DEF WellPlaced
<1> QED BY <1>4 DEF WellPlaced, calc_branch_index, calc_branch

LEMMA WellPlacedStep ==
    BucketInv /\ WellPlaced /\ [Next]_table => WellPlaced'
<1> SUFFICES ASSUME BucketInv, WellPlaced, [Next]_table PROVE WellPlaced'
  OBVIOUS
<1>0. \A n \in Node : GoodBucket(get_bucket(n))
  BY BranchIndexType DEF BucketInv, get_bucket
<1>1. ASSUME NEW n \in Node, AutoUpdate(n) PROVE WellPlaced'
  BY <1>0, <1>1, AutoUpdateGood, WellPlacedWrite DEF AutoUpdate
<1>2. ASSUME NEW n \in Node, MoveBack(n) PROVE WellPlaced'
  BY <1>0, <1>2, MoveBackGood, WellPlacedWrite DEF MoveBack
<1>3. ASSUME NEW n \in Node, DeleteNode(n) PROVE WellPlaced'
  BY <1>0, <1>3, DeleteNodeGood, WellPlacedWrite DEF DeleteNode
<1>4. CASE UNCHANGED table
  BY <1>4 DEF WellPlaced, calc_branch_index, calc_branch
<1> QED BY <1>1, <1>2, <1>3, <1>4 DEF Next

LEMMA WellPlacedInit == Init => WellPlaced
<1> SUFFICES ASSUME Init PROVE WellPlaced
  OBVIOUS
<1>1. DOMAIN <<>> = {}
  OBVIOUS
<1> QED BY <1>1 DEF Init, WellPlaced

\* As the library drives the table, every node is in the bucket its id
\* selects, hence in one bucket only, and is_exist finds it.
THEOREM WellPlacedTheorem == Spec => []WellPlaced
<1>1. Init => BucketInv /\ WellPlaced
  BY BucketInvInit, WellPlacedInit
<1>2. BucketInv /\ WellPlaced /\ [Next]_table => BucketInv' /\ WellPlaced'
  BY BucketInvStep, WellPlacedStep, NextImpliesNextWithSwap
<1> QED BY <1>1, <1>2, PTL DEF Spec

-----------------------------------------------------------------------------
\* A node is never evicted for another one.

LEMMA HoldsStep ==
    ASSUME BucketInv, NEW m \in Node, NEW n \in Node, NEW b, GoodBucket(b),
           OnBucket(calc_branch_index(n), b), Holds(m),
           BucketHas(get_bucket(n), m) => BucketHas(b, m)
    PROVE  Holds(m)'
<1> DEFINE i == calc_branch_index(n)
<1>1. i \in BucketIndex
  BY BranchIndexType
<1>2. /\ table'[i] = b
      /\ \A j \in BucketIndex \ {i} : table'[j] = table[j]
  BY <1>1, BucketInvWrite
<1>3. PICK j \in BucketIndex : BucketHas(table[j], m)
  BY DEF Holds
<1>4. BucketHas(table'[j], m)
  BY <1>2, <1>3 DEF get_bucket
<1> QED BY <1>4 DEF Holds, BucketHas

LEMMA OnlyTimeoutRemovesStep ==
    BucketInv /\ [Next]_table =>
        [\A n \in Node : Holds(n) /\ ~Holds(n)' => DeleteNode(n)]_table
<1> SUFFICES ASSUME BucketInv, Next, NEW m \in Node, Holds(m), ~Holds(m)'
             PROVE  DeleteNode(m)
  OBVIOUS
<1>0. \A n \in Node : GoodBucket(get_bucket(n))
  BY BranchIndexType DEF BucketInv, get_bucket
<1>1. ASSUME NEW n \in Node, AutoUpdate(n) PROVE FALSE
  <2>1. /\ GoodBucket(auto_update(get_bucket(n), n))
        /\ BucketHas(get_bucket(n), m) =>
              BucketHas(auto_update(get_bucket(n), n), m)
    BY <1>0, AutoUpdateGood
  <2> QED BY <2>1, <1>1, HoldsStep DEF AutoUpdate
<1>2. ASSUME NEW n \in Node, MoveBack(n) PROVE FALSE
  <2>1. /\ GoodBucket(move_back(get_bucket(n), n))
        /\ BucketHas(get_bucket(n), m) =>
              BucketHas(move_back(get_bucket(n), n), m)
    BY <1>0, MoveBackGood
  <2> QED BY <2>1, <1>2, HoldsStep DEF MoveBack
<1>3. ASSUME NEW n \in Node, DeleteNode(n) PROVE m = n
  <2> SUFFICES ASSUME m # n PROVE FALSE
    OBVIOUS
  <2>1. /\ GoodBucket(delete_node(get_bucket(n), n))
        /\ BucketHas(get_bucket(n), m) =>
              BucketHas(delete_node(get_bucket(n), n), m)
    BY <1>0, DeleteNodeGood
  <2> QED BY <2>1, <1>3, HoldsStep DEF DeleteNode
<1> QED BY <1>1, <1>2, <1>3 DEF Next

\* Only the timeout of a node's own refresh ping takes it out of the table.
THEOREM OnlyTimeoutRemovesTheorem == Spec => OnlyTimeoutRemoves
<1>1. Init => BucketInv BY BucketInvInit
<1>2. BucketInv /\ [Next]_table => BucketInv'
  BY BucketInvStep, NextImpliesNextWithSwap
<1>3. BucketInv /\ [Next]_table =>
        [\A n \in Node : Holds(n) /\ ~Holds(n)' => DeleteNode(n)]_table
  BY OnlyTimeoutRemovesStep
<1> QED BY <1>1, <1>2, <1>3, PTL DEF Spec, OnlyTimeoutRemoves

-----------------------------------------------------------------------------
(* A bucket is in the order in which its nodes were last heard of. *)

\* Erasing an entry keeps the order of the others.
LEMMA EraseKeepsOthers ==
    ASSUME NEW b, GoodBucket(b), NEW k \in 1 .. Len(b)
    PROVE  OthersKept(b, RemoveAt(b, k), b[k])
<1> DEFINE r == RemoveAt(b, k)
<1>1. /\ b \in Seq(Node) /\ Len(b) \in Nat /\ DOMAIN b = 1 .. Len(b)
      /\ \A m : BucketHas(r, m) <=> BucketHas(b, m) /\ m # b[k]
  BY BucketShape, EraseGood DEF GoodBucket
<1>2. /\ r \in Seq(Node) /\ Len(r) = Len(b) - 1
      /\ \A i \in 1 .. Len(b) - 1 : r[i] = IF i < k THEN b[i] ELSE b[i + 1]
  BY <1>1, RemoveAtProperties
<1>3. DOMAIN r = 1 .. Len(b) - 1
  BY <1>2, LenProperties
<1> HIDE DEF r
<1>4. ASSUME NEW p \in DOMAIN b, NEW q \in DOMAIN b, p < q, b[k] \notin {b[p], b[q]}
      PROVE  SeenBefore(r, b[p], b[q])
  <2> DEFINE P == IF p < k THEN p ELSE p - 1
             Q == IF q < k THEN q ELSE q - 1
  <2>1. p # k /\ q # k
    BY <1>4
  <2>2. p \in 1 .. Len(b) /\ q \in 1 .. Len(b) /\ k \in 1 .. Len(b) /\ Len(b) \in Nat
    BY <1>1
  <2>3. P \in 1 .. Len(b) - 1 /\ Q \in 1 .. Len(b) - 1 /\ P < Q
    BY <1>4, <2>1, <2>2
  <2>4. r[P] = b[p]
    <3>1. CASE p < k
      BY <1>2, <2>3, <3>1
    <3>2. CASE ~(p < k)
      <4>1. P = p - 1 /\ ~(P < k) /\ P + 1 = p
        BY <2>1, <2>2, <3>2
      <4> QED BY <1>2, <2>3, <4>1
    <3> QED BY <3>1, <3>2
  <2>5. r[Q] = b[q]
    <3>1. CASE q < k
      BY <1>2, <2>3, <3>1
    <3>2. CASE ~(q < k)
      <4>1. Q = q - 1 /\ ~(Q < k) /\ Q + 1 = q
        BY <2>1, <2>2, <3>2
      <4> QED BY <1>2, <2>3, <4>1
    <3> QED BY <3>1, <3>2
  <2> HIDE DEF P, Q
  <2> QED BY <1>3, <2>3, <2>4, <2>5 DEF SeenBefore
<1>5. OthersKept(b, r, b[k])
  BY <1>1, <1>4 DEF OthersKept, r
<1> QED BY <1>5 DEF r

\* So does appending a node, which is the last one then.
LEMMA AppendKeepsOthers ==
    ASSUME NEW b, GoodBucket(b), NEW n \in Node, ~BucketHas(b, n), Len(b) < K
    PROVE  OthersKept(b, Append(b, n), n) /\ Append(b, n)[Len(Append(b, n))] = n
<1> DEFINE a == Append(b, n)
<1>1. /\ b \in Seq(Node) /\ Len(b) \in Nat /\ DOMAIN b = 1 .. Len(b)
      /\ \A m : BucketHas(a, m) <=> BucketHas(b, m) \/ m = n
  BY BucketShape, AppendGood DEF GoodBucket
<1>2. /\ a \in Seq(Node) /\ Len(a) = Len(b) + 1 /\ a[Len(b) + 1] = n
      /\ \A i \in 1 .. Len(b) : a[i] = b[i]
  BY <1>1, AppendProperties
<1>3. DOMAIN a = 1 .. Len(b) + 1
  BY <1>2, LenProperties
<1> HIDE DEF a
<1>4. ASSUME NEW p \in DOMAIN b, NEW q \in DOMAIN b, p < q
      PROVE  SeenBefore(a, b[p], b[q])
  <2>1. p \in DOMAIN a /\ q \in DOMAIN a /\ a[p] = b[p] /\ a[q] = b[q]
    BY <1>1, <1>2, <1>3
  <2> QED BY <1>4, <2>1 DEF SeenBefore
<1>5. OthersKept(b, a, n)
  BY <1>1, <1>4 DEF OthersKept
<1> QED BY <1>2, <1>5 DEF a

\* Nothing is moved by doing nothing, or by two steps neither of which does.
LEMMA OthersKeptSame == \A b, n : OthersKept(b, b, n)
  BY DEF OthersKept, SeenBefore

LEMMA OthersKeptTwice ==
    ASSUME NEW b, NEW c, NEW d, NEW n, OthersKept(b, c, n), OthersKept(c, d, n)
    PROVE  OthersKept(b, d, n)
<1>1. ASSUME NEW p \in DOMAIN b, NEW q \in DOMAIN b, p < q, n \notin {b[p], b[q]}
      PROVE  SeenBefore(d, b[p], b[q])
  <2>1. PICK P \in DOMAIN c, Q \in DOMAIN c : P < Q /\ c[P] = b[p] /\ c[Q] = b[q]
    BY <1>1 DEF OthersKept, SeenBefore
  <2> QED BY <1>1, <2>1 DEF OthersKept
<1> QED BY <1>1 DEF OthersKept

\* What delete_node, move_back and auto_update do to the order of a bucket.
HeardLast(b, c, n) ==
    OthersKept(b, c, n) /\ (BucketHas(c, n) => c = b \/ c[Len(c)] = n)

LEMMA DeleteNodeOrder ==
    ASSUME NEW b, GoodBucket(b), NEW n \in Node
    PROVE  HeardLast(b, delete_node(b, n), n)
<1>1. CASE BucketHas(b, n)
  <2>1. Position(b, n) \in 1 .. Len(b) /\ b[Position(b, n)] = n
    BY <1>1, PositionFound
  <2>2. OthersKept(b, delete_node(b, n), n)
    BY <1>1, <2>1, EraseKeepsOthers DEF delete_node
  <2> QED BY <2>2, DeleteNodeGood DEF HeardLast
<1>2. CASE ~BucketHas(b, n)
  BY <1>2, OthersKeptSame DEF delete_node, HeardLast
<1> QED BY <1>1, <1>2

LEMMA MoveBackOrder ==
    ASSUME NEW b, GoodBucket(b), NEW n \in Node
    PROVE  HeardLast(b, move_back(b, n), n)
<1>1. CASE BucketHas(b, n)
  <2> DEFINE r == delete_node(b, n)
  <2>1. /\ Position(b, n) \in 1 .. Len(b)
        /\ r = RemoveAt(b, Position(b, n)) /\ move_back(b, n) = Append(r, n)
    BY <1>1, PositionFound DEF delete_node, move_back
  <2>2. GoodBucket(r) /\ ~BucketHas(r, n) /\ OthersKept(b, r, n)
    BY DeleteNodeGood, DeleteNodeOrder DEF HeardLast
  <2>3. Len(r) = Len(b) - 1 /\ Len(b) \in Nat /\ Len(b) <= K /\ K \in Nat
    BY <2>1, EraseGood, BucketShape, KAssumption DEF GoodBucket
  <2> HIDE DEF r
  <2>4. OthersKept(r, Append(r, n), n) /\ Append(r, n)[Len(Append(r, n))] = n
    BY <2>2, <2>3, AppendKeepsOthers
  <2> QED BY <2>1, <2>2, <2>4, OthersKeptTwice DEF HeardLast
<1>2. CASE ~BucketHas(b, n)
  BY <1>2, OthersKeptSame DEF move_back, HeardLast
<1> QED BY <1>1, <1>2

LEMMA AutoUpdateOrder ==
    ASSUME NEW b, GoodBucket(b), NEW n \in Node
    PROVE  HeardLast(b, auto_update(b, n), n)
<1>1. CASE BucketHas(b, n)
  BY <1>1, MoveBackOrder DEF auto_update
<1>2. CASE ~BucketHas(b, n) /\ is_full(b)
  BY <1>2, OthersKeptSame DEF auto_update, HeardLast
<1>3. CASE ~BucketHas(b, n) /\ ~is_full(b)
  <2>1. auto_update(b, n) = Append(b, n) /\ Len(b) < K
    BY <1>3, BucketShape, KAssumption DEF auto_update, add_back, is_full
  <2> QED BY <1>3, <2>1, AppendKeepsOthers DEF HeardLast
<1> QED BY <1>1, <1>2, <1>3

\* A write that keeps the order of one bucket leaves the other buckets alone.
LEMMA OrderWrite ==
    ASSUME BucketInv, NEW n \in Node, NEW b, GoodBucket(b),
           OnBucket(calc_branch_index(n), b), HeardLast(get_bucket(n), b, n),
           NEW i \in {j \in BucketIndex : table'[j] # table[j]}
    PROVE  /\ OthersKept(table[i], table'[i], n)
           /\ BucketHas(table'[i], n) => table'[i][Len(table'[i])] = n
<1>1. calc_branch_index(n) \in BucketIndex
  BY BranchIndexType
<1>2. i = calc_branch_index(n) /\ table'[i] = b /\ b # table[i]
  BY <1>1, BucketInvWrite
<1> QED BY <1>2 DEF HeardLast, get_bucket

\* The front of a bucket is the node heard of least recently: an update leaves
\* all others in their order and puts the node it is about at the back.
THEOREM LeastRecentlySeenOrderTheorem == Spec => LeastRecentlySeenOrder
<1>1. Init => BucketInv BY BucketInvInit
<1>2. BucketInv /\ [Next]_table => BucketInv'
  BY BucketInvStep, NextImpliesNextWithSwap
<1>3. BucketInv /\ [Next]_table =>
        [\A i \in {j \in BucketIndex : table'[j] # table[j]} :
            \E n \in Node :
               /\ OthersKept(table[i], table'[i], n)
               /\ BucketHas(table'[i], n) => table'[i][Len(table'[i])] = n]_table
  <2> SUFFICES ASSUME BucketInv, Next, NEW i \in {j \in BucketIndex : table'[j] # table[j]}
               PROVE  \E n \in Node :
                         /\ OthersKept(table[i], table'[i], n)
                         /\ BucketHas(table'[i], n) => table'[i][Len(table'[i])] = n
    OBVIOUS
  <2>0. \A n \in Node : GoodBucket(get_bucket(n))
    BY BranchIndexType DEF BucketInv, get_bucket
  <2>1. ASSUME NEW n \in Node, AutoUpdate(n) \/ MoveBack(n) \/ DeleteNode(n)
        PROVE  \E b : /\ GoodBucket(b) /\ OnBucket(calc_branch_index(n), b)
                      /\ HeardLast(get_bucket(n), b, n)
    <3>1. CASE AutoUpdate(n)
      BY <2>0, <3>1, AutoUpdateGood, AutoUpdateOrder DEF AutoUpdate
    <3>2. CASE MoveBack(n)
      BY <2>0, <3>2, MoveBackGood, MoveBackOrder DEF MoveBack
    <3>3. CASE DeleteNode(n)
      BY <2>0, <3>3, DeleteNodeGood, DeleteNodeOrder DEF DeleteNode
    <3> QED BY <2>1, <3>1, <3>2, <3>3
  <2> QED BY <2>1, OrderWrite DEF Next
<1> QED BY <1>1, <1>2, <1>3, PTL DEF Spec, LeastRecentlySeenOrder
=============================================================================

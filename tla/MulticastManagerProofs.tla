----------------------- MODULE MulticastManagerProofs -----------------------
(***************************************************************************)
(* A pick passes over no node that is there to be picked, for every set of *)
(* nodes, every id length and every capacity, while the table changes.     *)
(***************************************************************************)
EXTENDS MulticastManager, KRoutingTableProofs

\* A node that has been in the table since a call began is in its bucket, and
\* the index that leads there is still to be tried: the last bucket's is none.
WitnessAhead ==
    call # "none" /\ witness # NoNode =>
        /\ Holds(witness)
        /\ calc_branch_index(witness) < IdBits - 1 => calc_branch_index(witness) + 1 \in left

\* The result is that of the last call, and only a call has indexes to try.
CallInv ==
    /\ witness \in Node \cup {NoNode}
    /\ left \subseteq bucket_indexes
    /\ call # "none" => result = "none"
    /\ call = "none" => left = {}

ManagerInv == BucketInv /\ WellPlaced /\ WitnessAhead /\ CallInv /\ NoNodeMissed

-----------------------------------------------------------------------------
\* The manager only reads the table.
LEMMA TableStep == [ManagerNext]_<<table, manager>> => [Next]_table
  BY DEF ManagerNext, TableUpdate, get_random, try_bucket, no_bucket,
         update_context, clear_context, dies, returns, manager

-----------------------------------------------------------------------------
(* The bucket that an index leads to. *)

\* The bucket of a node that is not in the last one is that of the next index.
LEMMA IndexAhead ==
    ASSUME NEW n \in Node
    PROVE  bucket_of_branch(calc_branch_index(n) + 1) = get_bucket(n)
<1>1. calc_branch_index(n) \in 0 .. IdBits - 1
  BY BranchIndexType DEF BucketIndex
<1>2. IndexOfBranch(calc_branch_index(n) + 1) = calc_branch_index(n)
  BY <1>1, IdBitsAssumption DEF IndexOfBranch
<1> QED BY <1>2 DEF bucket_of_branch, get_bucket

\* A node that the table holds is in the bucket its id selects.
LEMMA HeldInItsBucket ==
    ASSUME BucketInv, WellPlaced, NEW n \in Node, Holds(n)
    PROVE  Len(get_bucket(n)) > 0
<1>1. PICK i \in BucketIndex : BucketHas(table[i], n)
  BY DEF Holds
<1>2. PICK p \in DOMAIN table[i] : table[i][p] = n
  BY <1>1 DEF BucketHas
<1>3. calc_branch_index(n) = i
  BY <1>2 DEF WellPlaced
<1>4. GoodBucket(table[i])
  BY DEF BucketInv
<1>5. Len(table[i]) \in Nat /\ p \in 1 .. Len(table[i])
  BY <1>2, <1>4, BucketShape
<1> QED BY <1>3, <1>5 DEF get_bucket

-----------------------------------------------------------------------------
\* No call has been made yet.
LEMMA ManagerInvInit == ManagerInit => ManagerInv
  BY BucketInvInit, WellPlacedInit
  DEF ManagerInit, ManagerInv, WitnessAhead, CallInv, NoNodeMissed

\* The table's updates, each turn of get_random and the application's own calls
\* keep the node that was there all the time ahead of the walk.
LEMMA ManagerInvStep == ManagerInv /\ [ManagerNext]_<<table, manager>> => ManagerInv'
<1> SUFFICES ASSUME ManagerInv, [ManagerNext]_<<table, manager>>
             PROVE  ManagerInv'
  OBVIOUS
<1> USE DEF ManagerInv, WitnessAhead, CallInv, NoNodeMissed
<1>1. BucketInv' /\ WellPlaced'
  BY TableStep, BucketInvStep, WellPlacedStep, NextImpliesNextWithSwap
<1>2. CASE TableUpdate
  <2>1. UNCHANGED <<picked, call, left, result, dead>>
    BY <1>2 DEF TableUpdate
  <2>2. CASE witness \in {n \in Node : ~Holds(n)'} /\ call # "none"
    <3>1. witness' = NoNode
      BY <1>2, <2>2 DEF TableUpdate
    <3> QED BY <1>1, <2>1, <3>1
  <2>3. CASE ~(witness \in {n \in Node : ~Holds(n)'} /\ call # "none")
    <3>1. witness' = witness
      BY <1>2, <2>3 DEF TableUpdate
    <3>2. call # "none" /\ witness # NoNode => Holds(witness)'
      BY <2>3, <3>1 DEF Holds
    <3> QED BY <1>1, <2>1, <3>1, <3>2
  <2> QED BY <2>2, <2>3
<1>3. ASSUME NEW c \in Call, get_random(c) PROVE ManagerInv'
  <2>1. /\ call = "none" /\ call' = c /\ c # "none" /\ left' = bucket_indexes
        /\ result' = "none" /\ table' = table
        /\ witness' \in {n \in Node : Holds(n)} \cup {NoNode}
    BY <1>3 DEF get_random, Call
  <2>2. witness' # NoNode => Holds(witness)'
    BY <2>1 DEF Holds
  <2>3. witness' # NoNode /\ calc_branch_index(witness') < IdBits - 1 =>
            calc_branch_index(witness') + 1 \in left'
    BY <2>1, BranchIndexType, IdBitsAssumption DEF BucketIndex, bucket_indexes
  <2> QED BY <1>1, <2>1, <2>2, <2>3
<1>4. ASSUME NEW i \in left, try_bucket(i) PROVE ManagerInv'
  <2>1. CASE /\ Len(bucket_of_branch(i)) = 0
             /\ left' = left \ {i}
             /\ UNCHANGED <<table, picked, call, result, witness, dead>>
    <3>1. call # "none" /\ witness # NoNode => i # calc_branch_index(witness) + 1
      <4> SUFFICES ASSUME call # "none", witness # NoNode, i = calc_branch_index(witness) + 1
                   PROVE  FALSE
        OBVIOUS
      <4>1. Len(get_bucket(witness)) > 0
        BY HeldInItsBucket
      <4>2. Len(get_bucket(witness)) = 0
        BY <2>1, IndexAhead
      <4> QED BY <4>1, <4>2
    <3> QED BY <1>1, <2>1, <3>1 DEF Holds
  <2>2. CASE dies
    BY <1>1, <2>2 DEF dies, Holds
  <2>3. CASE returns("peer") /\ witness' = NoNode
    BY <1>1, <2>3 DEF returns
  <2> QED BY <1>4, <2>1, <2>2, <2>3 DEF try_bucket
<1>5. CASE no_bucket
  <2>1. CASE returns("null") /\ UNCHANGED <<picked, witness>>
    <3>1. call # "none" /\ left = {}
      BY <1>5 DEF no_bucket
    <3>2. witness # NoNode => calc_branch_index(witness) = IdBits - 1
      BY <3>1, BranchIndexType, IdBitsAssumption DEF BucketIndex
    <3> QED BY <1>1, <2>1, <3>2 DEF returns
  <2>2. CASE dies
    BY <1>1, <2>2 DEF dies, Holds
  <2> QED BY <1>5, <2>1, <2>2 DEF no_bucket
<1>6. ASSUME NEW p \in Node, update_context(p) PROVE ManagerInv'
  BY <1>1, <1>6 DEF update_context, Holds
<1>7. CASE clear_context
  BY <1>1, <1>7 DEF clear_context, Holds
<1>8. CASE UNCHANGED <<table, manager>>
  BY <1>1, <1>8 DEF manager, Holds
<1> QED BY <1>2, <1>3, <1>4, <1>5, <1>6, <1>7, <1>8 DEF ManagerNext

\* Whatever order the buckets are tried in and however the table changes between
\* two of them, get_random returns nullptr only if every node that stayed in
\* the table during the call is in the last bucket, which no index leads to.
THEOREM NoNodeMissedTheorem == ManagerSpec => []NoNodeMissed
<1>1. ManagerInit => ManagerInv
  BY ManagerInvInit
<1>2. ManagerInv /\ [ManagerNext]_<<table, manager>> => ManagerInv'
  BY ManagerInvStep
<1>3. ManagerInv => NoNodeMissed
  BY DEF ManagerInv
<1> QED BY <1>1, <1>2, <1>3, PTL DEF ManagerSpec
=============================================================================

-------------------------- MODULE DhtManagerProofs --------------------------
(***************************************************************************)
(* Proofs about DhtManager: the observers, handlers and requests that      *)
(* belong together stay together, the routing table changes only as        *)
(* KRoutingTable says, nodes enter and leave it on evidence, and rounds    *)
(* and pings go on until they are done.                                    *)
(***************************************************************************)
EXTENDS DhtManager, QueueTheorems, FiniteSetTheorems

\* The proofs about the table of this node.
RTP == INSTANCE KRoutingTableProofs WITH table <- table

\* What the observers, the ready handlers and the requests on the way have to
\* do with each other, given the peers that were heard: handlers and requests
\* name observers that are remembered, a pong waits only for a peer that was
\* heard, an on_timeout only for an observer whose timer came first, and the
\* bucket that a refresh ping's handlers refer to is the one its node belongs to.
StoreOK(ob, q, packets, hd) ==
    /\ DOMAIN ob \subseteq ObsId /\ ob \in [DOMAIN ob -> Observer]
    /\ q \in Seq(ReadyHandler)
    /\ \A e \in ToSet(q) : e.h \in OfObserver => e.o \in DOMAIN ob
    /\ packets \subseteq Request /\ \A p \in packets : p.o \in DOMAIN ob
    /\ \A e \in ToSet(q) : e.h = "pong" => e.o.dest \in hd
    /\ \A e \in ToSet(q) : e.h = "on_timeout" => ob[e.o].late
    /\ \A o \in DOMAIN ob : o.role = "refresh" => ob[o].bucket = RT!calc_branch_index(o.dest)

\* The maintainer's timer, the flags and the sets of peers.
RestOK ==
    /\ timer \in {Off} \cup 0 .. Max({RefreshWait, TickWait})
    /\ timer_fn \in {"tick", "get_remote_nodes"}
    /\ requires_tick \in BOOLEAN
    /\ alive \subseteq Node /\ heard \subseteq Node
    /\ crashed \in BOOLEAN

\* Every bucket is a good one, and a node is only in the one its id selects.
GoodTable(t) ==
    /\ t = [i \in 0 .. IdBits - 1 |-> t[i]]
    /\ \A i \in 0 .. IdBits - 1 : RTP!GoodBucket(t[i])
    /\ \A i \in 0 .. IdBits - 1 : \A n : RTP!BucketHas(t[i], n) => RT!calc_branch_index(n) = i

\* The nodes of a table.
InTable(t) == {n \in Node : \E i \in 0 .. IdBits - 1 : RTP!BucketHas(t[i], n)}

\* The inductive invariant.
DhtInv ==
    /\ StoreOK(obs, queue, net, heard)
    /\ RestOK
    /\ GoodTable(table)
    /\ InTable(table) \subseteq heard

-----------------------------------------------------------------------------
(* The table *)

LEMMA Slots == RT!BucketIndex = 0 .. IdBits - 1 /\ RTP!BucketIndex = 0 .. IdBits - 1
  BY DEF RT!BucketIndex, RTP!BucketIndex

LEMMA HoldsInTable ==
    /\ \A n \in Node : RT!Holds(n) <=> n \in InTable(table)
    /\ \A n \in Node : RT!Holds(n)' <=> n \in InTable(table')
  BY DEF RT!Holds, RT!BucketHas, RT!BucketIndex, InTable, RTP!BucketHas

\* A node's slot is one of the array, and holds a good bucket.
LEMMA BucketOfNode ==
    ASSUME GoodTable(table), NEW n \in Node
    PROVE  /\ RT!calc_branch_index(n) \in 0 .. IdBits - 1
           /\ RTP!GoodBucket(RT!get_bucket(n))
<1>1. RTP!calc_branch_index(n) \in 0 .. IdBits - 1
  BY RTP!BranchIndexType, TableAssumption, Slots DEF RTP!BitString
<1>2. RT!calc_branch_index(n) = RTP!calc_branch_index(n)
  BY DEF RT!calc_branch_index, RT!IndexOfBranch, RT!calc_branch, RT!calc_node_xor_distance,
         RTP!calc_branch_index, RTP!IndexOfBranch, RTP!calc_branch, RTP!calc_node_xor_distance,
         RT!Cardinality, RTP!Cardinality
<1> QED BY <1>1, <1>2 DEF GoodTable, RT!get_bucket

\* The operations on a bucket, as KRoutingTableProofs knows them.
LEMMA BucketOperations ==
    ASSUME NEW b, RTP!GoodBucket(b), NEW n \in Node
    PROVE  /\ RTP!GoodBucket(RT!auto_update(b, n))
           /\ \A m : RTP!BucketHas(b, m) => RTP!BucketHas(RT!auto_update(b, n), m)
           /\ \A m : RTP!BucketHas(RT!auto_update(b, n), m) => RTP!BucketHas(b, m) \/ m = n
           /\ RTP!GoodBucket(RT!move_back(b, n))
           /\ \A m : RTP!BucketHas(RT!move_back(b, n), m) <=> RTP!BucketHas(b, m)
           /\ RTP!GoodBucket(RT!delete_node(b, n))
           /\ \A m : RTP!BucketHas(RT!delete_node(b, n), m) <=> RTP!BucketHas(b, m) /\ m # n
<1>1. RT!BucketHas(b, n) = RTP!BucketHas(b, n) /\ RT!Position(b, n) = RTP!Position(b, n)
      /\ RT!is_full(b) = RTP!is_full(b)
  BY DEF RT!BucketHas, RTP!BucketHas, RT!Position, RTP!Position, RT!is_full, RTP!is_full
<1>2. RT!move_back(b, n) = RTP!move_back(b, n) /\ RT!delete_node(b, n) = RTP!delete_node(b, n)
  BY <1>1 DEF RT!move_back, RTP!move_back, RT!delete_node, RTP!delete_node, RT!RemoveAt, RTP!RemoveAt
<1>3. RT!auto_update(b, n) = RTP!auto_update(b, n)
  BY <1>1, <1>2 DEF RT!auto_update, RTP!auto_update, RT!add_back, RTP!add_back
<1>4. /\ RTP!GoodBucket(RTP!auto_update(b, n))
      /\ \A m : RTP!BucketHas(b, m) => RTP!BucketHas(RTP!auto_update(b, n), m)
      /\ \A m : RTP!BucketHas(RTP!auto_update(b, n), m) => RTP!BucketHas(b, m) \/ m = n
  BY RTP!AutoUpdateGood, TableAssumption DEF RTP!BitString
<1>5. /\ RTP!GoodBucket(RTP!move_back(b, n))
      /\ \A m : RTP!BucketHas(RTP!move_back(b, n), m) <=> RTP!BucketHas(b, m)
  BY RTP!MoveBackGood, TableAssumption DEF RTP!BitString
<1>6. /\ RTP!GoodBucket(RTP!delete_node(b, n))
      /\ \A m : RTP!BucketHas(RTP!delete_node(b, n), m) <=> RTP!BucketHas(b, m) /\ m # n
  BY RTP!DeleteNodeGood, TableAssumption DEF RTP!BitString
<1> QED
  BY <1>2, <1>3, <1>4, <1>5, <1>6

\* A bucket is written into a node's slot.
LEMMA WriteBucket ==
    ASSUME GoodTable(table), NEW n \in Node, NEW b, RTP!GoodBucket(b),
           RT!OnBucket(RT!calc_branch_index(n), b),
           \A m : RTP!BucketHas(b, m) => RTP!BucketHas(RT!get_bucket(n), m) \/ m = n
    PROVE  /\ GoodTable(table')
           /\ \A S : (\A m : RTP!BucketHas(b, m) =>
                               RTP!BucketHas(RT!get_bucket(n), m) \/ m \in S)
                 => InTable(table') \subseteq InTable(table) \cup S
           /\ \A S : (\A m : RTP!BucketHas(RT!get_bucket(n), m) =>
                               RTP!BucketHas(b, m) \/ m \in S)
                 => InTable(table) \subseteq InTable(table') \cup S
<1> DEFINE i == RT!calc_branch_index(n)
<1>1. i \in 0 .. IdBits - 1
  BY BucketOfNode
<1>2. table' = [table EXCEPT ![i] = b] /\ RT!get_bucket(n) = table[i]
      /\ RT!calc_branch_index(n) = i
  BY DEF RT!OnBucket, RT!get_bucket
<1> HIDE DEF i
<1>3. /\ table' = [j \in 0 .. IdBits - 1 |-> IF j = i THEN b ELSE table[j]]
      /\ \A j \in 0 .. IdBits - 1 : table'[j] = IF j = i THEN b ELSE table[j]
  BY <1>1, <1>2 DEF GoodTable
<1>4. GoodTable(table')
  BY <1>1, <1>2, <1>3 DEF GoodTable
<1>5. ASSUME NEW S, \A m : RTP!BucketHas(b, m) => RTP!BucketHas(table[i], m) \/ m \in S
      PROVE  InTable(table') \subseteq InTable(table) \cup S
  BY <1>1, <1>3, <1>5 DEF InTable
<1>6. ASSUME NEW S, \A m : RTP!BucketHas(table[i], m) => RTP!BucketHas(b, m) \/ m \in S
      PROVE  InTable(table) \subseteq InTable(table') \cup S
  BY <1>1, <1>3, <1>6 DEF InTable
<1> QED BY <1>2, <1>4, <1>5, <1>6

\* What each operation on the table does to the nodes it holds.
LEMMA TableOperations ==
    ASSUME GoodTable(table), NEW n \in Node
    PROVE  /\ RT!AutoUpdate(n) =>
                 /\ GoodTable(table')
                 /\ InTable(table') \subseteq InTable(table) \cup {n}
                 /\ InTable(table) \subseteq InTable(table')
           /\ RT!MoveBack(n) =>
                 GoodTable(table') /\ InTable(table') = InTable(table)
           /\ RT!DeleteNode(n) =>
                 /\ GoodTable(table')
                 /\ InTable(table') \subseteq InTable(table)
                 /\ InTable(table) \subseteq InTable(table') \cup {n}
<1> DEFINE b == RT!get_bucket(n)
           none == {}
           one == {n}
<1>1. RTP!GoodBucket(b)
  BY BucketOfNode
<1>n. \A m : m \notin none
  OBVIOUS
<1>o. \A m : m \in one <=> m = n
  OBVIOUS
<1> HIDE DEF b, none, one
<1>2. ASSUME RT!AutoUpdate(n)
      PROVE  /\ GoodTable(table')
             /\ InTable(table') \subseteq InTable(table) \cup one
             /\ InTable(table) \subseteq InTable(table') \cup none
  <2> DEFINE c == RT!auto_update(b, n)
  <2>1. RT!OnBucket(RT!calc_branch_index(n), c)
    BY <1>2 DEF RT!AutoUpdate, b
  <2>2. /\ RTP!GoodBucket(c)
        /\ \A m : RTP!BucketHas(c, m) => RTP!BucketHas(b, m) \/ m \in one
        /\ \A m : RTP!BucketHas(c, m) => RTP!BucketHas(b, m) \/ m = n
        /\ \A m : RTP!BucketHas(b, m) => RTP!BucketHas(c, m) \/ m \in none
    BY <1>1, <1>o, BucketOperations
  <2> HIDE DEF c
  <2> QED BY <2>1, <2>2, WriteBucket DEF b
<1>3. ASSUME RT!MoveBack(n)
      PROVE  /\ GoodTable(table')
             /\ InTable(table') \subseteq InTable(table) \cup none
             /\ InTable(table) \subseteq InTable(table') \cup none
  <2> DEFINE c == RT!move_back(b, n)
  <2>1. RT!OnBucket(RT!calc_branch_index(n), c)
    BY <1>3 DEF RT!MoveBack, b
  <2>2. /\ RTP!GoodBucket(c)
        /\ \A m : RTP!BucketHas(c, m) => RTP!BucketHas(b, m) \/ m \in none
        /\ \A m : RTP!BucketHas(c, m) => RTP!BucketHas(b, m) \/ m = n
        /\ \A m : RTP!BucketHas(b, m) => RTP!BucketHas(c, m) \/ m \in none
    BY <1>1, BucketOperations
  <2> HIDE DEF c
  <2> QED BY <2>1, <2>2, WriteBucket DEF b
<1>4. ASSUME RT!DeleteNode(n)
      PROVE  /\ GoodTable(table')
             /\ InTable(table') \subseteq InTable(table) \cup none
             /\ InTable(table) \subseteq InTable(table') \cup one
  <2> DEFINE c == RT!delete_node(b, n)
  <2>1. RT!OnBucket(RT!calc_branch_index(n), c)
    BY <1>4 DEF RT!DeleteNode, b
  <2>2. /\ RTP!GoodBucket(c)
        /\ \A m : RTP!BucketHas(c, m) => RTP!BucketHas(b, m) \/ m \in none
        /\ \A m : RTP!BucketHas(c, m) => RTP!BucketHas(b, m) \/ m = n
        /\ \A m : RTP!BucketHas(b, m) => RTP!BucketHas(c, m) \/ m \in one
    BY <1>1, <1>o, BucketOperations
  <2> HIDE DEF c
  <2> QED BY <2>1, <2>2, WriteBucket DEF b
<1> QED BY <1>2, <1>3, <1>4 DEF none, one

\* A good table has the type that KRoutingTable gives it.
LEMMA GoodTableType == GoodTable(table) => RT!TypeOK
<1> SUFFICES ASSUME GoodTable(table) PROVE RT!TypeOK
  OBVIOUS
<1>1. \A i \in 0 .. IdBits - 1 : table[i] \in Seq(Node) /\ Len(table[i]) <= K
  BY DEF GoodTable, RTP!GoodBucket
<1>2. table \in [0 .. IdBits - 1 -> Seq(Node)]
  BY <1>1 DEF GoodTable
<1> QED BY <1>1, <1>2 DEF RT!TypeOK, RT!BucketIndex

-----------------------------------------------------------------------------
(* The observers, the ready handlers and the requests on the way *)

LEMMA HandlerKinds ==
    /\ OfObserver = {"timeout", "on_timeout", "pong", "found"}
    /\ \A e \in ReadyHandler :
          /\ e.h \in OfObserver => e.o \in ObsId
          /\ e.h = "found" => e.ep \in Node
          /\ e.h = "income" => e.packet \in k_message
  BY DEF ReadyHandler, OfObserver

\* What Becomes forgets, nothing refers to.
LEMMA BecomesOK ==
    ASSUME NEW ob, NEW q, NEW packets, NEW hd, StoreOK(ob, q, packets, hd),
           Becomes(ob, q, packets)
    PROVE  /\ StoreOK(obs', queue', net', hd)
           /\ \A e \in ToSet(q) : e.h \in OfObserver =>
                 e.o \in DOMAIN obs' /\ obs'[e.o] = ob[e.o]
<1> DEFINE D == {x \in DOMAIN ob : \/ ob[x].timer # Off
                                   \/ Refers(q, packets, x)
                                   \/ x.role # "find_node" /\ ~ob[x].settled}
<1>1. obs' = [o \in D |-> ob[o]] /\ queue' = q /\ net' = packets
  BY DEF Becomes, Keep
<1>2. \A x \in DOMAIN ob : Refers(q, packets, x) => x \in D
  OBVIOUS
<1>3. D \subseteq DOMAIN ob
  OBVIOUS
<1> HIDE DEF D
<1>4. DOMAIN obs' = D /\ \A o \in D : obs'[o] = ob[o]
  BY <1>1
<1>5. \A e \in ToSet(q) : e.h \in OfObserver => e.o \in D
  BY <1>2 DEF Refers, StoreOK
<1>6. \A p \in packets : p.o \in D
  BY <1>2 DEF Refers, StoreOK
<1>7. obs' \in [D -> Observer]
  BY <1>1, <1>3 DEF StoreOK
<1>8. \A e \in ToSet(q) : e.h = "on_timeout" => obs'[e.o].late
  BY <1>4, <1>5 DEF StoreOK, OfObserver
<1>9. \A o \in D : o.role = "refresh" => obs'[o].bucket = RT!calc_branch_index(o.dest)
  BY <1>3, <1>4 DEF StoreOK
<1> QED BY <1>1, <1>3, <1>4, <1>5, <1>6, <1>7, <1>8, <1>9 DEF StoreOK

\* Observers are added, or change without forgetting that they were late or
\* where their bucket is.
LEMMA StoreChange ==
    ASSUME NEW ob, NEW q, NEW packets, NEW hd, StoreOK(ob, q, packets, hd),
           NEW new, DOMAIN ob \subseteq DOMAIN new, DOMAIN new \subseteq ObsId,
           new \in [DOMAIN new -> Observer],
           \A o \in DOMAIN ob : ob[o].late => new[o].late,
           \A o \in DOMAIN new :
               o.role = "refresh" => new[o].bucket = RT!calc_branch_index(o.dest)
    PROVE  StoreOK(new, q, packets, hd)
  BY DEF StoreOK, OfObserver

\* Handlers are posted.
LEMMA StorePost ==
    ASSUME NEW ob, NEW q, NEW packets, NEW hd, StoreOK(ob, q, packets, hd),
           NEW r \in Seq(ReadyHandler),
           \A e \in ToSet(r) : /\ e.h \in OfObserver => e.o \in DOMAIN ob
                               /\ e.h = "pong" => e.o.dest \in hd
                               /\ e.h = "on_timeout" => ob[e.o].late
    PROVE  StoreOK(ob, q \o r, packets, hd)
<1>1. q \in Seq(ReadyHandler)
  BY DEF StoreOK
<1>2. q \o r \in Seq(ReadyHandler) /\ ToSet(q \o r) = ToSet(q) \cup ToSet(r)
  BY <1>1, PostManyEntries
<1> DEFINE qr == q \o r
<1>3. qr \in Seq(ReadyHandler) /\ \A e \in ToSet(qr) : e \in ToSet(q) \/ e \in ToSet(r)
  BY <1>2
<1> HIDE DEF qr
<1>4. StoreOK(ob, qr, packets, hd)
  BY <1>3 DEF StoreOK
<1> QED BY <1>4 DEF qr

LEMMA StorePostOne ==
    ASSUME NEW ob, NEW q, NEW packets, NEW hd, StoreOK(ob, q, packets, hd),
           NEW e \in ReadyHandler, e.h \in OfObserver => e.o \in DOMAIN ob,
           e.h = "pong" => e.o.dest \in hd, e.h = "on_timeout" => ob[e.o].late
    PROVE  StoreOK(ob, Append(q, e), packets, hd)
<1>1. q \in Seq(ReadyHandler)
  BY DEF StoreOK
<1>2. Append(q, e) \in Seq(ReadyHandler) /\ ToSet(Append(q, e)) = ToSet(q) \cup {e}
  BY <1>1, PostEntries
<1> QED BY <1>2 DEF StoreOK

\* Requests are sent, answered or lost; more peers are heard.
LEMMA StoreRequests ==
    ASSUME NEW ob, NEW q, NEW packets, NEW hd, StoreOK(ob, q, packets, hd),
           NEW new, new \subseteq Request, \A p \in new : p.o \in DOMAIN ob,
           NEW more, hd \subseteq more
    PROVE  StoreOK(ob, q, new, more)
  BY DEF StoreOK

\* The handler that runs was ready; the others still are.
LEMMA RunningHandler ==
    ASSUME DhtInv, NEW k, Running(k)
    PROVE  /\ Head(queue) \in ReadyHandler /\ Head(queue).h = k
           /\ Head(queue) \in ToSet(queue)
           /\ StoreOK(obs, Tail(queue), net, heard)
           /\ k \in OfObserver =>
                 Head(queue).o \in ObsId /\ Head(queue).o \in DOMAIN obs
<1>1. queue \in Seq(ReadyHandler) /\ queue # <<>> /\ Head(queue).h = k
  BY DEF DhtInv, StoreOK, Running
<1>2. /\ Head(queue) \in ReadyHandler /\ Tail(queue) \in Seq(ReadyHandler)
      /\ ToSet(queue) = {Head(queue)} \cup ToSet(Tail(queue))
  BY <1>1, TakeEntries
<1>3. StoreOK(obs, Tail(queue), net, heard)
  BY <1>2 DEF DhtInv, StoreOK
<1> QED BY <1>1, <1>2, <1>3, HandlerKinds DEF DhtInv, StoreOK

LEMMA MaxOfTwo ==
    ASSUME NEW a \in Nat, NEW b \in Nat
    PROVE  Max({a, b}) \in Nat /\ Max({a, b}) >= a /\ Max({a, b}) >= b
<1>1. \E x \in {a, b} : \A y \in {a, b} : x >= y
  OBVIOUS
<1> QED BY <1>1 DEF Max

\* The iterator finds a node in the bucket its id selects.
LEMMA BucketFound ==
    ASSUME GoodTable(table), NEW n \in AllNodes
    PROVE  get_raw(n) = RT!calc_branch_index(n) /\ get_raw(n) \in RT!BucketIndex
<1>1. \E i \in RT!BucketIndex : RT!BucketHas(table[i], n)
  BY DEF AllNodes, RT!Holds
<1>2. get_raw(n) \in RT!BucketIndex /\ RT!BucketHas(table[get_raw(n)], n)
  BY <1>1 DEF get_raw
<1>3. RTP!BucketHas(table[get_raw(n)], n) /\ get_raw(n) \in 0 .. IdBits - 1
  BY <1>2, Slots DEF RT!BucketHas, RTP!BucketHas
<1> QED BY <1>2, <1>3 DEF GoodTable

LEMMA NewObserverType ==
    ASSUME GoodTable(table), NEW o \in ObsId, o.role = "refresh" => o.dest \in AllNodes
    PROVE  /\ NewObserver(o) \in Observer
           /\ o.role = "refresh" => NewObserver(o).bucket = RT!calc_branch_index(o.dest)
<1> DEFINE t == Max({PingTimer, RefreshWait})
           x == Max({PingExpire, FindExpire})
           w == IF o.role = "refresh" THEN get_raw(o.dest) ELSE Off
<1>1. /\ PingTimer \in Nat /\ RefreshWait \in Nat
      /\ PingExpire \in Nat /\ FindExpire \in Nat
  BY TimerAssumption
<1>2. t \in Nat /\ t >= PingTimer /\ x \in Nat /\ x >= PingExpire /\ x >= FindExpire
  BY <1>1, MaxOfTwo
<1>3. Observer = [pong : BOOLEAN, late : BOOLEAN, settled : BOOLEAN,
                  timer : {Off} \cup 0 .. t, expire : 0 .. x,
                  bucket : {Off} \cup RT!BucketIndex, freed : BOOLEAN]
  BY DEF Observer
<1>4. /\ w \in {Off} \cup RT!BucketIndex
      /\ o.role = "refresh" => w = RT!calc_branch_index(o.dest)
  BY BucketFound
<1>5. NewObserver(o) =
        [pong |-> FALSE, late |-> FALSE, settled |-> FALSE, freed |-> FALSE, bucket |-> w,
         timer |-> IF o.role = "find_node" THEN Off ELSE PingTimer,
         expire |-> IF o.role = "find_node" THEN FindExpire ELSE PingExpire]
  BY DEF NewObserver
<1> HIDE DEF t, x, w
<1> QED BY <1>1, <1>2, <1>3, <1>4, <1>5

\* Observers for new requests, and the requests.
LEMMA NewRequests ==
    ASSUME NEW q, StoreOK(obs, q, net, heard), NEW role \in Role, NEW nodes \in SUBSET Node,
           CanCreate(role, nodes), NEW ignore \in SUBSET Node,
           GoodTable(table), role = "refresh" => nodes \subseteq AllNodes
    PROVE  LET ids == FreshIds(role, nodes)
           IN  StoreOK(add_observers(ids), q, net \cup Requests(ids, ignore), heard)
<1> DEFINE ids == FreshIds(role, nodes)
           new == add_observers(ids)
           D == DOMAIN obs \cup ids
<1>1. ids \subseteq ObsId /\ \A o \in ids : o.role = role /\ o.dest \in nodes
  <2> SUFFICES ASSUME NEW n \in nodes
               PROVE  [role |-> role, dest |-> n, seq |-> CHOOSE x \in Unused(role, n) : TRUE] \in ObsId
    BY DEF FreshIds
  <2>1. Unused(role, n) # {}
    BY DEF CanCreate
  <2>2. (CHOOSE x \in Unused(role, n) : TRUE) \in Unused(role, n)
    BY <2>1
  <2>3. (CHOOSE x \in Unused(role, n) : TRUE) \in 1 .. MaxSeq
    BY <2>2 DEF Unused
  <2> QED BY <2>3 DEF ObsId
<1> HIDE DEF ids
<1>2. new = [o \in D |-> IF o \in DOMAIN obs THEN obs[o] ELSE NewObserver(o)]
  BY DEF add_observers
<1>3. D \subseteq ObsId /\ obs \in [DOMAIN obs -> Observer]
  BY <1>1 DEF StoreOK
<1>4. \A o \in ids :
         /\ NewObserver(o) \in Observer
         /\ o.role = "refresh" => NewObserver(o).bucket = RT!calc_branch_index(o.dest)
  BY <1>1, NewObserverType
<1>5. \A o \in D : (IF o \in DOMAIN obs THEN obs[o] ELSE NewObserver(o)) \in Observer
  BY <1>3, <1>4
<1>6. new \in [D -> Observer] /\ DOMAIN new = D /\ \A o \in DOMAIN obs : new[o] = obs[o]
  BY <1>2, <1>5
<1>b. \A o \in D : o.role = "refresh" => new[o].bucket = RT!calc_branch_index(o.dest)
  BY <1>2, <1>4, <1>6 DEF StoreOK
<1> HIDE DEF new
<1>7. StoreOK(new, q, net, heard)
  BY <1>3, <1>6, <1>b, StoreChange
<1>8. \A p \in Requests(ids, ignore) : p \in Request /\ p.o \in ids
  BY <1>1, TimerAssumption DEF Requests, Request
<1>9. /\ net \cup Requests(ids, ignore) \subseteq Request
      /\ \A p \in net \cup Requests(ids, ignore) : p.o \in DOMAIN new
  BY <1>6, <1>7, <1>8 DEF StoreOK
<1>10. StoreOK(new, q, net \cup Requests(ids, ignore), heard)
  BY <1>7, <1>9, StoreRequests
<1> QED BY <1>10 DEF new, ids

\* A refresh ping's handlers write where KRoutingTable's operations do.
LEMMA RefreshBucket ==
    ASSUME DhtInv, NEW o \in DOMAIN obs, o.role = "refresh"
    PROVE  /\ move_back(o) <=> RT!MoveBack(o.dest)
           /\ delete_node(o) <=> RT!DeleteNode(o.dest)
<1>1. obs[o].bucket = RT!calc_branch_index(o.dest)
  BY DEF DhtInv, StoreOK
<1> QED BY <1>1 DEF move_back, delete_node, RT!MoveBack, RT!DeleteNode, RT!get_bucket

-----------------------------------------------------------------------------
(* Every step keeps the invariant *)

LEMMA InvNext ==
    ASSUME StoreOK(obs', queue', net', heard'), RestOK', GoodTable(table'),
           InTable(table') \subseteq heard'
    PROVE  DhtInv'
  BY DEF DhtInv, StoreOK, GoodTable, InTable

LEMMA InvInit == Init => DhtInv
<1> SUFFICES ASSUME Init PROVE DhtInv
  OBVIOUS
<1>1. RTP!GoodBucket(<<>>)
  BY EmptySeq, TableAssumption DEF RTP!GoodBucket
<1>2. table = [i \in 0 .. IdBits - 1 |-> <<>>]
  BY DEF Init, RT!Init, RT!BucketIndex
<1>4. DOMAIN <<>> = {}
  OBVIOUS
<1>e. \A n : ~RTP!BucketHas(<<>>, n)
  BY <1>4 DEF RTP!BucketHas
<1>3. GoodTable(table)
  BY <1>1, <1>2, <1>e DEF GoodTable
<1>5. InTable(table) = {}
  BY <1>2, <1>4 DEF InTable, RTP!BucketHas
<1>6. TickHandler \in ReadyHandler /\ TickHandler.h = "tick"
  BY DEF TickHandler, ReadyHandler
<1>7. queue \in Seq(ReadyHandler) /\ ToSet(queue) = {TickHandler}
  BY <1>6, EntriesOfTuples DEF Init
<1>8. DOMAIN obs = {} /\ obs \in [DOMAIN obs -> Observer]
  BY DEF Init
<1>9. StoreOK(obs, queue, net, heard)
  BY <1>6, <1>7, <1>8 DEF StoreOK, Init, OfObserver
<1>10. RestOK
  BY DEF RestOK, Init
<1> QED BY <1>3, <1>5, <1>9, <1>10 DEF DhtInv

LEMMA TickStep == ASSUME DhtInv, tick PROVE DhtInv'
<1>1. StoreOK(obs, Tail(queue), net, heard)
  BY RunningHandler DEF tick
<1>2. CASE requires_tick
  <2> DEFINE ids == FreshIds("refresh", AllNodes)
             none == {}
             new == add_observers(ids)
             packets == net \cup Requests(ids, none)
  <2>1. CanCreate("refresh", AllNodes) /\ Becomes(new, Tail(queue), packets)
    BY <1>2 DEF tick, send_refresh_ping, ping_request
  <2>2. AllNodes \in SUBSET Node /\ none \in SUBSET Node /\ "refresh" \in Role
    BY DEF AllNodes, Role
  <2> HIDE DEF none
  <2>3. StoreOK(new, Tail(queue), packets, heard)
    BY <1>1, <2>1, <2>2, NewRequests DEF DhtInv
  <2> HIDE DEF new, packets
  <2>4. StoreOK(obs', queue', net', heard)
    BY <2>1, <2>3, BecomesOK
  <2>5. RestOK'
    <3>1. RefreshWait \in Nat /\ TickWait \in Nat
      BY TimerAssumption
    <3>2. RefreshWait \in 0 .. Max({RefreshWait, TickWait})
      BY <3>1, MaxOfTwo
    <3> QED BY <1>2, <3>2 DEF tick, RestOK, DhtInv
  <2> QED BY <2>4, <2>5, InvNext DEF tick, DhtInv
<1>3. CASE ~requires_tick
  <2>1. StoreOK(obs', queue', net', heard)
    BY <1>1, <1>3, BecomesOK DEF tick
  <2>2. RestOK'
    BY <1>3 DEF tick, RestOK, DhtInv
  <2> QED BY <2>1, <2>2, InvNext DEF tick, DhtInv
<1> QED BY <1>2, <1>3

LEMMA GetRemoteNodesStep == ASSUME DhtInv, get_remote_nodes PROVE DhtInv'
<1>1. StoreOK(obs, Tail(queue), net, heard)
  BY RunningHandler DEF get_remote_nodes
<1> DEFINE found_eps == RT!collect_endpoint(RootNode, FindCount, {})
           eps == IF RT!get_node_count < MINIMUM_NODES
                  THEN {n \in Node : RT!BucketHas(found_eps, n)} ELSE {}
           ids == FreshIds("find_node", eps)
           new == add_observers(ids)
           packets == net \cup Requests(ids, eps)
<1>2. CanCreate("find_node", eps) /\ Becomes(new, Tail(queue), packets)
  BY DEF get_remote_nodes, find_node_request
<1>3. eps \in SUBSET Node /\ "find_node" \in Role
  BY DEF Role
<1> HIDE DEF eps
<1>4. StoreOK(new, Tail(queue), packets, heard)
  BY <1>1, <1>2, <1>3, NewRequests DEF DhtInv
<1> HIDE DEF new, packets
<1>5. StoreOK(obs', queue', net', heard)
  BY <1>2, <1>4, BecomesOK
<1>6. RestOK'
  <2>1. RefreshWait \in Nat /\ TickWait \in Nat
    BY TimerAssumption
  <2>2. TickWait \in 0 .. Max({RefreshWait, TickWait})
    BY <2>1, MaxOfTwo
  <2>3. tick_done /\ UNCHANGED <<requires_tick, alive, heard, crashed>>
    BY DEF get_remote_nodes
  <2> QED BY <2>2, <2>3 DEF tick_done, RestOK, DhtInv
<1> QED BY <1>5, <1>6, InvNext DEF get_remote_nodes, DhtInv

\* The observer a handler belongs to changes, but not to be less late.
LEMMA ObserverChange ==
    ASSUME NEW q, NEW hd, StoreOK(obs, q, net, hd), NEW o \in DOMAIN obs, NEW v \in Observer,
           obs[o].late => v.late, v.bucket = obs[o].bucket
    PROVE  /\ StoreOK([obs EXCEPT ![o] = v], q, net, hd)
           /\ [obs EXCEPT ![o] = v][o] = v
           /\ DOMAIN [obs EXCEPT ![o] = v] = DOMAIN obs
<1> DEFINE new == [obs EXCEPT ![o] = v]
<1>1. /\ DOMAIN new = DOMAIN obs /\ new \in [DOMAIN new -> Observer]
      /\ \A x \in DOMAIN obs : new[x] = IF x = o THEN v ELSE obs[x]
      /\ DOMAIN obs \subseteq ObsId
  BY DEF StoreOK
<1> HIDE DEF new
<1>b. \A x \in DOMAIN new : x.role = "refresh" => new[x].bucket = RT!calc_branch_index(x.dest)
  BY <1>1 DEF StoreOK
<1>2. StoreOK(new, q, net, hd)
  BY <1>1, <1>b, StoreChange
<1> QED BY <1>1, <1>2 DEF new

\* A handler that belongs to an observer, and what it makes of that observer.
LEMMA SettledObserver ==
    ASSUME NEW q, StoreOK(obs, q, net, heard), NEW o \in DOMAIN obs,
           Becomes([obs EXCEPT ![o].settled = TRUE], q, net)
    PROVE  StoreOK(obs', queue', net', heard)
<1> DEFINE v == [obs[o] EXCEPT !.settled = TRUE]
<1>1. obs[o] \in Observer
  BY DEF StoreOK
<1>2. v \in Observer /\ v.late = obs[o].late /\ v.bucket = obs[o].bucket
  BY <1>1 DEF Observer
<1>3. Becomes([obs EXCEPT ![o] = v], q, net)
  OBVIOUS
<1> HIDE DEF v
<1>4. StoreOK([obs EXCEPT ![o] = v], q, net, heard)
  BY <1>2, ObserverChange
<1> QED BY <1>3, <1>4, BecomesOK

LEMMA TimeoutStep == ASSUME DhtInv, timeout PROVE DhtInv'
<1> DEFINE o == Head(queue).o
<1>1. /\ StoreOK(obs, Tail(queue), net, heard)
      /\ o \in ObsId /\ o \in DOMAIN obs
  BY RunningHandler, HandlerKinds DEF timeout
<1>2. CASE obs[o].pong
  <2>1. Becomes(obs, Tail(queue), net)
    BY <1>2 DEF timeout
  <2>2. StoreOK(obs', queue', net', heard)
    BY <2>1, <1>1, BecomesOK
  <2> QED BY <2>2, InvNext DEF timeout, DhtInv, RestOK
<1>3. CASE ~obs[o].pong
  <2> DEFINE v == [obs[o] EXCEPT !.late = TRUE, !.expire = 0]
             e == [h |-> "on_timeout", o |-> o]
             new == [obs EXCEPT ![o] = v]
  <2>1. Becomes(new, Append(Tail(queue), e), net)
    BY <1>3 DEF timeout
  <2>2. v \in Observer /\ v.late /\ v.bucket = obs[o].bucket
    <3>1. obs[o] \in Observer
      BY <1>1 DEF StoreOK
    <3>2. 0 \in 0 .. Max({PingExpire, FindExpire})
      BY TimerAssumption, MaxOfTwo
    <3> QED BY <3>1, <3>2 DEF Observer
  <2>3. e \in ReadyHandler /\ e.h = "on_timeout" /\ e.o = o
    BY <1>1 DEF ReadyHandler
  <2> HIDE DEF v, e, o
  <2>4. StoreOK(new, Tail(queue), net, heard) /\ new[o] = v /\ DOMAIN new = DOMAIN obs
    BY <1>1, <2>2, ObserverChange
  <2> HIDE DEF new
  <2>5. StoreOK(new, Append(Tail(queue), e), net, heard)
    BY <1>1, <2>2, <2>3, <2>4, StorePostOne
  <2>6. StoreOK(obs', queue', net', heard)
    BY <2>1, <2>5, BecomesOK
  <2> QED BY <2>6, InvNext DEF timeout, DhtInv, RestOK
<1> QED BY <1>2, <1>3

LEMMA OnTimeoutStep == ASSUME DhtInv, on_timeout PROVE DhtInv'
<1> DEFINE o == Head(queue).o
<1>1. /\ StoreOK(obs, Tail(queue), net, heard)
      /\ o \in ObsId /\ o \in DOMAIN obs
  BY RunningHandler, HandlerKinds DEF on_timeout
<1>2. Becomes([obs EXCEPT ![o].settled = TRUE], Tail(queue), net)
  BY DEF on_timeout
<1>3. RT!DeleteNode(o.dest) \/ table' = table
  BY <1>1, RefreshBucket DEF on_timeout
<1>4. o.dest \in Node
  BY <1>1 DEF ObsId
<1> HIDE DEF o
<1>5. StoreOK(obs', queue', net', heard)
  BY <1>1, <1>2, SettledObserver
<1>6. GoodTable(table') /\ InTable(table') \subseteq InTable(table)
  BY <1>3, <1>4, TableOperations DEF DhtInv
<1> QED BY <1>5, <1>6, InvNext DEF on_timeout, DhtInv, RestOK

LEMMA PongStep == ASSUME DhtInv, pong PROVE DhtInv'
<1> DEFINE o == Head(queue).o
<1>1. /\ StoreOK(obs, Tail(queue), net, heard)
      /\ o \in ObsId /\ o \in DOMAIN obs
      /\ o.dest \in heard
  <2>1. Running("pong")
    BY DEF pong
  <2>2. Head(queue) \in ToSet(queue) /\ Head(queue).h = "pong"
    BY <2>1, RunningHandler
  <2> QED BY <2>1, <2>2, RunningHandler, HandlerKinds DEF DhtInv, StoreOK
<1>2. Becomes([obs EXCEPT ![o].settled = TRUE], Tail(queue), net)
  BY DEF pong
<1>3. RT!MoveBack(o.dest) \/ RT!AutoUpdate(o.dest)
  BY <1>1, RefreshBucket DEF pong
<1>4. o.dest \in Node
  BY <1>1 DEF ObsId
<1> HIDE DEF o
<1>5. StoreOK(obs', queue', net', heard)
  BY <1>1, <1>2, SettledObserver
<1>6. GoodTable(table') /\ InTable(table') \subseteq InTable(table) \cup {o.dest}
  BY <1>3, <1>4, TableOperations DEF DhtInv
<1> QED BY <1>1, <1>5, <1>6, InvNext DEF pong, DhtInv, RestOK

LEMMA FoundStep == ASSUME DhtInv, found PROVE DhtInv'
<1> DEFINE o == Head(queue).o
           nodes == {Head(queue).ep}
           none == {}
           ids == FreshIds("probe", nodes)
           new == add_observers(ids)
           packets == net \cup Requests(ids, none)
<1>1. /\ StoreOK(obs, Tail(queue), net, heard)
      /\ o \in ObsId /\ o \in DOMAIN obs
      /\ nodes \in SUBSET Node /\ none \in SUBSET Node /\ "probe" \in Role
  BY RunningHandler, HandlerKinds DEF found, Role
<1>2. CanCreate("probe", nodes)
      /\ Becomes([new EXCEPT ![o].settled = TRUE], Tail(queue), packets)
  BY DEF found
<1> HIDE DEF none, nodes
<1>3. StoreOK(new, Tail(queue), packets, heard)
  BY <1>1, <1>2, NewRequests DEF DhtInv
<1>4. DOMAIN obs \subseteq DOMAIN new
  BY DEF add_observers
<1> HIDE DEF new, packets, o
<1>5. o \in DOMAIN new /\ new[o] \in Observer
  BY <1>1, <1>3, <1>4 DEF StoreOK
<1> DEFINE v == [new[o] EXCEPT !.settled = TRUE]
           settled == [new EXCEPT ![o] = v]
<1>6. v \in Observer /\ v.late = new[o].late /\ v.bucket = new[o].bucket
  BY <1>5 DEF Observer
<1>7. Becomes(settled, Tail(queue), packets)
  BY <1>2
<1> HIDE DEF v
<1>8. /\ DOMAIN settled = DOMAIN new /\ settled \in [DOMAIN settled -> Observer]
      /\ \A x \in DOMAIN new : settled[x] = IF x = o THEN v ELSE new[x]
      /\ DOMAIN new \subseteq ObsId
  BY <1>3, <1>6 DEF StoreOK
<1> HIDE DEF settled
<1>b. \A x \in DOMAIN settled :
          x.role = "refresh" => settled[x].bucket = RT!calc_branch_index(x.dest)
  BY <1>3, <1>6, <1>8 DEF StoreOK
<1>9. StoreOK(settled, Tail(queue), packets, heard)
  BY <1>3, <1>6, <1>8, <1>b, StoreChange
<1>10. StoreOK(obs', queue', net', heard)
  BY <1>7, <1>9, BecomesOK
<1> QED BY <1>10, InvNext DEF found, DhtInv, RestOK

LEMMA DiesStep == ASSUME DhtInv, DiesOnFreed PROVE DhtInv'
<1>1. StoreOK(obs', queue', net', heard')
  BY DEF DiesOnFreed, Dies, DhtInv
<1> QED BY <1>1, InvNext DEF DiesOnFreed, Dies, DhtInv, RestOK

\* ping::income_message
LEMMA IncomePongStep ==
    ASSUME NEW q, NEW hd, StoreOK(obs, q, net, hd), q = Tail(queue),
           NEW o \in DOMAIN obs, o.dest \in hd, income_pong(o)
    PROVE  StoreOK(obs', queue', net', hd)
<1> DEFINE v == [obs[o] EXCEPT !.pong = TRUE, !.timer = Off, !.expire = 0]
           new == [obs EXCEPT ![o] = v]
           p == [h |-> "pong", o |-> o]
           t == [h |-> "timeout", o |-> o]
           r == IF obs[o].timer # Off THEN <<t>> ELSE <<>>
<1>1. Becomes(new, q \o <<p>> \o r, net)
  BY DEF income_pong
<1>2. o \in ObsId /\ obs[o] \in Observer
  BY DEF StoreOK
<1>3. v \in Observer /\ v.late = obs[o].late /\ v.bucket = obs[o].bucket
  <2> DEFINE u == {Off} \cup 0 .. Max({PingTimer, RefreshWait})
             x == 0 .. Max({PingExpire, FindExpire})
             w == {Off} \cup RT!BucketIndex
  <2>1. 0 \in x /\ Off \in u
    BY TimerAssumption, MaxOfTwo
  <2>2. Observer = [pong : BOOLEAN, late : BOOLEAN, settled : BOOLEAN, timer : u, expire : x,
                    bucket : w, freed : BOOLEAN]
    BY DEF Observer
  <2> HIDE DEF u, x, w
  <2> QED BY <2>1, <2>2, <1>2
<1>4. /\ p \in ReadyHandler /\ p.h = "pong" /\ p.o = o
      /\ t \in ReadyHandler /\ t.h = "timeout" /\ t.o = o
  BY <1>2 DEF ReadyHandler
<1> HIDE DEF v, p, t
<1>5. StoreOK(new, q, net, hd) /\ DOMAIN new = DOMAIN obs
  BY <1>3, ObserverChange
<1>6. /\ <<p>> \in Seq(ReadyHandler) /\ ToSet(<<p>>) = {p}
      /\ r \in Seq(ReadyHandler) /\ ToSet(r) \subseteq {t}
  <2>1. /\ <<p>> \in Seq(ReadyHandler) /\ <<t>> \in Seq(ReadyHandler)
        /\ <<>> \in Seq(ReadyHandler)
    BY <1>4
  <2>2. ToSet(<<p>>) = {p} /\ ToSet(<<t>>) = {t} /\ ToSet(<<>>) = {}
    BY EntriesOfTuples
  <2>3. r = <<t>> \/ r = <<>>
    OBVIOUS
  <2> HIDE DEF r
  <2>4. CASE r = <<t>>
    BY <2>1, <2>2, <2>4
  <2>5. CASE r = <<>>
    BY <2>1, <2>2, <2>5
  <2> QED BY <2>1, <2>2, <2>3, <2>4, <2>5
<1> HIDE DEF new, r
<1> DEFINE one == <<p>>
<1>7. one \in Seq(ReadyHandler) /\ \A e \in ToSet(one) : e.h = "pong" /\ e.o = o
  BY <1>4, <1>6
<1>8. Becomes(new, q \o one \o r, net)
  BY <1>1
<1> HIDE DEF one
<1>9. StoreOK(new, q \o one, net, hd)
  BY <1>5, <1>7, StorePost
<1>10. \A e \in ToSet(r) : e.h = "timeout" /\ e.o = o
  BY <1>4, <1>6
<1> DEFINE qo == q \o one
<1> HIDE DEF qo
<1>11. StoreOK(new, qo \o r, net, hd)
  BY <1>5, <1>6, <1>9, <1>10, StorePost DEF qo
<1> QED BY <1>8, <1>11, BecomesOK DEF qo

\* find_node::income_message
LEMMA IncomeFoundStep ==
    ASSUME NEW q, NEW hd, StoreOK(obs, q, net, hd), q = Tail(queue),
           NEW o \in DOMAIN obs, NEW eps \in SUBSET Node, income_found(o, eps)
    PROVE  StoreOK(obs', queue', net', hd)
<1> DEFINE v == [obs[o] EXCEPT !.expire = 0]
           new == [obs EXCEPT ![o] = v]
           R(order) == [i \in DOMAIN order |-> [h |-> "found", o |-> o, ep |-> order[i]]]
<1>1. PICK order \in SetToSeqs(eps) : Becomes(new, q \o R(order), net)
  BY DEF income_found
<1> DEFINE r == R(order)
<1>2. o \in ObsId /\ obs[o] \in Observer
  BY DEF StoreOK
<1>3. v \in Observer /\ v.late = obs[o].late /\ v.bucket = obs[o].bucket
  <2> DEFINE t == {Off} \cup 0 .. Max({PingTimer, RefreshWait})
             x == 0 .. Max({PingExpire, FindExpire})
             w == {Off} \cup RT!BucketIndex
  <2>1. 0 \in x /\ Off \in t
    BY TimerAssumption, MaxOfTwo
  <2>2. Observer = [pong : BOOLEAN, late : BOOLEAN, settled : BOOLEAN, timer : t, expire : x,
                    bucket : w, freed : BOOLEAN]
    BY DEF Observer
  <2> HIDE DEF t, x, w
  <2> QED BY <2>1, <2>2, <1>2
<1>4. order \in [1 .. Cardinality(eps) -> eps]
  BY DEF SetToSeqs
<1>5. DOMAIN order = 1 .. Cardinality(eps)
      /\ \A i \in 1 .. Cardinality(eps) : order[i] \in Node
  BY <1>4
<1>6. \A n \in Node : LET e == [h |-> "found", o |-> o, ep |-> n]
                      IN  e \in ReadyHandler /\ e.h = "found" /\ e.o = o
  BY <1>2 DEF ReadyHandler
<1>7. /\ r \in [1 .. Cardinality(eps) -> ReadyHandler]
      /\ \A i \in 1 .. Cardinality(eps) : r[i].h = "found" /\ r[i].o = o
  BY <1>5, <1>6
<1>8. Becomes(new, q \o r, net)
  BY <1>1
<1> HIDE DEF v, R, r
<1>9. StoreOK(new, q, net, hd) /\ DOMAIN new = DOMAIN obs
  BY <1>3, ObserverChange
<1> HIDE DEF new
<1>10. StoreOK(new, q \o r, net, hd)
  <2>1. Cardinality(eps) \in Nat
    BY TableAssumption, FS_Subset, FS_CardinalityType
  <2>3. r \in Seq(ReadyHandler)
    BY <1>7, <2>1, SeqDef
  <2>2. \A e \in ToSet(r) : e.h = "found" /\ e.o = o
    BY <1>7 DEF ToSet
  <2> QED BY <2>2, <2>3, <1>9, StorePost
<1> QED BY <1>8, <1>10, BecomesOK

LEMMA IncomeStep == ASSUME DhtInv, income_message PROVE DhtInv'
<1> DEFINE o == Head(queue).packet.o
           eps == Head(queue).packet.eps
           q == Tail(queue)
<1>1. /\ StoreOK(obs, q, net, heard)
      /\ Head(queue).packet \in k_message
  BY RunningHandler, HandlerKinds DEF income_message
<1>2. eps \in SUBSET Node /\ o.dest \in Node
  <2>1. eps \in SUBSET Node /\ o \in ObsId \cup {OwnRequest(n) : n \in Node}
    BY <1>1 DEF k_message
  <2>2. CASE o \in ObsId
    BY <2>1, <2>2 DEF ObsId
  <2>3. CASE o \in {OwnRequest(n) : n \in Node}
    <3>1. PICK n \in Node : o = OwnRequest(n)
      BY <2>3
    <3>2. OwnRequest(n).dest = n
      BY DEF OwnRequest
    <3> QED BY <2>1, <3>1, <3>2
  <2> QED BY <2>1, <2>2, <2>3
<1>3. heard' = heard \cup {o.dest}
  BY DEF income_message
<1>4. StoreOK(obs, q, net, heard') /\ o.dest \in heard'
  BY <1>1, <1>3 DEF StoreOK
<1>5. \/ o \in DOMAIN obs /\ income_pong(o) /\ table' = table
      \/ o \in DOMAIN obs /\ income_found(o, eps) /\ table' = table
      \/ Becomes(obs, q, net) /\ table' = table
      \/ Becomes(obs, q, net) /\ RT!AutoUpdate(o.dest)
  BY DEF income_message, Stored, ping_response
<1>6. RestOK'
  BY <1>2, <1>3 DEF income_message, RestOK, DhtInv
<1> HIDE DEF o, eps
<1> DEFINE hd == heard'
<1>7. StoreOK(obs, q, net, hd) /\ o.dest \in hd
  BY <1>4
<1> HIDE DEF hd
<1>8. StoreOK(obs', queue', net', hd)
  <2>1. CASE o \in DOMAIN obs /\ income_pong(o)
    BY <2>1, <1>7, IncomePongStep
  <2>2. CASE o \in DOMAIN obs /\ income_found(o, eps)
    BY <2>2, <1>2, <1>7, IncomeFoundStep
  <2>3. CASE Becomes(obs, q, net)
    BY <2>3, <1>7, BecomesOK
  <2> QED BY <1>5, <2>1, <2>2, <2>3
<1>9. GoodTable(table') /\ InTable(table') \subseteq InTable(table) \cup {o.dest}
  BY <1>2, <1>5, TableOperations DEF DhtInv
<1> QED BY <1>3, <1>6, <1>8, <1>9, InvNext DEF DhtInv, hd

LEMMA RefreshTickStep == ASSUME DhtInv, refresh_tick PROVE DhtInv'
<1> DEFINE new == [o \in DOMAIN obs |-> [obs[o] EXCEPT !.freed = @ \/ is_expired(o)]]
<1>1. StoreOK(obs, Tail(queue), net, heard)
  BY RunningHandler DEF refresh_tick
<1>2. Becomes(new, Tail(queue), net)
  BY DEF refresh_tick
<1>3. \A o \in DOMAIN obs : obs[o] \in Observer
  BY <1>1 DEF StoreOK
<1>4. \A o \in DOMAIN obs :
         LET v == [obs[o] EXCEPT !.freed = @ \/ is_expired(o)]
         IN  v \in Observer /\ v.late = obs[o].late /\ v.bucket = obs[o].bucket
  BY <1>3 DEF Observer, is_expired
<1>5. /\ DOMAIN new = DOMAIN obs /\ new \in [DOMAIN new -> Observer]
      /\ \A o \in DOMAIN obs : new[o].late = obs[o].late /\ new[o].bucket = obs[o].bucket
      /\ DOMAIN obs \subseteq ObsId
  BY <1>1, <1>4 DEF StoreOK
<1> HIDE DEF new
<1>b. \A o \in DOMAIN new : o.role = "refresh" => new[o].bucket = RT!calc_branch_index(o.dest)
  BY <1>1, <1>5 DEF StoreOK
<1>6. StoreOK(new, Tail(queue), net, heard)
  BY <1>1, <1>5, <1>b, StoreChange
<1>7. StoreOK(obs', queue', net', heard)
  BY <1>2, <1>6, BecomesOK
<1> QED BY <1>7, InvNext DEF refresh_tick, DhtInv, RestOK

LEMMA MaintainerTimerStep == ASSUME DhtInv, MaintainerTimerDue PROVE DhtInv'
<1> DEFINE e == [h |-> timer_fn]
<1>1. StoreOK(obs, queue, net, heard) /\ timer_fn \in {"tick", "get_remote_nodes"}
  BY DEF DhtInv, RestOK
<1>2. e \in ReadyHandler /\ e.h \in {"tick", "get_remote_nodes"}
  BY <1>1 DEF ReadyHandler
<1>3. queue' = Append(queue, e)
  BY DEF MaintainerTimerDue
<1> HIDE DEF e
<1>4. StoreOK(obs, Append(queue, e), net, heard)
  BY <1>1, <1>2, StorePostOne DEF OfObserver
<1> QED BY <1>3, <1>4, InvNext DEF MaintainerTimerDue, DhtInv, RestOK

LEMMA PingTimerStep ==
    ASSUME DhtInv, NEW o \in DOMAIN obs, PingTimerDue(o)
    PROVE  DhtInv'
<1> DEFINE v == [obs[o] EXCEPT !.timer = Off]
           new == [obs EXCEPT ![o] = v]
           e == [h |-> "timeout", o |-> o]
<1>1. StoreOK(obs, queue, net, heard)
  BY DEF DhtInv
<1>2. o \in ObsId /\ obs[o] \in Observer
  BY <1>1 DEF StoreOK
<1>3. v \in Observer /\ v.late = obs[o].late /\ v.bucket = obs[o].bucket
  BY <1>2 DEF Observer
<1>4. e \in ReadyHandler /\ e.h = "timeout" /\ e.o = o
  BY <1>2 DEF ReadyHandler
<1>5. obs' = new /\ queue' = Append(queue, e)
  BY DEF PingTimerDue
<1> HIDE DEF v, e
<1>6. StoreOK(new, queue, net, heard) /\ DOMAIN new = DOMAIN obs
  BY <1>1, <1>3, ObserverChange
<1> HIDE DEF new
<1>7. StoreOK(new, Append(queue, e), net, heard)
  BY <1>4, <1>6, StorePostOne
<1> QED BY <1>5, <1>7, InvNext DEF PingTimerDue, DhtInv, RestOK

LEMMA StorageTimerStep == ASSUME DhtInv, StorageTimerDue PROVE DhtInv'
<1>1. StoreOK(obs, queue, net, heard)
  BY DEF DhtInv
<1>2. StorageHandler \in ReadyHandler /\ StorageHandler.h = "refresh_tick"
  BY DEF StorageHandler, ReadyHandler
<1>3. StoreOK(obs, Append(queue, StorageHandler), net, heard)
  BY <1>1, <1>2, StorePostOne DEF OfObserver
<1> QED BY <1>3, InvNext DEF StorageTimerDue, DhtInv, RestOK

LEMMA ElapsedType ==
    \A n \in Nat : \A t \in {Off} \cup 0 .. n :
        /\ Elapsed(t) \in {Off} \cup 0 .. n
        /\ t >= 0 => Elapsed(t) \in 0 .. n
  BY DEF Elapsed, Off

LEMMA TimePassesStep == ASSUME DhtInv, TimePasses PROVE DhtInv'
<1> DEFINE new == [o \in DOMAIN obs |-> [obs[o] EXCEPT !.timer = Elapsed(@),
                                                       !.expire = Elapsed(@)]]
           packets == {[p EXCEPT !.left = @ - 1] : p \in {x \in net : x.left > 0}}
<1>1. StoreOK(obs, queue, net, heard)
  BY DEF DhtInv
<1>2. Becomes(new, queue, packets)
  BY DEF TimePasses
<1>3. \A o \in DOMAIN obs : obs[o] \in Observer
  BY <1>1 DEF StoreOK
<1>4. \A o \in DOMAIN obs :
         LET v == [obs[o] EXCEPT !.timer = Elapsed(@), !.expire = Elapsed(@)]
         IN  v \in Observer /\ v.late = obs[o].late /\ v.bucket = obs[o].bucket
  <2> DEFINE t == Max({PingTimer, RefreshWait})
             x == Max({PingExpire, FindExpire})
  <2>1. t \in Nat /\ x \in Nat
    BY TimerAssumption, MaxOfTwo
  <2>2. Observer = [pong : BOOLEAN, late : BOOLEAN, settled : BOOLEAN,
                    timer : {Off} \cup 0 .. t, expire : 0 .. x,
                    bucket : {Off} \cup RT!BucketIndex, freed : BOOLEAN]
    BY DEF Observer
  <2> HIDE DEF t, x
  <2> SUFFICES ASSUME NEW o \in DOMAIN obs
               PROVE  LET v == [obs[o] EXCEPT !.timer = Elapsed(@), !.expire = Elapsed(@)]
                      IN  v \in Observer /\ v.late = obs[o].late /\ v.bucket = obs[o].bucket
    OBVIOUS
  <2>3. obs[o].timer \in {Off} \cup 0 .. t /\ obs[o].expire \in 0 .. x
    BY <1>3, <2>2
  <2>4. Elapsed(obs[o].timer) \in {Off} \cup 0 .. t
    BY <2>1, <2>3, ElapsedType
  <2>5. Elapsed(obs[o].expire) \in 0 .. x
    BY <2>1, <2>3, ElapsedType
  <2> QED BY <1>3, <2>2, <2>4, <2>5
<1>5. /\ DOMAIN new = DOMAIN obs /\ new \in [DOMAIN new -> Observer]
      /\ \A o \in DOMAIN obs : new[o].late = obs[o].late /\ new[o].bucket = obs[o].bucket
      /\ DOMAIN obs \subseteq ObsId
  BY <1>1, <1>4 DEF StoreOK
<1>6. /\ packets \subseteq Request /\ \A p \in packets : p.o \in DOMAIN new
  <2> SUFFICES ASSUME NEW p \in net, p.left > 0
               PROVE  [p EXCEPT !.left = @ - 1] \in Request
                      /\ [p EXCEPT !.left = @ - 1].o \in DOMAIN new
    OBVIOUS
  <2>1. p \in Request /\ p.o \in DOMAIN obs
    BY <1>1 DEF StoreOK
  <2>2. p.left - 1 \in 0 .. MaxDelay
    BY <2>1, TimerAssumption DEF Request
  <2> QED BY <2>1, <2>2, <1>5 DEF Request
<1> HIDE DEF new, packets
<1>b. \A o \in DOMAIN new : o.role = "refresh" => new[o].bucket = RT!calc_branch_index(o.dest)
  BY <1>1, <1>5 DEF StoreOK
<1>7. StoreOK(new, queue, net, heard)
  BY <1>1, <1>5, <1>b, StoreChange
<1>8. StoreOK(new, queue, packets, heard)
  BY <1>6, <1>7, StoreRequests
<1>9. StoreOK(obs', queue', net', heard)
  BY <1>2, <1>8, BecomesOK
<1>10. timer' \in {Off} \cup 0 .. Max({RefreshWait, TickWait})
  <2>1. Max({RefreshWait, TickWait}) \in Nat
    BY TimerAssumption, MaxOfTwo
  <2> QED BY <2>1, ElapsedType DEF TimePasses, DhtInv, RestOK
<1> QED BY <1>9, <1>10, InvNext DEF TimePasses, DhtInv, RestOK

\* A packet arrives: a request of a peer or the answer to a request.
LEMMA ArrivalStep ==
    ASSUME DhtInv, NEW packet \in k_message, Arrival(packet)
    PROVE  StoreOK(obs, queue', net, heard)
<1> DEFINE e == [h |-> "income", packet |-> packet]
<1>1. e \in ReadyHandler /\ e.h = "income"
  BY DEF ReadyHandler
<1>2. queue' = Append(queue, e)
  BY DEF Arrival
<1> HIDE DEF e
<1>3. StoreOK(obs, Append(queue, e), net, heard)
  BY <1>1, StorePostOne DEF DhtInv, OfObserver
<1> QED BY <1>2, <1>3

LEMMA EnvironmentStep == ASSUME DhtInv, Environment PROVE DhtInv'
<1>1. ASSUME NEW n \in Node, PeerPings(n) PROVE DhtInv'
  <2> DEFINE packet == [o |-> OwnRequest(n), eps |-> {}]
  <2>1. packet \in k_message
    BY DEF k_message
  <2>2. Arrival(packet)
    BY <1>1 DEF PeerPings
  <2> HIDE DEF packet
  <2>3. StoreOK(obs, queue', net, heard)
    BY <2>1, <2>2, ArrivalStep
  <2> QED BY <1>1, <2>3, InvNext DEF PeerPings, DhtInv, RestOK
<1>2. ASSUME NEW n \in Node, PeerDies(n) PROVE DhtInv'
  <2>1. StoreOK(obs', queue', net', heard')
    BY <1>2 DEF PeerDies, DhtInv
  <2> QED BY <1>2, <2>1, InvNext DEF PeerDies, DhtInv, RestOK
<1>3. ASSUME NEW p \in net, AnswerArrives(p) PROVE DhtInv'
  <2>1. p \in Request
    BY DEF DhtInv, StoreOK
  <2>2. PICK eps \in SUBSET Node : Arrival([o |-> p.o, eps |-> eps])
    <3>1. CASE p.o.role = "find_node"
      <4>1. PICK eps \in SUBSET (Node \ (p.ignore \cup {p.o.dest, RootNode})) :
               Arrival([o |-> p.o, eps |-> eps])
        BY <1>3, <3>1 DEF AnswerArrives
      <4> QED BY <4>1
    <3>2. CASE p.o.role # "find_node"
      <4>1. Arrival([o |-> p.o, eps |-> {}])
        BY <1>3, <3>2 DEF AnswerArrives
      <4> QED BY <4>1
    <3> QED BY <3>1, <3>2
  <2> DEFINE packet == [o |-> p.o, eps |-> eps]
  <2>3. packet \in k_message /\ Arrival(packet)
    BY <2>1, <2>2 DEF k_message, Request
  <2> HIDE DEF packet
  <2>4. StoreOK(obs, queue', net, heard)
    BY <2>3, ArrivalStep
  <2>5. net' \subseteq net
    BY <1>3 DEF AnswerArrives
  <2>6. StoreOK(obs, queue', net', heard)
    BY <2>4, <2>5 DEF StoreOK
  <2> QED BY <1>3, <2>6, InvNext DEF AnswerArrives, DhtInv, RestOK
<1>4. ASSUME NEW p \in net, Lost(p) PROVE DhtInv'
  <2>1. StoreOK(obs, queue, net \ {p}, heard)
    BY DEF DhtInv, StoreOK
  <2>2. Becomes(obs, queue, net \ {p})
    BY <1>4 DEF Lost
  <2> DEFINE packets == net \ {p}
  <2> HIDE DEF packets
  <2>3. StoreOK(obs', queue', net', heard)
    BY <2>1, <2>2, BecomesOK DEF packets
  <2> QED BY <1>4, <2>3, InvNext DEF Lost, DhtInv, RestOK
<1> QED BY <1>1, <1>2, <1>3, <1>4 DEF Environment

LEMMA InvStep == DhtInv /\ [Next]_vars => DhtInv'
<1> SUFFICES ASSUME DhtInv, [Next]_vars PROVE DhtInv'
  OBVIOUS
<1>1. CASE Handler
  BY <1>1, TickStep, GetRemoteNodesStep, TimeoutStep, OnTimeoutStep, PongStep,
     FoundStep, DiesStep, IncomeStep, RefreshTickStep DEF Handler
<1>2. CASE Due
  BY <1>2, MaintainerTimerStep, PingTimerStep DEF Due
<1>3. CASE StorageTimerDue
  BY <1>3, StorageTimerStep
<1>4. CASE TimePasses
  BY <1>4, TimePassesStep
<1>5. CASE stop
  <2>1. StoreOK(obs', queue', net', heard')
    BY <1>5 DEF stop, DhtInv
  <2> QED BY <1>5, <2>1, InvNext DEF stop, DhtInv, RestOK
<1>6. CASE Environment
  BY <1>6, EnvironmentStep
<1>7. CASE UNCHANGED vars
  <2>1. StoreOK(obs', queue', net', heard')
    BY <1>7 DEF vars, DhtInv
  <2> QED BY <1>7, <2>1, InvNext DEF vars, DhtInv, RestOK
<1> QED BY <1>1, <1>2, <1>3, <1>4, <1>5, <1>6, <1>7 DEF Next

\* What a step does to the table: nothing, or one operation on one node, which
\* is delete_node only when the on_timeout of a refresh ping of that node runs.
LEMMA TableStep ==
    ASSUME DhtInv, [Next]_vars
    PROVE  \/ table' = table
           \/ \E n \in Node : RT!AutoUpdate(n) \/ RT!MoveBack(n)
           \/ \E n \in Node :
                 /\ RT!DeleteNode(n)
                 /\ \E o \in DOMAIN obs :
                       o.role = "refresh" /\ o.dest = n /\ obs[o].late
<1>1. CASE on_timeout
  <2> DEFINE o == Head(queue).o
  <2>1. Running("on_timeout")
    BY <1>1 DEF on_timeout
  <2>2. /\ Head(queue) \in ToSet(queue) /\ Head(queue).h = "on_timeout"
        /\ o \in ObsId /\ o \in DOMAIN obs
    BY <2>1, RunningHandler, HandlerKinds
  <2>3. obs[o].late
    BY <2>2 DEF DhtInv, StoreOK
  <2>4. o.dest \in Node
    BY <2>2 DEF ObsId
  <2>5. (o.role = "refresh" /\ RT!DeleteNode(o.dest)) \/ table' = table
    BY <1>1, <2>2, RefreshBucket DEF on_timeout
  <2> HIDE DEF o
  <2> QED BY <2>2, <2>3, <2>4, <2>5
<1>2. CASE pong
  <2> DEFINE o == Head(queue).o
  <2>1. o.dest \in Node /\ o \in DOMAIN obs
    BY <1>2, RunningHandler, HandlerKinds DEF pong, ObsId
  <2>2. RT!MoveBack(o.dest) \/ RT!AutoUpdate(o.dest)
    BY <1>2, <2>1, RefreshBucket DEF pong
  <2> HIDE DEF o
  <2> QED BY <2>1, <2>2
<1>3. CASE income_message
  <2> DEFINE o == Head(queue).packet.o
  <2>1. /\ Head(queue).packet \in k_message
    BY <1>3, RunningHandler, HandlerKinds DEF income_message
  <2>2. table' = table \/ (o = OwnRequest(o.dest) /\ RT!AutoUpdate(o.dest))
    BY <1>3 DEF income_message, ping_response
  <2>3. o.dest \in Node
    <3>1. o \in ObsId \cup {OwnRequest(n) : n \in Node}
      BY <2>1 DEF k_message
    <3>2. CASE o \in ObsId
      BY <3>2 DEF ObsId
    <3>3. CASE o \in {OwnRequest(n) : n \in Node}
      <4>1. PICK n \in Node : o = OwnRequest(n)
        BY <3>3
      <4>2. OwnRequest(n).dest = n
        BY DEF OwnRequest
      <4> QED BY <4>1, <4>2
    <3> QED BY <3>1, <3>2, <3>3
  <2> HIDE DEF o
  <2> QED BY <2>2, <2>3
<1>4. CASE tick \/ get_remote_nodes \/ timeout \/ found \/ DiesOnFreed \/ refresh_tick
  BY <1>4 DEF tick, get_remote_nodes, timeout, found, DiesOnFreed, Dies, refresh_tick
<1>5. CASE Due \/ StorageTimerDue \/ TimePasses \/ stop
  BY <1>5 DEF Due, MaintainerTimerDue, PingTimerDue, StorageTimerDue, TimePasses, stop
<1>6. CASE Environment
  BY <1>6 DEF Environment, PeerPings, PeerDies, AnswerArrives, Lost
<1>7. CASE UNCHANGED vars
  BY <1>7 DEF vars
<1> QED BY <1>1, <1>2, <1>3, <1>4, <1>5, <1>6, <1>7 DEF Next, Handler

LEMMA InvImplies == DhtInv => TypeOK /\ EnteredOnEvidence
<1> SUFFICES ASSUME DhtInv PROVE TypeOK /\ EnteredOnEvidence
  OBVIOUS
<1>1. RT!TypeOK
  BY GoodTableType DEF DhtInv
<1>2. TypeOK
  BY <1>1 DEF DhtInv, StoreOK, RestOK, TypeOK
<1>3. EnteredOnEvidence
  BY HoldsInTable DEF DhtInv, EnteredOnEvidence
<1> QED BY <1>2, <1>3

-----------------------------------------------------------------------------
(* What is due is on its way: the maintainer's rounds and the pings *)

\* The handlers of a round.
Rounds == {e \in ReadyHandler : e.h \in {"tick", "get_remote_nodes"}}

\* The maintainer's rounds are one chain: its timer waits or one handler of a
\* round is ready, never both, and until stop one of them is always there.
OneRound ==
    /\ AtMostOne(queue, Rounds)
    /\ timer # Off => ToSet(queue) \cap Rounds = {}
    /\ requires_tick => timer # Off \/ ToSet(queue) \cap Rounds # {}

\* A handler of an observer is ready.
Ready(q, k, o) == \E e \in ToSet(q) : e.h = k /\ e.o = o

\* What will settle a ping: its timer, with ping::timeout behind it, as long as
\* no pong has come, or the handler that one or the other has posted.
Pending(o, ob, q) ==
    \/ ~ob[o].pong /\ (ob[o].timer # Off \/ Ready(q, "timeout", o))
    \/ Ready(q, "pong", o)
    \/ Ready(q, "on_timeout", o)

\* No ping is forgotten: until one of its handlers has run, one is to come.
NoPingForgotten ==
    \A o \in DOMAIN obs :
        o.role # "find_node" /\ ~obs[o].settled => Pending(o, obs, queue)

\* While a refresh ping is unsettled the maintainer waits for get_remote_nodes,
\* and longer than the ping waits for its pong.
RoundOpen ==
    \A o \in DOMAIN obs : o.role = "refresh" /\ ~obs[o].settled =>
        /\ timer_fn = "get_remote_nodes" /\ timer > 0
        /\ obs[o].timer # Off => obs[o].timer < timer

\* The inductive invariant: a thread that stalls may count too early.
DueInv == OneRound /\ NoPingForgotten /\ (~Stall => RoundOpen)

LEMMA BecomesKeeps ==
    ASSUME NEW ob, NEW q, NEW packets, Becomes(ob, q, packets)
    PROVE  /\ DOMAIN obs' \subseteq DOMAIN ob /\ queue' = q
           /\ \A o \in DOMAIN obs' : obs'[o] = ob[o]
  BY DEF Becomes, Keep

\* The handler that runs is taken; a handler that is none of a round, and posts
\* none, leaves the round's handlers.
LEMMA TakeHandler ==
    ASSUME DhtInv, NEW k, Running(k)
    PROVE  /\ Tail(queue) \in Seq(ReadyHandler)
           /\ ToSet(queue) = {Head(queue)} \cup ToSet(Tail(queue))
           /\ Head(queue) \in ReadyHandler /\ Head(queue).h = k
           /\ k \notin {"tick", "get_remote_nodes"} => Keeps(queue, Tail(queue), Rounds)
           /\ k \in {"tick", "get_remote_nodes"} => Head(queue) \in Rounds
<1>1. queue \in Seq(ReadyHandler) /\ queue # <<>> /\ Head(queue).h = k
  BY DEF DhtInv, StoreOK, Running
<1>2. /\ Head(queue) \in ReadyHandler /\ Tail(queue) \in Seq(ReadyHandler)
      /\ ToSet(queue) = {Head(queue)} \cup ToSet(Tail(queue))
  BY <1>1, TakeEntries
<1>3. Head(queue) \in Rounds <=> k \in {"tick", "get_remote_nodes"}
  BY <1>1, <1>2 DEF Rounds
<1>4. k \notin {"tick", "get_remote_nodes"} => Keeps(queue, Tail(queue), Rounds)
  BY <1>1, <1>3, TakeKeeps
<1> QED BY <1>1, <1>2, <1>3, <1>4

\* Handlers are posted that are none of a round.
LEMMA PostOthers ==
    ASSUME NEW q \in Seq(ReadyHandler), NEW r \in Seq(ReadyHandler),
           \A e \in ToSet(r) : e.h \notin {"tick", "get_remote_nodes"}
    PROVE  /\ ToSet(q \o r) = ToSet(q) \cup ToSet(r)
           /\ Keeps(q, q \o r, Rounds)
<1>1. ToSet(r) \cap Rounds = {}
  BY DEF Rounds
<1> QED BY <1>1, PostKeeps, PostManyEntries

LEMMA PostOther ==
    ASSUME NEW q \in Seq(ReadyHandler), NEW e \in ReadyHandler,
           e.h \notin {"tick", "get_remote_nodes"}
    PROVE  /\ ToSet(Append(q, e)) = ToSet(q) \cup {e}
           /\ Keeps(q, Append(q, e), Rounds)
<1>1. Append(q, e) = q \o <<e>> /\ <<e>> \in Seq(ReadyHandler)
  BY PostIsConcat
<1>2. ToSet(<<e>>) = {e}
  BY EntriesOfTuples
<1> DEFINE r == <<e>>
<1>3. r \in Seq(ReadyHandler) /\ \A x \in ToSet(r) : x.h \notin {"tick", "get_remote_nodes"}
  BY <1>1, <1>2
<1>4. ToSet(q \o r) = ToSet(q) \cup ToSet(r) /\ Keeps(q, q \o r, Rounds)
  <2> HIDE DEF r
  <2> QED BY <1>3, PostOthers
<1> QED BY <1>1, <1>2, <1>4

LEMMA RoundKept ==
    ASSUME OneRound, Keeps(queue, queue', Rounds), timer # Off <=> timer' # Off,
           requires_tick' => requires_tick
    PROVE  OneRound'
<1>1. ToSet(queue') \cap Rounds = ToSet(queue) \cap Rounds
      /\ (AtMostOne(queue, Rounds) => AtMostOne(queue', Rounds))
  BY DEF Keeps
<1>2. Rounds' = Rounds
  BY DEF Rounds
<1>3. AtMostOne(queue', Rounds)
  BY <1>1 DEF OneRound
<1>4. timer' # Off => ToSet(queue') \cap Rounds = {}
  BY <1>1 DEF OneRound
<1>5. requires_tick' => timer' # Off \/ ToSet(queue') \cap Rounds # {}
  BY <1>1 DEF OneRound
<1>6. AtMostOne(queue, Rounds)' <=> AtMostOne(queue', Rounds)
  BY <1>2 DEF AtMostOne
<1>7. ToSet(queue)' = ToSet(queue')
  BY DEF ToSet
<1> QED BY <1>2, <1>3, <1>4, <1>5, <1>6, <1>7 DEF OneRound, Off

\* Observers but those of X are as before, and so are their handlers.
LEMMA PingsKept ==
    ASSUME NoPingForgotten, NEW X,
           \A o \in DOMAIN obs' : o \notin X =>
              /\ o \in DOMAIN obs /\ obs'[o].pong = obs[o].pong
              /\ obs'[o].settled = obs[o].settled
              /\ obs[o].timer # Off => obs'[o].timer # Off,
           \A e \in ToSet(queue) : e.h \in OfObserver /\ e.o \notin X => e \in ToSet(queue'),
           \A o \in DOMAIN obs' : o \in X /\ o.role # "find_node" /\ ~obs'[o].settled =>
              Pending(o, obs', queue')
    PROVE  NoPingForgotten'
<1>1. ASSUME NEW o \in DOMAIN obs', o.role # "find_node", ~obs'[o].settled, o \notin X
      PROVE  Pending(o, obs', queue')
  <2>1. Pending(o, obs, queue)
    BY <1>1 DEF NoPingForgotten
  <2>2. \A k \in {"timeout", "pong", "on_timeout"} :
           Ready(queue, k, o) => Ready(queue', k, o)
    BY <1>1 DEF Ready, OfObserver
  <2>3. obs'[o].pong = obs[o].pong /\ (obs[o].timer # Off => obs'[o].timer # Off)
    BY <1>1
  <2> QED BY <2>1, <2>2, <2>3 DEF Pending
<1>2. ASSUME NEW o \in DOMAIN obs', o.role # "find_node", ~obs'[o].settled
      PROVE  Pending(o, obs', queue')
  BY <1>1, <1>2
<1>3. \A o : Pending(o, obs', queue') <=> Pending(o, obs, queue)'
  BY DEF Pending, Ready, ToSet, Off
<1> QED BY <1>2, <1>3 DEF NoPingForgotten

\* The round stays open: its unsettled pings were there, and no timer starts.
LEMMA RoundStaysOpen ==
    ASSUME RoundOpen, timer' = timer, timer_fn' = timer_fn,
           \A o \in DOMAIN obs' : o.role = "refresh" /\ ~obs'[o].settled =>
              /\ o \in DOMAIN obs /\ ~obs[o].settled
              /\ obs'[o].timer # Off => obs'[o].timer = obs[o].timer
    PROVE  RoundOpen'
  BY DEF RoundOpen, Off

\* When a handler of a round runs, every refresh ping is settled.
LEMMA RoundSettled ==
    ASSUME DhtInv, DueInv, ~Stall, Running("tick") \/ Running("get_remote_nodes")
    PROVE  \A o \in DOMAIN obs : o.role = "refresh" => obs[o].settled
<1>1. Head(queue) \in Rounds /\ Head(queue) \in ToSet(queue)
  BY TakeHandler
<1>2. timer = Off
  BY <1>1 DEF DueInv, OneRound
<1> QED BY <1>2 DEF DueInv, RoundOpen, Off

LEMMA DueInit == Init => DueInv
<1> SUFFICES ASSUME Init PROVE DueInv
  OBVIOUS
<1>1. queue = <<TickHandler>> /\ ToSet(queue) = {TickHandler}
  BY EntriesOfTuples DEF Init
<1>2. AtMostOne(queue, Rounds)
  BY <1>1, OneOfTuples
<1>3. TickHandler \in Rounds
  BY DEF TickHandler, ReadyHandler, Rounds
<1>4. DOMAIN obs = {} /\ timer = Off
  BY DEF Init
<1> QED BY <1>1, <1>2, <1>3, <1>4 DEF DueInv, OneRound, NoPingForgotten, RoundOpen

\* The observers that are new have a running timer, if they are pings.
LEMMA AddedObservers ==
    ASSUME NEW role \in Role, NEW nodes, NEW ids, ids = FreshIds(role, nodes)
    PROVE  /\ \A o \in DOMAIN add_observers(ids) : o \in DOMAIN obs \/ o \in ids
           /\ \A o \in ids : o.role = role
           /\ \A o \in DOMAIN obs : add_observers(ids)[o] = obs[o]
           /\ \A o \in ids \ DOMAIN obs :
                 LET v == add_observers(ids)[o]
                 IN  role # "find_node" =>
                        ~v.pong /\ ~v.settled /\ v.timer = PingTimer /\ v.timer # Off
<1>1. \A o \in ids : o.role = role
  BY DEF FreshIds
<1>2. PingTimer \in Nat /\ PingTimer # Off
  BY TimerAssumption DEF Off
<1> QED BY <1>1, <1>2 DEF add_observers, NewObserver

LEMMA TickDue == ASSUME DhtInv, DueInv, tick PROVE DueInv'
<1>1. Running("tick")
  BY DEF tick
<1>2. /\ Head(queue) \in Rounds /\ Head(queue).h = "tick"
      /\ ToSet(queue) = {Head(queue)} \cup ToSet(Tail(queue))
      /\ queue \in Seq(ReadyHandler) /\ queue # <<>>
  BY <1>1, TakeHandler DEF DhtInv, StoreOK, Running
<1>3. timer = Off /\ AtMostOne(queue, Rounds)
  BY <1>2 DEF DueInv, OneRound
<1>4. AtMostOne(Tail(queue), Rounds) /\ ToSet(Tail(queue)) \cap Rounds = {}
  BY <1>2, <1>3, TakeOne
<1>5. \A e \in ToSet(queue) : e.h \in OfObserver => e \in ToSet(Tail(queue))
  BY <1>2 DEF OfObserver
<1>6. CASE requires_tick
  <2> DEFINE ids == FreshIds("refresh", AllNodes)
             new == add_observers(ids)
  <2>1. /\ Becomes(new, Tail(queue), net \cup Requests(ids, {}))
        /\ timer' = RefreshWait /\ timer_fn' = "get_remote_nodes"
        /\ requires_tick' = requires_tick
    BY <1>6 DEF tick, send_refresh_ping, ping_request
  <2>i. ids = FreshIds("refresh", AllNodes) /\ "refresh" \in Role
    BY DEF Role
  <2> HIDE DEF ids
  <2>2. /\ \A o \in DOMAIN new : o \in DOMAIN obs \/ o \in ids
        /\ \A o \in DOMAIN obs : new[o] = obs[o]
        /\ \A o \in ids \ DOMAIN obs :
              ~new[o].pong /\ ~new[o].settled /\ new[o].timer = PingTimer /\ new[o].timer # Off
    BY <2>i, AddedObservers
  <2> HIDE DEF new
  <2>3. /\ DOMAIN obs' \subseteq DOMAIN new /\ queue' = Tail(queue)
        /\ \A o \in DOMAIN obs' : obs'[o] = new[o]
    BY <2>1, BecomesKeeps
  <2>4. RefreshWait \in Nat /\ RefreshWait > 0 /\ PingTimer < RefreshWait
    BY TimerAssumption
  <2>5. OneRound'
    <3>1. AtMostOne(queue', Rounds) /\ ToSet(queue') \cap Rounds = {} /\ timer' # Off
      BY <1>4, <2>1, <2>3, <2>4 DEF Off
    <3> QED BY <3>1 DEF OneRound, AtMostOne, Rounds, ToSet, Off
  <2>6. NoPingForgotten'
    <3> DEFINE X == ids \ DOMAIN obs
    <3>1. \A o \in DOMAIN obs' : o \notin X => o \in DOMAIN obs /\ obs'[o] = obs[o]
      BY <2>2, <2>3
    <3>2. \A o \in DOMAIN obs' : o \in X => Pending(o, obs', queue')
      BY <2>2, <2>3 DEF Pending
    <3> HIDE DEF X
    <3> QED BY <1>5, <2>3, <3>1, <3>2, PingsKept DEF DueInv
  <2>7. ~Stall => RoundOpen'
    <3> SUFFICES ASSUME ~Stall, NEW o \in DOMAIN obs', o.role = "refresh", ~obs'[o].settled
                 PROVE  timer_fn' = "get_remote_nodes" /\ timer' > 0
                        /\ (obs'[o].timer # Off => obs'[o].timer < timer')
      BY DEF RoundOpen, Off
    <3>1. o \in ids \ DOMAIN obs
      BY <1>1, <2>2, <2>3, RoundSettled
    <3> QED BY <2>1, <2>2, <2>3, <2>4, <3>1
  <2> QED BY <2>5, <2>6, <2>7 DEF DueInv
<1>7. CASE ~requires_tick
  <2>1. /\ Becomes(obs, Tail(queue), net)
        /\ timer' = timer /\ timer_fn' = timer_fn /\ requires_tick' = requires_tick
    BY <1>7 DEF tick
  <2>2. /\ DOMAIN obs' \subseteq DOMAIN obs /\ queue' = Tail(queue)
        /\ \A o \in DOMAIN obs' : obs'[o] = obs[o]
    BY <2>1, BecomesKeeps
  <2>3. OneRound'
    BY <1>3, <1>4, <1>7, <2>1, <2>2 DEF OneRound, AtMostOne, Rounds, ToSet, Off
  <2>4. NoPingForgotten'
    <3> DEFINE X == {}
    <3>1. \A x : x \notin X
      OBVIOUS
    <3> HIDE DEF X
    <3> QED BY <1>5, <2>2, <3>1, PingsKept DEF DueInv
  <2>5. ~Stall => RoundOpen'
    BY <2>1, <2>2, RoundStaysOpen DEF DueInv
  <2> QED BY <2>3, <2>4, <2>5 DEF DueInv
<1> QED BY <1>6, <1>7

LEMMA GetRemoteNodesDue == ASSUME DhtInv, DueInv, get_remote_nodes PROVE DueInv'
<1>1. Running("get_remote_nodes")
  BY DEF get_remote_nodes
<1>2. /\ Head(queue) \in Rounds /\ Head(queue).h = "get_remote_nodes"
      /\ ToSet(queue) = {Head(queue)} \cup ToSet(Tail(queue))
      /\ queue \in Seq(ReadyHandler) /\ queue # <<>>
  BY <1>1, TakeHandler DEF DhtInv, StoreOK, Running
<1>3. timer = Off /\ AtMostOne(queue, Rounds)
  BY <1>2 DEF DueInv, OneRound
<1>4. AtMostOne(Tail(queue), Rounds) /\ ToSet(Tail(queue)) \cap Rounds = {}
  BY <1>2, <1>3, TakeOne
<1>5. \A e \in ToSet(queue) : e.h \in OfObserver => e \in ToSet(Tail(queue))
  BY <1>2 DEF OfObserver
<1> DEFINE found_eps == RT!collect_endpoint(RootNode, FindCount, {})
           eps == IF RT!get_node_count < MINIMUM_NODES
                  THEN {n \in Node : RT!BucketHas(found_eps, n)} ELSE {}
           ids == FreshIds("find_node", eps)
           new == add_observers(ids)
<1>6. /\ Becomes(new, Tail(queue), net \cup Requests(ids, eps))
      /\ tick_done /\ requires_tick' = requires_tick
  BY DEF get_remote_nodes, find_node_request
<1>i. ids = FreshIds("find_node", eps) /\ "find_node" \in Role
  BY DEF Role
<1> HIDE DEF ids, eps
<1>7. /\ \A o \in DOMAIN new : o \in DOMAIN obs \/ o \in ids
      /\ \A o \in DOMAIN obs : new[o] = obs[o]
      /\ \A o \in ids : o.role = "find_node"
  BY <1>i, AddedObservers
<1> HIDE DEF new
<1>8. /\ DOMAIN obs' \subseteq DOMAIN new /\ queue' = Tail(queue)
      /\ \A o \in DOMAIN obs' : obs'[o] = new[o]
  BY <1>6, BecomesKeeps
<1>9. OneRound'
  <2>1. /\ timer' # Off \/ ~requires_tick'
        /\ AtMostOne(queue', Rounds) /\ ToSet(queue') \cap Rounds = {}
    <3>1. TickWait \in Nat
      BY TimerAssumption
    <3> QED BY <1>4, <1>6, <1>8, <3>1 DEF tick_done, Off
  <2> QED BY <2>1 DEF OneRound, AtMostOne, Rounds, ToSet, Off
<1>10. NoPingForgotten'
  <2> DEFINE X == ids \ DOMAIN obs
  <2>1. \A o \in DOMAIN obs' : o \notin X => o \in DOMAIN obs /\ obs'[o] = obs[o]
    BY <1>7, <1>8
  <2>2. \A o \in DOMAIN obs' : o \in X => o.role = "find_node"
    BY <1>7
  <2> HIDE DEF X
  <2> QED BY <1>5, <1>8, <2>1, <2>2, PingsKept DEF DueInv
<1>11. ~Stall => RoundOpen'
  <2> SUFFICES ASSUME ~Stall, NEW o \in DOMAIN obs', o.role = "refresh"
               PROVE  obs'[o].settled
    BY DEF RoundOpen, Off
  <2>1. o \in DOMAIN obs /\ obs'[o] = obs[o]
    BY <1>7, <1>8
  <2> QED BY <1>1, <2>1, RoundSettled
<1> QED BY <1>9, <1>10, <1>11 DEF DueInv

\* A handler of an observer o runs, or a packet for it: whatever it does, the
\* other observers and their handlers are left, no round starts or ends, and o
\* is settled or has a handler.
LEMMA ObserverDue ==
    ASSUME DhtInv, DueInv, Keeps(queue, queue', Rounds),
           timer' = timer, timer_fn' = timer_fn, requires_tick' = requires_tick,
           NEW X,
           \A o \in DOMAIN obs' : o \notin X =>
              /\ o \in DOMAIN obs /\ obs'[o].pong = obs[o].pong
              /\ obs'[o].settled = obs[o].settled /\ obs'[o].timer = obs[o].timer,
           \A e \in ToSet(queue) : e.h \in OfObserver /\ e.o \notin X => e \in ToSet(queue'),
           \A o \in DOMAIN obs' : o \in X /\ o.role # "find_node" /\ ~obs'[o].settled =>
              Pending(o, obs', queue'),
           \A o \in DOMAIN obs' : o \in X /\ o.role = "refresh" /\ ~obs'[o].settled =>
              /\ o \in DOMAIN obs /\ ~obs[o].settled
              /\ obs'[o].timer # Off => obs'[o].timer = obs[o].timer
    PROVE  DueInv'
<1>1. OneRound'
  BY RoundKept DEF DueInv
<1>2. NoPingForgotten'
  BY PingsKept DEF DueInv
<1>3. ASSUME ~Stall PROVE RoundOpen'
  <2>1. \A o \in DOMAIN obs' : o.role = "refresh" /\ ~obs'[o].settled =>
              /\ o \in DOMAIN obs /\ ~obs[o].settled
              /\ obs'[o].timer # Off => obs'[o].timer = obs[o].timer
    OBVIOUS
  <2> QED BY <1>3, <2>1, RoundStaysOpen DEF DueInv
<1> QED BY <1>1, <1>2, <1>3 DEF DueInv

\* A step that leaves the observers, and takes no handler of theirs.
LEMMA NothingDue ==
    ASSUME DhtInv, DueInv, Keeps(queue, queue', Rounds),
           timer' = timer, timer_fn' = timer_fn, requires_tick' = requires_tick,
           \A o \in DOMAIN obs' :
              /\ o \in DOMAIN obs /\ obs'[o].pong = obs[o].pong
              /\ obs'[o].settled = obs[o].settled /\ obs'[o].timer = obs[o].timer,
           \A e \in ToSet(queue) : e.h \in OfObserver => e \in ToSet(queue')
    PROVE  DueInv'
<1> DEFINE X == {}
<1>1. \A x : x \notin X
  OBVIOUS
<1> HIDE DEF X
<1> QED BY <1>1, ObserverDue

LEMMA TimeoutDue == ASSUME DhtInv, DueInv, timeout PROVE DueInv'
<1> DEFINE o == Head(queue).o
           t == Tail(queue)
<1>1. /\ t \in Seq(ReadyHandler) /\ Head(queue).h = "timeout"
      /\ ToSet(queue) = {Head(queue)} \cup ToSet(t)
      /\ Keeps(queue, t, Rounds)
      /\ o \in ObsId /\ o \in DOMAIN obs
  BY TakeHandler, RunningHandler, HandlerKinds DEF timeout
<1>2. timer' = timer /\ timer_fn' = timer_fn /\ requires_tick' = requires_tick
  BY DEF timeout
<1>3. \A e \in ToSet(queue) : e.h \in OfObserver /\ e.o # o => e \in ToSet(t)
  BY <1>1
<1>o. \A x : x \in {o} <=> x = o
  OBVIOUS
<1>4. CASE obs[o].pong
  <2>1. Becomes(obs, t, net)
    BY <1>4 DEF timeout
  <2>2. /\ DOMAIN obs' \subseteq DOMAIN obs /\ queue' = t
        /\ \A x \in DOMAIN obs' : obs'[x] = obs[x]
    BY <2>1, BecomesKeeps
  <2>3. o.role # "find_node" /\ ~obs[o].settled =>
           Ready(t, "pong", o) \/ Ready(t, "on_timeout", o)
    <3>1. o.role # "find_node" /\ ~obs[o].settled =>
             Ready(queue, "pong", o) \/ Ready(queue, "on_timeout", o)
      BY <1>1, <1>4 DEF DueInv, NoPingForgotten, Pending
    <3> QED BY <1>1, <3>1 DEF Ready
  <2> HIDE DEF o, t
  <2>4. \A x \in DOMAIN obs' : x \in {o} /\ x.role # "find_node" /\ ~obs'[x].settled =>
           Pending(x, obs', queue')
    BY <2>2, <2>3 DEF Pending
  <2> QED BY <1>1, <1>2, <1>3, <2>2, <2>4, ObserverDue
<1>5. CASE ~obs[o].pong
  <2> DEFINE e == [h |-> "on_timeout", o |-> o]
             new == [obs EXCEPT ![o].late = TRUE, ![o].expire = 0]
  <2>1. Becomes(new, Append(t, e), net)
    BY <1>5 DEF timeout
  <2>2. e \in ReadyHandler /\ e.h = "on_timeout" /\ e.o = o
    BY <1>1 DEF ReadyHandler
  <2>3. /\ DOMAIN new = DOMAIN obs
        /\ \A x \in DOMAIN obs : /\ new[x].pong = obs[x].pong /\ new[x].timer = obs[x].timer
                                 /\ new[x].settled = obs[x].settled
    <3>1. \A x \in DOMAIN obs : obs[x] \in Observer
      BY DEF DhtInv, StoreOK
    <3> HIDE DEF o
    <3> QED BY <1>1, <3>1 DEF Observer
  <2> HIDE DEF e, new, o, t
  <2>4. /\ DOMAIN obs' \subseteq DOMAIN new /\ queue' = Append(t, e)
        /\ \A x \in DOMAIN obs' : obs'[x] = new[x]
    BY <2>1, BecomesKeeps
  <2>5. ToSet(queue') = ToSet(t) \cup {e} /\ Keeps(t, queue', Rounds)
    BY <1>1, <2>2, <2>4, PostOther
  <2>6. Keeps(queue, queue', Rounds)
    BY <1>1, <2>5, KeepsTwice
  <2>7. Pending(o, obs', queue')
    BY <2>2, <2>5 DEF Pending, Ready
  <2> QED BY <1>2, <1>3, <2>3, <2>4, <2>5, <2>6, <2>7, <1>o, ObserverDue
<1> QED BY <1>4, <1>5

\* One of a ping's two handlers runs.
LEMMA SettledDue ==
    ASSUME DhtInv, DueInv, on_timeout \/ pong
    PROVE  DueInv'
<1> DEFINE o == Head(queue).o
           t == Tail(queue)
           new == [obs EXCEPT ![o].settled = TRUE]
<1>1. /\ t \in Seq(ReadyHandler)
      /\ ToSet(queue) = {Head(queue)} \cup ToSet(t)
      /\ Keeps(queue, t, Rounds)
      /\ o \in DOMAIN obs
  BY TakeHandler, RunningHandler, HandlerKinds DEF on_timeout, pong
<1>2. timer' = timer /\ timer_fn' = timer_fn /\ requires_tick' = requires_tick
  BY DEF on_timeout, pong
<1>3. \A e \in ToSet(queue) : e.h \in OfObserver /\ e.o # o => e \in ToSet(t)
  BY <1>1
<1>4. Becomes(new, t, net)
  BY DEF on_timeout, pong
<1>5. /\ DOMAIN new = DOMAIN obs /\ new[o].settled
      /\ \A x \in DOMAIN obs : x # o => new[x] = obs[x]
  <2>1. obs[o] \in Observer
    BY <1>1 DEF DhtInv, StoreOK
  <2> HIDE DEF o
  <2> QED BY <1>1, <2>1 DEF Observer
<1>6. \A x : x \in {o} <=> x = o
  OBVIOUS
<1> HIDE DEF new, o, t
<1>7. /\ DOMAIN obs' \subseteq DOMAIN new /\ queue' = t
      /\ \A x \in DOMAIN obs' : obs'[x] = new[x]
  BY <1>4, BecomesKeeps
<1> QED BY <1>1, <1>2, <1>3, <1>5, <1>6, <1>7, ObserverDue

LEMMA FoundDue == ASSUME DhtInv, DueInv, found PROVE DueInv'
<1> DEFINE o == Head(queue).o
           t == Tail(queue)
           nodes == {Head(queue).ep}
           ids == FreshIds("probe", nodes)
           new == add_observers(ids)
           done == [new EXCEPT ![o].settled = TRUE]
           X == {o} \cup (ids \ DOMAIN obs)
<1>1. /\ t \in Seq(ReadyHandler)
      /\ ToSet(queue) = {Head(queue)} \cup ToSet(t)
      /\ Keeps(queue, t, Rounds)
      /\ o \in DOMAIN obs
  BY TakeHandler, RunningHandler, HandlerKinds DEF found
<1>2. timer' = timer /\ timer_fn' = timer_fn /\ requires_tick' = requires_tick
  BY DEF found
<1>3. \A e \in ToSet(queue) : e.h \in OfObserver /\ e.o \notin X => e \in ToSet(t)
  BY <1>1
<1>4. Becomes(done, t, net \cup Requests(ids, {}))
  BY DEF found
<1>i. ids = FreshIds("probe", nodes) /\ "probe" \in Role
  BY DEF Role
<1>n. CanCreate("probe", nodes)
  BY DEF found
<1>x. \A x : x \in X <=> x = o \/ (x \in ids /\ x \notin DOMAIN obs)
  OBVIOUS
<1> HIDE DEF ids, nodes, X, o
<1>5. /\ \A x \in DOMAIN new : x \in DOMAIN obs \/ x \in ids
      /\ \A x \in DOMAIN obs : new[x] = obs[x]
      /\ \A x \in ids : x.role = "probe"
      /\ \A x \in ids \ DOMAIN obs :
            ~new[x].pong /\ ~new[x].settled /\ new[x].timer # Off
  BY <1>i, AddedObservers
<1>6. o \in DOMAIN new /\ new[o] \in Observer
  <2>1. obs[o] \in Observer /\ new[o] = obs[o]
    BY <1>1, <1>5 DEF DhtInv, StoreOK
  <2> QED BY <1>1, <2>1 DEF add_observers
<1> HIDE DEF new
<1>7. /\ DOMAIN done = DOMAIN new /\ done[o].settled
      /\ \A x \in DOMAIN new : x # o => done[x] = new[x]
  BY <1>6 DEF Observer
<1> HIDE DEF done, t
<1>8. /\ DOMAIN obs' \subseteq DOMAIN done /\ queue' = t
      /\ \A x \in DOMAIN obs' : obs'[x] = done[x]
  BY <1>4, BecomesKeeps
<1>9. \A x \in DOMAIN obs' : x \notin X => x \in DOMAIN obs /\ obs'[x] = obs[x]
  BY <1>5, <1>7, <1>8, <1>x
<1>10. \A x \in DOMAIN obs' : x \in X /\ ~obs'[x].settled =>
          x.role = "probe" /\ Pending(x, obs', queue')
  <2> SUFFICES ASSUME NEW x \in DOMAIN obs', x \in X, ~obs'[x].settled
               PROVE  x.role = "probe" /\ Pending(x, obs', queue')
    OBVIOUS
  <2>1. x # o /\ x \in ids /\ x \notin DOMAIN obs
    BY <1>7, <1>8, <1>x
  <2>2. obs'[x] = new[x]
    BY <1>7, <1>8, <2>1
  <2> QED BY <1>5, <2>1, <2>2 DEF Pending
<1> QED BY <1>1, <1>2, <1>3, <1>8, <1>9, <1>10, ObserverDue

\* A pong is there: its handler is posted, and ping::timeout behind it if the
\* timer was still running.
LEMMA IncomePongDue ==
    ASSUME DhtInv, DueInv, NEW t \in Seq(ReadyHandler), t = Tail(queue),
           Keeps(queue, t, Rounds), \A e \in ToSet(queue) : e.h \in OfObserver => e \in ToSet(t),
           timer' = timer, timer_fn' = timer_fn, requires_tick' = requires_tick,
           NEW o \in DOMAIN obs, income_pong(o)
    PROVE  DueInv'
<1> DEFINE new == [obs EXCEPT ![o].pong = TRUE, ![o].timer = Off, ![o].expire = 0]
           p == [h |-> "pong", o |-> o]
           x == [h |-> "timeout", o |-> o]
           r == IF obs[o].timer # Off THEN <<x>> ELSE <<>>
           tp == t \o <<p>>
<1>1. Becomes(new, tp \o r, net)
  BY DEF income_pong
<1>2. obs \in [DOMAIN obs -> Observer] /\ o \in ObsId
  BY DEF DhtInv, StoreOK
<1>3. /\ DOMAIN new = DOMAIN obs
      /\ \A y \in DOMAIN obs : y # o => new[y] = obs[y]
      /\ new[o].settled = obs[o].settled /\ new[o].timer = Off
  <2>1. obs[o] \in Observer
    BY <1>2
  <2> QED BY <1>2, <2>1 DEF Observer
<1>4. /\ p \in ReadyHandler /\ p.h = "pong" /\ p.o = o
      /\ x \in ReadyHandler /\ x.h = "timeout"
  BY <1>2 DEF ReadyHandler
<1> HIDE DEF new, p, x
<1>5. /\ <<p>> \in Seq(ReadyHandler) /\ ToSet(<<p>>) = {p}
      /\ r \in Seq(ReadyHandler) /\ ToSet(r) \subseteq {x}
  <2>1. /\ <<p>> \in Seq(ReadyHandler) /\ <<x>> \in Seq(ReadyHandler)
        /\ <<>> \in Seq(ReadyHandler)
    BY <1>4
  <2>2. ToSet(<<p>>) = {p} /\ ToSet(<<x>>) = {x} /\ ToSet(<<>>) = {}
    BY EntriesOfTuples
  <2>3. r = <<x>> \/ r = <<>>
    OBVIOUS
  <2> HIDE DEF r
  <2>4. CASE r = <<x>>
    BY <2>1, <2>2, <2>4
  <2>5. CASE r = <<>>
    BY <2>1, <2>2, <2>5
  <2> QED BY <2>1, <2>2, <2>3, <2>4, <2>5
<1> DEFINE one == <<p>>
<1>6. /\ one \in Seq(ReadyHandler) /\ tp = t \o one /\ ToSet(one) = {p}
      /\ \A e \in ToSet(one) : e.h \notin {"tick", "get_remote_nodes"}
      /\ \A e \in ToSet(r) : e.h \notin {"tick", "get_remote_nodes"}
  BY <1>4, <1>5
<1> HIDE DEF r, one, tp
<1>7. tp \in Seq(ReadyHandler) /\ ToSet(tp) = ToSet(t) \cup {p} /\ Keeps(t, tp, Rounds)
  BY <1>6, PostOthers, PostManyEntries
<1> DEFINE tpr == tp \o r
<1>8. ToSet(tpr) = ToSet(tp) \cup ToSet(r) /\ Keeps(tp, tpr, Rounds)
  BY <1>5, <1>6, <1>7, PostOthers
<1> HIDE DEF tpr
<1>9. Keeps(queue, tpr, Rounds)
  BY <1>7, <1>8, KeepsTwice
<1>10. /\ DOMAIN obs' \subseteq DOMAIN new /\ queue' = tpr
       /\ \A y \in DOMAIN obs' : obs'[y] = new[y]
  BY <1>1, BecomesKeeps DEF tpr
<1>11. Pending(o, obs', queue')
  BY <1>4, <1>7, <1>8, <1>10 DEF Pending, Ready
<1>12. \A y : y \in {o} <=> y = o
  OBVIOUS
<1>13. /\ \A y \in DOMAIN obs' : y \notin {o} => y \in DOMAIN obs /\ obs'[y] = obs[y]
       /\ \A y \in DOMAIN obs' : y \in {o} =>
             obs'[y].settled = obs[y].settled /\ obs'[y].timer = Off
  BY <1>3, <1>10, <1>12
<1>14. \A e \in ToSet(queue) : e.h \in OfObserver /\ e.o \notin {o} => e \in ToSet(queue')
  BY <1>7, <1>8, <1>10
<1> QED BY <1>9, <1>10, <1>11, <1>12, <1>13, <1>14, ObserverDue

\* The answer to a find_node posts a handler for every endpoint.
LEMMA IncomeFoundDue ==
    ASSUME DhtInv, DueInv, NEW t \in Seq(ReadyHandler), t = Tail(queue),
           Keeps(queue, t, Rounds), \A e \in ToSet(queue) : e.h \in OfObserver => e \in ToSet(t),
           timer' = timer, timer_fn' = timer_fn, requires_tick' = requires_tick,
           NEW o \in DOMAIN obs, NEW eps \in SUBSET Node, income_found(o, eps)
    PROVE  DueInv'
<1> DEFINE new == [obs EXCEPT ![o].expire = 0]
           R(order) == [i \in DOMAIN order |-> [h |-> "found", o |-> o, ep |-> order[i]]]
<1>1. PICK order \in SetToSeqs(eps) : Becomes(new, t \o R(order), net)
  BY DEF income_found
<1> DEFINE r == R(order)
<1>2. obs \in [DOMAIN obs -> Observer] /\ o \in ObsId
  BY DEF DhtInv, StoreOK
<1>3. /\ DOMAIN new = DOMAIN obs
      /\ \A y \in DOMAIN obs : /\ new[y].pong = obs[y].pong /\ new[y].timer = obs[y].timer
                               /\ new[y].settled = obs[y].settled
  <2>1. \A y \in DOMAIN obs : obs[y] \in Observer
    BY <1>2
  <2> QED BY <1>2, <2>1 DEF Observer
<1>4. /\ DOMAIN order = 1 .. Cardinality(eps) /\ Cardinality(eps) \in Nat
      /\ \A i \in 1 .. Cardinality(eps) : order[i] \in Node
  <2>1. order \in [1 .. Cardinality(eps) -> eps]
    BY DEF SetToSeqs
  <2>2. Cardinality(eps) \in Nat
    BY TableAssumption, FS_Subset, FS_CardinalityType
  <2> QED BY <2>1, <2>2
<1>5. \A n \in Node : LET e == [h |-> "found", o |-> o, ep |-> n]
                      IN  e \in ReadyHandler /\ e.h = "found"
  BY <1>2 DEF ReadyHandler
<1>6. /\ r \in [1 .. Cardinality(eps) -> ReadyHandler]
      /\ \A i \in 1 .. Cardinality(eps) : r[i].h = "found"
  BY <1>4, <1>5
<1>7. Becomes(new, t \o r, net)
  BY <1>1
<1> HIDE DEF new, R, r
<1>8. r \in Seq(ReadyHandler)
  BY <1>4, <1>6, SeqDef
<1>9. \A e \in ToSet(r) : e.h \notin {"tick", "get_remote_nodes"}
  BY <1>6 DEF ToSet
<1> DEFINE tr == t \o r
<1>10. ToSet(tr) = ToSet(t) \cup ToSet(r) /\ Keeps(t, tr, Rounds)
  BY <1>8, <1>9, PostOthers
<1> HIDE DEF tr
<1>11. Keeps(queue, tr, Rounds)
  BY <1>10, KeepsTwice
<1>12. /\ DOMAIN obs' \subseteq DOMAIN new /\ queue' = tr
       /\ \A y \in DOMAIN obs' : obs'[y] = new[y]
  BY <1>7, BecomesKeeps DEF tr
<1> QED BY <1>3, <1>10, <1>11, <1>12, NothingDue

LEMMA IncomeDue == ASSUME DhtInv, DueInv, income_message PROVE DueInv'
<1> DEFINE o == Head(queue).packet.o
           eps == Head(queue).packet.eps
           t == Tail(queue)
<1>1. Running("income")
  BY DEF income_message
<1>2. /\ t \in Seq(ReadyHandler)
      /\ Head(queue) \in ReadyHandler /\ Head(queue).h = "income"
      /\ ToSet(queue) = {Head(queue)} \cup ToSet(t)
      /\ Keeps(queue, t, Rounds)
  BY <1>1, TakeHandler
<1>3. \A e \in ToSet(queue) : e.h \in OfObserver => e \in ToSet(t)
  BY <1>2 DEF OfObserver
<1>4. eps \in SUBSET Node
  BY <1>2, HandlerKinds DEF k_message
<1>5. timer' = timer /\ timer_fn' = timer_fn /\ requires_tick' = requires_tick
  BY DEF income_message
<1>6. \/ o \in DOMAIN obs /\ income_pong(o)
      \/ o \in DOMAIN obs /\ income_found(o, eps)
      \/ Becomes(obs, t, net)
  BY DEF income_message, Stored, ping_response
<1>t. t = Tail(queue)
  OBVIOUS
<1> HIDE DEF o, eps, t
<1>7. CASE o \in DOMAIN obs /\ income_pong(o)
  BY <1>2, <1>3, <1>5, <1>7, <1>t, IncomePongDue
<1>8. CASE o \in DOMAIN obs /\ income_found(o, eps)
  BY <1>2, <1>3, <1>4, <1>5, <1>8, <1>t, IncomeFoundDue
<1>9. CASE Becomes(obs, t, net)
  <2>1. /\ DOMAIN obs' \subseteq DOMAIN obs /\ queue' = t
        /\ \A x \in DOMAIN obs' : obs'[x] = obs[x]
    BY <1>9, BecomesKeeps
  <2> QED BY <1>2, <1>3, <1>5, <2>1, NothingDue
<1> QED BY <1>6, <1>7, <1>8, <1>9

LEMMA RefreshTickDue == ASSUME DhtInv, DueInv, refresh_tick PROVE DueInv'
<1> DEFINE new == [o \in DOMAIN obs |-> [obs[o] EXCEPT !.freed = @ \/ is_expired(o)]]
           t == Tail(queue)
<1>1. /\ Head(queue).h = "refresh_tick"
      /\ ToSet(queue) = {Head(queue)} \cup ToSet(t)
      /\ Keeps(queue, t, Rounds)
  BY TakeHandler DEF refresh_tick
<1>2. timer' = timer /\ timer_fn' = timer_fn /\ requires_tick' = requires_tick
      /\ Becomes(new, t, net)
  BY DEF refresh_tick
<1>3. /\ DOMAIN new = DOMAIN obs
      /\ \A y \in DOMAIN obs : /\ new[y].pong = obs[y].pong /\ new[y].timer = obs[y].timer
                               /\ new[y].settled = obs[y].settled
  <2>1. \A y \in DOMAIN obs : obs[y] \in Observer
    BY DEF DhtInv, StoreOK
  <2> QED BY <2>1 DEF Observer
<1> HIDE DEF new, t
<1>4. /\ DOMAIN obs' \subseteq DOMAIN new /\ queue' = t
      /\ \A y \in DOMAIN obs' : obs'[y] = new[y]
  BY <1>2, BecomesKeeps
<1>5. \A e \in ToSet(queue) : e.h \in OfObserver => e \in ToSet(t)
  BY <1>1 DEF OfObserver
<1> QED BY <1>1, <1>2, <1>3, <1>4, <1>5, NothingDue

LEMMA RoundTimerDue == ASSUME DhtInv, DueInv, MaintainerTimerDue PROVE DueInv'
<1> DEFINE e == [h |-> timer_fn]
<1>1. timer = 0 /\ timer' = Off /\ queue' = Append(queue, e) /\ obs' = obs
      /\ timer_fn' = timer_fn /\ requires_tick' = requires_tick
  BY DEF MaintainerTimerDue
<1>2. e \in ReadyHandler /\ e \in Rounds /\ e.h \notin OfObserver
  BY DEF DhtInv, RestOK, ReadyHandler, Rounds, OfObserver
<1> HIDE DEF e
<1>3. queue \in Seq(ReadyHandler) /\ queue' = queue \o <<e>> /\ <<e>> \in Seq(ReadyHandler)
  BY <1>1, <1>2, PostIsConcat DEF DhtInv, StoreOK
<1>4. ToSet(queue') = ToSet(queue) \cup {e}
  <2>1. queue \in Seq(ReadyHandler)
    BY <1>3
  <2> QED BY <1>1, <1>2, <2>1, PostEntries
<1>5. ToSet(queue) \cap Rounds = {} /\ AtMostOne(queue, Rounds)
  BY <1>1 DEF DueInv, OneRound, Off
<1>6. AtMostOne(queue', Rounds)
  BY <1>3, <1>5, OneOfTuples, PostOne
<1>7. OneRound'
  <2>1. ToSet(queue') \cap Rounds # {}
    BY <1>2, <1>4
  <2> QED BY <1>1, <1>6, <2>1 DEF OneRound, AtMostOne, Rounds, ToSet, Off
<1>8. NoPingForgotten'
  <2> DEFINE X == {}
  <2>1. \A x : x \notin X
    OBVIOUS
  <2> HIDE DEF X
  <2> QED BY <1>1, <1>4, <2>1, PingsKept DEF DueInv
<1>9. ~Stall => RoundOpen'
  BY <1>1 DEF DueInv, RoundOpen, Off
<1> QED BY <1>7, <1>8, <1>9 DEF DueInv

LEMMA TimerOfPingDue ==
    ASSUME DhtInv, DueInv, NEW o \in DOMAIN obs, PingTimerDue(o)
    PROVE  DueInv'
<1> DEFINE new == [obs EXCEPT ![o].timer = Off]
           e == [h |-> "timeout", o |-> o]
<1>1. /\ obs[o].timer = 0 /\ obs' = new /\ queue' = Append(queue, e)
      /\ timer' = timer /\ timer_fn' = timer_fn /\ requires_tick' = requires_tick
  BY DEF PingTimerDue
<1>2. /\ obs \in [DOMAIN obs -> Observer] /\ o \in ObsId
      /\ queue \in Seq(ReadyHandler)
  BY DEF DhtInv, StoreOK
<1>3. /\ DOMAIN new = DOMAIN obs
      /\ \A y \in DOMAIN obs : y # o => new[y] = obs[y]
      /\ new[o].settled = obs[o].settled /\ new[o].pong = obs[o].pong /\ new[o].timer = Off
  <2>1. obs[o] \in Observer
    BY <1>2
  <2> QED BY <1>2, <2>1 DEF Observer
<1>4. e \in ReadyHandler /\ e.h = "timeout" /\ e.o = o
  BY <1>2 DEF ReadyHandler
<1> HIDE DEF new, e
<1>5. ToSet(queue') = ToSet(queue) \cup {e} /\ Keeps(queue, queue', Rounds)
  BY <1>1, <1>2, <1>4, PostOther
<1>6. o.role # "find_node" /\ ~obs'[o].settled => Pending(o, obs', queue')
  <2> SUFFICES ASSUME o.role # "find_node", ~obs'[o].settled PROVE Pending(o, obs', queue')
    OBVIOUS
  <2>1. Pending(o, obs, queue)
    BY <1>1, <1>3 DEF DueInv, NoPingForgotten
  <2>2. Ready(queue', "timeout", o)
    BY <1>4, <1>5 DEF Ready
  <2>3. \A k : Ready(queue, k, o) => Ready(queue', k, o)
    BY <1>5 DEF Ready
  <2> QED BY <1>1, <1>3, <2>1, <2>2, <2>3 DEF Pending
<1>7. \A y : y \in {o} <=> y = o
  OBVIOUS
<1>8. /\ \A y \in DOMAIN obs' : y \notin {o} => y \in DOMAIN obs /\ obs'[y] = obs[y]
      /\ \A y \in DOMAIN obs' : y \in {o} =>
            obs'[y].settled = obs[y].settled /\ obs'[y].timer = Off
  BY <1>1, <1>3, <1>7
<1>9. \A f \in ToSet(queue) : f.h \in OfObserver /\ f.o \notin {o} => f \in ToSet(queue')
  BY <1>5
<1> QED BY <1>1, <1>5, <1>6, <1>7, <1>8, <1>9, ObserverDue

\* Time passes: a timer that runs goes on running.  A thread that keeps up has
\* no handler left, so every unsettled ping still has its timer, which has not
\* come; the maintainer's, which is behind it, has not come either.
LEMMA TimePassesDue == ASSUME DhtInv, DueInv, TimePasses PROVE DueInv'
<1> DEFINE new == [o \in DOMAIN obs |-> [obs[o] EXCEPT !.timer = Elapsed(@),
                                                       !.expire = Elapsed(@)]]
           packets == {[p EXCEPT !.left = @ - 1] : p \in {x \in net : x.left > 0}}
<1>1. /\ timer # 0 /\ \A o \in DOMAIN obs : obs[o].timer # 0
      /\ Stall \/ queue = <<>>
      /\ timer' = Elapsed(timer) /\ Becomes(new, queue, packets)
      /\ timer_fn' = timer_fn /\ requires_tick' = requires_tick
  BY DEF TimePasses
<1>2. \A o \in DOMAIN obs : obs[o].timer \in Int /\ obs[o].timer >= Off
  <2>1. Max({PingTimer, RefreshWait}) \in Nat
    BY TimerAssumption, MaxOfTwo
  <2>2. \A o \in DOMAIN obs : obs[o].timer \in {Off} \cup 0 .. Max({PingTimer, RefreshWait})
    BY DEF DhtInv, StoreOK, Observer
  <2> QED BY <2>1, <2>2 DEF Off
<1>3. timer \in Int /\ timer >= Off
  <2>1. Max({RefreshWait, TickWait}) \in Nat
    BY TimerAssumption, MaxOfTwo
  <2>2. timer \in {Off} \cup 0 .. Max({RefreshWait, TickWait})
    BY DEF DhtInv, RestOK
  <2> QED BY <2>1, <2>2 DEF Off
<1>4. \A t \in Int : /\ t = Off => Elapsed(t) = Off
                     /\ t > 0 => Elapsed(t) = t - 1 /\ Elapsed(t) # Off
  BY DEF Elapsed, Off
<1>5. \A t \in Int : t >= Off /\ t # 0 => t = Off \/ t > 0
  BY DEF Off
<1>6. /\ DOMAIN new = DOMAIN obs
      /\ \A y \in DOMAIN obs : /\ new[y].pong = obs[y].pong
                               /\ new[y].settled = obs[y].settled
                               /\ new[y].timer = Elapsed(obs[y].timer)
  <2>1. \A y \in DOMAIN obs : obs[y] \in Observer
    BY DEF DhtInv, StoreOK
  <2> QED BY <2>1 DEF Observer
<1> HIDE DEF new, packets
<1>7. /\ DOMAIN obs' \subseteq DOMAIN obs /\ queue' = queue
      /\ \A y \in DOMAIN obs' : obs'[y] = new[y]
  BY <1>1, <1>6, BecomesKeeps
<1>8. \A y \in DOMAIN obs' : /\ y \in DOMAIN obs /\ obs'[y].pong = obs[y].pong
                             /\ obs'[y].settled = obs[y].settled
                             /\ obs'[y].timer = Elapsed(obs[y].timer)
  BY <1>6, <1>7
<1>9. OneRound'
  <2>1. timer # Off <=> timer' # Off
    BY <1>1, <1>3, <1>4, <1>5
  <2> QED BY <1>1, <1>7, <2>1, KeepsSelf, RoundKept DEF DueInv
<1>10. NoPingForgotten'
  <2> DEFINE X == {}
  <2>1. \A x : x \notin X
    OBVIOUS
  <2>2. \A y \in DOMAIN obs' : obs[y].timer # Off => obs'[y].timer # Off
    BY <1>1, <1>2, <1>4, <1>5, <1>8
  <2> HIDE DEF X
  <2> QED BY <1>7, <1>8, <2>1, <2>2, PingsKept DEF DueInv
<1>11. ASSUME ~Stall PROVE RoundOpen'
  <2> SUFFICES ASSUME NEW o \in DOMAIN obs', o.role = "refresh", ~obs'[o].settled
               PROVE  timer_fn' = "get_remote_nodes" /\ timer' > 0
                      /\ (obs'[o].timer # Off => obs'[o].timer < timer')
    BY DEF RoundOpen, Off
  <2>1. o \in DOMAIN obs /\ ~obs[o].settled
    BY <1>8
  <2>2. /\ timer_fn = "get_remote_nodes" /\ timer > 0
        /\ obs[o].timer # Off => obs[o].timer < timer
    BY <1>11, <2>1 DEF DueInv, RoundOpen
  <2>3. Pending(o, obs, queue)
    BY <2>1 DEF DueInv, NoPingForgotten
  <2>4. ToSet(queue) = {}
    BY <1>1, <1>11, EntriesOfTuples
  <2>5. obs[o].timer # Off
    BY <2>3, <2>4 DEF Pending, Ready
  <2>6. obs[o].timer > 0 /\ obs[o].timer < timer
    BY <1>1, <1>2, <1>5, <2>1, <2>2, <2>5
  <2>7. timer' = timer - 1 /\ obs'[o].timer = obs[o].timer - 1
    BY <1>1, <1>2, <1>3, <1>4, <1>8, <2>1, <2>2, <2>6
  <2>8. obs[o].timer \in Int
    BY <1>2, <2>1
  <2> QED BY <1>1, <1>3, <2>2, <2>6, <2>7, <2>8
<1> QED BY <1>9, <1>10, <1>11 DEF DueInv

\* A packet arrives, or another handler is posted that is none of a round.
LEMMA ArrivalDue ==
    ASSUME DhtInv, DueInv, NEW e \in ReadyHandler, e.h \notin {"tick", "get_remote_nodes"},
           queue' = Append(queue, e), obs' = obs,
           timer' = timer, timer_fn' = timer_fn, requires_tick' = requires_tick
    PROVE  DueInv'
<1>1. queue \in Seq(ReadyHandler)
  BY DEF DhtInv, StoreOK
<1>2. ToSet(queue') = ToSet(queue) \cup {e} /\ Keeps(queue, queue', Rounds)
  BY <1>1, PostOther
<1> QED BY <1>2, NothingDue

\* Nothing the rounds and the pings depend on changes, but stop may come.
LEMMA UnchangedDue ==
    ASSUME DhtInv, DueInv, UNCHANGED <<queue, timer, timer_fn>>,
           requires_tick' => requires_tick, DOMAIN obs' \subseteq DOMAIN obs,
           \A o \in DOMAIN obs' : obs'[o] = obs[o]
    PROVE  DueInv'
<1>1. OneRound'
  BY KeepsSelf, RoundKept DEF DueInv
<1>2. NoPingForgotten'
  <2> DEFINE X == {}
  <2>1. \A x : x \notin X
    OBVIOUS
  <2> HIDE DEF X
  <2> QED BY <2>1, PingsKept DEF DueInv
<1>3. ~Stall => RoundOpen'
  BY RoundStaysOpen DEF DueInv
<1> QED BY <1>1, <1>2, <1>3 DEF DueInv

LEMMA EnvironmentDue == ASSUME DhtInv, DueInv, Environment PROVE DueInv'
<1>1. ASSUME NEW packet \in k_message, Arrival(packet),
             UNCHANGED <<obs, timer, timer_fn, requires_tick>>
      PROVE  DueInv'
  <2> DEFINE e == [h |-> "income", packet |-> packet]
  <2>1. e \in ReadyHandler /\ e.h \notin {"tick", "get_remote_nodes"}
    BY DEF ReadyHandler
  <2>2. queue' = Append(queue, e)
    BY <1>1 DEF Arrival
  <2> HIDE DEF e
  <2> QED BY <1>1, <2>1, <2>2, ArrivalDue
<1>2. ASSUME NEW n \in Node, PeerPings(n) PROVE DueInv'
  <2>1. [o |-> OwnRequest(n), eps |-> {}] \in k_message
    BY DEF k_message
  <2> QED BY <1>1, <1>2, <2>1 DEF PeerPings
<1>3. ASSUME NEW n \in Node, PeerDies(n) PROVE DueInv'
  BY <1>3, UnchangedDue DEF PeerDies
<1>4. ASSUME NEW p \in net, AnswerArrives(p) PROVE DueInv'
  <2>1. p \in Request
    BY DEF DhtInv, StoreOK
  <2> DEFINE choices == IF p.o.role = "find_node"
                        THEN SUBSET (Node \ (p.ignore \cup {p.o.dest, RootNode})) ELSE {{}}
  <2>2. PICK eps \in choices : Arrival([o |-> p.o, eps |-> eps])
    BY <1>4 DEF AnswerArrives
  <2>3. eps \in SUBSET Node
    BY <2>2
  <2> HIDE DEF choices
  <2>4. [o |-> p.o, eps |-> eps] \in k_message
    BY <2>1, <2>3 DEF k_message, Request
  <2> QED BY <1>1, <1>4, <2>2, <2>4 DEF AnswerArrives
<1>5. ASSUME NEW p \in net, Lost(p) PROVE DueInv'
  <2>1. /\ DOMAIN obs' \subseteq DOMAIN obs /\ queue' = queue
        /\ \A o \in DOMAIN obs' : obs'[o] = obs[o]
    BY <1>5, BecomesKeeps DEF Lost
  <2> QED BY <1>5, <2>1, UnchangedDue DEF Lost
<1> QED BY <1>2, <1>3, <1>4, <1>5 DEF Environment

LEMMA DueStep == DhtInv /\ DueInv /\ [Next]_vars => DueInv'
<1> SUFFICES ASSUME DhtInv, DueInv, [Next]_vars PROVE DueInv'
  OBVIOUS
<1>1. CASE tick \/ get_remote_nodes
  BY <1>1, TickDue, GetRemoteNodesDue
<1>2. CASE timeout \/ on_timeout \/ pong \/ found
  BY <1>2, TimeoutDue, SettledDue, FoundDue
<1>3. CASE income_message \/ refresh_tick
  BY <1>3, IncomeDue, RefreshTickDue
<1>4. CASE Due
  BY <1>4, RoundTimerDue, TimerOfPingDue DEF Due
<1>5. CASE StorageTimerDue
  <2>1. StorageHandler \in ReadyHandler /\ StorageHandler.h \notin {"tick", "get_remote_nodes"}
    BY DEF StorageHandler, ReadyHandler
  <2> QED BY <1>5, <2>1, ArrivalDue DEF StorageTimerDue
<1>6. CASE TimePasses
  BY <1>6, TimePassesDue
<1>7. CASE Environment
  BY <1>7, EnvironmentDue
<1>8. CASE DiesOnFreed \/ stop \/ UNCHANGED vars
  <2>1. UNCHANGED <<queue, timer, timer_fn, obs>> /\ (requires_tick' => requires_tick)
    BY <1>8 DEF DiesOnFreed, Dies, stop, vars
  <2> QED BY <2>1, UnchangedDue
<1> QED BY <1>1, <1>2, <1>3, <1>4, <1>5, <1>6, <1>7, <1>8 DEF Next, Handler

-----------------------------------------------------------------------------
(* The theorems *)

\* Every variable keeps its type: in particular no ready handler and no request
\* names an observer that is not remembered, and no bucket outgrows DEFAULT_K.
THEOREM DhtTypeCorrect == Spec => []TypeOK
<1>1. Init => DhtInv BY InvInit
<1>2. DhtInv /\ [Next]_vars => DhtInv' BY InvStep
<1>3. DhtInv => TypeOK BY InvImplies
<1> QED BY <1>1, <1>2, <1>3, PTL DEF Spec

\* Every node in the table has sent a packet that was handled: a pong of its
\* own or a ping of its own, never only its name in another peer's answer.
THEOREM EnteredOnEvidenceTheorem == Spec => []EnteredOnEvidence
<1>1. Init => DhtInv BY InvInit
<1>2. DhtInv /\ [Next]_vars => DhtInv' BY InvStep
<1>3. DhtInv => EnteredOnEvidence BY InvImplies
<1> QED BY <1>1, <1>2, <1>3, PTL DEF Spec

\* A node leaves the table only in a step that finds a refresh ping of that
\* node whose timer came before its pong (ping::timeout, delete_node).
THEOREM RemovedOnlyIfSilentTheorem == Spec => RemovedOnlyIfSilent
<1>1. Init => DhtInv BY InvInit
<1>2. DhtInv /\ [Next]_vars => DhtInv' BY InvStep
<1>3. DhtInv /\ [Next]_vars =>
        [\A n \in Node :
            RT!Holds(n) /\ ~RT!Holds(n)' =>
                \E o \in DOMAIN obs :
                    o.role = "refresh" /\ o.dest = n /\ obs[o].late]_vars
  <2> SUFFICES ASSUME DhtInv, [Next]_vars, NEW n \in Node, RT!Holds(n), ~RT!Holds(n)'
               PROVE  \E o \in DOMAIN obs :
                         o.role = "refresh" /\ o.dest = n /\ obs[o].late
    OBVIOUS
  <2>1. n \in InTable(table) /\ n \notin InTable(table')
    BY HoldsInTable
  <2>2. GoodTable(table)
    BY DEF DhtInv
  <2>3. CASE table' = table
    BY <2>1, <2>3
  <2>4. CASE \E m \in Node : RT!AutoUpdate(m) \/ RT!MoveBack(m)
    BY <2>1, <2>2, <2>4, TableOperations
  <2>5. CASE \E m \in Node :
                /\ RT!DeleteNode(m)
                /\ \E o \in DOMAIN obs :
                      o.role = "refresh" /\ o.dest = m /\ obs[o].late
    <3>1. PICK m \in Node :
             /\ RT!DeleteNode(m)
             /\ \E o \in DOMAIN obs :
                   o.role = "refresh" /\ o.dest = m /\ obs[o].late
      BY <2>5
    <3>2. n = m
      BY <2>1, <2>2, <3>1, TableOperations
    <3> QED BY <3>1, <3>2
  <2> QED BY <2>3, <2>4, <2>5, TableStep
<1> QED BY <1>1, <1>2, <1>3, PTL DEF Spec, RemovedOnlyIfSilent

\* Under the maintainer, the rpcs and the observers the table behaves as
\* KRoutingTable specifies: the bucket that a refresh ping's handlers have kept is
\* the one its operations choose.  What is proved of that module holds here too.
THEOREM DhtImplementsRoutingTable == Spec => ImplementsRoutingTable
<1>1. Init => DhtInv BY InvInit
<1>2. DhtInv /\ [Next]_vars => DhtInv' BY InvStep
<1>3. Init => RT!Init
  BY DEF Init
<1>4. DhtInv /\ [Next]_vars => [RT!Next]_table
  BY TableStep DEF RT!Next
<1> QED BY <1>1, <1>2, <1>3, <1>4, PTL DEF Spec, ImplementsRoutingTable, RT!Spec

\* The maintainer's rounds never stop and never double: at every moment its
\* timer waits or one tick or get_remote_nodes is ready, not both and not two,
\* and until stop there is one (tick, get_remote_nodes and tick_done).
THEOREM OneRoundTheorem == Spec => []OneRound
<1>1. Init => DhtInv BY InvInit
<1>2. DhtInv /\ [Next]_vars => DhtInv' BY InvStep
<1>3. Init => DueInv BY DueInit
<1>4. DhtInv /\ DueInv /\ [Next]_vars => DueInv' BY DueStep
<1>5. DueInv => OneRound BY DEF DueInv
<1> QED BY <1>1, <1>2, <1>3, <1>4, <1>5, PTL DEF Spec

\* Until one of its two handlers has run, a ping has its timer running or a
\* handler ready that will bring the one or the other: what ping::timeout and
\* ping::income_message do between them never leaves it with neither.
THEOREM NoPingForgottenTheorem == Spec => []NoPingForgotten
<1>1. Init => DhtInv BY InvInit
<1>2. DhtInv /\ [Next]_vars => DhtInv' BY InvStep
<1>3. Init => DueInv BY DueInit
<1>4. DhtInv /\ DueInv /\ [Next]_vars => DueInv' BY DueStep
<1>5. DueInv => NoPingForgotten BY DEF DueInv
<1> QED BY <1>1, <1>2, <1>3, <1>4, <1>5, PTL DEF Spec

\* When the thread keeps up with its handlers, get_remote_nodes counts only
\* when every refresh ping of its round is settled, whatever the waits are, as
\* long as a ping waits less than the maintainer.
THEOREM SettledBeforeCountTheorem ==
    ASSUME ~Stall
    PROVE  Spec => []SettledBeforeCount
<1>1. Init => DhtInv BY InvInit
<1>2. DhtInv /\ [Next]_vars => DhtInv' BY InvStep
<1>3. Init => DueInv BY DueInit
<1>4. DhtInv /\ DueInv /\ [Next]_vars => DueInv' BY DueStep
<1>5. DhtInv /\ DueInv => SettledBeforeCount
  BY RoundSettled DEF SettledBeforeCount
<1> QED BY <1>1, <1>2, <1>3, <1>4, <1>5, PTL DEF Spec

-----------------------------------------------------------------------------
(* The bucket that a refresh ping's handlers refer to *)

\* move_back puts a node that its bucket has at the end.
LEMMA MovedBack ==
    ASSUME GoodTable(table), NEW n \in Node, RT!MoveBack(n), n \in InTable(table)
    PROVE  Last(RT!get_bucket(n)') = n
<1> DEFINE b == RT!get_bucket(n)
           i == RT!calc_branch_index(n)
           c == RT!move_back(b, n)
<1>1. i \in 0 .. IdBits - 1 /\ RTP!GoodBucket(b) /\ b = table[i]
  BY BucketOfNode DEF RT!get_bucket
<1>2. RTP!BucketHas(b, n)
  BY <1>1 DEF InTable, GoodTable
<1> DEFINE k == RTP!Position(b, n)
           r == RTP!RemoveAt(b, k)
<1>3. c = Append(r, n)
  <2>1. RT!BucketHas(b, n) /\ RT!Position(b, n) = RTP!Position(b, n)
    BY <1>2 DEF RT!BucketHas, RTP!BucketHas, RT!Position, RTP!Position
  <2> QED BY <2>1 DEF RT!move_back, RT!RemoveAt, RTP!RemoveAt
<1>4. r \in Seq(Node)
  <2>1. k \in 1 .. Len(b) /\ b[k] = n
    BY <1>1, <1>2, RTP!PositionFound, TableAssumption DEF RTP!BitString
  <2>2. RTP!GoodBucket(r)
    BY <1>1, <2>1, RTP!EraseGood, TableAssumption DEF RTP!BitString
  <2> QED BY <2>2 DEF RTP!GoodBucket
<1>5. RT!get_bucket(n)' = c
  <2>1. table' = [table EXCEPT ![i] = c]
    BY DEF RT!MoveBack, RT!OnBucket
  <2> HIDE DEF c
  <2>2. table'[i] = c
    BY <1>1, <2>1 DEF GoodTable
  <2> QED BY <2>2 DEF RT!get_bucket
<1> HIDE DEF c, b, r
<1>6. c[Len(c)] = n
  BY <1>3, <1>4
<1> QED BY <1>5, <1>6 DEF Last

\* delete_node takes a node out of the table: it is in no other bucket.
LEMMA Deleted ==
    ASSUME GoodTable(table), NEW n \in Node, RT!DeleteNode(n)
    PROVE  n \notin InTable(table')
<1> DEFINE b == RT!get_bucket(n)
           i == RT!calc_branch_index(n)
           c == RT!delete_node(b, n)
<1>1. i \in 0 .. IdBits - 1 /\ ~RTP!BucketHas(c, n)
  BY BucketOfNode, BucketOperations
<1>2. table' = [table EXCEPT ![i] = c]
  BY DEF RT!DeleteNode, RT!OnBucket
<1> HIDE DEF c
<1>3. table'[i] = c
  BY <1>1, <1>2 DEF GoodTable
<1>4. GoodTable(table')
  BY TableOperations
<1> QED BY <1>1, <1>3, <1>4 DEF GoodTable, InTable

\* For every number of nodes, buckets, rounds and delays: a refresh ping's timeout
\* leaves the table without its node and its pong makes the node the last seen,
\* although both write to the bucket the ping was sent from.  No bucket moves in
\* the array, and a node is only ever entered in the bucket its id selects.
THEOREM RefreshReachesNodeTheorem == Spec => RefreshReachesNode
<1>1. Init => DhtInv BY InvInit
<1>2. DhtInv /\ [Next]_vars => DhtInv' BY InvStep
<1>3. ASSUME DhtInv, NEW o \in DOMAIN obs, o.role = "refresh"
      PROVE  /\ on_timeout /\ Head(queue).o = o => ~RT!Holds(o.dest)'
             /\ pong /\ Head(queue).o = o =>
                   /\ \A n \in Node : RT!Holds(n)' <=> RT!Holds(n)
                   /\ RT!Holds(o.dest) => Last(RT!get_bucket(o.dest))' = o.dest
  <2>1. o.dest \in Node /\ GoodTable(table)
    BY <1>3 DEF DhtInv, StoreOK, ObsId
  <2>2. ASSUME on_timeout, Head(queue).o = o PROVE ~RT!Holds(o.dest)'
    <3>1. RT!DeleteNode(o.dest)
      BY <1>3, <2>2, RefreshBucket DEF on_timeout
    <3>2. o.dest \notin InTable(table')
      BY <2>1, <3>1, Deleted
    <3> QED BY <2>1, <3>2, HoldsInTable
  <2>3. ASSUME pong, Head(queue).o = o
        PROVE  /\ \A n \in Node : RT!Holds(n)' <=> RT!Holds(n)
               /\ RT!Holds(o.dest) => Last(RT!get_bucket(o.dest))' = o.dest
    <3>1. RT!MoveBack(o.dest)
      BY <1>3, <2>3, RefreshBucket DEF pong
    <3>2. InTable(table') = InTable(table)
      BY <2>1, <3>1, TableOperations
    <3>3. RT!Holds(o.dest) => Last(RT!get_bucket(o.dest)') = o.dest
      BY <2>1, <3>1, MovedBack, HoldsInTable
    <3>4. Last(RT!get_bucket(o.dest))' = Last(RT!get_bucket(o.dest)')
      BY DEF Last
    <3> QED BY <3>2, <3>3, <3>4, HoldsInTable
  <2> QED BY <2>2, <2>3
<1>4. DhtInv /\ [Next]_vars =>
        [\A o \in DOMAIN obs :
            o.role = "refresh" =>
               /\ on_timeout /\ Head(queue).o = o => ~RT!Holds(o.dest)'
               /\ pong /\ Head(queue).o = o =>
                     /\ \A n \in Node : RT!Holds(n)' <=> RT!Holds(n)
                     /\ RT!Holds(o.dest) => Last(RT!get_bucket(o.dest))' = o.dest]_vars
  BY <1>3
<1> QED BY <1>1, <1>2, <1>4, PTL DEF Spec, RefreshReachesNode
=============================================================================

-------------------------- MODULE MessagePoolProofs --------------------------
(***************************************************************************)
(* Proofs about the message pool, for every set of peers and application   *)
(* threads, every lifetime, period and timeout, and any number of messages.*)
(***************************************************************************)
EXTENDS MessagePool, QueueTheorems, FiniteSetTheorems

-----------------------------------------------------------------------------
(* The pool's operators *)

\* The messages that upper_bound counts are at the front, and all expired.
LEMMA UpperBound ==
    ASSUME NEW q \in Seq(Nat)
    PROVE  /\ upper_bound(q) \in 0 .. Len(q)
           /\ \A k \in DOMAIN q : ~expired(q[k]) => upper_bound(q) < k
<1> DEFINE U == {i \in DOMAIN q : \A j \in 1 .. i : expired(q[j])}
<1>1. Len(q) \in Nat /\ DOMAIN q = 1 .. Len(q)
  BY Entries
<1>2. IsFiniteSet(1 .. Len(q)) /\ Cardinality(1 .. Len(q)) = Len(q)
  BY <1>1, FS_Interval
<1>3. U \in SUBSET (1 .. Len(q))
  BY <1>1
<1>4. IsFiniteSet(U) /\ Cardinality(U) <= Len(q) /\ Cardinality(U) \in Nat
  BY <1>2, <1>3, FS_Subset, FS_CardinalityType
<1>5. ASSUME NEW k \in DOMAIN q, ~expired(q[k]) PROVE Cardinality(U) < k
  <2>1. k \in Nat /\ k > 0
    BY <1>1
  <2>2. U \in SUBSET (1 .. k - 1)
    <3> SUFFICES ASSUME NEW i \in U, i >= k PROVE FALSE
      BY <1>1, <1>3, <2>1
    <3>1. k \in 1 .. i
      BY <1>1, <2>1
    <3> QED BY <3>1, <1>5
  <2>3. IsFiniteSet(1 .. k - 1) /\ Cardinality(1 .. k - 1) = k - 1
    <3>1. k - 1 \in Int /\ 1 \in Int
      BY <2>1
    <3>2. /\ IsFiniteSet(1 .. k - 1)
          /\ Cardinality(1 .. k - 1) = IF 1 > k - 1 THEN 0 ELSE (k - 1) - 1 + 1
      BY <3>1, FS_Interval
    <3> QED BY <3>2, <2>1
  <2>4. Cardinality(U) <= k - 1
    BY <2>2, <2>3, FS_Subset
  <2> QED BY <2>1, <2>4, <1>4
<1>6. upper_bound(q) = Cardinality(U)
  BY DEF upper_bound
<1> HIDE DEF U
<1> QED BY <1>1, <1>4, <1>5, <1>6

\* What drop leaves is the rest of the sequence.
LEMMA Drop ==
    ASSUME NEW S, S \subseteq Nat, NEW q \in Seq(S)
    PROVE  /\ drop(q) \in Seq(S)
           /\ Len(drop(q)) = Len(q) - upper_bound(q)
           /\ \A i \in DOMAIN drop(q) :
                 /\ i + upper_bound(q) \in DOMAIN q
                 /\ drop(q)[i] = q[i + upper_bound(q)]
           /\ \A k \in DOMAIN q : k > upper_bound(q) => q[k] \in ToSet(drop(q))
<1>1. Len(q) \in Nat /\ DOMAIN q = 1 .. Len(q) /\ \A i \in 1 .. Len(q) : q[i] \in S
  BY Entries, ElementOfSeq
<1>2. q \in Seq(Nat)
  BY SeqMonotonic
<1>3. upper_bound(q) \in 0 .. Len(q)
  BY <1>2, UpperBound
<1> DEFINE u == upper_bound(q)
           d == SubSeq(q, u + 1, Len(q))
<1>0. drop(q) = d /\ u \in 0 .. Len(q)
  BY <1>3 DEF drop
<1> HIDE DEF u
<1>4. /\ d \in Seq(S) /\ Len(d) = IF u + 1 <= Len(q) THEN Len(q) - (u + 1) + 1 ELSE 0
      /\ \A i \in 1 .. Len(q) - (u + 1) + 1 : d[i] = q[u + 1 + i - 1]
  <2>1. u + 1 \in Int /\ Len(q) \in Int /\ \A i \in u + 1 .. Len(q) : q[i] \in S
    BY <1>0, <1>1
  <2> QED BY <2>1, SubSeqProperties
<1> HIDE DEF d
<1>5. Len(d) = Len(q) - u /\ DOMAIN d = 1 .. Len(q) - u
  BY <1>0, <1>1, <1>4, Entries
<1>6. \A i \in 1 .. Len(q) - u : i + u \in 1 .. Len(q) /\ d[i] = q[i + u]
  <2> TAKE i \in 1 .. Len(q) - u
  <2>1. i \in 1 .. Len(q) - (u + 1) + 1 /\ u + 1 + i - 1 = i + u /\ i + u \in 1 .. Len(q)
    BY <1>0, <1>1
  <2> QED BY <2>1, <1>4
<1>7. ASSUME NEW k \in DOMAIN q, k > u PROVE q[k] \in ToSet(d)
  <2>1. k - u \in 1 .. Len(q) - u /\ (k - u) + u = k
    BY <1>0, <1>1, <1>7
  <2>2. d[k - u] = q[k]
    BY <2>1, <1>6
  <2> QED BY <2>1, <2>2, <1>4, <1>5, Entries
<1>8. u = upper_bound(q)
  BY DEF u
<1> QED BY <1>0, <1>1, <1>4, <1>5, <1>6, <1>7, <1>8

\* The entry that a message is pushed to, and the others.
LEMMA Push ==
    ASSUME NEW p, NEW m
    PROVE  /\ DOMAIN push(p, m) = DOMAIN pool \cup {p}
           /\ \A x \in DOMAIN pool \ {p} : push(p, m)[x] = pool[x]
           /\ push(p, m)[p] = Append(IF p \in DOMAIN pool THEN pool[p] ELSE <<>>, m)
<1>1. CASE p \in DOMAIN pool
  BY <1>1 DEF push
<1>2. CASE p \notin DOMAIN pool
  <2>1. /\ DOMAIN allocate_new_entry(p) = DOMAIN pool \cup {p}
        /\ \A x \in DOMAIN pool : allocate_new_entry(p)[x] = pool[x]
        /\ allocate_new_entry(p)[p] = <<>>
    BY <1>2 DEF allocate_new_entry
  <2> QED BY <1>2, <2>1 DEF push
<1> QED BY <1>1, <1>2

LEMMA MinOfTwo ==
    ASSUME NEW a \in Int, NEW b \in Int
    PROVE  Min({a, b}) = IF a <= b THEN a ELSE b
  BY DEF Min

-----------------------------------------------------------------------------
(* Type correctness *)

\* A message is stored behind those that were there before.
LEMMA Stored ==
    ASSUME TypeOK, store
    PROVE  /\ io.peer \in Peer
           /\ log' \in Seq(Received) /\ DOMAIN log' = DOMAIN log \cup {Len(log) + 1}
           /\ \A m \in DOMAIN log : log'[m] = log[m]
           /\ log'[Len(log) + 1] = [from |-> io.peer, age |-> 0]
           /\ DOMAIN pool' = DOMAIN pool \cup {io.peer}
           /\ \A x \in DOMAIN pool \ {io.peer} : pool'[x] = pool[x]
           /\ pool'[io.peer] =
                 Append(IF io.peer \in DOMAIN pool THEN pool[io.peer] ELSE <<>>, Len(log) + 1)
<1> DEFINE e == [from |-> io.peer, age |-> 0]
<1>1. io.peer \in Peer /\ e \in Received
  BY PoolAssumption DEF store, TypeOK, Received
<1>2. log' = Append(log, e) /\ pool' = push(io.peer, Len(log) + 1)
  BY DEF store
<1> HIDE DEF e
<1>3. /\ log' \in Seq(Received) /\ Len(log') = Len(log) + 1
      /\ \A i \in 1 .. Len(log) : log'[i] = log[i]
      /\ log'[Len(log) + 1] = e
  BY <1>1, <1>2, AppendProperties DEF TypeOK
<1>4. Len(log) \in Nat /\ DOMAIN log = 1 .. Len(log) /\ DOMAIN log' = 1 .. Len(log')
  BY <1>3, Entries DEF TypeOK
<1>5. DOMAIN log' = DOMAIN log \cup {Len(log) + 1}
  BY <1>3, <1>4
<1>6. /\ DOMAIN push(io.peer, Len(log) + 1) = DOMAIN pool \cup {io.peer}
      /\ \A x \in DOMAIN pool \ {io.peer} : push(io.peer, Len(log) + 1)[x] = pool[x]
      /\ push(io.peer, Len(log) + 1)[io.peer] =
            Append(IF io.peer \in DOMAIN pool THEN pool[io.peer] ELSE <<>>, Len(log) + 1)
  BY Push
<1> QED BY <1>1, <1>2, <1>3, <1>4, <1>5, <1>6, Zenon DEF e

\* Messages grow older and stay what they are.
LEMMA Older ==
    ASSUME TypeOK, TimePasses
    PROVE  /\ log' \in Seq(Received) /\ DOMAIN log' = DOMAIN log /\ Len(log') = Len(log)
           /\ \A m \in DOMAIN log : log'[m].from = log[m].from /\ log'[m].age >= log[m].age
<1>1. /\ log \in Seq(Received) /\ Len(log) \in Nat /\ DOMAIN log = 1 .. Len(log)
      /\ \A m \in DOMAIN log : log[m] \in Received
  BY Entries, ElementOfSeq DEF TypeOK
<1>2. log' = [m \in 1 .. Len(log) |-> [log[m] EXCEPT !.age = Min({log[m].age + 1, Lifetime})]]
  BY <1>1 DEF TimePasses
<1>3. ASSUME NEW m \in 1 .. Len(log)
      PROVE  /\ log'[m] \in Received
             /\ log'[m].from = log[m].from /\ log'[m].age >= log[m].age
  <2>1. log[m].age \in 0 .. Lifetime /\ log[m].from \in Peer /\ Lifetime \in Nat
    BY <1>1, PoolAssumption DEF Received
  <2> DEFINE a == Min({log[m].age + 1, Lifetime})
  <2>2. a \in 0 .. Lifetime /\ a >= log[m].age
    BY <2>1, MinOfTwo
  <2> HIDE DEF a
  <2>3. log'[m] = [log[m] EXCEPT !.age = a]
    BY <1>2 DEF a
  <2> QED BY <2>2, <2>3, <1>1 DEF Received
<1>4. log' \in [1 .. Len(log) -> Received]
  BY <1>2, <1>3
<1>5. log' \in Seq(Received)
  BY <1>4, <1>1, SeqDef
<1>6. Len(log') = Len(log) /\ DOMAIN log' = DOMAIN log
  BY <1>1, <1>4, <1>5, LenProperties
<1> QED BY <1>1, <1>3, <1>5, <1>6

LEMMA TypeInit == Init => TypeOK
<1> SUFFICES ASSUME Init PROVE TypeOK
  OBVIOUS
<1>1. log \in Seq(Received) /\ <<>> \in Seq(DOMAIN log)
  BY EmptySeq DEF Init
<1>2. buf \in [App -> [peer : Peer, null : BOOLEAN, q : Seq(DOMAIN log)]]
  <2>1. \A p \in Peer : NoBuffer(p) \in [peer : Peer, null : BOOLEAN, q : Seq(DOMAIN log)]
    BY <1>1 DEF NoBuffer
  <2> QED BY <2>1 DEF Init
<1>3. got \in [App -> Seq(DOMAIN log)] /\ call \in [App -> {Idle, Block} \cup Nat]
  BY <1>1 DEF Init
<1>4. DOMAIN pool = {}
  BY DEF Init
<1>5. io \in [at : {"idle", "refresh"}] /\ timer \in {Off} \cup 0 .. Period
  BY PoolAssumption DEF Init, IoIdle
<1> QED BY <1>1, <1>2, <1>3, <1>4, <1>5 DEF Init, TypeOK

LEMMA TypeStep == TypeOK /\ [Next]_vars => TypeOK'
<1> SUFFICES ASSUME TypeOK, [Next]_vars PROVE TypeOK'
  OBVIOUS
<1>0. /\ log \in Seq(Received) /\ Len(log) \in Nat /\ DOMAIN log = 1 .. Len(log)
      /\ DOMAIN log \subseteq Nat
  BY Entries DEF TypeOK
<1>1. ASSUME NEW p \in Peer, on_receive_packet(p) PROVE TypeOK'
  BY <1>1 DEF TypeOK, on_receive_packet
<1>2. CASE store
  <2> DEFINE n == Len(log) + 1
             old == IF io.peer \in DOMAIN pool THEN pool[io.peer] ELSE <<>>
  <2>1. /\ io.peer \in Peer
        /\ log' \in Seq(Received) /\ DOMAIN log' = DOMAIN log \cup {n}
        /\ DOMAIN pool' = DOMAIN pool \cup {io.peer}
        /\ \A x \in DOMAIN pool \ {io.peer} : pool'[x] = pool[x]
        /\ pool'[io.peer] = Append(old, n)
    BY <1>2, Stored
  <2>2. /\ io' = IF hub THEN [at |-> "deliver", msg |-> n] ELSE IoIdle
        /\ UNCHANGED <<hub, timer, running, buf, call, got, crashed>>
    BY <1>2 DEF store
  <2> HIDE DEF n
  <2>3. \A q \in Seq(DOMAIN log) : q \in Seq(DOMAIN log')
    BY <2>1, SeqMonotonic
  <2>4. DOMAIN pool' \subseteq Peer /\ \A p \in DOMAIN pool' : pool'[p] \in Seq(DOMAIN log')
    <3>1. \A p \in DOMAIN pool : pool[p] \in Seq(DOMAIN log')
      BY <2>3 DEF TypeOK
    <3>2. old \in Seq(DOMAIN log')
      BY <3>1, EmptySeq
    <3> HIDE DEF old
    <3>3. Append(old, n) \in Seq(DOMAIN log')
      BY <3>2, <2>1, PostEntries
    <3> QED BY <3>1, <3>3, <2>1 DEF TypeOK
  <2>5. buf' \in [App -> [peer : Peer, null : BOOLEAN, q : Seq(DOMAIN log')]]
    BY <2>2, <2>3 DEF TypeOK
  <2>6. got' \in [App -> Seq(DOMAIN log')]
    BY <2>2, <2>3 DEF TypeOK
  <2>7. io' \in [at : {"deliver"}, msg : DOMAIN log'] \cup [at : {"idle", "refresh"}]
    BY <2>1, <2>2 DEF IoIdle
  <2> QED BY <2>1, <2>2, <2>4, <2>5, <2>6, <2>7 DEF TypeOK
<1>3. CASE on_receive_message
  BY <1>3 DEF TypeOK, on_receive_message, IoIdle
<1>4. CASE RefreshDue
  BY <1>4 DEF TypeOK, RefreshDue
<1>5. CASE refresh_tick
  <2>1. \A p \in DOMAIN pool : drop(pool[p]) \in Seq(DOMAIN log)
    BY <1>0, Drop DEF TypeOK
  <2>2. DOMAIN pool' = DOMAIN pool /\ \A p \in DOMAIN pool : pool'[p] \in Seq(DOMAIN log)
    BY <1>5, <2>1 DEF refresh_tick
  <2>3. timer' \in {Off} \cup 0 .. Period
    BY <1>5, PoolAssumption DEF refresh_tick, TypeOK
  <2> QED BY <1>5, <2>2, <2>3 DEF refresh_tick, TypeOK, IoIdle
<1>6. CASE hub_start \/ hub_stop \/ stop
  BY <1>6 DEF TypeOK, hub_start, hub_stop, stop
<1>7. ASSUME NEW a \in App, NEW p \in Peer, get_peer(a, p) PROVE TypeOK'
  <2>1. get_peer_message_buffer(p) \in [peer : Peer, null : BOOLEAN, q : Seq(DOMAIN log)]
    BY EmptySeq DEF TypeOK, get_peer_message_buffer, NoBuffer
  <2>2. <<>> \in Seq(DOMAIN log)
    BY EmptySeq
  <2> QED BY <1>7, <2>1, <2>2 DEF get_peer, TypeOK
<1>8. ASSUME NEW a \in App, get_peer_races(a) PROVE TypeOK'
  BY <1>8 DEF get_peer_races, TypeOK
<1>9. ASSUME NEW a \in App, NEW t \in Timeouts, receive(a, t) PROVE TypeOK'
  BY <1>9, PoolAssumption DEF receive, TypeOK
<1>10. ASSUME NEW a \in App, receive_returns(a) PROVE TypeOK'
  <2>1. buf[a].q \in Seq(DOMAIN log) /\ buf[a].q # <<>> /\ got[a] \in Seq(DOMAIN log)
    BY <1>10 DEF receive_returns, TypeOK
  <2>2. /\ Head(buf[a].q) \in DOMAIN log /\ Tail(buf[a].q) \in Seq(DOMAIN log)
        /\ Append(got[a], Head(buf[a].q)) \in Seq(DOMAIN log)
    BY <2>1, TakeEntries, PostEntries
  <2>3. /\ got' = [got EXCEPT ![a] = Append(got[a], Head(buf[a].q))]
        /\ buf' = [buf EXCEPT ![a].q = Tail(buf[a].q)]
        /\ call' = [call EXCEPT ![a] = Idle]
        /\ UNCHANGED <<log, pool, io, hub, timer, running, crashed>>
    BY <1>10 DEF receive_returns, pop
  <2>4. got' \in [App -> Seq(DOMAIN log)]
    BY <2>2, <2>3 DEF TypeOK
  <2>5. buf' \in [App -> [peer : Peer, null : BOOLEAN, q : Seq(DOMAIN log)]]
    BY <2>2, <2>3 DEF TypeOK
  <2>6. call' \in [App -> {Idle, Block} \cup Nat]
    BY <2>3 DEF TypeOK
  <2> QED BY <2>3, <2>4, <2>5, <2>6 DEF TypeOK
<1>11. ASSUME NEW a \in App, receive_gives_up(a) PROVE TypeOK'
  BY <1>11 DEF receive_gives_up, TypeOK
<1>12. CASE TimePasses
  <2>1. log' \in Seq(Received) /\ DOMAIN log' = DOMAIN log /\ Len(log') = Len(log)
    BY <1>12, Older
  <2>2. call' \in [App -> {Idle, Block} \cup Nat]
    BY <1>12 DEF TimePasses, TypeOK, Idle, Block
  <2>3. timer' \in {Off} \cup 0 .. Period
    BY <1>12, PoolAssumption DEF TimePasses, TypeOK, Off
  <2> QED BY <1>12, <2>1, <2>2, <2>3 DEF TimePasses, TypeOK
<1>13. CASE UNCHANGED vars
  BY <1>13 DEF vars, TypeOK
<1> QED
  BY <1>1, <1>2, <1>3, <1>4, <1>5, <1>6, <1>7, <1>8, <1>9, <1>10, <1>11, <1>12, <1>13
  DEF Next, IoThread, Application, Waiting

\* Every variable of the pool, its hub and the peer objects keeps its type.
THEOREM PoolTypeCorrect == Spec => []TypeOK
  BY TypeInit, TypeStep, PTL DEF Spec

-----------------------------------------------------------------------------
(* The order of messages *)

\* q runs through messages of S in order, each once, up to the last.
IsRest(q, S) ==
    /\ ToSet(q) \subseteq S
    /\ \A i, j \in DOMAIN q : i < j => q[i] < q[j]
    /\ \A i \in DOMAIN q : \A m \in S : q[i] <= m => m \in ToSet(q)

LEMMA RestIsRun ==
    ASSUME NEW q, NEW S, IsRest(q, S)
    PROVE  IsRun(q, S)
  BY DEF IsRest, IsRun

LEMMA EmptyRest ==
    ASSUME NEW S
    PROVE  IsRest(<<>>, S)
<1>1. ToSet(<<>>) = {}
  BY EntriesOfTuples
<1>2. DOMAIN <<>> = {}
  OBVIOUS
<1> QED BY <1>1, <1>2 DEF IsRest

\* Another message arrives that is put behind them.
LEMMA AppendRest ==
    ASSUME NEW S, S \subseteq Nat, NEW q \in Seq(S), IsRest(q, S),
           NEW n \in Nat, \A m \in S : m < n
    PROVE  IsRest(Append(q, n), S \cup {n})
<1>1. q \in Seq(S \cup {n}) /\ n \in S \cup {n}
  BY SeqMonotonic
<1> DEFINE r == Append(q, n)
<1>2. /\ r \in Seq(S \cup {n}) /\ ToSet(r) = ToSet(q) \cup {n}
  BY <1>1, PostEntries
<1>3. /\ Len(r) = Len(q) + 1 /\ \A i \in 1 .. Len(q) : r[i] = q[i]
      /\ r[Len(q) + 1] = n
  BY <1>1, AppendProperties
<1> HIDE DEF r
<1>4. /\ Len(q) \in Nat /\ DOMAIN q = 1 .. Len(q) /\ DOMAIN r = 1 .. Len(q) + 1
      /\ \A i \in 1 .. Len(q) : q[i] \in S
  BY <1>2, <1>3, Entries, ElementOfSeq
<1>5. ASSUME NEW i \in DOMAIN r, NEW j \in DOMAIN r, i < j PROVE r[i] < r[j]
  <2>1. i \in 1 .. Len(q) /\ r[i] = q[i]
    BY <1>3, <1>4, <1>5
  <2>2. CASE j = Len(q) + 1
    BY <2>1, <2>2, <1>3, <1>4
  <2>3. CASE j # Len(q) + 1
    <3>1. j \in DOMAIN q /\ r[j] = q[j]
      BY <2>3, <1>3, <1>4
    <3> QED BY <2>1, <3>1, <1>4, <1>5 DEF IsRest
  <2> QED BY <2>2, <2>3
<1>6. ASSUME NEW i \in DOMAIN r, NEW m \in S, r[i] <= m PROVE m \in ToSet(q)
  <2>1. i \in DOMAIN q
    BY <1>3, <1>4, <1>6
  <2> QED BY <2>1, <1>3, <1>4, <1>6 DEF IsRest
<1>7. IsRest(r, S \cup {n})
  BY <1>2, <1>5, <1>6 DEF IsRest
<1> QED BY <1>7 DEF r

\* Messages at the front are dropped.
LEMMA DropRest ==
    ASSUME NEW S, S \subseteq Nat, NEW q \in Seq(S), IsRest(q, S)
    PROVE  IsRest(drop(q), S)
<1> DEFINE d == drop(q)
           u == upper_bound(q)
<1>1. /\ d \in Seq(S)
      /\ \A i \in DOMAIN d : i + u \in DOMAIN q /\ d[i] = q[i + u]
      /\ \A k \in DOMAIN q : k > u => q[k] \in ToSet(d)
  BY Drop
<1>2. q \in Seq(Nat)
  BY SeqMonotonic
<1>3. u \in Nat
  <2>1. upper_bound(q) \in 0 .. Len(q) /\ Len(q) \in Nat
    BY <1>2, UpperBound, Entries
  <2> QED BY <2>1
<1> HIDE DEF d, u
<1>4. /\ DOMAIN d \subseteq Nat \ {0} /\ DOMAIN q \subseteq Nat \ {0} /\ ToSet(d) \subseteq S
      /\ ToSet(q) = {q[i] : i \in DOMAIN q} /\ \A i \in DOMAIN q : q[i] \in Nat
  BY <1>1, <1>2, Entries, ElementOfSeq
<1>5. ASSUME NEW i \in DOMAIN d, NEW j \in DOMAIN d, i < j PROVE d[i] < d[j]
  <2>1. i + u < j + u
    BY <1>3, <1>4, <1>5
  <2> QED BY <2>1, <1>1 DEF IsRest
<1>6. ASSUME NEW i \in DOMAIN d, NEW m \in S, d[i] <= m PROVE m \in ToSet(d)
  <2>1. i + u \in DOMAIN q /\ q[i + u] <= m
    BY <1>1, <1>6
  <2>2. m \in ToSet(q)
    BY <2>1 DEF IsRest
  <2>3. PICK k \in DOMAIN q : q[k] = m
    BY <2>2, <1>4
  <2>4. k > u
    <3> SUFFICES ASSUME k <= u PROVE FALSE
      BY <1>3, <1>4
    <3>1. k < i + u
      BY <1>3, <1>4
    <3>2. q[k] < q[i + u]
      BY <2>1, <3>1 DEF IsRest
    <3>3. q[k] \in Nat /\ q[i + u] \in Nat
      BY <2>1, <1>4
    <3> QED BY <2>1, <2>3, <3>2, <3>3
  <2> QED BY <2>3, <2>4, <1>1
<1>7. IsRest(d, S)
  BY <1>4, <1>5, <1>6 DEF IsRest
<1> QED BY <1>7 DEF d

\* A message that arrives later does not break into a run.
LEMMA RunStays ==
    ASSUME NEW S, S \subseteq Nat, NEW s \in Seq(Nat), IsRun(s, S),
           NEW n \in Nat, \A m \in S : m < n
    PROVE  IsRun(s, S \cup {n})
<1>1. \A i \in DOMAIN s : s[i] \in S
  BY Entries DEF IsRun
<1>2. \A i \in DOMAIN s : ~(n <= s[i])
  BY <1>1
<1> QED BY <1>2 DEF IsRun

\* Taking a message moves it from the one sequence to the other.
LEMMA MoveOver ==
    ASSUME NEW S, NEW s \in Seq(S), NEW q \in Seq(S), q # <<>>
    PROVE  Append(s, Head(q)) \o Tail(q) = s \o q
<1>1. Head(q) \in S /\ Tail(q) \in Seq(S) /\ <<Head(q)>> \in Seq(S)
  BY HeadTailProperties
<1>2. Append(s, Head(q)) = s \o <<Head(q)>>
  BY <1>1, PostIsConcat
<1>3. (s \o <<Head(q)>>) \o Tail(q) = s \o (<<Head(q)>> \o Tail(q))
  BY <1>1, ConcatAssociative
<1>4. <<Head(q)>> \o Tail(q) = q
  OBVIOUS
<1> QED BY <1>2, <1>3, <1>4

\* An entry of the pool holds its peer's messages from some one on to the last:
\* that is what get_peer copies.
EntriesInv == \A p \in DOMAIN pool : IsRest(pool[p], SentBy(p))

PoolInv == EntriesInv /\ ReceivedInOrder

LEMMA PoolInvInit == Init => PoolInv
<1> SUFFICES ASSUME Init PROVE PoolInv
  OBVIOUS
<1>1. DOMAIN pool = {} /\ DOMAIN log = {}
  BY DEF Init
<1>2. ASSUME NEW a \in App PROVE IsRun(got[a] \o buf[a].q, SentBy(buf[a].peer))
  <2>1. got[a] = <<>> /\ buf[a].q = <<>>
    BY DEF Init, NoBuffer
  <2>2. <<>> \o <<>> = <<>>
    OBVIOUS
  <2> QED BY <2>1, <2>2, EmptyRest, RestIsRun
<1> QED BY <1>1, <1>2 DEF PoolInv, EntriesInv, ReceivedInOrder

\* What the application threads hold is made of the messages that arrived.
LEMMA Holdings ==
    ASSUME TypeOK, NEW a \in App
    PROVE  /\ got[a] \in Seq(DOMAIN log) /\ buf[a].q \in Seq(DOMAIN log)
           /\ got[a] \o buf[a].q \in Seq(Nat) /\ buf[a].peer \in Peer
           /\ DOMAIN log \subseteq Nat
<1>1. got[a] \in Seq(DOMAIN log) /\ buf[a].q \in Seq(DOMAIN log) /\ buf[a].peer \in Peer
  BY DEF TypeOK
<1>2. DOMAIN log \subseteq Nat
  BY Entries DEF TypeOK
<1>3. got[a] \o buf[a].q \in Seq(DOMAIN log)
  BY <1>1, ConcatProperties
<1> QED BY <1>1, <1>2, <1>3, SeqMonotonic

\* A step that leaves the pool, and the order and senders of the messages.
LEMMA PoolLeft ==
    ASSUME TypeOK, PoolInv, pool' = pool, DOMAIN log' = DOMAIN log,
           \A m \in DOMAIN log : log'[m].from = log[m].from /\ log'[m].age >= log[m].age,
           log' \in Seq(Received),
           \A a \in App : IsRun(got'[a] \o buf'[a].q, SentBy(buf'[a].peer))
    PROVE  PoolInv'
<1>1. \A p : SentBy(p)' = SentBy(p)
  BY DEF SentBy
<1>2. EntriesInv'
  BY <1>1 DEF PoolInv, EntriesInv
<1>3. ReceivedInOrder'
  BY <1>1 DEF ReceivedInOrder
<1> QED BY <1>2, <1>3 DEF PoolInv

LEMMA PoolInvStep == TypeOK /\ PoolInv /\ [Next]_vars => PoolInv'
<1> SUFFICES ASSUME TypeOK, PoolInv, [Next]_vars PROVE PoolInv'
  OBVIOUS
<1>0. /\ log \in Seq(Received) /\ Len(log) \in Nat /\ DOMAIN log = 1 .. Len(log)
      /\ DOMAIN log \subseteq Nat
      /\ \A m \in DOMAIN log : log[m] \in Received /\ log[m].age \in Nat
  <2>1. \A m \in DOMAIN log : log[m] \in Received
    BY Entries, ElementOfSeq DEF TypeOK
  <2> QED BY <2>1, Entries DEF TypeOK, Received
<1>1. CASE store
  <2> DEFINE n == Len(log) + 1
             old == IF io.peer \in DOMAIN pool THEN pool[io.peer] ELSE <<>>
  <2>1. /\ io.peer \in Peer
        /\ DOMAIN log' = DOMAIN log \cup {n}
        /\ \A m \in DOMAIN log : log'[m] = log[m]
        /\ log'[n] = [from |-> io.peer, age |-> 0]
        /\ DOMAIN pool' = DOMAIN pool \cup {io.peer}
        /\ \A x \in DOMAIN pool \ {io.peer} : pool'[x] = pool[x]
        /\ pool'[io.peer] = Append(old, n)
    BY <1>1, Stored
  <2>2. n \in Nat /\ \A m \in DOMAIN log : m \in Nat /\ m < n
    BY <1>0
  <2>3. UNCHANGED <<buf, got>>
    BY <1>1 DEF store
  <2> HIDE DEF n
  <2> DEFINE Now(p) == {m \in DOMAIN log' : log'[m].from = p}
  <2>4. \A p : /\ Now(p) = IF p = io.peer THEN SentBy(p) \cup {n} ELSE SentBy(p)
               /\ SentBy(p) \subseteq DOMAIN log
    BY <2>1, <2>2 DEF SentBy
  <2>5. old \in Seq(SentBy(io.peer)) /\ IsRest(old, SentBy(io.peer))
    <3>1. CASE io.peer \in DOMAIN pool
      <4>1. old \in Seq(DOMAIN log) /\ IsRest(old, SentBy(io.peer))
        BY <3>1 DEF TypeOK, PoolInv, EntriesInv
      <4> HIDE DEF old
      <4>2. ToSet(old) \subseteq SentBy(io.peer)
        BY <4>1 DEF IsRest
      <4> QED BY <4>1, <4>2, EntriesSeq
    <3>2. CASE io.peer \notin DOMAIN pool
      BY <3>2, EmptySeq, EmptyRest
    <3> QED BY <3>1, <3>2
  <2> HIDE DEF old
  <2>6. IsRest(Append(old, n), SentBy(io.peer) \cup {n})
    <3>1. SentBy(io.peer) \subseteq Nat /\ \A m \in SentBy(io.peer) : m < n
      BY <2>2, <2>4
    <3> QED BY <3>1, <2>2, <2>5, AppendRest
  <2>7. EntriesInv'
    <3> SUFFICES ASSUME NEW p \in DOMAIN pool' PROVE IsRest(pool'[p], Now(p))
      BY DEF EntriesInv, SentBy
    <3> HIDE DEF Now
    <3>1. CASE p = io.peer
      BY <3>1, <2>1, <2>4, <2>6
    <3>2. CASE p # io.peer
      BY <3>2, <2>1, <2>4 DEF PoolInv, EntriesInv
    <3> QED BY <3>1, <3>2
  <2>8. ReceivedInOrder'
    <3> SUFFICES ASSUME NEW a \in App
                 PROVE  IsRun(got[a] \o buf[a].q, Now(buf[a].peer))
      BY <2>3 DEF ReceivedInOrder, SentBy
    <3> HIDE DEF Now
    <3>1. IsRun(got[a] \o buf[a].q, SentBy(buf[a].peer))
      BY DEF PoolInv, ReceivedInOrder
    <3>2. /\ got[a] \o buf[a].q \in Seq(Nat) /\ SentBy(buf[a].peer) \subseteq Nat
          /\ \A m \in SentBy(buf[a].peer) : m < n
      BY Holdings, <2>2, <2>4
    <3>3. IsRun(got[a] \o buf[a].q, SentBy(buf[a].peer) \cup {n})
      BY <3>1, <3>2, <2>2, RunStays
    <3> QED BY <3>1, <3>3, <2>4
  <2> QED BY <2>7, <2>8 DEF PoolInv
<1>2. CASE refresh_tick
  <2>1. /\ DOMAIN pool' = DOMAIN pool /\ \A p \in DOMAIN pool : pool'[p] = drop(pool[p])
        /\ UNCHANGED <<log, buf, got>>
    BY <1>2 DEF refresh_tick
  <2>2. \A p : SentBy(p)' = SentBy(p) /\ SentBy(p) \subseteq Nat
    BY <1>0, <2>1 DEF SentBy
  <2>3. \A p \in DOMAIN pool : pool[p] \in Seq(SentBy(p)) /\ IsRest(pool[p], SentBy(p))
    <3> TAKE p \in DOMAIN pool
    <3>1. IsRest(pool[p], SentBy(p)) /\ pool[p] \in Seq(DOMAIN log)
      BY DEF PoolInv, EntriesInv, TypeOK
    <3>2. ToSet(pool[p]) \subseteq SentBy(p)
      BY <3>1 DEF IsRest
    <3> QED BY <3>1, <3>2, EntriesSeq
  <2>4. EntriesInv'
    BY <2>1, <2>2, <2>3, DropRest DEF EntriesInv
  <2>5. ReceivedInOrder'
    BY <2>1, <2>2 DEF PoolInv, ReceivedInOrder
  <2> QED BY <2>4, <2>5 DEF PoolInv
<1>3. CASE TimePasses
  <2>1. UNCHANGED <<pool, buf, got>>
    BY <1>3 DEF TimePasses
  <2> QED BY <1>3, <2>1, Older, PoolLeft DEF PoolInv, ReceivedInOrder
<1>4. ASSUME NEW a \in App, NEW p \in Peer, get_peer(a, p) PROVE PoolInv'
  <2>1. /\ buf' = [buf EXCEPT ![a] = get_peer_message_buffer(p)]
        /\ got' = [got EXCEPT ![a] = <<>>] /\ UNCHANGED <<log, pool>>
    BY <1>4 DEF get_peer
  <2>2. ASSUME NEW x \in App PROVE IsRun(got'[x] \o buf'[x].q, SentBy(buf'[x].peer))
    <3>1. CASE x # a
      <4>1. got'[x] = got[x] /\ buf'[x] = buf[x]
        BY <2>1, <3>1 DEF TypeOK
      <4> QED BY <4>1 DEF PoolInv, ReceivedInOrder
    <3>2. CASE x = a
      <4>1. got'[x] = <<>> /\ buf'[x] = get_peer_message_buffer(p)
        BY <2>1, <3>2 DEF TypeOK
      <4>2. CASE p \in DOMAIN pool
        <5>1. buf'[x].q = pool[p] /\ buf'[x].peer = p
          BY <4>1, <4>2 DEF get_peer_message_buffer
        <5>2. pool[p] \in Seq(DOMAIN log) /\ IsRest(pool[p], SentBy(p))
          BY <4>2 DEF TypeOK, PoolInv, EntriesInv
        <5>3. <<>> \o pool[p] = pool[p]
          BY <5>2, ConcatEmptySeq
        <5> QED BY <4>1, <5>1, <5>2, <5>3, RestIsRun
      <4>3. CASE p \notin DOMAIN pool
        <5>1. buf'[x].q = <<>>
          BY <4>1, <4>3 DEF get_peer_message_buffer, NoBuffer
        <5>2. <<>> \o <<>> = <<>>
          OBVIOUS
        <5> QED BY <4>1, <5>1, <5>2, EmptyRest, RestIsRun
      <4> QED BY <4>2, <4>3
    <3> QED BY <3>1, <3>2
  <2>3. \A m \in DOMAIN log : log[m].age >= log[m].age
    BY <1>0
  <2> QED BY <1>0, <2>1, <2>2, <2>3, PoolLeft
<1>5. ASSUME NEW a \in App, receive_returns(a) PROVE PoolInv'
  <2>1. /\ buf[a].q # <<>>
        /\ got' = [got EXCEPT ![a] = Append(got[a], Head(buf[a].q))]
        /\ buf' = [buf EXCEPT ![a].q = Tail(buf[a].q)]
        /\ UNCHANGED <<log, pool>>
    BY <1>5 DEF receive_returns, pop
  <2>2. ASSUME NEW x \in App PROVE IsRun(got'[x] \o buf'[x].q, SentBy(buf'[x].peer))
    <3>1. CASE x # a
      <4>1. got'[x] = got[x] /\ buf'[x] = buf[x]
        BY <2>1, <3>1 DEF TypeOK
      <4> QED BY <4>1 DEF PoolInv, ReceivedInOrder
    <3>2. CASE x = a
      <4>1. /\ got'[a] = Append(got[a], Head(buf[a].q))
            /\ buf'[a].q = Tail(buf[a].q) /\ buf'[a].peer = buf[a].peer
        BY <2>1 DEF TypeOK
      <4>2. Append(got[a], Head(buf[a].q)) \o Tail(buf[a].q) = got[a] \o buf[a].q
        BY <2>1, Holdings, MoveOver
      <4> QED BY <3>2, <4>1, <4>2 DEF PoolInv, ReceivedInOrder
    <3> QED BY <3>1, <3>2
  <2>3. \A m \in DOMAIN log : log[m].age >= log[m].age
    BY <1>0
  <2> QED BY <1>0, <2>1, <2>2, <2>3, PoolLeft
<1>6. CASE UNCHANGED <<log, pool, buf, got>>
  <2>1. \A p : SentBy(p)' = SentBy(p)
    BY <1>6 DEF SentBy
  <2> QED BY <1>6, <2>1 DEF PoolInv, EntriesInv, ReceivedInOrder
<1> QED
  BY <1>1, <1>2, <1>3, <1>4, <1>5, <1>6
  DEF Next, IoThread, Application, Waiting, vars, on_receive_packet, on_receive_message,
      RefreshDue, hub_start, hub_stop, stop, get_peer_races, receive, receive_gives_up

LEMMA PoolInvariant == Spec => []PoolInv
  BY TypeInit, TypeStep, PoolInvInit, PoolInvStep, PTL DEF Spec

\* What an application received through a peer object, and what it still can, are
\* consecutive messages of that peer in the order of arrival, each once.
THEOREM ReceivedInOrderTheorem == Spec => []ReceivedInOrder
  BY PoolInvariant, PTL DEF PoolInv

-----------------------------------------------------------------------------
(* The refresh of the pool *)

\* Messages stay in the order of their ages.
AgesOrdered == \A m, k \in DOMAIN log : m < k => log[m].age >= log[k].age

\* While it is to go on, the refresh has its timer set or its handler running.
SweepGoesOn == running => timer # Off \/ io.at = "refresh"

LEMMA SweepInit == Init => AgesOrdered /\ SweepGoesOn
<1> SUFFICES ASSUME Init PROVE AgesOrdered /\ SweepGoesOn
  OBVIOUS
<1>1. DOMAIN log = {}
  BY DEF Init
<1>2. timer \in Nat \ {0}
  BY PoolAssumption DEF Init
<1> QED BY <1>1, <1>2 DEF AgesOrdered, SweepGoesOn, Off

\* The ages after time has passed.
LEMMA Aged ==
    ASSUME TypeOK, TimePasses, NEW m \in DOMAIN log
    PROVE  /\ log[m].age \in Nat /\ Lifetime \in Nat
           /\ log'[m].age = IF log[m].age + 1 <= Lifetime THEN log[m].age + 1 ELSE Lifetime
<1>1. log[m] \in Received /\ DOMAIN log = 1 .. Len(log)
  BY Entries, ElementOfSeq DEF TypeOK
<1>2. log[m].age \in Nat /\ Lifetime \in Nat
  BY <1>1, PoolAssumption DEF Received
<1> DEFINE a == Min({log[m].age + 1, Lifetime})
<1>3. a = IF log[m].age + 1 <= Lifetime THEN log[m].age + 1 ELSE Lifetime
  BY <1>2, MinOfTwo
<1> HIDE DEF a
<1>4. log'[m] = [log[m] EXCEPT !.age = a]
  BY DEF TimePasses, a
<1>5. log'[m].age = a
  BY <1>1, <1>4 DEF Received
<1> QED BY <1>2, <1>3, <1>5

LEMMA AgesStep == TypeOK /\ AgesOrdered /\ [Next]_vars => AgesOrdered'
<1> SUFFICES ASSUME TypeOK, AgesOrdered, [Next]_vars PROVE AgesOrdered'
  OBVIOUS
<1>1. CASE store
  <2> DEFINE n == Len(log) + 1
  <2>1. /\ DOMAIN log' = DOMAIN log \cup {n} /\ \A m \in DOMAIN log : log'[m] = log[m]
        /\ log'[n].age = 0
    BY <1>1, Stored
  <2>2. Len(log) \in Nat /\ DOMAIN log = 1 .. Len(log)
        /\ \A m \in DOMAIN log : log[m] \in Received
    BY Entries, ElementOfSeq DEF TypeOK
  <2>3. \A m \in DOMAIN log : m < n /\ m \in Nat /\ log[m].age >= 0
    BY <2>2, PoolAssumption DEF Received
  <2>4. n \in Nat
    BY <2>2
  <2> HIDE DEF n
  <2>5. ASSUME NEW m \in DOMAIN log', NEW k \in DOMAIN log', m < k
        PROVE  log'[m].age >= log'[k].age
    <3>1. m \in DOMAIN log
      BY <2>1, <2>3, <2>4, <2>5
    <3>2. CASE k = n
      BY <2>1, <2>3, <3>1, <3>2
    <3>3. CASE k \in DOMAIN log
      BY <2>1, <2>5, <3>1, <3>3 DEF AgesOrdered
    <3> QED BY <2>1, <3>2, <3>3
  <2> QED BY <2>5 DEF AgesOrdered
<1>2. CASE TimePasses
  <2>1. DOMAIN log' = DOMAIN log
    BY <1>2, Older
  <2>2. ASSUME NEW m \in DOMAIN log, NEW k \in DOMAIN log, m < k
        PROVE  log'[m].age >= log'[k].age
    <3>1. log[m].age >= log[k].age
      BY <2>2 DEF AgesOrdered
    <3> QED BY <1>2, <3>1, Aged
  <2> QED BY <2>1, <2>2 DEF AgesOrdered
<1>3. CASE UNCHANGED log
  BY <1>3 DEF AgesOrdered
<1> QED
  BY <1>1, <1>2, <1>3
  DEF Next, IoThread, Application, Waiting, vars, on_receive_packet, on_receive_message,
      RefreshDue, refresh_tick, hub_start, hub_stop, stop, get_peer, get_peer_races, receive,
      receive_returns, receive_gives_up

LEMMA SweepGoesOnStep == TypeOK /\ SweepGoesOn /\ [Next]_vars => SweepGoesOn'
<1> SUFFICES ASSUME TypeOK, SweepGoesOn, [Next]_vars PROVE SweepGoesOn'
  OBVIOUS
<1>1. Period \in Nat /\ timer \in {Off} \cup 0 .. Period
  BY PoolAssumption DEF TypeOK
<1>2. CASE TimePasses
  <2>1. timer' = (IF timer > 0 THEN timer - 1 ELSE timer) /\ UNCHANGED <<io, running>>
    BY <1>2 DEF TimePasses
  <2>2. timer # Off => timer' # Off
    BY <1>1, <2>1 DEF Off
  <2> QED BY <2>1, <2>2 DEF SweepGoesOn
<1>3. CASE refresh_tick
  <2>1. Period # Off
    BY <1>1 DEF Off
  <2> QED BY <1>3, <2>1 DEF refresh_tick, SweepGoesOn
<1>4. CASE RefreshDue
  BY <1>4 DEF RefreshDue, SweepGoesOn
<1>5. CASE store
  BY <1>5 DEF store, SweepGoesOn
<1>6. CASE on_receive_message
  BY <1>6 DEF on_receive_message, SweepGoesOn
<1>7. ASSUME NEW p \in Peer, on_receive_packet(p) PROVE SweepGoesOn'
  BY <1>7 DEF on_receive_packet, SweepGoesOn, IoIdle
<1>8. CASE UNCHANGED <<io, timer>> /\ (running' => running)
  BY <1>8 DEF SweepGoesOn
<1>9. CASE hub_start \/ hub_stop \/ stop \/ UNCHANGED vars
  BY <1>8, <1>9 DEF hub_start, hub_stop, stop, vars
<1>10. ASSUME NEW a \in App, Application(a) PROVE SweepGoesOn'
  BY <1>8, <1>10 DEF Application, Waiting, get_peer, get_peer_races, receive, receive_returns,
     receive_gives_up
<1> QED BY <1>2, <1>3, <1>4, <1>5, <1>6, <1>7, <1>9, <1>10 DEF Next, IoThread

\* upper_bound counts every message that expired, as the ages are in order.
LEMMA UpperBoundExact ==
    ASSUME TypeOK, AgesOrdered, NEW q \in Seq(DOMAIN log),
           \A i, j \in DOMAIN q : i < j => q[i] < q[j],
           NEW k \in DOMAIN q, expired(q[k])
    PROVE  k <= upper_bound(q)
<1> DEFINE U == {i \in DOMAIN q : \A j \in 1 .. i : expired(q[j])}
<1>1. Len(q) \in Nat /\ DOMAIN q = 1 .. Len(q) /\ \A i \in DOMAIN q : q[i] \in DOMAIN log
  BY Entries, ElementOfSeq
<1>2. \A m \in DOMAIN log : log[m].age \in Nat
  <2>1. \A m \in DOMAIN log : log[m] \in Received
    BY Entries, ElementOfSeq DEF TypeOK
  <2> QED BY <2>1, PoolAssumption DEF Received
<1>3. ASSUME NEW j \in 1 .. k PROVE expired(q[j])
  <2>1. j \in DOMAIN q
    BY <1>1
  <2>2. CASE j = k
    BY <2>2
  <2>3. CASE j < k
    <3>1. log[q[j]].age >= log[q[k]].age
      BY <1>1, <2>1, <2>3 DEF AgesOrdered
    <3>2. log[q[j]].age \in Nat /\ log[q[k]].age \in Nat /\ Lifetime \in Nat
      BY <1>1, <1>2, <2>1, PoolAssumption
    <3> QED BY <3>1, <3>2 DEF expired
  <2> QED BY <1>1, <2>2, <2>3
<1>4. 1 .. k \subseteq U
  <2> SUFFICES ASSUME NEW i \in 1 .. k PROVE i \in DOMAIN q /\ \A j \in 1 .. i : expired(q[j])
    OBVIOUS
  <2>1. i \in DOMAIN q /\ 1 .. i \subseteq 1 .. k
    BY <1>1
  <2> QED BY <1>3, <2>1
<1>5. IsFiniteSet(U)
  <2>1. IsFiniteSet(1 .. Len(q)) /\ U \in SUBSET (1 .. Len(q))
    BY <1>1, FS_Interval
  <2> QED BY <2>1, FS_Subset
<1> HIDE DEF U
<1>6. IsFiniteSet(1 .. k) /\ Cardinality(1 .. k) = k
  <2>1. k \in Int /\ 1 \in Int /\ k >= 1
    BY <1>1
  <2>2. Cardinality(1 .. k) = IF 1 > k THEN 0 ELSE k - 1 + 1
    BY <2>1, FS_Interval
  <2> QED BY <2>1, <2>2, FS_Interval
<1>7. Cardinality(1 .. k) <= Cardinality(U)
  BY <1>4, <1>5, FS_Subset
<1> QED BY <1>6, <1>7 DEF upper_bound, U

\* One entry: its list loses its front, and the front is what expired.
LEMMA SweepLeaves ==
    ASSUME TypeOK, PoolInv, AgesOrdered, refresh_tick, NEW p \in DOMAIN pool
    PROVE  ToSet(pool'[p]) = {m \in ToSet(pool[p]) : log[m].age < Lifetime}
<1> DEFINE q == pool[p]
           d == drop(q)
           u == upper_bound(q)
<1>1. pool'[p] = d
  BY DEF refresh_tick
<1>2. q \in Seq(DOMAIN log) /\ IsRest(q, SentBy(p)) /\ DOMAIN log \subseteq Nat
  BY Entries DEF TypeOK, PoolInv, EntriesInv
<1>3. \A i, j \in DOMAIN q : i < j => q[i] < q[j]
  BY <1>2 DEF IsRest
<1> HIDE DEF q
<1>4. /\ d \in Seq(DOMAIN log)
      /\ \A i \in DOMAIN d : i + u \in DOMAIN q /\ d[i] = q[i + u]
      /\ \A k \in DOMAIN q : k > u => q[k] \in ToSet(d)
  BY <1>2, Drop
<1>5. q \in Seq(Nat)
  BY <1>2, SeqMonotonic
<1>6. /\ u \in Nat /\ \A k \in DOMAIN q : k \in Nat /\ (~expired(q[k]) => k > u)
  <2>1. upper_bound(q) \in 0 .. Len(q) /\ Len(q) \in Nat /\ DOMAIN q = 1 .. Len(q)
    BY <1>5, UpperBound, Entries
  <2>2. \A k \in DOMAIN q : ~expired(q[k]) => upper_bound(q) < k
    BY <1>5, UpperBound
  <2> QED BY <2>1, <2>2
<1> HIDE DEF d, u
<1>7. /\ ToSet(d) = {d[i] : i \in DOMAIN d} /\ ToSet(q) = {q[k] : k \in DOMAIN q}
      /\ \A i \in DOMAIN d : i \in Nat /\ i >= 1
      /\ \A k \in DOMAIN q : q[k] \in DOMAIN log
  <2>1. /\ ToSet(d) = {d[i] : i \in 1 .. Len(d)} /\ DOMAIN d = 1 .. Len(d) /\ Len(d) \in Nat
    BY <1>4, Entries
  <2>2. /\ ToSet(q) = {q[i] : i \in 1 .. Len(q)} /\ DOMAIN q = 1 .. Len(q) /\ Len(q) \in Nat
    BY <1>2, Entries
  <2>3. \A k \in 1 .. Len(q) : q[k] \in DOMAIN log
    BY <1>2, ElementOfSeq
  <2> QED BY <2>1, <2>2, <2>3
<1>8. \A m \in DOMAIN log : (log[m].age < Lifetime) <=> ~expired(m)
  <2>1. \A m \in DOMAIN log : log[m] \in Received
    BY Entries, ElementOfSeq DEF TypeOK
  <2>2. \A m \in DOMAIN log : log[m].age \in Nat /\ Lifetime \in Nat
    BY <2>1, PoolAssumption DEF Received
  <2> QED BY <2>2 DEF expired
<1>9. ASSUME NEW i \in DOMAIN d PROVE d[i] \in ToSet(q) /\ log[d[i]].age < Lifetime
  <2>1. i + u \in DOMAIN q /\ d[i] = q[i + u] /\ ~(i + u <= u)
    BY <1>4, <1>6, <1>7
  <2>2. expired(q[i + u]) => i + u <= u
    BY <1>2, <1>3, <2>1, UpperBoundExact DEF u
  <2> QED BY <1>7, <1>8, <2>1, <2>2
<1>10. ASSUME NEW k \in DOMAIN q, log[q[k]].age < Lifetime PROVE q[k] \in ToSet(d)
  BY <1>4, <1>6, <1>7, <1>8, <1>10
<1> QED BY <1>1, <1>7, <1>9, <1>10 DEF q

\* The refresh's cut is exact for every lifetime, period and number of messages:
\* upper_bound finds the last message that expired, as an entry is in the order of
\* arrival and the ages with it.
THEOREM SweepExactTheorem == Spec => SweepExact
<1>1. ASSUME TypeOK, PoolInv, AgesOrdered
      PROVE  [refresh_tick => \A p \in DOMAIN pool :
                 ToSet(pool'[p]) = {m \in ToSet(pool[p]) : log[m].age < Lifetime}]_vars
  BY <1>1, SweepLeaves
<1>2. Spec => [](TypeOK /\ PoolInv)
  BY PoolTypeCorrect, PoolInvariant, PTL
<1>3. Spec => []AgesOrdered
  BY SweepInit, AgesStep, PoolTypeCorrect, PTL DEF Spec
<1> QED BY <1>1, <1>2, <1>3, PTL DEF SweepExact

\* The refresh does not break off: until the node is stopped its timer is set or
\* its handler running, which sets it again.  With the above it is what
\* ExpiredDropped rests on.
THEOREM SweepGoesOnTheorem == Spec => []SweepGoesOn
  BY SweepInit, SweepGoesOnStep, PoolTypeCorrect, PTL DEF Spec
=============================================================================

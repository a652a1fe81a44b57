--------------------------- MODULE QueueTheorems ---------------------------
(***************************************************************************)
(* What the steps of an io_context do to its queue of ready handlers: one  *)
(* is taken from the front, others are put at the back.  A queue is a      *)
(* sequence; the facts are about the entries it has and where.             *)
(***************************************************************************)
EXTENDS Integers, SequencesExt, SequenceTheorems, TLAPS

\* The entries of a sequence, by their positions.
LEMMA Entries ==
    ASSUME NEW S, NEW q \in Seq(S)
    PROVE  /\ Len(q) \in Nat /\ DOMAIN q = 1 .. Len(q)
           /\ ToSet(q) = {q[i] : i \in 1 .. Len(q)}
           /\ ToSet(q) \subseteq S
  BY LenProperties, ElementOfSeq DEF ToSet

\* A sequence is one of the set that its entries are in.
LEMMA EntriesSeq ==
    ASSUME NEW S, NEW T, NEW q \in Seq(S), ToSet(q) \subseteq T
    PROVE  q \in Seq(T)
<1>1. Len(q) \in Nat /\ q \in [1 .. Len(q) -> S] /\ ToSet(q) = {q[i] : i \in 1 .. Len(q)}
  BY Entries, LenProperties
<1>2. q \in [1 .. Len(q) -> T]
  BY <1>1
<1> QED BY <1>1, <1>2, SeqDef

LEMMA EntriesOfTuples ==
    ASSUME NEW e
    PROVE  ToSet(<<>>) = {} /\ ToSet(<<e>>) = {e}
  BY DEF ToSet

\* A handler is posted.
LEMMA PostEntries ==
    ASSUME NEW S, NEW q \in Seq(S), NEW e \in S
    PROVE  /\ Append(q, e) \in Seq(S)
           /\ ToSet(Append(q, e)) = ToSet(q) \cup {e}
<1>1. /\ Append(q, e) \in Seq(S) /\ Len(Append(q, e)) = Len(q) + 1
      /\ \A i \in 1 .. Len(q) : Append(q, e)[i] = q[i]
      /\ Append(q, e)[Len(q) + 1] = e
  BY AppendProperties
<1>2. Len(q) \in Nat
  BY LenProperties
<1>3. /\ ToSet(Append(q, e)) = {Append(q, e)[i] : i \in 1 .. Len(q) + 1}
      /\ ToSet(q) = {q[i] : i \in 1 .. Len(q)}
  BY <1>1, Entries
<1> QED BY <1>1, <1>2, <1>3

\* The next handler is taken.
LEMMA TakeEntries ==
    ASSUME NEW S, NEW q \in Seq(S), q # <<>>
    PROVE  /\ Head(q) \in S /\ Tail(q) \in Seq(S)
           /\ ToSet(q) = {Head(q)} \cup ToSet(Tail(q))
           /\ Head(q) = q[1] /\ Len(q) > 0
<1>1. /\ Head(q) \in S /\ Tail(q) \in Seq(S) /\ Len(Tail(q)) = Len(q) - 1
      /\ \A i \in 1 .. Len(Tail(q)) : Tail(q)[i] = q[i + 1]
  BY HeadTailProperties
<1>2. Len(q) \in Nat /\ Len(q) > 0 /\ Head(q) = q[1]
  BY LenProperties, EmptySeq
<1>3. /\ ToSet(Tail(q)) = {Tail(q)[i] : i \in 1 .. Len(q) - 1}
      /\ ToSet(q) = {q[i] : i \in 1 .. Len(q)}
  BY <1>1, Entries
<1>4. ASSUME NEW e \in ToSet(q) PROVE e \in {Head(q)} \cup ToSet(Tail(q))
  <2>1. PICK i \in 1 .. Len(q) : e = q[i]
    BY <1>3
  <2>2. CASE i = 1
    BY <2>1, <2>2, <1>2
  <2>3. CASE i # 1
    <3>1. i - 1 \in 1 .. Len(q) - 1 /\ Tail(q)[i - 1] = q[i]
      BY <2>3, <1>1, <1>2
    <3> QED BY <2>1, <3>1, <1>3
  <2> QED BY <2>2, <2>3
<1>5. ASSUME NEW e \in ToSet(Tail(q)) PROVE e \in ToSet(q)
  <2>1. PICK i \in 1 .. Len(q) - 1 : e = Tail(q)[i]
    BY <1>3
  <2>2. i + 1 \in 1 .. Len(q) /\ e = q[i + 1]
    BY <2>1, <1>1, <1>2
  <2> QED BY <2>2, <1>3
<1>6. Head(q) \in ToSet(q)
  BY <1>2, <1>3
<1> QED BY <1>1, <1>2, <1>4, <1>5, <1>6

LEMMA PostIsConcat ==
    ASSUME NEW S, NEW q \in Seq(S), NEW e \in S
    PROVE  Append(q, e) = q \o <<e>> /\ <<e>> \in Seq(S)
<1>1. Append(q, e) = q \o <<e>>
  BY AppendIsConcat
<1>2. <<e>> \in Seq(S)
  OBVIOUS
<1> QED BY <1>1, <1>2

\* Several handlers are posted.
LEMMA PostManyEntries ==
    ASSUME NEW S, NEW q \in Seq(S), NEW r \in Seq(S)
    PROVE  /\ q \o r \in Seq(S)
           /\ ToSet(q \o r) = ToSet(q) \cup ToSet(r)
<1>1. /\ q \o r \in Seq(S) /\ Len(q \o r) = Len(q) + Len(r)
      /\ \A i \in 1 .. Len(q) + Len(r) :
            (q \o r)[i] = IF i <= Len(q) THEN q[i] ELSE r[i - Len(q)]
  BY ConcatProperties
<1>2. Len(q) \in Nat /\ Len(r) \in Nat
  BY LenProperties
<1>3. /\ ToSet(q \o r) = {(q \o r)[i] : i \in 1 .. Len(q) + Len(r)}
      /\ ToSet(q) = {q[i] : i \in 1 .. Len(q)}
      /\ ToSet(r) = {r[i] : i \in 1 .. Len(r)}
  BY <1>1, Entries
<1>4. ASSUME NEW e \in ToSet(q) PROVE e \in ToSet(q \o r)
  <2>1. PICK i \in 1 .. Len(q) : e = q[i]
    BY <1>3
  <2> QED BY <2>1, <1>1, <1>2, <1>3
<1>5. ASSUME NEW e \in ToSet(r) PROVE e \in ToSet(q \o r)
  <2>1. PICK i \in 1 .. Len(r) : e = r[i]
    BY <1>3
  <2>2. i + Len(q) \in 1 .. Len(q) + Len(r) /\ (q \o r)[i + Len(q)] = r[i]
    BY <1>1, <1>2
  <2> QED BY <2>1, <2>2, <1>3
<1>6. ASSUME NEW e \in ToSet(q \o r) PROVE e \in ToSet(q) \cup ToSet(r)
  <2>1. PICK i \in 1 .. Len(q) + Len(r) : e = (q \o r)[i]
    BY <1>3
  <2>2. CASE i <= Len(q)
    <3>1. i \in 1 .. Len(q) /\ e = q[i]
      BY <2>1, <2>2, <1>1, <1>2
    <3> QED BY <3>1, <1>3
  <2>3. CASE ~(i <= Len(q))
    <3>1. i - Len(q) \in 1 .. Len(r) /\ e = r[i - Len(q)]
      BY <2>1, <2>3, <1>1, <1>2
    <3> QED BY <3>1, <1>3
  <2> QED BY <2>2, <2>3
<1> QED BY <1>1, <1>4, <1>5, <1>6

-----------------------------------------------------------------------------
\* No two positions hold an entry of P.
AtMostOne(q, P) == \A i, j \in DOMAIN q : q[i] \in P /\ q[j] \in P => i = j

\* Taking an entry leaves at most one, and none if it was the one.
LEMMA TakeOne ==
    ASSUME NEW S, NEW q \in Seq(S), q # <<>>, NEW P, AtMostOne(q, P)
    PROVE  /\ AtMostOne(Tail(q), P)
           /\ Head(q) \in P => ToSet(Tail(q)) \cap P = {}
<1>1. /\ Tail(q) \in Seq(S) /\ Len(Tail(q)) = Len(q) - 1
      /\ \A i \in 1 .. Len(Tail(q)) : Tail(q)[i] = q[i + 1]
  BY HeadTailProperties
<1>2. /\ Len(q) \in Nat /\ Len(q) > 0 /\ Head(q) = q[1] /\ DOMAIN q = 1 .. Len(q)
      /\ DOMAIN Tail(q) = 1 .. Len(q) - 1
      /\ ToSet(Tail(q)) = {Tail(q)[i] : i \in 1 .. Len(q) - 1}
  BY <1>1, TakeEntries, Entries
<1>3. \A i, j \in 1 .. Len(q) : q[i] \in P /\ q[j] \in P => i = j
  BY <1>2 DEF AtMostOne
<1>4. ASSUME NEW i \in 1 .. Len(q) - 1, NEW j \in 1 .. Len(q) - 1,
             Tail(q)[i] \in P, Tail(q)[j] \in P
      PROVE  i = j
  <2>1. i + 1 \in 1 .. Len(q) /\ j + 1 \in 1 .. Len(q)
    BY <1>2
  <2>2. q[i + 1] \in P /\ q[j + 1] \in P
    BY <1>1, <1>4
  <2>3. i + 1 = j + 1
    BY <2>1, <2>2, <1>3
  <2> QED BY <2>3
<1>5. ASSUME NEW i \in 1 .. Len(q) - 1, Tail(q)[i] \in P, q[1] \in P
      PROVE  FALSE
  <2>1. i + 1 \in 1 .. Len(q) /\ 1 \in 1 .. Len(q) /\ i + 1 # 1
    BY <1>2
  <2>2. q[i + 1] \in P
    BY <1>1, <1>5
  <2> QED BY <2>1, <2>2, <1>3, <1>5
<1>6. AtMostOne(Tail(q), P)
  BY <1>2, <1>4 DEF AtMostOne
<1>7. Head(q) \in P => ToSet(Tail(q)) \cap P = {}
  BY <1>2, <1>5
<1> QED BY <1>6, <1>7

\* If one of two sequences has no entry of P, both together have as many as the
\* other.
LEMMA PostOne ==
    ASSUME NEW S, NEW q \in Seq(S), NEW r \in Seq(S), NEW P,
           AtMostOne(q, P), AtMostOne(r, P),
           ToSet(q) \cap P = {} \/ ToSet(r) \cap P = {}
    PROVE  AtMostOne(q \o r, P)
<1>1. /\ q \o r \in Seq(S) /\ Len(q \o r) = Len(q) + Len(r)
      /\ \A i \in 1 .. Len(q) + Len(r) :
            (q \o r)[i] = IF i <= Len(q) THEN q[i] ELSE r[i - Len(q)]
  BY ConcatProperties
<1>2. /\ Len(q) \in Nat /\ DOMAIN q = 1 .. Len(q)
      /\ ToSet(q) = {q[i] : i \in 1 .. Len(q)}
      /\ Len(r) \in Nat /\ DOMAIN r = 1 .. Len(r)
      /\ ToSet(r) = {r[i] : i \in 1 .. Len(r)}
  BY Entries
<1>3. DOMAIN (q \o r) = 1 .. Len(q) + Len(r)
  BY <1>1, Entries
<1> SUFFICES ASSUME NEW i \in 1 .. Len(q) + Len(r), NEW j \in 1 .. Len(q) + Len(r),
                    (q \o r)[i] \in P, (q \o r)[j] \in P
             PROVE  i = j
  BY <1>3 DEF AtMostOne
<1>4. \A k \in 1 .. Len(q) + Len(r) :
         /\ k <= Len(q) => k \in 1 .. Len(q)
         /\ k > Len(q) => k - Len(q) \in 1 .. Len(r)
  BY <1>2
<1>5. CASE ToSet(q) \cap P = {}
  <2>1. i > Len(q) /\ j > Len(q)
    BY <1>1, <1>2, <1>4, <1>5
  <2>2. r[i - Len(q)] \in P /\ r[j - Len(q)] \in P
    BY <2>1, <1>1, <1>2
  <2>3. i - Len(q) = j - Len(q)
    BY <2>1, <2>2, <1>2, <1>4 DEF AtMostOne
  <2> QED BY <2>3, <1>2
<1>6. CASE ToSet(r) \cap P = {}
  <2>1. i <= Len(q) /\ j <= Len(q)
    BY <1>1, <1>2, <1>4, <1>6
  <2>2. q[i] \in P /\ q[j] \in P
    BY <2>1, <1>1, <1>2
  <2> QED BY <2>1, <2>2, <1>2, <1>4 DEF AtMostOne
<1> QED BY <1>5, <1>6

\* The same of a sequence of no or one entry.
LEMMA OneOfTuples ==
    ASSUME NEW e, NEW P
    PROVE  AtMostOne(<<>>, P) /\ AtMostOne(<<e>>, P)
  BY DEF AtMostOne

-----------------------------------------------------------------------------
\* Every entry of P is before every entry of R.
Before(q, P, R) == \A i, j \in DOMAIN q : q[i] \in P /\ q[j] \in R => i < j

\* Taking an entry keeps the order; behind one of R there is none of P.
LEMMA TakeBefore ==
    ASSUME NEW S, NEW q \in Seq(S), q # <<>>, NEW P, NEW R, Before(q, P, R)
    PROVE  /\ Before(Tail(q), P, R)
           /\ Head(q) \in R => ToSet(Tail(q)) \cap P = {}
<1>1. /\ Tail(q) \in Seq(S) /\ Len(Tail(q)) = Len(q) - 1
      /\ \A i \in 1 .. Len(Tail(q)) : Tail(q)[i] = q[i + 1]
  BY HeadTailProperties
<1>2. /\ Len(q) \in Nat /\ Len(q) > 0 /\ Head(q) = q[1] /\ DOMAIN q = 1 .. Len(q)
      /\ DOMAIN Tail(q) = 1 .. Len(q) - 1
      /\ ToSet(Tail(q)) = {Tail(q)[i] : i \in 1 .. Len(q) - 1}
  BY <1>1, TakeEntries, Entries
<1>3. \A i, j \in 1 .. Len(q) : q[i] \in P /\ q[j] \in R => i < j
  BY <1>2 DEF Before
<1>4. ASSUME NEW i \in 1 .. Len(q) - 1, NEW j \in 1 .. Len(q) - 1,
             Tail(q)[i] \in P, Tail(q)[j] \in R
      PROVE  i < j
  <2>1. i + 1 \in 1 .. Len(q) /\ j + 1 \in 1 .. Len(q)
    BY <1>2
  <2>2. q[i + 1] \in P /\ q[j + 1] \in R
    BY <1>1, <1>4
  <2>3. i + 1 < j + 1
    BY <2>1, <2>2, <1>3
  <2> QED BY <2>3
<1>5. ASSUME NEW i \in 1 .. Len(q) - 1, Tail(q)[i] \in P, q[1] \in R
      PROVE  FALSE
  <2>1. i + 1 \in 1 .. Len(q) /\ 1 \in 1 .. Len(q) /\ ~(i + 1 < 1)
    BY <1>2
  <2>2. q[i + 1] \in P
    BY <1>1, <1>5
  <2> QED BY <2>1, <2>2, <1>3, <1>5
<1>6. Before(Tail(q), P, R)
  BY <1>2, <1>4 DEF Before
<1>7. Head(q) \in R => ToSet(Tail(q)) \cap P = {}
  BY <1>2, <1>5
<1> QED BY <1>6, <1>7

\* What is posted is behind what was there.
LEMMA PostBefore ==
    ASSUME NEW S, NEW q \in Seq(S), NEW r \in Seq(S), NEW P, NEW R,
           Before(q, P, R), ToSet(r) \cap P = {}
    PROVE  Before(q \o r, P, R)
<1>1. /\ q \o r \in Seq(S) /\ Len(q \o r) = Len(q) + Len(r)
      /\ \A i \in 1 .. Len(q) + Len(r) :
            (q \o r)[i] = IF i <= Len(q) THEN q[i] ELSE r[i - Len(q)]
  BY ConcatProperties
<1>2. /\ Len(q) \in Nat /\ DOMAIN q = 1 .. Len(q)
      /\ Len(r) \in Nat /\ DOMAIN r = 1 .. Len(r)
      /\ ToSet(r) = {r[i] : i \in 1 .. Len(r)}
  BY Entries
<1>3. DOMAIN (q \o r) = 1 .. Len(q) + Len(r)
  BY <1>1, Entries
<1> SUFFICES ASSUME NEW i \in 1 .. Len(q) + Len(r), NEW j \in 1 .. Len(q) + Len(r),
                    (q \o r)[i] \in P, (q \o r)[j] \in R
             PROVE  i < j
  BY <1>3 DEF Before
<1>4. i <= Len(q)
  <2> SUFFICES ASSUME ~(i <= Len(q)) PROVE FALSE
    OBVIOUS
  <2>1. i - Len(q) \in 1 .. Len(r) /\ (q \o r)[i] = r[i - Len(q)]
    BY <1>1, <1>2
  <2> QED BY <2>1, <1>2
<1>5. i \in 1 .. Len(q) /\ q[i] \in P
  BY <1>1, <1>2, <1>4
<1>6. CASE j <= Len(q)
  <2>1. j \in 1 .. Len(q) /\ q[j] \in R
    BY <1>1, <1>2, <1>6
  <2> QED BY <2>1, <1>2, <1>5 DEF Before
<1>7. CASE ~(j <= Len(q))
  BY <1>2, <1>4, <1>7
<1> QED BY <1>6, <1>7

\* If the first of two sequences has no entry of R, both together keep the order
\* of the second.
LEMMA JoinBefore ==
    ASSUME NEW S, NEW q \in Seq(S), NEW r \in Seq(S), NEW P, NEW R,
           ToSet(q) \cap R = {}, Before(r, P, R)
    PROVE  Before(q \o r, P, R)
<1>1. /\ q \o r \in Seq(S) /\ Len(q \o r) = Len(q) + Len(r)
      /\ \A i \in 1 .. Len(q) + Len(r) :
            (q \o r)[i] = IF i <= Len(q) THEN q[i] ELSE r[i - Len(q)]
  BY ConcatProperties
<1>2. /\ Len(q) \in Nat /\ DOMAIN q = 1 .. Len(q)
      /\ ToSet(q) = {q[i] : i \in 1 .. Len(q)}
      /\ Len(r) \in Nat /\ DOMAIN r = 1 .. Len(r)
      /\ DOMAIN (q \o r) = 1 .. Len(q) + Len(r)
  BY <1>1, Entries
<1> SUFFICES ASSUME NEW i \in 1 .. Len(q) + Len(r), NEW j \in 1 .. Len(q) + Len(r),
                    (q \o r)[i] \in P, (q \o r)[j] \in R
             PROVE  i < j
  BY <1>2 DEF Before
<1>3. ~(j <= Len(q)) /\ j - Len(q) \in 1 .. Len(r) /\ r[j - Len(q)] \in R
  BY <1>1, <1>2
<1>4. CASE i <= Len(q)
  BY <1>2, <1>3, <1>4
<1>5. CASE ~(i <= Len(q))
  <2>1. i - Len(q) \in 1 .. Len(r) /\ r[i - Len(q)] \in P
    BY <1>1, <1>2, <1>5
  <2>2. i - Len(q) < j - Len(q)
    BY <1>2, <1>3, <2>1 DEF Before
  <2> QED BY <2>2, <1>2
<1> QED BY <1>4, <1>5

\* Without entries of both there is nothing to order.
LEMMA NoneBefore ==
    ASSUME NEW S, NEW q \in Seq(S), NEW P, NEW R,
           ToSet(q) \cap P = {} \/ ToSet(q) \cap R = {}
    PROVE  Before(q, P, R)
  BY Entries DEF Before

-----------------------------------------------------------------------------
\* qn has the entries of U that q has, in the same order.
Keeps(q, qn, U) ==
    /\ ToSet(qn) \cap U = ToSet(q) \cap U
    /\ \A P \in SUBSET U : AtMostOne(q, P) => AtMostOne(qn, P)
    /\ \A P, R \in SUBSET U : Before(q, P, R) => Before(qn, P, R)

LEMMA KeepsSelf == \A q, U : Keeps(q, q, U)
  BY DEF Keeps

LEMMA KeepsLess ==
    ASSUME NEW q, NEW qn, NEW U, NEW V \in SUBSET U, Keeps(q, qn, U)
    PROVE  Keeps(q, qn, V)
  BY DEF Keeps

LEMMA KeepsTwice ==
    ASSUME NEW q, NEW qm, NEW qn, NEW U, Keeps(q, qm, U), Keeps(qm, qn, U)
    PROVE  Keeps(q, qn, U)
  BY DEF Keeps

\* Entries that are none of U are taken or posted.
LEMMA TakeKeeps ==
    ASSUME NEW S, NEW q \in Seq(S), q # <<>>, NEW U, Head(q) \notin U
    PROVE  Keeps(q, Tail(q), U)
<1>1. ToSet(q) = {Head(q)} \cup ToSet(Tail(q))
  BY TakeEntries
<1>2. ToSet(Tail(q)) \cap U = ToSet(q) \cap U
  BY <1>1
<1>3. \A P \in SUBSET U : AtMostOne(q, P) => AtMostOne(Tail(q), P)
  BY TakeOne
<1>4. \A P, R \in SUBSET U : Before(q, P, R) => Before(Tail(q), P, R)
  BY TakeBefore
<1> QED BY <1>2, <1>3, <1>4 DEF Keeps

LEMMA PostKeeps ==
    ASSUME NEW S, NEW q \in Seq(S), NEW r \in Seq(S), NEW U, ToSet(r) \cap U = {}
    PROVE  Keeps(q, q \o r, U)
<1>1. ToSet(q \o r) = ToSet(q) \cup ToSet(r)
  BY PostManyEntries
<1>2. ToSet(q \o r) \cap U = ToSet(q) \cap U
  BY <1>1
<1>3. ASSUME NEW P \in SUBSET U, AtMostOne(q, P) PROVE AtMostOne(q \o r, P)
  <2>1. ToSet(r) \cap P = {}
    OBVIOUS
  <2>2. AtMostOne(r, P)
    BY <2>1, Entries DEF AtMostOne
  <2> QED BY <1>3, <2>1, <2>2, PostOne
<1>4. ASSUME NEW P \in SUBSET U, NEW R \in SUBSET U, Before(q, P, R)
      PROVE  Before(q \o r, P, R)
  <2>1. ToSet(r) \cap P = {}
    OBVIOUS
  <2> QED BY <1>4, <2>1, PostBefore
<1> QED BY <1>2, <1>3, <1>4 DEF Keeps

\* A handler that is none of U runs, and posts none of U.
LEMMA RunKeeps ==
    ASSUME NEW S, NEW q \in Seq(S), q # <<>>, NEW r \in Seq(S), NEW U,
           Head(q) \notin U, ToSet(r) \cap U = {}
    PROVE  Keeps(q, Tail(q) \o r, U)
<1> DEFINE t == Tail(q)
<1>1. t \in Seq(S) /\ Keeps(q, t, U)
  BY TakeEntries, TakeKeeps
<1> HIDE DEF t
<1>2. Keeps(t, t \o r, U)
  BY <1>1, PostKeeps
<1>3. Keeps(q, t \o r, U)
  BY <1>1, <1>2, KeepsTwice
<1> QED BY <1>3 DEF t

-----------------------------------------------------------------------------
\* An entry is erased: what is before it stays, the rest moves up.
LEMMA RemoveAtProperties ==
    ASSUME NEW S, NEW s \in Seq(S), NEW k \in 1 .. Len(s)
    PROVE  /\ RemoveAt(s, k) \in Seq(S)
           /\ Len(RemoveAt(s, k)) = Len(s) - 1
           /\ \A i \in 1 .. Len(s) - 1 :
                 RemoveAt(s, k)[i] = IF i < k THEN s[i] ELSE s[i + 1]
<1> DEFINE front == SubSeq(s, 1, k - 1)
           back == SubSeq(s, k + 1, Len(s))
<1>0. Len(s) \in Nat /\ \A i \in 1 .. Len(s) : s[i] \in S
  BY LenProperties, ElementOfSeq
<1>1. /\ front \in Seq(S)
      /\ Len(front) = k - 1
      /\ \A i \in 1 .. k - 1 : front[i] = s[i]
  <2>1. \A i \in 1 .. k - 1 : s[i] \in S
    BY <1>0
  <2>2. 1 \in Int /\ k - 1 \in Int
    BY <1>0
  <2>3. /\ front \in Seq(S)
        /\ Len(front) = IF 1 <= k - 1 THEN (k - 1) - 1 + 1 ELSE 0
        /\ \A i \in 1 .. (k - 1) - 1 + 1 : front[i] = s[1 + i - 1]
    BY <2>1, <2>2, SubSeqProperties
  <2> HIDE DEF front
  <2> QED BY <2>3, <1>0
<1>2. /\ back \in Seq(S)
      /\ Len(back) = Len(s) - k
      /\ \A i \in 1 .. Len(s) - k : back[i] = s[k + i]
  <2>1. \A i \in k + 1 .. Len(s) : s[i] \in S
    BY <1>0
  <2>2. k + 1 \in Int /\ Len(s) \in Int
    BY <1>0
  <2>3. /\ back \in Seq(S)
        /\ Len(back) = IF k + 1 <= Len(s) THEN Len(s) - (k + 1) + 1 ELSE 0
        /\ \A i \in 1 .. Len(s) - (k + 1) + 1 : back[i] = s[(k + 1) + i - 1]
    BY <2>1, <2>2, SubSeqProperties
  <2> HIDE DEF back
  <2> QED BY <2>3, <1>0
<1>3. RemoveAt(s, k) = front \o back
  BY DEF RemoveAt
<1> HIDE DEF front, back
<1>4. /\ front \o back \in Seq(S)
      /\ Len(front \o back) = Len(front) + Len(back)
      /\ \A i \in 1 .. Len(front) + Len(back) :
            (front \o back)[i] = IF i <= Len(front) THEN front[i]
                                 ELSE back[i - Len(front)]
  BY <1>1, <1>2, ConcatProperties
<1>5. ASSUME NEW i \in 1 .. Len(s) - 1
      PROVE  RemoveAt(s, k)[i] = IF i < k THEN s[i] ELSE s[i + 1]
  <2>1. CASE i < k
    BY <2>1, <1>0, <1>1, <1>2, <1>3, <1>4
  <2>2. CASE ~(i < k)
    <3>1. (front \o back)[i] = back[i - (k - 1)]
      BY <2>2, <1>0, <1>1, <1>2, <1>4
    <3>2. i - (k - 1) \in 1 .. Len(s) - k /\ k + (i - (k - 1)) = i + 1
      BY <2>2, <1>0
    <3> QED BY <2>2, <3>1, <3>2, <1>2, <1>3
  <2> QED BY <2>1, <2>2
<1> QED
  BY <1>0, <1>1, <1>2, <1>3, <1>4, <1>5
=============================================================================

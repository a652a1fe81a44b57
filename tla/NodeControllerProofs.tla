------------------------ MODULE NodeControllerProofs ------------------------
(***************************************************************************)
(* Proofs about NodeController: its timers and requests keep together with *)
(* their handlers, what is started goes on, and what is stopped stays      *)
(* stopped.  On a node that is not started while it runs, datagrams are    *)
(* handled in order and none is lost, ticks keep their interval, and no    *)
(* endpoint is replaced by an older one.                                   *)
(***************************************************************************)
EXTENDS NodeController, QueueTheorems, FiniteSetTheorems

\* The handlers that are ready when n datagrams have arrived.
Handlers(n) ==
    [h : {"received", "error"}] \cup [h : {"recv_handler"}, raw_msg : 1 .. n]
        \cup TimerTask \cup [h : {"result"}, of : Ask, found : BOOLEAN]
        \cup [h : {"command"}, word : Command]

Received == [h |-> "received"]
Error == [h |-> "error"]

\* The handlers of a binding request.
OnTimeout(s) == {[h |-> "on_timeout", of |-> s]}
Results(s) == {Result(s, found) : found \in BOOLEAN}

\* The datagrams that arrived, and where they are.
DataOK(f, sk, rb, sp, hd, er) ==
    /\ f \in Seq(Peer) /\ Len(f) <= MaxDatagrams
    /\ sk \in Seq(1 .. Len(f))
    /\ rb \in 0 .. Len(f) /\ sp \in Peer \cup {NoPeer}
    /\ hd \in Seq([msg : 1 .. Len(f), src : Peer \cup {NoPeer}])
    /\ er \in 0 .. MaxErrors

\* The ready handlers: one for a receive waits only after a receive.
QueueOK(q, n, rb) ==
    /\ q \in Seq(Handlers(n))
    /\ Received \in ToSet(q) => rb # 0

WaitOK(w) ==
    /\ DOMAIN w = Timer
    /\ \A t \in Timer : w[t] \in {NoWait} \cup [left : 0 .. Longest, h : Task(t)]

ExpiredOK(e, w) ==
    /\ e \in Seq(Timer) /\ \A t \in Timer : AtMostOne(e, {t})
    /\ \A t \in Timer : t \in ToSet(e) <=> w[t] # NoWait /\ w[t].left = 0

\* A binding request, its timer and its handlers: a timer runs only while no
\* result was posted; nothing is left of the timer when the result's handler
\* runs, so that none of it meets the next request of that name.
AskOK(s, q, a, w) ==
    /\ a \in {"free", "pending", "posted"}
    /\ w # NoWait => a = "pending"
    /\ a = "free" => ToSet(q) \cap OnTimeout(s) = {}
    /\ a # "posted" => ToSet(q) \cap Results(s) = {}
    /\ a = "pending" => \/ w # NoWait /\ ToSet(q) \cap OnTimeout(s) = {}
                        \/ w = NoWait /\ OnTimeout(s) \subseteq ToSet(q)
    /\ a = "posted" => AtMostOne(q, Results(s)) /\ Before(q, OnTimeout(s), Results(s))

AskState == {"free", "pending", "posted"}

AsksOK(q, a, w) == a \in [Ask -> AskState] /\ \A s \in Ask : AskOK(s, q, a[s], w[s])

RestOK ==
    /\ receiving \in Nat /\ running \in BOOLEAN
    /\ daemon \in [Start -> Stage] /\ stopping \in {"no", "io"}
    /\ stopped \in BOOLEAN /\ requires \in [{"refresh", "maintainer"} -> BOOLEAN]
    /\ older \in [Ask -> SUBSET Ask] /\ overtaken \subseteq Ask
    /\ glob_self_ep \in {"initial", "latest", "outdated"}
    /\ since \in 0 .. TickTime /\ stalls \in 0 .. MaxTrouble
    /\ typed \in 0 .. MaxCommands /\ thrown.h \in {"none", "recv_handler", "command"}
    /\ stopped => ~running

\* The inductive invariant.
NodeInv ==
    /\ DataOK(from, sock, recv_buff, src_ep, handled, errors)
    /\ QueueOK(queue, Len(from), recv_buff)
    /\ WaitOK(wait) /\ ExpiredOK(expired, wait)
    /\ AsksOK(queue, ask, wait)
    /\ RestOK

-----------------------------------------------------------------------------
(* Handlers *)

LEMMA Tasks ==
    /\ Task("tick") = {"tick"} /\ Task("refresh") = {"refresh_tick"}
    /\ Task("maintainer") = {"maintainer_tick", "get_remote_nodes"}
    /\ \A s \in Ask : Task(s) = {"on_timeout"}
    /\ Timer = {"tick", "refresh", "maintainer", "ask1", "ask2", "ask3"}
    /\ Ask = {"ask1", "ask2", "ask3"}
  BY DEF Task, Ask, Timer

\* What a handler's name says of it.
LEMMA HandlerKinds ==
    ASSUME NEW n, NEW e \in Handlers(n)
    PROVE  /\ e.h = "received" => e = Received
           /\ e.h = "error" => e = Error
           /\ e.h = "recv_handler" => e.raw_msg \in 1 .. n
           /\ e.h = "on_timeout" => e.of \in Ask /\ e \in OnTimeout(e.of)
           /\ e.h = "result" => e.of \in Ask /\ e \in Results(e.of)
           /\ e.h = "tick" => e = [h |-> "tick", of |-> "tick"]
           /\ \A s \in Ask : e \in OnTimeout(s) => e.h = "on_timeout" /\ e.of = s
           /\ \A s \in Ask : e \in Results(s) => e.h = "result" /\ e.of = s
<1>1. /\ \A s \in Ask : e \in OnTimeout(s) => e.h = "on_timeout" /\ e.of = s
      /\ \A s \in Ask : e \in Results(s) => e.h = "result" /\ e.of = s
  BY DEF OnTimeout, Results, Result
<1>2. CASE e \in [h : {"received", "error"}]
  BY <1>1, <1>2 DEF Received, Error
<1>3. CASE e \in [h : {"recv_handler"}, raw_msg : 1 .. n]
  BY <1>1, <1>3
<1>4. CASE e \in TimerTask
  <2>1. PICK t \in Timer : e \in [h : Task(t), of : {t}]
    BY <1>4 DEF TimerTask
  <2>2. e.h \in Task(t) /\ e.of = t /\ e = [h |-> e.h, of |-> t]
    BY <2>1
  <2>3. CASE t \in Ask
    BY <1>1, <2>2, <2>3, Tasks DEF OnTimeout
  <2>4. CASE t = "tick"
    BY <1>1, <2>2, <2>4, Tasks
  <2>5. CASE t = "refresh"
    BY <1>1, <2>2, <2>5, Tasks
  <2>6. CASE t = "maintainer"
    BY <1>1, <2>2, <2>6, Tasks
  <2> QED BY <2>3, <2>4, <2>5, <2>6 DEF Timer
<1>5. CASE e \in [h : {"result"}, of : Ask, found : BOOLEAN]
  <2>1. e.h = "result" /\ e.of \in Ask /\ e.found \in BOOLEAN /\ e = Result(e.of, e.found)
    BY <1>5 DEF Result
  <2> QED BY <1>1, <2>1 DEF Results
<1>6. CASE e \in [h : {"command"}, word : Command]
  BY <1>1, <1>6
<1> QED BY <1>2, <1>3, <1>4, <1>5, <1>6 DEF Handlers

\* The handlers there are.
LEMMA HandlerTypes ==
    ASSUME NEW n
    PROVE  /\ Received \in Handlers(n) /\ Error \in Handlers(n)
           /\ \A m \in 1 .. n : [h |-> "recv_handler", raw_msg |-> m] \in Handlers(n)
           /\ \A t \in Timer : \A x \in Task(t) : [h |-> x, of |-> t] \in Handlers(n)
           /\ \A s \in Ask, found \in BOOLEAN : Result(s, found) \in Handlers(n)
           /\ \A c \in Command : [h |-> "command", word |-> c] \in Handlers(n)
<1>1. \A t \in Timer : \A x \in Task(t) : [h |-> x, of |-> t] \in TimerTask
  BY DEF TimerTask
<1> QED BY <1>1 DEF Handlers, Received, Error, Result

LEMMA HandlersGrow ==
    ASSUME NEW n \in Nat, NEW m \in Nat, n <= m
    PROVE  Handlers(n) \subseteq Handlers(m)
  BY DEF Handlers

LEMMA LongestTimes ==
    /\ Longest \in Nat
    /\ {TickTime, RefreshTime, RoundWait, PingWait, BindTimeout} \subseteq 1 .. Longest
<1>1. /\ TickTime \in Nat \ {0} /\ RefreshTime \in Nat \ {0} /\ RoundWait \in Nat \ {0}
      /\ PingWait \in Nat \ {0} /\ BindTimeout \in Nat \ {0} /\ BindTimeout < TickTime
  BY NodeAssumption
<1> DEFINE T == {TickTime, RefreshTime, RoundWait, PingWait}
<1>2. \E x \in T : \A y \in T : x >= y
  BY <1>1
<1>3. Longest \in T /\ \A y \in T : Longest >= y
  BY <1>2 DEF Longest, Max
<1> QED BY <1>1, <1>3

-----------------------------------------------------------------------------
(* What posting and taking handlers keeps *)

LEMMA QueueTake ==
    ASSUME NEW q, NEW n, NEW rb, QueueOK(q, n, rb), q # <<>>
    PROVE  /\ QueueOK(Tail(q), n, rb) /\ Head(q) \in Handlers(n)
           /\ Head(q) \in ToSet(q)
  BY TakeEntries DEF QueueOK

LEMMA QueuePost ==
    ASSUME NEW q, NEW n, NEW rb, QueueOK(q, n, rb), NEW r \in Seq(Handlers(n)),
           Received \in ToSet(r) => rb # 0
    PROVE  QueueOK(q \o r, n, rb)
<1> DEFINE qr == q \o r
<1>1. qr \in Seq(Handlers(n)) /\ ToSet(qr) = ToSet(q) \cup ToSet(r)
  BY PostManyEntries DEF QueueOK
<1> HIDE DEF qr
<1>2. QueueOK(qr, n, rb)
  BY <1>1 DEF QueueOK
<1> QED BY <1>2 DEF qr

LEMMA QueueGrow ==
    ASSUME NEW q, NEW n \in Nat, NEW m \in Nat, NEW rb, n <= m, QueueOK(q, n, rb)
    PROVE  QueueOK(q, m, rb)
<1>1. ToSet(q) \subseteq Handlers(n) /\ Handlers(n) \subseteq Handlers(m)
  BY Entries, HandlersGrow DEF QueueOK
<1>2. q \in Seq(Handlers(m))
  BY <1>1, EntriesSeq DEF QueueOK
<1> QED BY <1>2 DEF QueueOK

\* The handlers of a request are not touched by taking or posting others.
LEMMA AskTake ==
    ASSUME NEW S, NEW q \in Seq(S), q # <<>>, NEW s, NEW a, NEW w, AskOK(s, q, a, w),
           Head(q) \notin OnTimeout(s), Head(q) \notin Results(s)
    PROVE  AskOK(s, Tail(q), a, w)
<1>1. ToSet(q) = {Head(q)} \cup ToSet(Tail(q))
  BY TakeEntries
<1>2. a = "posted" => /\ AtMostOne(Tail(q), Results(s))
                      /\ Before(Tail(q), OnTimeout(s), Results(s))
  BY TakeOne, TakeBefore DEF AskOK
<1> DEFINE t == Tail(q)
<1> HIDE DEF t
<1>3. ToSet(t) \subseteq ToSet(q) /\ (OnTimeout(s) \subseteq ToSet(q) => OnTimeout(s) \subseteq ToSet(t))
  BY <1>1 DEF t
<1>4. AskOK(s, t, a, w)
  BY <1>2, <1>3 DEF AskOK, t
<1> QED BY <1>4 DEF t

LEMMA AskPost ==
    ASSUME NEW S, NEW q \in Seq(S), NEW r \in Seq(S), NEW s, NEW a, NEW w,
           AskOK(s, q, a, w),
           ToSet(r) \cap OnTimeout(s) = {}, ToSet(r) \cap Results(s) = {}
    PROVE  AskOK(s, q \o r, a, w)
<1> DEFINE qr == q \o r
<1>1. ToSet(qr) = ToSet(q) \cup ToSet(r)
  BY PostManyEntries
<1>2. ASSUME a = "posted"
      PROVE  AtMostOne(qr, Results(s)) /\ Before(qr, OnTimeout(s), Results(s))
  <2>1. AtMostOne(q, Results(s)) /\ Before(q, OnTimeout(s), Results(s))
    BY <1>2 DEF AskOK
  <2>2. AtMostOne(r, Results(s))
    BY Entries DEF AtMostOne
  <2> QED BY <2>1, <2>2, PostOne, PostBefore
<1> HIDE DEF qr
<1>3. AskOK(s, qr, a, w)
  BY <1>1, <1>2 DEF AskOK
<1> QED BY <1>3 DEF qr

\* The same for all requests at once.
Foreign(e) == \A s \in Ask : e \notin OnTimeout(s) /\ e \notin Results(s)

LEMMA AsksTake ==
    ASSUME NEW S, NEW q \in Seq(S), q # <<>>, NEW a, NEW w, AsksOK(q, a, w),
           Foreign(Head(q))
    PROVE  AsksOK(Tail(q), a, w)
  BY AskTake DEF AsksOK, Foreign

LEMMA AsksPost ==
    ASSUME NEW S, NEW q \in Seq(S), NEW r \in Seq(S), NEW a, NEW w, AsksOK(q, a, w),
           \A e \in ToSet(r) : Foreign(e)
    PROVE  AsksOK(q \o r, a, w)
<1>1. \A s \in Ask : ToSet(r) \cap OnTimeout(s) = {} /\ ToSet(r) \cap Results(s) = {}
  BY DEF Foreign
<1>2. \A s \in Ask : AskOK(s, q \o r, a[s], w[s])
  BY <1>1, AskPost DEF AsksOK
<1> QED BY <1>2 DEF AsksOK

LEMMA ForeignNames ==
    ASSUME NEW n, NEW e \in Handlers(n), e.h # "on_timeout", e.h # "result"
    PROVE  Foreign(e)
  BY HandlerKinds DEF Foreign

\* Handlers that belong to no request are posted.
LEMMA PostOthers ==
    ASSUME NEW q, NEW n, NEW rb, NEW a, NEW w, QueueOK(q, n, rb), AsksOK(q, a, w),
           NEW r \in Seq(Handlers(n)),
           \A e \in ToSet(r) : e.h # "on_timeout" /\ e.h # "result" /\ (e = Received => rb # 0)
    PROVE  QueueOK(q \o r, n, rb) /\ AsksOK(q \o r, a, w)
<1>1. ToSet(r) \subseteq Handlers(n) /\ q \in Seq(Handlers(n))
  BY Entries DEF QueueOK
<1>2. \A e \in ToSet(r) : Foreign(e)
  BY <1>1, ForeignNames
<1>3. AsksOK(q \o r, a, w)
  BY <1>1, <1>2, AsksPost
<1>4. QueueOK(q \o r, n, rb)
  BY QueuePost
<1> QED BY <1>3, <1>4

LEMMA PostOther ==
    ASSUME NEW q, NEW n, NEW rb, NEW a, NEW w, QueueOK(q, n, rb), AsksOK(q, a, w),
           NEW e \in Handlers(n), e.h # "on_timeout", e.h # "result", e = Received => rb # 0
    PROVE  /\ QueueOK(q \o <<e>>, n, rb) /\ AsksOK(q \o <<e>>, a, w)
           /\ QueueOK(Append(q, e), n, rb) /\ AsksOK(Append(q, e), a, w)
<1> DEFINE r == <<e>>
<1>1. r \in Seq(Handlers(n)) /\ ToSet(r) = {e} /\ Append(q, e) = q \o r
  BY PostIsConcat, EntriesOfTuples DEF QueueOK
<1> HIDE DEF r
<1>2. QueueOK(q \o r, n, rb) /\ AsksOK(q \o r, a, w)
  BY <1>1, PostOthers
<1> QED BY <1>1, <1>2 DEF r

\* The handler that runs, and the queue without it.
LEMMA RunningHandler ==
    ASSUME NodeInv, NEW k, Running(k)
    PROVE  /\ running /\ ~stopped
           /\ Head(queue) \in Handlers(Len(from)) /\ Head(queue).h = k
           /\ Head(queue) \in ToSet(queue)
           /\ QueueOK(Tail(queue), Len(from), recv_buff)
           /\ k # "on_timeout" /\ k # "result" => AsksOK(Tail(queue), ask, wait)
<1>1. running /\ queue # <<>> /\ Head(queue).h = k /\ QueueOK(queue, Len(from), recv_buff)
      /\ AsksOK(queue, ask, wait) /\ (stopped => ~running)
  BY DEF NodeInv, RestOK, Running
<1>2. /\ Head(queue) \in Handlers(Len(from)) /\ Head(queue) \in ToSet(queue)
      /\ QueueOK(Tail(queue), Len(from), recv_buff)
  BY <1>1, QueueTake
<1>3. k # "on_timeout" /\ k # "result" => Foreign(Head(queue))
  BY <1>1, <1>2, ForeignNames
<1>4. queue \in Seq(Handlers(Len(from)))
  BY <1>1 DEF QueueOK
<1>5. Foreign(Head(queue)) => AsksOK(Tail(queue), ask, wait)
  BY <1>1, <1>4, AsksTake
<1> QED BY <1>1, <1>2, <1>3, <1>5

LEMMA FromLength == DataOK(from, sock, recv_buff, src_ep, handled, errors) =>
                        Len(from) \in Nat /\ DOMAIN from = 1 .. Len(from)
  BY Entries DEF DataOK

LEMMA InvNext ==
    ASSUME DataOK(from', sock', recv_buff', src_ep', handled', errors'),
           QueueOK(queue', Len(from'), recv_buff'), WaitOK(wait'), ExpiredOK(expired', wait'),
           AsksOK(queue', ask', wait'), RestOK'
    PROVE  NodeInv'
  BY DEF NodeInv, DataOK, QueueOK, Handlers, WaitOK, ExpiredOK, AsksOK, AskOK

LEMMA InvInit == NodeInit => NodeInv
<1> SUFFICES ASSUME NodeInit PROVE NodeInv
  OBVIOUS
<1>0. DOMAIN <<>> = {}
  OBVIOUS
<1>1. ToSet(<<>>) = {} /\ DOMAIN <<>> = {} /\ Len(<<>>) = 0
  BY <1>0 DEF ToSet
<1>2. DataOK(from, sock, recv_buff, src_ep, handled, errors)
  BY <1>1, UdpAssumption DEF DataOK, NodeInit
<1>3. QueueOK(queue, Len(from), recv_buff)
  BY <1>1 DEF QueueOK, NodeInit
<1>4. WaitOK(wait)
  BY DEF WaitOK, NodeInit
<1>5. ExpiredOK(expired, wait)
  BY <1>1 DEF ExpiredOK, NodeInit, AtMostOne
<1>6. ASSUME NEW s \in Ask PROVE AskOK(s, queue, ask[s], wait[s])
  BY <1>1 DEF AskOK, NodeInit, Timer
<1>7. AsksOK(queue, ask, wait)
  BY <1>6 DEF AsksOK, NodeInit, AskState
<1>8. RestOK
  <2>1. MaxTrouble \in Nat /\ MaxCommands \in Nat /\ TickTime \in Nat
    BY NodeAssumption
  <2>2. since \in 0 .. TickTime /\ stalls \in 0 .. MaxTrouble /\ typed \in 0 .. MaxCommands
    BY <2>1 DEF NodeInit
  <2>3. requires \in [{"refresh", "maintainer"} -> BOOLEAN]
    BY DEF NodeInit
  <2>4. daemon \in [Start -> Stage] /\ older \in [Ask -> SUBSET Ask] /\ overtaken \subseteq Ask
    BY DEF NodeInit, Stage
  <2> QED BY <2>2, <2>3, <2>4 DEF RestOK, NodeInit, Nothing
<1> QED BY <1>2, <1>3, <1>4, <1>5, <1>7, <1>8 DEF NodeInv

-----------------------------------------------------------------------------
(* The udp server *)

LEMMA ArrivesStep ==
    ASSUME NodeInv, NEW p \in Peer, Arrives(p), UNCHANGED nodeVars
    PROVE  NodeInv'
<1> DEFINE n == Len(from)
           f == Append(from, p)
           sk == Append(sock, n + 1)
           M(k) == [msg : 1 .. k, src : Peer \cup {NoPeer}]
<1>1. DataOK(from, sock, recv_buff, src_ep, handled, errors) /\ n \in Nat
  BY FromLength DEF NodeInv
<1>2. f \in Seq(Peer) /\ Len(f) = n + 1 /\ n < MaxDatagrams /\ from' = f /\ sock' = sk
  BY <1>1, AppendProperties DEF DataOK, Arrives
<1>3. sk \in Seq(1 .. n + 1)
  <2>1. sock \in Seq(1 .. n) /\ ToSet(sock) \subseteq 1 .. n /\ 1 .. n \subseteq 1 .. n + 1
    BY <1>1, Entries DEF DataOK
  <2>2. sock \in Seq(1 .. n + 1)
    BY <2>1, EntriesSeq
  <2> QED BY <1>1, <2>2, AppendProperties
<1>4. handled \in Seq(M(n + 1))
  <2>1. handled \in Seq(M(n)) /\ ToSet(handled) \subseteq M(n)
    BY <1>1, Entries DEF DataOK
  <2>2. 1 .. n \subseteq 1 .. n + 1
    BY <1>1
  <2>3. M(n) \subseteq M(n + 1)
    BY <2>2
  <2> HIDE DEF M
  <2> QED BY <2>1, <2>3, EntriesSeq
<1>5. UNCHANGED <<receiving, recv_buff, src_ep, queue, handled, errors, running, thrown>>
  BY DEF Arrives
<1>6. n + 1 <= MaxDatagrams /\ recv_buff \in 0 .. n + 1
  BY <1>1, <1>2, UdpAssumption DEF DataOK
<1>7. DataOK(from', sock', recv_buff', src_ep', handled', errors')
  BY <1>1, <1>2, <1>3, <1>4, <1>5, <1>6 DEF DataOK
<1>8. QueueOK(queue', Len(from'), recv_buff')
  <2>1. QueueOK(queue, n, recv_buff) /\ n <= n + 1 /\ n + 1 \in Nat
    BY <1>1 DEF NodeInv
  <2> HIDE DEF n
  <2>2. QueueOK(queue, n + 1, recv_buff)
    BY <1>1, <2>1, QueueGrow
  <2> QED BY <1>2, <1>5, <2>2
<1> QED
  BY <1>5, <1>7, <1>8, InvNext
  DEF NodeInv, nodeVars, life, timers, clock, asking, endpoint, RestOK

LEMMA ReceiveCompletesStep ==
    ASSUME NodeInv, ReceiveCompletes, UNCHANGED nodeVars
    PROVE  NodeInv'
<1> DEFINE n == Len(from)
<1>1. DataOK(from, sock, recv_buff, src_ep, handled, errors) /\ n \in Nat /\ DOMAIN from = 1 .. n
  BY FromLength DEF NodeInv
<1>2. sock # <<>> /\ recv_buff' = Head(sock) /\ src_ep' = from[Head(sock)] /\ sock' = Tail(sock)
      /\ queue' = Append(queue, Received) /\ receiving' = receiving - 1 /\ receiving > 0
      /\ UNCHANGED <<from, handled, errors, running, thrown>>
  BY DEF ReceiveCompletes, Received
<1>3. Head(sock) \in 1 .. n /\ Tail(sock) \in Seq(1 .. n)
  BY <1>1, <1>2, TakeEntries DEF DataOK
<1>4. from[Head(sock)] \in Peer
  BY <1>1, <1>3, ElementOfSeq DEF DataOK
<1>5. DataOK(from', sock', recv_buff', src_ep', handled', errors')
  BY <1>1, <1>2, <1>3, <1>4 DEF DataOK
<1>6. QueueOK(queue, n, recv_buff') /\ AsksOK(queue, ask, wait)
  BY <1>1, <1>2, <1>3 DEF NodeInv, QueueOK
<1>7. Received \in Handlers(n) /\ Received.h = "received"
  BY HandlerTypes DEF Received
<1>8. recv_buff' # 0
  BY <1>1, <1>2, <1>3
<1> DEFINE rb == recv_buff'
<1> HIDE DEF rb, n
<1>9. QueueOK(Append(queue, Received), n, rb) /\ AsksOK(Append(queue, Received), ask, wait)
  BY <1>6, <1>7, <1>8, PostOther DEF rb
<1> QED
  BY <1>2, <1>5, <1>9, InvNext
  DEF NodeInv, nodeVars, life, timers, clock, asking, endpoint, RestOK, rb, n

LEMMA ReceiveFailsStep ==
    ASSUME NodeInv, ReceiveFails, UNCHANGED nodeVars
    PROVE  NodeInv'
<1> DEFINE n == Len(from)
<1>1. DataOK(from, sock, recv_buff, src_ep, handled, errors) /\ n \in Nat
  BY FromLength DEF NodeInv
<1>2. /\ queue' = Append(queue, Error) /\ receiving' = receiving - 1 /\ receiving > 0
      /\ errors' = errors + 1 /\ errors < MaxErrors
      /\ UNCHANGED <<from, sock, recv_buff, src_ep, handled, running, thrown>>
  BY DEF ReceiveFails, Error
<1>3. errors' \in 0 .. MaxErrors
  BY <1>1, <1>2, UdpAssumption DEF DataOK
<1>4. DataOK(from', sock', recv_buff', src_ep', handled', errors')
  BY <1>1, <1>2, <1>3 DEF DataOK
<1>5. QueueOK(queue, n, recv_buff) /\ AsksOK(queue, ask, wait)
  BY DEF NodeInv
<1>6. Error \in Handlers(n) /\ Error.h = "error" /\ Error # Received
  BY HandlerTypes DEF Error, Received
<1> HIDE DEF n
<1>7. QueueOK(Append(queue, Error), n, recv_buff) /\ AsksOK(Append(queue, Error), ask, wait)
  BY <1>5, <1>6, PostOther DEF Error
<1> QED
  BY <1>2, <1>4, <1>7, InvNext
  DEF NodeInv, nodeVars, life, timers, clock, asking, endpoint, RestOK, n

\* The receive that was outstanding is started again, and a handler of the
\* datagram in the buffer posted.
LEMMA IncomeMessageStep ==
    ASSUME NodeInv, call_income_message_handler, UNCHANGED nodeVars
    PROVE  NodeInv'
<1> DEFINE n == Len(from)
           e == [h |-> "recv_handler", raw_msg |-> recv_buff]
<1>1. DataOK(from, sock, recv_buff, src_ep, handled, errors) /\ n \in Nat
  BY FromLength DEF NodeInv
<1>2. /\ Running("received") /\ queue' = Append(Tail(queue), e) /\ receiving' = receiving + 1
      /\ UNCHANGED <<from, sock, recv_buff, src_ep, handled, errors, running, thrown>>
  BY DEF call_income_message_handler, call_receiver
<1>3. /\ Head(queue) \in Handlers(n) /\ Head(queue).h = "received"
      /\ Head(queue) \in ToSet(queue)
      /\ QueueOK(Tail(queue), n, recv_buff) /\ AsksOK(Tail(queue), ask, wait)
  BY <1>2, RunningHandler
<1>4. recv_buff \in 1 .. n
  <2>1. Head(queue) = Received
    BY <1>3, HandlerKinds
  <2>2. recv_buff # 0 /\ recv_buff \in 0 .. n
    BY <1>1, <1>3, <2>1 DEF NodeInv, QueueOK, DataOK
  <2> QED BY <2>2, <1>1
<1>5. e \in Handlers(n) /\ e.h = "recv_handler" /\ e # Received
  BY <1>4, HandlerTypes DEF Received
<1> DEFINE tq == Tail(queue)
<1> HIDE DEF n, e, tq
<1>6. QueueOK(Append(tq, e), n, recv_buff) /\ AsksOK(Append(tq, e), ask, wait)
  BY <1>3, <1>5, PostOther DEF tq
<1>7. DataOK(from', sock', recv_buff', src_ep', handled', errors')
  BY <1>1, <1>2
<1> QED
  BY <1>2, <1>6, <1>7, InvNext
  DEF NodeInv, nodeVars, life, timers, clock, asking, endpoint, RestOK, n, tq

LEMMA ReceiveErrorStep ==
    ASSUME NodeInv, receive_error, UNCHANGED nodeVars
    PROVE  NodeInv'
<1>1. /\ Running("error") /\ queue' = Tail(queue) /\ receiving' = receiving + 1
      /\ UNCHANGED <<from, sock, recv_buff, src_ep, handled, errors, running, thrown>>
  BY DEF receive_error, call_receiver
<1>2. QueueOK(Tail(queue), Len(from), recv_buff) /\ AsksOK(Tail(queue), ask, wait)
  BY <1>1, RunningHandler
<1>3. DataOK(from', sock', recv_buff', src_ep', handled', errors')
  BY <1>1 DEF NodeInv
<1> QED
  BY <1>1, <1>2, <1>3, InvNext
  DEF NodeInv, nodeVars, life, timers, clock, asking, endpoint, RestOK

\* An exception ends the process, and leaves everything else as it was.
LEMMA ThrowsStep ==
    ASSUME NodeInv, recv_handler_throws \/ command_throws, UNCHANGED nodeVars
    PROVE  NodeInv'
<1>1. /\ running' = FALSE /\ thrown' = Head(queue)
      /\ UNCHANGED <<from, sock, receiving, recv_buff, src_ep, queue, handled, errors>>
  BY DEF recv_handler_throws, command_throws, throws
<1>2. Head(queue).h \in {"recv_handler", "command"}
  BY DEF recv_handler_throws, command_throws, Running
<1>3. RestOK'
  BY <1>1, <1>2 DEF NodeInv, RestOK, nodeVars, life, timers, clock, asking, endpoint
<1> QED
  BY <1>1, <1>3, InvNext DEF NodeInv, nodeVars, life, timers, clock, asking, endpoint

-----------------------------------------------------------------------------
(* Timers and requests *)

\* What the removal of a timer from those that expired leaves.
LEMMA WithoutProperties ==
    ASSUME NEW e \in Seq(Timer), \A x \in Timer : AtMostOne(e, {x}), NEW t
    PROVE  /\ Without(e, t) \in Seq(Timer)
           /\ \A x \in Timer : AtMostOne(Without(e, t), {x})
           /\ ToSet(Without(e, t)) = ToSet(e) \ {t}
           /\ \A P, R : Before(e, P, R) => Before(Without(e, t), P, R)
<1>1. /\ Len(e) \in Nat /\ DOMAIN e = 1 .. Len(e)
      /\ ToSet(e) = {e[i] : i \in 1 .. Len(e)} /\ ToSet(e) \subseteq Timer
  BY Entries
<1>2. CASE t \notin ToSet(e)
  BY <1>2 DEF Without
<1>3. CASE t \in ToSet(e)
  <2> DEFINE k == CHOOSE i \in DOMAIN e : e[i] = t
             w == RemoveAt(e, k)
  <2>1. k \in 1 .. Len(e) /\ e[k] = t
    BY <1>1, <1>3
  <2>2. Without(e, t) = w
    BY <1>3 DEF Without
  <2> HIDE DEF k
  <2>3. /\ w \in Seq(Timer) /\ Len(w) = Len(e) - 1
        /\ \A i \in 1 .. Len(e) - 1 : w[i] = IF i < k THEN e[i] ELSE e[i + 1]
    BY <2>1, RemoveAtProperties
  <2> HIDE DEF w
  <2>4. DOMAIN w = 1 .. Len(e) - 1 /\ ToSet(w) = {w[i] : i \in 1 .. Len(e) - 1}
    BY <2>3, Entries
  <2>5. ASSUME NEW i \in 1 .. Len(e), NEW j \in 1 .. Len(e), e[i] = e[j] PROVE i = j
    BY <1>1, <2>5 DEF AtMostOne
  <2>6. ASSUME NEW x \in Timer PROVE AtMostOne(w, {x})
    <3> SUFFICES ASSUME NEW i \in DOMAIN w, NEW j \in DOMAIN w, w[i] = x, w[j] = x
                 PROVE  i = j
      BY DEF AtMostOne
    <3> DEFINE at(m) == IF m < k THEN m ELSE m + 1
    <3>1. i \in 1 .. Len(e) - 1 /\ j \in 1 .. Len(e) - 1
      BY <2>4
    <3>2. at(i) \in 1 .. Len(e) /\ at(j) \in 1 .. Len(e)
      BY <3>1, <2>1, <1>1
    <3>3. w[i] = e[at(i)] /\ w[j] = e[at(j)]
      BY <3>1, <2>3
    <3>4. at(i) = at(j)
      BY <3>2, <3>3, <2>5
    <3> QED BY <3>4, <3>1, <2>1, <1>1
  <2>7. ASSUME NEW x \in ToSet(w) PROVE x \in ToSet(e) /\ x # t
    <3>1. PICK i \in 1 .. Len(e) - 1 : x = w[i]
      BY <2>4
    <3> DEFINE m == IF i < k THEN i ELSE i + 1
    <3>2. m \in 1 .. Len(e) /\ x = e[m] /\ m # k
      BY <3>1, <2>1, <2>3, <1>1
    <3> HIDE DEF m
    <3> QED BY <3>2, <2>1, <2>5, <1>1
  <2>8. ASSUME NEW x \in ToSet(e), x # t PROVE x \in ToSet(w)
    <3>1. PICK i \in 1 .. Len(e) : x = e[i]
      BY <1>1
    <3>2. i # k
      BY <3>1, <2>8, <2>1
    <3> DEFINE m == IF i < k THEN i ELSE i - 1
    <3>3. m \in 1 .. Len(e) - 1 /\ w[m] = e[i]
      BY <3>1, <3>2, <2>1, <2>3, <1>1
    <3> HIDE DEF m
    <3> QED BY <3>1, <3>3, <2>4
  <2>9. ASSUME NEW P, NEW R, Before(e, P, R) PROVE Before(w, P, R)
    <3> SUFFICES ASSUME NEW i \in DOMAIN w, NEW j \in DOMAIN w, w[i] \in P, w[j] \in R
                 PROVE  i < j
      BY DEF Before
    <3> DEFINE at(m) == IF m < k THEN m ELSE m + 1
    <3>1. i \in 1 .. Len(e) - 1 /\ j \in 1 .. Len(e) - 1
      BY <2>4
    <3>2. at(i) \in 1 .. Len(e) /\ at(j) \in 1 .. Len(e)
      BY <3>1, <2>1, <1>1
    <3>3. w[i] = e[at(i)] /\ w[j] = e[at(j)]
      BY <3>1, <2>3
    <3>4. at(i) < at(j)
      BY <1>1, <2>9, <3>2, <3>3 DEF Before
    <3> QED BY <3>4, <3>1, <2>1, <1>1
  <2> QED BY <2>2, <2>3, <2>6, <2>7, <2>8, <2>9
<1> QED BY <1>2, <1>3

Chained == {"tick", "refresh", "maintainer"}

\* A timer of the three chains is set, after its last wait was cancelled.
LEMMA CancelStep ==
    ASSUME NEW q, NEW n, NEW rb, QueueOK(q, n, rb), AsksOK(q, ask, wait),
           WaitOK(wait), ExpiredOK(expired, wait),
           NEW t \in Chained, NEW h \in Task(t), NEW units \in 1 .. Longest, Cancel(t, q)
    PROVE  /\ QueueOK(queue', n, rb)
           /\ AsksOK(queue', ask, expires_from_now(wait, t, h, units))
           /\ WaitOK(expires_from_now(wait, t, h, units))
           /\ ExpiredOK(expired', expires_from_now(wait, t, h, units))
<1> DEFINE w == expires_from_now(wait, t, h, units)
<1>1. t \in Timer /\ t \notin Ask /\ Longest \in Nat
  BY Tasks, LongestTimes DEF Chained
<1>2. w[t] = [left |-> units, h |-> h] /\ \A x \in Timer : x # t => w[x] = wait[x]
  BY <1>1 DEF expires_from_now, WaitOK
<1>3. DOMAIN w = Timer
  BY DEF expires_from_now, WaitOK
<1> HIDE DEF w
<1>4. WaitOK(w)
  BY <1>1, <1>2, <1>3 DEF WaitOK
<1>5. ExpiredOK(expired', w)
  <2>1. expired' = Without(expired, t)
    BY DEF Cancel
  <2>2. /\ expired' \in Seq(Timer) /\ \A x \in Timer : AtMostOne(expired', {x})
        /\ ToSet(expired') = ToSet(expired) \ {t} /\ ToSet(expired) \subseteq Timer
    BY <2>1, WithoutProperties, Entries DEF ExpiredOK
  <2> DEFINE e == expired'
  <2> HIDE DEF e
  <2>3. ExpiredOK(e, w)
    BY <2>2, <1>2 DEF ExpiredOK, e
  <2> QED BY <2>3 DEF e
<1>6. QueueOK(queue', n, rb) /\ AsksOK(queue', ask, wait)
  <2>1. CASE wait[t] = NoWait
    <3> DEFINE r == <<>>
    <3>0. DOMAIN <<>> = {}
      OBVIOUS
    <3>1. r \in Seq(Handlers(n)) /\ ToSet(r) = {}
      BY <3>0 DEF ToSet
    <3>2. queue' = q \o r
      BY <2>1 DEF Cancel
    <3> HIDE DEF r
    <3>3. QueueOK(q \o r, n, rb) /\ AsksOK(q \o r, ask, wait)
      BY <3>1, PostOthers
    <3> QED BY <3>2, <3>3
  <2>2. CASE wait[t] # NoWait
    <3> DEFINE d == [h |-> wait[t].h, of |-> t]
    <3>1. wait[t].h \in Task(t)
      BY <1>1, <2>2 DEF WaitOK
    <3>2. d \in Handlers(n) /\ d.h = wait[t].h
      BY <1>1, <3>1, HandlerTypes
    <3>3. d.h # "on_timeout" /\ d.h # "result" /\ d # Received
      BY <3>1, <3>2, Tasks DEF Chained, Received
    <3>4. queue' = q \o <<d>>
      BY <2>2 DEF Cancel, TimerHandler
    <3> HIDE DEF d
    <3>5. QueueOK(q \o <<d>>, n, rb) /\ AsksOK(q \o <<d>>, ask, wait)
      BY <3>2, <3>3, PostOther
    <3> QED BY <3>4, <3>5
  <2> QED BY <2>1, <2>2
<1>7. \A s \in Ask : w[s] = wait[s]
  BY <1>1, <1>2 DEF Timer
<1> DEFINE qn == queue'
<1> HIDE DEF qn
<1>8. AsksOK(qn, ask, w)
  BY <1>6, <1>7 DEF AsksOK, qn
<1> QED BY <1>4, <1>5, <1>6, <1>8 DEF w, qn

\* A new request takes a name of which nothing is left, and gets a timer.
LEMMA BindingRequestStep ==
    ASSUME NEW q, NEW e, NEW w, WaitOK(w), ExpiredOK(e, w), AsksOK(q, ask, w),
           older \in [Ask -> SUBSET Ask], binding_request(w)
    PROVE  /\ WaitOK(wait') /\ ExpiredOK(e, wait') /\ AsksOK(q, ask', wait')
           /\ older' \in [Ask -> SUBSET Ask]
<1>1. CASE wait' = w /\ UNCHANGED <<ask, older>>
  <2> DEFINE wn == wait'
             an == ask'
             on == older'
  <2>1. wn = w /\ an = ask /\ on = older
    BY <1>1
  <2> HIDE DEF wn, an, on
  <2>2. WaitOK(wn) /\ ExpiredOK(e, wn) /\ AsksOK(q, an, wn) /\ on \in [Ask -> SUBSET Ask]
    BY <2>1
  <2> QED BY <2>2 DEF wn, an, on
<1>2. ASSUME NEW s \in Ask, NewAsk(s),
             wait' = expires_from_now(w, s, "on_timeout", BindTimeout)
      PROVE  /\ WaitOK(wait') /\ ExpiredOK(e, wait') /\ AsksOK(q, ask', wait')
             /\ older' \in [Ask -> SUBSET Ask]
  <2> DEFINE wn == expires_from_now(w, s, "on_timeout", BindTimeout)
             an == [ask EXCEPT ![s] = "pending"]
  <2>1. ask[s] = "free" /\ ask' = an
        /\ older' = [older EXCEPT ![s] = {x \in Ask : ask[x] # "free"}]
    BY <1>2 DEF NewAsk
  <2>2. older' \in [Ask -> SUBSET Ask]
    BY <2>1
  <2>3. s \in Timer /\ Ask \subseteq Timer /\ BindTimeout \in 1 .. Longest
    BY LongestTimes DEF Timer
  <2>4. DOMAIN wn = Timer /\ wn[s] = [left |-> BindTimeout, h |-> "on_timeout"]
        /\ \A t \in Timer : t # s => wn[t] = w[t]
    BY <2>3 DEF expires_from_now, WaitOK
  <2>5. an \in [Ask -> AskState] /\ an[s] = "pending" /\ \A x \in Ask : x # s => an[x] = ask[x]
    BY DEF AsksOK, AskState
  <2> HIDE DEF wn, an
  <2>6. AskOK(s, q, "free", w[s]) /\ w[s] = NoWait
    BY <2>1 DEF AsksOK, AskOK
  <2>7. WaitOK(wn)
    <3>1. "on_timeout" \in Task(s)
      BY Tasks
    <3>2. 0 .. Longest \subseteq Nat /\ BindTimeout \in 0 .. Longest
      BY <2>3, LongestTimes
    <3> QED BY <2>3, <2>4, <3>1, <3>2 DEF WaitOK
  <2>8. ExpiredOK(e, wn)
    <3>1. s \notin ToSet(e) /\ wn[s].left # 0
      BY <2>3, <2>4, <2>6 DEF ExpiredOK
    <3> QED BY <2>4, <3>1 DEF ExpiredOK
  <2>9. ASSUME NEW x \in Ask PROVE AskOK(x, q, an[x], wn[x])
    <3>1. CASE x = s
      <4>1. wn[s] # NoWait
        BY <2>3, <2>4 DEF NoWait
      <4> QED BY <3>1, <2>5, <2>6, <4>1 DEF AskOK
    <3>2. CASE x # s
      BY <3>2, <2>3, <2>4, <2>5 DEF AsksOK
    <3> QED BY <3>1, <3>2
  <2>10. AsksOK(q, an, wn)
    BY <2>5, <2>9 DEF AsksOK
  <2>11. wait' = wn
    BY <1>2 DEF wn
  <2> QED BY <2>1, <2>2, <2>7, <2>8, <2>10, <2>11
<1> QED BY <1>1, <1>2 DEF binding_request

-----------------------------------------------------------------------------
(* The steps of start and the timers' handlers *)

\* The queue and all timers after a step that touches neither datagrams nor
\* what RestOK names but for those it is told.
LEMMA ArmStep ==
    ASSUME NEW q, NEW n, NEW rb, QueueOK(q, n, rb), AsksOK(q, ask, wait),
           WaitOK(wait), ExpiredOK(expired, wait),
           NEW t \in Chained, NEW h \in Task(t), NEW units \in 1 .. Longest,
           Arm(t, h, units, q)
    PROVE  /\ QueueOK(queue', n, rb) /\ AsksOK(queue', ask, wait')
           /\ WaitOK(wait') /\ ExpiredOK(expired', wait')
<1>1. wait' = expires_from_now(wait, t, h, units) /\ Cancel(t, q)
  BY DEF Arm
<1> DEFINE w == expires_from_now(wait, t, h, units)
<1>2. /\ QueueOK(queue', n, rb) /\ AsksOK(queue', ask, w)
      /\ WaitOK(w) /\ ExpiredOK(expired', w)
  BY <1>1, CancelStep
<1> QED BY <1>1, <1>2

LEMMA StartTypes ==
    ASSUME NodeInv, NEW i \in Start, NEW here, NEW next \in Stage, Step(i, here, next)
    PROVE  /\ daemon' \in [Start -> Stage]
           /\ UNCHANGED <<from, sock, recv_buff, src_ep, handled, errors, thrown,
                          stopping, typed, since, stalls, overtaken, glob_self_ep>>
<1>1. daemon \in [Start -> Stage] /\ daemon' = [daemon EXCEPT ![i] = next]
  BY DEF NodeInv, RestOK, Step
<1>2. daemon' \in [Start -> Stage]
  BY <1>1
<1> QED BY <1>2 DEF Step, datagrams, clock, endpoint

LEMMA ParametersOf ==
    NodeInv => /\ QueueOK(queue, Len(from), recv_buff) /\ AsksOK(queue, ask, wait)
               /\ WaitOK(wait) /\ ExpiredOK(expired, wait)
               /\ DataOK(from, sock, recv_buff, src_ep, handled, errors) /\ RestOK
  BY DEF NodeInv

LEMMA StartStep ==
    ASSUME NodeInv, NEW i \in Start, start(i)
    PROVE  NodeInv'
<1>1. Step(i, "none", "dht") /\ receiving' = receiving + 1
      /\ UNCHANGED <<queue, running, stopped, requires, wait, expired, ask, older>>
  BY DEF start, call_receiver, timers
<1>2. "dht" \in Stage
  BY DEF Stage
<1>3. /\ daemon' \in [Start -> Stage]
      /\ UNCHANGED <<from, sock, recv_buff, src_ep, handled, errors, thrown,
                     stopping, typed, since, stalls, overtaken, glob_self_ep>>
  BY <1>1, <1>2, StartTypes
<1>4. RestOK'
  BY <1>1, <1>3 DEF NodeInv, RestOK
<1> QED BY <1>1, <1>3, <1>4, InvNext DEF NodeInv

LEMMA StartDhtStep ==
    ASSUME NodeInv, NEW i \in Start, start_dht_manager(i)
    PROVE  NodeInv'
<1>1. /\ Step(i, "dht", "bind") /\ requires' = [requires EXCEPT !["maintainer"] = TRUE]
      /\ Arm("maintainer", "get_remote_nodes", PingWait, queue)
      /\ UNCHANGED <<receiving, running, stopped, ask, older>>
  BY DEF start_dht_manager
<1>2. "bind" \in Stage
  BY DEF Stage
<1>3. /\ daemon' \in [Start -> Stage]
      /\ UNCHANGED <<from, sock, recv_buff, src_ep, handled, errors, thrown,
                     stopping, typed, since, stalls, overtaken, glob_self_ep>>
  BY <1>1, <1>2, StartTypes
<1>4. RestOK'
  BY <1>1, <1>3 DEF NodeInv, RestOK
<1>5. "maintainer" \in Chained /\ "get_remote_nodes" \in Task("maintainer")
      /\ PingWait \in 1 .. Longest
  BY Tasks, LongestTimes DEF Chained
<1> DEFINE n == Len(from)
           rb == recv_buff
<1>6. /\ QueueOK(queue, n, rb) /\ AsksOK(queue, ask, wait)
      /\ WaitOK(wait) /\ ExpiredOK(expired, wait)
  BY ParametersOf
<1> HIDE DEF n, rb
<1>7. /\ QueueOK(queue', n, rb) /\ AsksOK(queue', ask, wait')
      /\ WaitOK(wait') /\ ExpiredOK(expired', wait')
  BY <1>1, <1>5, <1>6, ArmStep
<1> QED BY <1>1, <1>3, <1>4, <1>7, InvNext DEF NodeInv, n, rb

LEMMA StartBindingStep ==
    ASSUME NodeInv, NEW i \in Start, start_binding_request(i)
    PROVE  NodeInv'
<1>1. /\ Step(i, "bind", "pool") /\ binding_request(wait)
      /\ UNCHANGED <<queue, receiving, running, stopped, requires, expired>>
  BY DEF start_binding_request
<1>2. "pool" \in Stage
  BY DEF Stage
<1>3. /\ daemon' \in [Start -> Stage]
      /\ UNCHANGED <<from, sock, recv_buff, src_ep, handled, errors, thrown,
                     stopping, typed, since, stalls, overtaken, glob_self_ep>>
  BY <1>1, <1>2, StartTypes
<1>4. /\ WaitOK(wait') /\ ExpiredOK(expired, wait') /\ AsksOK(queue, ask', wait')
      /\ older' \in [Ask -> SUBSET Ask]
  BY <1>1, ParametersOf, BindingRequestStep DEF RestOK
<1>5. RestOK'
  BY <1>1, <1>3, <1>4 DEF NodeInv, RestOK
<1> QED BY <1>1, <1>3, <1>4, <1>5, InvNext DEF NodeInv

LEMMA StartRefreshStep ==
    ASSUME NodeInv, NEW i \in Start, start_refresh(i)
    PROVE  NodeInv'
<1>1. /\ Step(i, "pool", "tick") /\ requires' = [requires EXCEPT !["refresh"] = TRUE]
      /\ Arm("refresh", "refresh_tick", RefreshTime, queue)
      /\ UNCHANGED <<receiving, running, stopped, ask, older>>
  BY DEF start_refresh
<1>2. "tick" \in Stage
  BY DEF Stage
<1>3. /\ daemon' \in [Start -> Stage]
      /\ UNCHANGED <<from, sock, recv_buff, src_ep, handled, errors, thrown,
                     stopping, typed, since, stalls, overtaken, glob_self_ep>>
  BY <1>1, <1>2, StartTypes
<1>4. RestOK'
  BY <1>1, <1>3 DEF NodeInv, RestOK
<1>5. "refresh" \in Chained /\ "refresh_tick" \in Task("refresh")
      /\ RefreshTime \in 1 .. Longest
  BY Tasks, LongestTimes DEF Chained
<1> DEFINE n == Len(from)
           rb == recv_buff
<1>6. /\ QueueOK(queue, n, rb) /\ AsksOK(queue, ask, wait)
      /\ WaitOK(wait) /\ ExpiredOK(expired, wait)
  BY ParametersOf
<1> HIDE DEF n, rb
<1>7. /\ QueueOK(queue', n, rb) /\ AsksOK(queue', ask, wait')
      /\ WaitOK(wait') /\ ExpiredOK(expired', wait')
  BY <1>1, <1>5, <1>6, ArmStep
<1> QED BY <1>1, <1>3, <1>4, <1>7, InvNext DEF NodeInv, n, rb

LEMMA StartTickStep ==
    ASSUME NodeInv, NEW i \in Start, start_tick(i)
    PROVE  NodeInv'
<1>1. /\ Step(i, "tick", "run") /\ Arm("tick", "tick", TickTime, queue)
      /\ UNCHANGED <<receiving, running, stopped, requires, ask, older>>
  BY DEF start_tick, call_tick, Arm
<1>2. "run" \in Stage
  BY DEF Stage
<1>3. /\ daemon' \in [Start -> Stage]
      /\ UNCHANGED <<from, sock, recv_buff, src_ep, handled, errors, thrown,
                     stopping, typed, since, stalls, overtaken, glob_self_ep>>
  BY <1>1, <1>2, StartTypes
<1>4. RestOK'
  BY <1>1, <1>3 DEF NodeInv, RestOK
<1>5. "tick" \in Chained /\ "tick" \in Task("tick") /\ TickTime \in 1 .. Longest
  BY Tasks, LongestTimes DEF Chained
<1> DEFINE n == Len(from)
           rb == recv_buff
<1>6. /\ QueueOK(queue, n, rb) /\ AsksOK(queue, ask, wait)
      /\ WaitOK(wait) /\ ExpiredOK(expired, wait)
  BY ParametersOf
<1> HIDE DEF n, rb
<1>7. /\ QueueOK(queue', n, rb) /\ AsksOK(queue', ask, wait')
      /\ WaitOK(wait') /\ ExpiredOK(expired', wait')
  BY <1>1, <1>5, <1>6, ArmStep
<1> QED BY <1>1, <1>3, <1>4, <1>7, InvNext DEF NodeInv, n, rb

LEMMA RunStep ==
    ASSUME NodeInv, NEW i \in Start, run(i)
    PROVE  NodeInv'
<1>1. Step(i, "run", "in run") /\ running' = ~stopped
      /\ UNCHANGED <<queue, receiving, stopped, requires, wait, expired, ask, older>>
  BY DEF run, timers
<1>2. "in run" \in Stage
  BY DEF Stage
<1>3. /\ daemon' \in [Start -> Stage]
      /\ UNCHANGED <<from, sock, recv_buff, src_ep, handled, errors, thrown,
                     stopping, typed, since, stalls, overtaken, glob_self_ep>>
  BY <1>1, <1>2, StartTypes
<1>4. RestOK'
  BY <1>1, <1>3 DEF NodeInv, RestOK
<1> QED BY <1>1, <1>3, <1>4, InvNext DEF NodeInv

LEMMA TickStep ==
    ASSUME NodeInv, tick
    PROVE  NodeInv'
<1> DEFINE n == Len(from)
           rb == recv_buff
           tq == Tail(queue)
           w == expires_from_now(wait, "tick", "tick", TickTime)
<1>1. /\ Running("tick") /\ binding_request(w) /\ Cancel("tick", tq) /\ since' = 0
      /\ UNCHANGED <<from, sock, recv_buff, src_ep, handled, errors, thrown, receiving, running,
                     daemon, stopping, stopped, typed, requires, overtaken, glob_self_ep,
                     stalls>>
  BY DEF tick, call_tick, udpRest, datagrams, life, endpoint
<1>2. QueueOK(tq, n, rb) /\ AsksOK(tq, ask, wait)
  BY <1>1, RunningHandler
<1>3. "tick" \in Chained /\ "tick" \in Task("tick") /\ TickTime \in 1 .. Longest
  BY Tasks, LongestTimes DEF Chained
<1>4. WaitOK(wait) /\ ExpiredOK(expired, wait)
  BY ParametersOf
<1> HIDE DEF n, rb, tq
<1>5. /\ QueueOK(queue', n, rb) /\ AsksOK(queue', ask, w)
      /\ WaitOK(w) /\ ExpiredOK(expired', w)
  BY <1>1, <1>2, <1>3, <1>4, CancelStep
<1> HIDE DEF w
<1> DEFINE qn == queue'
           en == expired'
<1>6. QueueOK(qn, n, rb) /\ AsksOK(qn, ask, w) /\ WaitOK(w) /\ ExpiredOK(en, w)
  BY <1>5
<1> HIDE DEF qn, en
<1>7. older \in [Ask -> SUBSET Ask]
  BY DEF NodeInv, RestOK
<1>8. /\ WaitOK(wait') /\ ExpiredOK(en, wait') /\ AsksOK(qn, ask', wait')
      /\ older' \in [Ask -> SUBSET Ask]
  BY <1>1, <1>6, <1>7, BindingRequestStep
<1>9. since' \in 0 .. TickTime
  BY <1>1, NodeAssumption
<1>10. RestOK'
  BY <1>1, <1>8, <1>9 DEF NodeInv, RestOK
<1> QED BY <1>1, <1>5, <1>8, <1>10, InvNext DEF NodeInv, n, rb, qn, en

LEMMA ChainStep ==
    ASSUME NodeInv, NEW h, NEW t \in Chained, NEW next \in Task(t),
           NEW units \in 1 .. Longest, Chain(h, t, next, units),
           h # "on_timeout", h # "result"
    PROVE  NodeInv'
<1> DEFINE n == Len(from)
           rb == recv_buff
           tq == Tail(queue)
<1>1. /\ Running(h)
      /\ \/ Arm(t, next, units, tq)
         \/ queue' = tq /\ UNCHANGED <<wait, expired>>
      /\ UNCHANGED <<from, sock, recv_buff, src_ep, handled, errors, thrown, receiving, running,
                     daemon, stopping, stopped, typed, requires, ask, older, overtaken,
                     glob_self_ep, since, stalls>>
  BY DEF Chain, udpRest, datagrams, life, timers, asking, endpoint, clock
<1>2. QueueOK(tq, n, rb) /\ AsksOK(tq, ask, wait)
  BY <1>1, RunningHandler
<1>3. WaitOK(wait) /\ ExpiredOK(expired, wait)
  BY ParametersOf
<1> HIDE DEF n, rb, tq
<1>4. /\ QueueOK(queue', n, rb) /\ AsksOK(queue', ask, wait')
      /\ WaitOK(wait') /\ ExpiredOK(expired', wait')
  <2>1. CASE Arm(t, next, units, tq)
    BY <2>1, <1>2, <1>3, ArmStep
  <2>2. CASE queue' = tq /\ UNCHANGED <<wait, expired>>
    BY <2>2, <1>2, <1>3
  <2> QED BY <1>1, <2>1, <2>2
<1>5. RestOK'
  BY <1>1 DEF NodeInv, RestOK
<1> QED BY <1>1, <1>4, <1>5, InvNext DEF NodeInv, n, rb

LEMMA ChainsStep ==
    ASSUME NodeInv, refresh_tick \/ maintainer_tick \/ get_remote_nodes
    PROVE  NodeInv'
<1>1. RefreshTime \in 1 .. Longest /\ PingWait \in 1 .. Longest /\ RoundWait \in 1 .. Longest
  BY LongestTimes
<1>2. "refresh" \in Chained /\ "maintainer" \in Chained /\ "refresh_tick" \in Task("refresh")
      /\ "get_remote_nodes" \in Task("maintainer") /\ "maintainer_tick" \in Task("maintainer")
  BY Tasks DEF Chained
<1>3. CASE refresh_tick
  BY <1>1, <1>2, <1>3, ChainStep DEF refresh_tick
<1>4. CASE maintainer_tick
  BY <1>1, <1>2, <1>4, ChainStep DEF maintainer_tick
<1>5. CASE get_remote_nodes
  BY <1>1, <1>2, <1>5, ChainStep DEF get_remote_nodes
<1> QED BY <1>3, <1>4, <1>5

-----------------------------------------------------------------------------
(* The requests' handlers *)

\* The answer or the timeout of a pending request: nothing is left of its
\* timer, and its result is posted.
LEMMA PostResult ==
    ASSUME NEW n, NEW rb, NEW q, QueueOK(q, n, rb), NEW s \in Ask, NEW found \in BOOLEAN,
           ToSet(q) \cap Results(s) = {}
    PROVE  /\ QueueOK(q \o <<Result(s, found)>>, n, rb)
           /\ AskOK(s, q \o <<Result(s, found)>>, "posted", NoWait)
<1> DEFINE e == Result(s, found)
           r == <<e>>
           qr == q \o r
<1>1. e \in Handlers(n) /\ e.h = "result" /\ e # Received /\ e \in Results(s)
  BY HandlerTypes DEF Result, Results, Received
<1>2. e \notin OnTimeout(s)
  BY DEF Result, OnTimeout
<1> HIDE DEF e
<1>3. r \in Seq(Handlers(n)) /\ ToSet(r) = {e} /\ q \in Seq(Handlers(n))
  BY <1>1, EntriesOfTuples DEF QueueOK
<1>4. AtMostOne(r, Results(s))
  BY OneOfTuples
<1> HIDE DEF r
<1>5. QueueOK(qr, n, rb)
  BY <1>1, <1>3, QueuePost
<1>6. ToSet(qr) = ToSet(q) \cup {e}
  BY <1>3, PostManyEntries
<1>7. AtMostOne(qr, Results(s))
  <2>1. AtMostOne(q, Results(s))
    BY <1>3, Entries DEF AtMostOne
  <2> QED BY <2>1, <1>3, <1>4, PostOne
<1>8. Before(qr, OnTimeout(s), Results(s))
  <2>1. Before(q, OnTimeout(s), Results(s))
    BY <1>3, Entries DEF Before
  <2>2. ToSet(r) \cap OnTimeout(s) = {}
    BY <1>2, <1>3
  <2> QED BY <2>1, <2>2, <1>3, PostBefore
<1> HIDE DEF qr
<1>9. AskOK(s, qr, "posted", NoWait)
  BY <1>7, <1>8 DEF AskOK
<1> QED BY <1>5, <1>9 DEF qr, r, e

\* The result of a request is nothing to the others.
LEMMA ForeignResult ==
    ASSUME NEW n, NEW q \in Seq(Handlers(n)), NEW s \in Ask, NEW found \in BOOLEAN,
           NEW x \in Ask, x # s, NEW a, NEW w, AskOK(x, q, a, w)
    PROVE  AskOK(x, q \o <<Result(s, found)>>, a, w)
<1> DEFINE e == Result(s, found)
           r == <<e>>
<1>1. e \in Handlers(n) /\ e \notin OnTimeout(x) /\ e \notin Results(x)
  BY HandlerTypes DEF Result, OnTimeout, Results
<1> HIDE DEF e
<1>2. r \in Seq(Handlers(n)) /\ ToSet(r) = {e}
  BY <1>1, EntriesOfTuples
<1>3. ToSet(r) \cap OnTimeout(x) = {} /\ ToSet(r) \cap Results(x) = {}
  BY <1>1, <1>2
<1> HIDE DEF r
<1>4. AskOK(x, q \o r, a, w)
  BY <1>2, <1>3, AskPost
<1> QED BY <1>4 DEF r, e

LEMMA OnTimeoutStep ==
    ASSUME NodeInv, on_timeout
    PROVE  NodeInv'
<1> DEFINE n == Len(from)
           rb == recv_buff
           s == Head(queue).of
           tq == Tail(queue)
<1>1. /\ Running("on_timeout")
      /\ ask' = IF ask[s] # "pending" THEN ask ELSE [ask EXCEPT ![s] = "posted"]
      /\ queue' = tq \o (IF ask[s] # "pending" THEN <<>> ELSE <<Result(s, FALSE)>>)
      /\ UNCHANGED <<from, sock, recv_buff, src_ep, handled, errors, thrown, receiving, running,
                     daemon, stopping, stopped, typed, requires, wait, expired, older,
                     overtaken, glob_self_ep, since, stalls>>
  BY DEF on_timeout, udpRest, datagrams, life, timers, endpoint, clock
<1>2. /\ Head(queue) \in Handlers(n) /\ Head(queue).h = "on_timeout"
      /\ Head(queue) \in ToSet(queue) /\ QueueOK(tq, n, rb)
  BY <1>1, RunningHandler
<1>3. s \in Ask /\ Head(queue) \in OnTimeout(s)
      /\ \A x \in Ask : (Head(queue) \in OnTimeout(x) => x = s) /\ Head(queue) \notin Results(x)
  BY <1>2, HandlerKinds
<1>4. queue \in Seq(Handlers(n)) /\ queue # <<>> /\ ask \in [Ask -> AskState]
      /\ \A x \in Ask : AskOK(x, queue, ask[x], wait[x])
  BY <1>1, ParametersOf DEF QueueOK, AsksOK, Running
<1> DEFINE me == Head(queue)
<1>5. ToSet(queue) = {me} \cup ToSet(tq) /\ tq \in Seq(Handlers(n))
  BY <1>4, TakeEntries
<1> HIDE DEF n, rb, s, tq, me
<1>6. ASSUME NEW x \in Ask, x # s PROVE AskOK(x, tq, ask[x], wait[x])
  BY <1>3, <1>4, <1>6, AskTake DEF tq
<1>7. CASE ask[s] # "pending"
  <2>1. DOMAIN <<>> = {}
    OBVIOUS
  <2>2. tq \o <<>> = tq
    BY <1>5, ConcatEmptySeq
  <2>3. ask' = ask /\ queue' = tq
    BY <1>1, <1>7, <2>2
  <2>4. AskOK(s, queue, ask[s], wait[s])
    BY <1>3, <1>4
  <2>5. ask[s] = "posted"
    BY <2>4, <1>2, <1>3, <1>7 DEF AskOK
  <2>6. AtMostOne(tq, Results(s)) /\ Before(tq, OnTimeout(s), Results(s)) /\ wait[s] = NoWait
    BY <2>4, <2>5, <1>4, TakeOne, TakeBefore DEF AskOK, tq
  <2>7. AskOK(s, tq, ask[s], wait[s])
    BY <2>5, <2>6 DEF AskOK
  <2>8. AsksOK(tq, ask, wait)
    BY <1>4, <1>6, <2>7 DEF AsksOK
  <2>9. RestOK'
    BY <1>1 DEF NodeInv, RestOK
  <2> QED BY <1>1, <1>2, <2>3, <2>8, <2>9, InvNext DEF NodeInv, n, rb
<1>8. CASE ask[s] = "pending"
  <2> DEFINE qn == tq \o <<Result(s, FALSE)>>
             an == [ask EXCEPT ![s] = "posted"]
  <2>1. ask' = an /\ queue' = qn
    BY <1>1, <1>8
  <2>2. AskOK(s, queue, ask[s], wait[s])
    BY <1>3, <1>4
  <2>3. ToSet(queue) \cap Results(s) = {} /\ wait[s] = NoWait
    BY <2>2, <1>2, <1>3, <1>8 DEF AskOK, me
  <2>4. ToSet(tq) \cap Results(s) = {}
    BY <2>3, <1>5
  <2>5. QueueOK(qn, n, rb) /\ AskOK(s, qn, "posted", NoWait)
    BY <1>2, <1>3, <2>4, PostResult
  <2>6. ASSUME NEW x \in Ask, x # s PROVE AskOK(x, qn, ask[x], wait[x])
    BY <1>3, <1>5, <1>6, <2>6, ForeignResult
  <2>7. an \in [Ask -> AskState] /\ an[s] = "posted" /\ \A x \in Ask : x # s => an[x] = ask[x]
    BY <1>3, <1>4 DEF AskState
  <2> HIDE DEF qn, an
  <2>8. AsksOK(qn, an, wait)
    BY <2>3, <2>5, <2>6, <2>7 DEF AsksOK
  <2>9. RestOK'
    BY <1>1 DEF NodeInv, RestOK
  <2> QED BY <1>1, <2>1, <2>5, <2>8, <2>9, InvNext DEF NodeInv, n, rb
<1> QED BY <1>7, <1>8

LEMMA ResultStep ==
    ASSUME NodeInv, result
    PROVE  NodeInv'
<1> DEFINE n == Len(from)
           rb == recv_buff
           s == Head(queue).of
           tq == Tail(queue)
           an == [ask EXCEPT ![s] = "free"]
<1>1. /\ Running("result") /\ queue' = tq /\ ask' = an
      /\ older' = [x \in Ask |-> IF x = s THEN {} ELSE older[x] \ {s}]
      /\ glob_self_ep' \in {glob_self_ep, "outdated", "latest"}
      /\ overtaken' \subseteq overtaken \cup older[s]
      /\ UNCHANGED <<from, sock, recv_buff, src_ep, handled, errors, thrown, receiving, running,
                     daemon, stopping, stopped, typed, requires, wait, expired, since, stalls>>
  BY DEF result, udpRest, datagrams, life, timers, clock, update_global_self_endpoint
<1>2. /\ Head(queue) \in Handlers(n) /\ Head(queue).h = "result"
      /\ Head(queue) \in ToSet(queue) /\ QueueOK(tq, n, rb)
  BY <1>1, RunningHandler
<1>3. s \in Ask /\ Head(queue) \in Results(s)
      /\ \A x \in Ask : (Head(queue) \in Results(x) => x = s) /\ Head(queue) \notin OnTimeout(x)
  BY <1>2, HandlerKinds
<1>4. queue \in Seq(Handlers(n)) /\ queue # <<>> /\ ask \in [Ask -> AskState]
      /\ \A x \in Ask : AskOK(x, queue, ask[x], wait[x])
  BY <1>1, ParametersOf DEF QueueOK, AsksOK, Running
<1>5. an \in [Ask -> AskState] /\ an[s] = "free" /\ \A x \in Ask : x # s => an[x] = ask[x]
  BY <1>3, <1>4 DEF AskState
<1>6. RestOK'
  <2>1. older \in [Ask -> SUBSET Ask] /\ overtaken \subseteq Ask
        /\ glob_self_ep \in {"initial", "latest", "outdated"}
    BY DEF NodeInv, RestOK
  <2>2. older' \in [Ask -> SUBSET Ask] /\ overtaken' \subseteq Ask
        /\ glob_self_ep' \in {"initial", "latest", "outdated"}
    BY <1>1, <1>3, <2>1
  <2> QED BY <1>1, <2>2 DEF NodeInv, RestOK
<1> HIDE DEF n, rb, s, tq, an
<1>7. ASSUME NEW x \in Ask, x # s PROVE AskOK(x, tq, an[x], wait[x])
  BY <1>3, <1>4, <1>5, <1>7, AskTake DEF tq
<1>8. AskOK(s, tq, an[s], wait[s])
  <2>1. AskOK(s, queue, ask[s], wait[s])
    BY <1>3, <1>4
  <2>2. ask[s] = "posted"
    BY <2>1, <1>2, <1>3 DEF AskOK
  <2>3. /\ AtMostOne(queue, Results(s)) /\ Before(queue, OnTimeout(s), Results(s))
        /\ wait[s] = NoWait
    BY <2>1, <2>2 DEF AskOK
  <2>4. ToSet(tq) \cap Results(s) = {} /\ ToSet(tq) \cap OnTimeout(s) = {}
    BY <2>3, <1>3, <1>4, TakeOne, TakeBefore DEF tq
  <2> QED BY <1>5, <2>3, <2>4 DEF AskOK
<1>9. AsksOK(tq, an, wait)
  BY <1>5, <1>7, <1>8 DEF AsksOK
<1> QED BY <1>1, <1>2, <1>6, <1>9, InvNext DEF NodeInv, n, rb

\* A datagram is handled, and may answer a pending request.
LEMMA ReceivePacketStep ==
    ASSUME NodeInv, income_message
    PROVE  NodeInv'
<1> DEFINE n == Len(from)
           rb == recv_buff
           tq == Tail(queue)
           m == [msg |-> Head(queue).raw_msg, src |-> src_ep]
<1>1. /\ Running("recv_handler") /\ handled' = Append(handled, m)
      /\ UNCHANGED <<from, sock, receiving, recv_buff, src_ep, errors, running, thrown, daemon,
                     stopping, stopped, typed, requires, since, stalls, older, overtaken,
                     glob_self_ep>>
      /\ \/ queue' = tq \o <<>> /\ UNCHANGED <<wait, expired, ask>>
         \/ \E s \in Ask : /\ ask[s] = "pending" /\ queue' = tq \o <<Result(s, TRUE)>>
                           /\ ask' = [ask EXCEPT ![s] = "posted"]
                           /\ wait' = [wait EXCEPT ![s] = NoWait]
                           /\ expired' = Without(expired, s)
  BY DEF income_message, recv_handler, nodeVars, life, timers, clock, asking, endpoint
<1>2. DataOK(from, sock, recv_buff, src_ep, handled, errors) /\ n \in Nat
  BY FromLength DEF NodeInv
<1>3. /\ Head(queue) \in Handlers(n) /\ Head(queue).h = "recv_handler"
      /\ QueueOK(tq, n, rb) /\ AsksOK(tq, ask, wait)
  BY <1>1, RunningHandler
<1>4. DataOK(from', sock', recv_buff', src_ep', handled', errors')
  <2>1. m \in [msg : 1 .. Len(from), src : Peer \cup {NoPeer}]
    BY <1>2, <1>3, HandlerKinds DEF DataOK
  <2> HIDE DEF m
  <2>2. handled' \in Seq([msg : 1 .. Len(from), src : Peer \cup {NoPeer}])
    BY <1>1, <1>2, <2>1, AppendProperties DEF DataOK
  <2> QED BY <1>1, <1>2, <2>2 DEF DataOK
<1>5. RestOK'
  BY <1>1 DEF NodeInv, RestOK
<1> HIDE DEF n, rb, tq
<1>6. tq \in Seq(Handlers(n))
  BY <1>3 DEF QueueOK
<1>7. CASE queue' = tq \o <<>> /\ UNCHANGED <<wait, expired, ask>>
  <2>1. queue' = tq
    BY <1>6, <1>7, ConcatEmptySeq
  <2> QED BY <1>1, <1>3, <1>4, <1>5, <1>7, <2>1, InvNext DEF NodeInv, n, rb
<1>8. ASSUME NEW s \in Ask, ask[s] = "pending", queue' = tq \o <<Result(s, TRUE)>>,
             ask' = [ask EXCEPT ![s] = "posted"], wait' = [wait EXCEPT ![s] = NoWait],
             expired' = Without(expired, s)
      PROVE  NodeInv'
  <2> DEFINE qn == tq \o <<Result(s, TRUE)>>
             an == [ask EXCEPT ![s] = "posted"]
             wn == [wait EXCEPT ![s] = NoWait]
             en == Without(expired, s)
  <2>1. WaitOK(wait) /\ ExpiredOK(expired, wait) /\ ask \in [Ask -> AskState]
    BY ParametersOf DEF AsksOK
  <2>2. s \in Timer /\ Ask \subseteq Timer
    BY DEF Timer
  <2>3. DOMAIN wn = Timer /\ wn[s] = NoWait /\ \A t \in Timer : t # s => wn[t] = wait[t]
    BY <2>1, <2>2 DEF WaitOK
  <2>4. an \in [Ask -> AskState] /\ an[s] = "posted" /\ \A x \in Ask : x # s => an[x] = ask[x]
    BY <2>1 DEF AskState
  <2>5. /\ en \in Seq(Timer) /\ \A x \in Timer : AtMostOne(en, {x})
        /\ ToSet(en) = ToSet(expired) \ {s} /\ ToSet(expired) \subseteq Timer
    BY <2>1, WithoutProperties, Entries DEF ExpiredOK
  <2> HIDE DEF an, wn, en
  <2>6. WaitOK(wn)
    BY <2>1, <2>3 DEF WaitOK
  <2>7. ExpiredOK(en, wn)
    BY <2>1, <2>3, <2>5 DEF ExpiredOK
  <2>8. AskOK(s, tq, ask[s], wait[s])
    BY <1>3 DEF AsksOK
  <2>9. ToSet(tq) \cap Results(s) = {}
    BY <2>8, <1>8 DEF AskOK
  <2>10. QueueOK(qn, n, rb) /\ AskOK(s, qn, "posted", NoWait)
    BY <1>3, <2>9, PostResult
  <2>11. ASSUME NEW x \in Ask, x # s PROVE AskOK(x, qn, ask[x], wait[x])
    <3>1. AskOK(x, tq, ask[x], wait[x])
      BY <1>3 DEF AsksOK
    <3> QED BY <1>6, <2>11, <3>1, ForeignResult
  <2> HIDE DEF qn
  <2>12. AsksOK(qn, an, wn)
    BY <2>2, <2>3, <2>4, <2>10, <2>11 DEF AsksOK
  <2>13. queue' = qn /\ ask' = an /\ wait' = wn /\ expired' = en
    BY <1>8 DEF qn, an, wn, en
  <2> QED
    BY <1>1, <1>4, <1>5, <2>6, <2>7, <2>10, <2>12, <2>13, InvNext DEF n, rb
<1> QED BY <1>1, <1>7, <1>8

-----------------------------------------------------------------------------
(* Stop and the console *)

LEMMA CancelledErrors ==
    ASSUME NodeInv, NEW q, QueueOK(q, Len(from), recv_buff), NEW w, AsksOK(q, ask, w)
    PROVE  /\ QueueOK(q \o Cancelled, Len(from), recv_buff)
           /\ AsksOK(q \o Cancelled, ask, w)
<1> DEFINE n == Len(from)
           r == [i \in 1 .. receiving |-> Error]
<1>1. receiving \in Nat
  BY DEF NodeInv, RestOK
<1>2. Error \in Handlers(n) /\ Error.h = "error" /\ Error # Received
  BY HandlerTypes DEF Error, Received
<1>3. Cancelled = r
  BY DEF Cancelled, Error
<1> HIDE DEF n
<1>4. r \in [1 .. receiving -> Handlers(n)] /\ DOMAIN r = 1 .. receiving
  BY <1>2
<1>5. \A e \in ToSet(r) : e = Error
  BY <1>4 DEF ToSet
<1> HIDE DEF r
<1>6. r \in Seq(Handlers(n))
  BY <1>1, <1>4, SeqDef
<1> DEFINE rb == recv_buff
           a == ask
<1>7. QueueOK(q, n, rb) /\ AsksOK(q, a, w)
  BY DEF n
<1> HIDE DEF rb, a
<1>8. QueueOK(q \o r, n, rb) /\ AsksOK(q \o r, a, w)
  BY <1>2, <1>5, <1>6, <1>7, PostOthers
<1> QED BY <1>3, <1>8 DEF n, rb, a

LEMMA StopPartsType ==
    ASSUME NodeInv, stop_parts
    PROVE  requires' \in [{"refresh", "maintainer"} -> BOOLEAN]
<1>1. DOMAIN requires = {"refresh", "maintainer"}
  BY DEF NodeInv, RestOK
<1> QED BY <1>1 DEF stop_parts

LEMMA StopUdpStep ==
    ASSUME NodeInv, stop_udp_server
    PROVE  NodeInv'
<1>1. /\ queue' = queue \o Cancelled /\ receiving' = 0 /\ stopping' = "io"
      /\ UNCHANGED <<from, sock, recv_buff, src_ep, handled, errors, thrown, running, daemon,
                     stopped, typed, requires, wait, expired, since, stalls, ask, older,
                     overtaken, glob_self_ep>>
  BY DEF stop_udp_server, cancel, datagrams, timers, clock, asking, endpoint
<1>2. /\ QueueOK(queue \o Cancelled, Len(from), recv_buff)
      /\ AsksOK(queue \o Cancelled, ask, wait)
  BY ParametersOf, CancelledErrors
<1>3. RestOK'
  BY <1>1 DEF NodeInv, RestOK
<1> QED BY <1>1, <1>2, <1>3, InvNext DEF NodeInv

LEMMA StopIoContextStep ==
    ASSUME NodeInv, stop_io_context
    PROVE  NodeInv'
<1>1. /\ stopping' = "no" /\ stopped' = TRUE /\ running' = FALSE /\ stop_parts
      /\ UNCHANGED <<from, sock, recv_buff, src_ep, handled, errors, thrown, queue, receiving,
                     daemon, typed, wait, expired, since, stalls, ask, older, overtaken,
                     glob_self_ep>>
  BY DEF stop_io_context, io_context_stop, datagrams, timers, clock, asking, endpoint
<1>2. requires' \in [{"refresh", "maintainer"} -> BOOLEAN]
  BY <1>1, StopPartsType
<1>3. RestOK'
  BY <1>1, <1>2 DEF NodeInv, RestOK
<1> QED BY <1>1, <1>3, InvNext DEF NodeInv

LEMMA ListenStep ==
    ASSUME NodeInv, NEW c \in Command, listen_stdin(c)
    PROVE  NodeInv'
<1> DEFINE e == [h |-> "command", word |-> c]
           n == Len(from)
           rb == recv_buff
<1>1. /\ typed < MaxCommands /\ typed' = typed + 1 /\ queue' = Append(queue, e)
      /\ UNCHANGED <<from, sock, recv_buff, src_ep, handled, errors, thrown, receiving, running,
                     daemon, stopping, stopped, requires, wait, expired, since, stalls,
                     ask, older, overtaken, glob_self_ep>>
  BY DEF listen_stdin, udpRest, datagrams, timers, clock, asking, endpoint
<1>2. e \in Handlers(n) /\ e.h = "command" /\ e # Received
  BY HandlerTypes DEF Received
<1>3. QueueOK(queue, n, rb) /\ AsksOK(queue, ask, wait)
  BY ParametersOf
<1> HIDE DEF e, n, rb
<1>4. QueueOK(Append(queue, e), n, rb) /\ AsksOK(Append(queue, e), ask, wait)
  BY <1>2, <1>3, PostOther
<1>5. typed' \in 0 .. MaxCommands
  BY <1>1, NodeAssumption DEF NodeInv, RestOK
<1>6. RestOK'
  BY <1>1, <1>5 DEF NodeInv, RestOK
<1> QED BY <1>1, <1>4, <1>6, InvNext DEF NodeInv, n, rb

LEMMA CommandStep ==
    ASSUME NodeInv, command_stop \/ command_other
    PROVE  NodeInv'
<1>1. Running("command")
  BY DEF command_stop, command_other
<1>2. QueueOK(Tail(queue), Len(from), recv_buff) /\ AsksOK(Tail(queue), ask, wait)
  BY <1>1, RunningHandler
<1>3. CASE command_stop
  <2>1. /\ queue' = Tail(queue) \o Cancelled /\ receiving' = 0
        /\ stopped' = TRUE /\ running' = FALSE /\ stop_parts
        /\ UNCHANGED <<from, sock, recv_buff, src_ep, handled, errors, thrown,
                       daemon, stopping, typed, wait, expired, since, stalls, ask, older,
                       overtaken, glob_self_ep>>
    BY <1>3 DEF command_stop, io_context_stop, datagrams, timers, clock, asking, endpoint
  <2>2. /\ QueueOK(Tail(queue) \o Cancelled, Len(from), recv_buff)
        /\ AsksOK(Tail(queue) \o Cancelled, ask, wait)
    BY <1>2, CancelledErrors
  <2>3. requires' \in [{"refresh", "maintainer"} -> BOOLEAN]
    BY <2>1, StopPartsType
  <2>4. RestOK'
    BY <2>1, <2>3 DEF NodeInv, RestOK
  <2> QED BY <2>1, <2>2, <2>4, InvNext DEF NodeInv
<1>4. CASE command_other
  <2>1. /\ queue' = Tail(queue)
        /\ UNCHANGED <<from, sock, recv_buff, src_ep, handled, errors, thrown, receiving, running,
                       daemon, stopping, stopped, typed, requires, wait, expired, since,
                       stalls, ask, older, overtaken, glob_self_ep>>
    BY <1>4 DEF command_other, udpRest, datagrams, nodeVars, life, timers, clock, asking,
                endpoint
  <2>2. RestOK'
    BY <2>1 DEF NodeInv, RestOK
  <2> QED BY <1>2, <2>1, <2>2, InvNext DEF NodeInv
<1> QED BY <1>3, <1>4

-----------------------------------------------------------------------------
(* Time *)

\* The orders of a finite set are sequences without repetition.
LEMMA Orders ==
    ASSUME NEW S, IsFiniteSet(S)
    PROVE  /\ SetToSeq(S) \in SetToSeqs(S)
           /\ \A f \in SetToSeqs(S) : /\ f \in Seq(S) /\ ToSet(f) = S
                                      /\ \A x : AtMostOne(f, {x})
<1> DEFINE c == Cardinality(S)
<1>1. c \in Nat /\ ExistsBijection(1 .. c, S)
  BY FS_CardinalityType
<1>2. \E f \in [1 .. c -> S] : IsInjective(f)
  BY <1>1 DEF ExistsBijection, Bijection, Injection
<1>3. SetToSeq(S) \in [1 .. c -> S] /\ IsInjective(SetToSeq(S))
  BY <1>2 DEF SetToSeq
<1>4. SetToSeqs(S) = {f \in [1 .. c -> S] : \A i, j \in 1 .. c : i # j => f[i] # f[j]}
  BY DEF SetToSeqs
<1> DEFINE g == SetToSeq(S)
<1>5. g \in SetToSeqs(S)
  <2> HIDE DEF g, c
  <2>1. g \in [1 .. c -> S] /\ IsInjective(g)
    BY <1>3 DEF g
  <2> QED BY <1>4, <2>1 DEF IsInjective
<1>6. ASSUME NEW f \in SetToSeqs(S)
      PROVE  /\ f \in Seq(S) /\ ToSet(f) = S
             /\ \A x : AtMostOne(f, {x})
  <2>0. IsFiniteSet(1 .. c) /\ Cardinality(1 .. c) = c
    BY <1>1, FS_Interval
  <2>9. c = Cardinality(S)
    OBVIOUS
  <2> HIDE DEF c
  <2>1. f \in [1 .. c -> S] /\ \A i, j \in 1 .. c : i # j => f[i] # f[j]
    BY <1>4
  <2>2. f \in Seq(S)
    BY <1>1, <2>1, SeqDef
  <2>3. ToSet(f) \subseteq S
    BY <2>2, Entries
  <2>4. ASSUME NEW x \in S, x \notin ToSet(f) PROVE FALSE
    <3> DEFINE T == S \ {x}
    <3>1. IsFiniteSet(T) /\ Cardinality(T) = c - 1
      BY <2>4, <2>9, FS_RemoveElement
    <3>2. f \in [1 .. c -> T]
      BY <2>1, <2>4 DEF ToSet
    <3> HIDE DEF T
    <3>3. \E i, j \in 1 .. c : i # j /\ f[i] = f[j]
      BY <1>1, <2>0, <3>1, <3>2, FS_PigeonHole
    <3> QED BY <2>1, <3>3
  <2>5. \A x : AtMostOne(f, {x})
    BY <2>1 DEF AtMostOne
  <2> QED BY <2>2, <2>3, <2>4, <2>5
<1> QED BY <1>5, <1>6

LEMMA FiniteTimers == \A S \in SUBSET Timer : IsFiniteSet(S)
<1>1. IsFiniteSet({"tick"} \cup {"refresh"})
  BY FS_Singleton, FS_Union
<1>2. IsFiniteSet({"tick"} \cup {"refresh"} \cup {"maintainer"})
  BY <1>1, FS_AddElement
<1>3. IsFiniteSet({"tick"} \cup {"refresh"} \cup {"maintainer"} \cup {"ask1"})
  BY <1>2, FS_AddElement
<1>4. IsFiniteSet({"tick"} \cup {"refresh"} \cup {"maintainer"} \cup {"ask1"} \cup {"ask2"})
  BY <1>3, FS_AddElement
<1>5. IsFiniteSet({"tick"} \cup {"refresh"} \cup {"maintainer"} \cup {"ask1"} \cup {"ask2"}
                    \cup {"ask3"})
  BY <1>4, FS_AddElement
<1>6. Timer = {"tick"} \cup {"refresh"} \cup {"maintainer"} \cup {"ask1"} \cup {"ask2"}
                  \cup {"ask3"}
  BY DEF Timer, Ask
<1>7. IsFiniteSet(Timer)
  BY <1>5, <1>6
<1> QED BY <1>7, FS_Subset

\* Timers are appended to those that expired.
LEMMA MoreExpired ==
    ASSUME NEW e \in Seq(Timer), NEW r \in Seq(Timer),
           \A x \in Timer : AtMostOne(e, {x}), \A x \in Timer : AtMostOne(r, {x}),
           ToSet(e) \cap ToSet(r) = {}
    PROVE  /\ e \o r \in Seq(Timer) /\ \A x \in Timer : AtMostOne(e \o r, {x})
           /\ ToSet(e \o r) = ToSet(e) \cup ToSet(r)
<1>1. ASSUME NEW x \in Timer PROVE AtMostOne(e \o r, {x})
  <2> DEFINE P == {x}
  <2>1. AtMostOne(e, P) /\ AtMostOne(r, P) /\ (ToSet(e) \cap P = {} \/ ToSet(r) \cap P = {})
    OBVIOUS
  <2> HIDE DEF P
  <2>2. AtMostOne(e \o r, P)
    BY <2>1, PostOne
  <2> QED BY <2>2 DEF P
<1> QED BY <1>1, PostManyEntries

LEMMA OneLess ==
    \A k \in 0 .. Longest : /\ Max({k - 1, 0}) = IF k = 0 THEN 0 ELSE k - 1
                            /\ Max({k - 1, 0}) \in 0 .. Longest
<1> SUFFICES ASSUME NEW k \in 0 .. Longest
             PROVE  /\ Max({k - 1, 0}) = IF k = 0 THEN 0 ELSE k - 1
                    /\ Max({k - 1, 0}) \in 0 .. Longest
  OBVIOUS
<1> DEFINE T == {k - 1, 0}
           m == IF k = 0 THEN 0 ELSE k - 1
<1>1. Longest \in Nat
  BY LongestTimes
<1>2. m \in T /\ \A y \in T : m >= y
  BY <1>1
<1>3. \A x \in T : (\A y \in T : x >= y) => x = m
  BY <1>1
<1>4. Max(T) = m
  <2> HIDE DEF T, m
  <2> QED BY <1>2, <1>3 DEF Max
<1> QED BY <1>1, <1>4

\* What expires when a unit of time has passed, and what is left of the waits.
LEMMA ElapseTimes ==
    ASSUME NodeInv, Elapse
    PROVE  /\ \E r \in Seq(Timer) :
                 /\ expired' = expired \o r /\ \A x \in Timer : AtMostOne(r, {x})
                 /\ ToSet(r) = {t \in Timer : wait[t] # NoWait /\ wait[t].left = 1}
           /\ DOMAIN wait' = Timer
           /\ \A t \in Timer :
                 /\ wait[t] = NoWait => wait'[t] = NoWait
                 /\ wait[t] # NoWait =>
                       /\ wait[t].left \in 0 .. Longest /\ wait[t].h \in Task(t)
                       /\ wait'[t] # NoWait /\ wait'[t] \in [left : 0 .. Longest, h : Task(t)]
                       /\ wait'[t].left = IF wait[t].left = 0 THEN 0 ELSE wait[t].left - 1
           /\ since' = IF since = TickTime THEN TickTime ELSE since + 1
<1> DEFINE due == {t \in Timer : wait[t].left = 1}
           apart == {"maintainer", "refresh"}
           last == SetToSeq(due \cap apart)
           wn == [t \in Timer |-> [wait[t] EXCEPT !.left = Max({@ - 1, 0})]]
<1>1. PICK order \in SetToSeqs(due \ apart) :
          /\ expired' = expired \o order \o last /\ wait' = wn
          /\ since' = Min({since + 1, TickTime})
  BY DEF Elapse
<1>2. WaitOK(wait) /\ ExpiredOK(expired, wait)
  BY ParametersOf
<1>3. due \ apart \in SUBSET Timer /\ due \cap apart \in SUBSET Timer
  OBVIOUS
<1>4. IsFiniteSet(due \ apart) /\ IsFiniteSet(due \cap apart)
  BY <1>3, FiniteTimers
<1>5. /\ order \in Seq(due \ apart) /\ ToSet(order) = due \ apart
      /\ \A x : AtMostOne(order, {x})
  <2> DEFINE S == due \ apart
  <2> HIDE DEF S
  <2>1. order \in SetToSeqs(S) /\ IsFiniteSet(S)
    BY <1>4 DEF S
  <2>2. order \in Seq(S) /\ ToSet(order) = S /\ \A x : AtMostOne(order, {x})
    BY <2>1, Orders
  <2> QED BY <2>2 DEF S
<1>6. /\ last \in Seq(due \cap apart) /\ ToSet(last) = due \cap apart
      /\ \A x : AtMostOne(last, {x})
  <2> DEFINE S == due \cap apart
  <2> HIDE DEF S
  <2>1. SetToSeq(S) \in SetToSeqs(S)
    BY <1>4, Orders DEF S
  <2>2. /\ SetToSeq(S) \in Seq(S) /\ ToSet(SetToSeq(S)) = S
        /\ \A x : AtMostOne(SetToSeq(S), {x})
    BY <1>4, <2>1, Orders DEF S
  <2> QED BY <2>2 DEF S
<1>7. order \in Seq(Timer) /\ last \in Seq(Timer) /\ expired \in Seq(Timer)
  BY <1>2, <1>3, <1>5, <1>6, EntriesSeq DEF ExpiredOK
<1>8. \A t \in Timer : wn[t] = [wait[t] EXCEPT !.left = Max({@ - 1, 0})]
  OBVIOUS
<1>9. ASSUME NEW t \in Timer
      PROVE  /\ wait[t] = NoWait => wn[t] = NoWait
             /\ wait[t] # NoWait =>
                   /\ wait[t].left \in 0 .. Longest /\ wait[t].h \in Task(t)
                   /\ wn[t] # NoWait /\ wn[t] \in [left : 0 .. Longest, h : Task(t)]
                   /\ wn[t].left = IF wait[t].left = 0 THEN 0 ELSE wait[t].left - 1
  <2>1. Max({0 - 1, 0}) = 0 /\ Longest \in Nat
    BY OneLess, LongestTimes
  <2>2. "none" \notin Task(t)
    BY Tasks DEF Timer
  <2>3. CASE wait[t] = NoWait
    <3>1. wn[t] = [NoWait EXCEPT !.left = Max({NoWait.left - 1, 0})]
      BY <1>8, <2>3
    <3>2. Max({NoWait.left - 1, 0}) = 0
      BY <2>1 DEF NoWait
    <3>3. [NoWait EXCEPT !.left = 0] = NoWait
      BY DEF NoWait
    <3> QED BY <2>3, <3>1, <3>2, <3>3
  <2>4. CASE wait[t] # NoWait
    <3>1. wait[t] \in [left : 0 .. Longest, h : Task(t)]
      BY <1>2, <2>4 DEF WaitOK
    <3> DEFINE k == wait[t].left
    <3>2. k \in 0 .. Longest /\ wait[t].h \in Task(t)
      BY <3>1
    <3>3. /\ Max({k - 1, 0}) \in 0 .. Longest
          /\ Max({k - 1, 0}) = IF k = 0 THEN 0 ELSE k - 1
      BY <3>2, OneLess
    <3>4. wn[t] = [left |-> Max({k - 1, 0}), h |-> wait[t].h]
      BY <1>8, <3>1
    <3> HIDE DEF wn, k
    <3>5. wn[t] \in [left : 0 .. Longest, h : Task(t)] /\ wn[t].h \in Task(t)
          /\ wn[t].left = IF k = 0 THEN 0 ELSE k - 1
      BY <3>2, <3>3, <3>4
    <3> QED BY <2>2, <2>4, <3>2, <3>5 DEF NoWait, k
  <2> QED BY <2>3, <2>4
<1>10. DOMAIN wn = Timer
  OBVIOUS
<1>11. due = {t \in Timer : wait[t] # NoWait /\ wait[t].left = 1}
  BY DEF NoWait
<1> DEFINE r == order \o last
<1> HIDE DEF due, apart, last, wn
<1>12. r \in Seq(Timer) /\ (\A x \in Timer : AtMostOne(r, {x})) /\ ToSet(r) = due
  <2>1. ToSet(order) \cap ToSet(last) = {} /\ ToSet(order) \cup ToSet(last) = due
    BY <1>5, <1>6
  <2> QED BY <1>5, <1>6, <1>7, <2>1, MoreExpired
<1>13. expired \o order \o last = expired \o r
  BY <1>7, ConcatAssociative
<1>14. since' = IF since = TickTime THEN TickTime ELSE since + 1
  <2> DEFINE T == {since + 1, TickTime}
             m == IF since = TickTime THEN TickTime ELSE since + 1
  <2>1. since \in 0 .. TickTime /\ TickTime \in Nat
    BY NodeAssumption DEF NodeInv, RestOK
  <2>2. m \in T /\ \A y \in T : m <= y
    BY <2>1
  <2>3. \A x \in T : (\A y \in T : x <= y) => x = m
    BY <2>1
  <2>4. Min(T) = m
    <3> HIDE DEF T, m
    <3> QED BY <2>2, <2>3 DEF Min
  <2> QED BY <1>1, <2>4
<1> HIDE DEF r
<1>15. \E x \in Seq(Timer) :
          /\ expired' = expired \o x /\ \A y \in Timer : AtMostOne(x, {y})
          /\ ToSet(x) = {t \in Timer : wait[t] # NoWait /\ wait[t].left = 1}
  BY <1>1, <1>11, <1>12, <1>13
<1> QED BY <1>1, <1>9, <1>10, <1>14, <1>15

LEMMA ElapseStep ==
    ASSUME NodeInv, Elapse
    PROVE  NodeInv'
<1> DEFINE due == {t \in Timer : wait[t] # NoWait /\ wait[t].left = 1}
           wn == wait'
           en == expired'
<1>1. /\ stalls' = stalls \/ (stalls' = stalls + 1 /\ Trouble < MaxTrouble)
      /\ UNCHANGED <<from, sock, receiving, recv_buff, src_ep, queue, handled, errors, thrown,
                     running, daemon, stopping, stopped, typed, requires, ask, older,
                     overtaken, glob_self_ep>>
  BY DEF Elapse, vars, life, asking, endpoint
<1>2. WaitOK(wait) /\ ExpiredOK(expired, wait) /\ AsksOK(queue, ask, wait)
  BY ParametersOf
<1>3. PICK r \in Seq(Timer) : /\ en = expired \o r /\ \A x \in Timer : AtMostOne(r, {x})
                              /\ ToSet(r) = due
  BY ElapseTimes
<1>4. /\ DOMAIN wn = Timer
      /\ since' = IF since = TickTime THEN TickTime ELSE since + 1
      /\ \A t \in Timer :
            /\ wait[t] = NoWait => wn[t] = NoWait
            /\ wait[t] # NoWait =>
                  /\ wait[t].left \in 0 .. Longest /\ wait[t].h \in Task(t)
                  /\ wn[t] # NoWait /\ wn[t] \in [left : 0 .. Longest, h : Task(t)]
                  /\ wn[t].left = IF wait[t].left = 0 THEN 0 ELSE wait[t].left - 1
  BY ElapseTimes
<1>5. \A t \in Timer : wait[t] # NoWait => (wait[t].left \in {0, 1} <=> wn[t].left = 0)
  BY <1>4, LongestTimes
<1>6. /\ due \subseteq Timer /\ \A t \in due : wait[t] # NoWait /\ wait[t].left = 1
      /\ \A t \in Timer : wait[t] # NoWait /\ wait[t].left = 1 => t \in due
  OBVIOUS
<1> HIDE DEF due, wn
<1>7. /\ en \in Seq(Timer) /\ \A x \in Timer : AtMostOne(en, {x})
      /\ ToSet(en) = ToSet(expired) \cup due
  <2>1. expired \in Seq(Timer) /\ \A x \in Timer : AtMostOne(expired, {x})
        /\ \A t \in ToSet(expired) : wait[t].left = 0
    BY <1>2, Entries DEF ExpiredOK
  <2>2. ToSet(expired) \cap ToSet(r) = {}
    <3> SUFFICES ASSUME NEW t \in ToSet(expired), t \in due PROVE FALSE
      BY <1>3
    <3>1. wait[t].left = 0 /\ wait[t].left = 1
      BY <2>1, <1>6
    <3> QED BY <3>1
  <2> HIDE DEF en
  <2> QED BY <1>3, <2>1, <2>2, MoreExpired
<1> HIDE DEF en
<1>8. WaitOK(wn)
  BY <1>4 DEF WaitOK
<1>9. ExpiredOK(en, wn)
  <2>1. ASSUME NEW t \in Timer
        PROVE  t \in ToSet(en) <=> wn[t] # NoWait /\ wn[t].left = 0
    <3>1. t \in ToSet(expired) <=> wait[t] # NoWait /\ wait[t].left = 0
      BY <1>2 DEF ExpiredOK
    <3>2. t \in ToSet(en) <=> wait[t] # NoWait /\ wait[t].left \in {0, 1}
      BY <1>6, <1>7, <3>1
    <3> QED BY <1>4, <1>5, <3>2
  <2> QED BY <1>7, <2>1 DEF ExpiredOK
<1>10. AsksOK(queue, ask, wn)
  <2>1. ASSUME NEW s \in Ask PROVE AskOK(s, queue, ask[s], wn[s])
    <3>1. s \in Timer
      BY DEF Timer
    <3>2. wait[s] = NoWait <=> wn[s] = NoWait
      BY <1>4, <3>1
    <3> QED BY <1>2, <3>2 DEF AsksOK, AskOK
  <2> QED BY <1>2, <2>1 DEF AsksOK
<1>11. since' \in 0 .. TickTime
  <2>1. since \in 0 .. TickTime /\ TickTime \in Nat
    BY NodeAssumption DEF NodeInv, RestOK
  <2> QED BY <1>4, <2>1
<1>12. stalls' \in 0 .. MaxTrouble
  <2>1. stalls \in 0 .. MaxTrouble /\ MaxTrouble \in Nat
    BY NodeAssumption DEF NodeInv, RestOK
  <2>2. ASSUME Trouble < MaxTrouble PROVE stalls < MaxTrouble
    <3>1. errors \in Nat /\ errors <= MaxErrors
      BY UdpAssumption DEF NodeInv, DataOK
    <3>2. Cardinality({i \in Start \ {1} : daemon[i] # "none"}) \in Nat
      <4>1. MaxStarts \in Nat
        BY NodeAssumption
      <4>2. IsFiniteSet(Start)
        BY <4>1, FS_Interval DEF Start
      <4>3. {i \in Start \ {1} : daemon[i] # "none"} \in SUBSET Start
        OBVIOUS
      <4> QED BY <4>2, <4>3, FS_Subset, FS_CardinalityType
    <3> QED BY <2>1, <2>2, <3>1, <3>2 DEF Trouble
  <2> QED BY <1>1, <2>1, <2>2
<1>13. RestOK'
  BY <1>1, <1>11, <1>12 DEF NodeInv, RestOK
<1> QED BY <1>1, <1>8, <1>9, <1>10, <1>13, InvNext DEF NodeInv, en, wn

\* The handlers of the timers that expired, each in its place, are posted.
LEMMA ExpiredPosted ==
    ASSUME NodeInv, TimersReady
    PROVE  /\ \E r \in Seq(Handlers(Len(from))) :
                 /\ queue' = queue \o r /\ Len(r) = Len(expired)
                 /\ \A i \in 1 .. Len(expired) : /\ expired[i] \in ToSet(expired)
                                                 /\ r[i] = TimerHandler(expired[i])
                 /\ ToSet(r) = {TimerHandler(t) : t \in ToSet(expired)}
           /\ DOMAIN wait' = Timer
           /\ \A t \in Timer : wait'[t] = IF t \in ToSet(expired) THEN NoWait ELSE wait[t]
           /\ \A t \in ToSet(expired) :
                 /\ TimerHandler(t) \in Handlers(Len(from)) /\ wait[t] # NoWait
                 /\ TimerHandler(t).h \in Task(t) /\ TimerHandler(t).of = t
                 /\ t \in Ask => TimerHandler(t) = [h |-> "on_timeout", of |-> t]
                 /\ TimerHandler(t) # Received /\ \A s \in Ask : TimerHandler(t) \notin Results(s)
                 /\ \A s \in Ask : TimerHandler(t) \in OnTimeout(s) => t = s
<1> DEFINE n == Len(from)
           r == [i \in DOMAIN expired |-> TimerHandler(expired[i])]
           wn == [t \in Timer |-> IF t \in ToSet(expired) THEN NoWait ELSE wait[t]]
<1>1. queue' = queue \o r /\ wait' = wn
  BY DEF TimersReady
<1>2. WaitOK(wait) /\ ExpiredOK(expired, wait)
  BY ParametersOf
<1>3. /\ expired \in Seq(Timer) /\ Len(expired) \in Nat /\ DOMAIN expired = 1 .. Len(expired)
      /\ ToSet(expired) = {expired[i] : i \in 1 .. Len(expired)}
      /\ ToSet(expired) \subseteq Timer
      /\ \A t \in ToSet(expired) : wait[t] # NoWait
  BY <1>2, Entries DEF ExpiredOK
<1> HIDE DEF n
<1>4. ASSUME NEW t \in ToSet(expired)
      PROVE  /\ TimerHandler(t) \in Handlers(n)
             /\ TimerHandler(t).h \in Task(t) /\ TimerHandler(t).of = t
             /\ t \in Ask => TimerHandler(t) = [h |-> "on_timeout", of |-> t]
             /\ TimerHandler(t) # Received /\ \A s \in Ask : TimerHandler(t) \notin Results(s)
             /\ \A s \in Ask : TimerHandler(t) \in OnTimeout(s) => t = s
  <2>1. t \in Timer /\ wait[t].h \in Task(t)
    BY <1>2, <1>3, <1>4 DEF WaitOK
  <2>2. TimerHandler(t) = [h |-> wait[t].h, of |-> t]
    BY DEF TimerHandler
  <2> DEFINE e == TimerHandler(t)
  <2>3. e \in Handlers(n) /\ e.h \in Task(t) /\ e.of = t
    BY <2>1, <2>2, HandlerTypes
  <2>4. t \in Ask => e = [h |-> "on_timeout", of |-> t]
    BY <2>1, <2>2, Tasks
  <2> HIDE DEF e
  <2>5. e.h # "received" /\ e.h # "result"
    BY <2>1, <2>3, Tasks
  <2>6. e # Received /\ \A s \in Ask : e \notin Results(s)
    BY <2>5 DEF Received, Results, Result
  <2>7. \A s \in Ask : e \in OnTimeout(s) => t = s
    BY <2>3 DEF OnTimeout
  <2> QED BY <2>3, <2>4, <2>6, <2>7 DEF e
<1>5. \A i \in 1 .. Len(expired) : expired[i] \in ToSet(expired)
                                  /\ r[i] = TimerHandler(expired[i])
  BY <1>3
<1>6. r \in [1 .. Len(expired) -> Handlers(n)]
  BY <1>3, <1>4, <1>5
<1> HIDE DEF r
<1>7. r \in Seq(Handlers(n)) /\ DOMAIN r = 1 .. Len(expired)
  BY <1>3, <1>6, SeqDef
<1>8. ToSet(r) = {TimerHandler(t) : t \in ToSet(expired)}
  BY <1>3, <1>5, <1>7 DEF ToSet
<1>9. Len(r) = Len(expired)
  BY <1>3, <1>7, LenProperties
<1>10. \E x \in Seq(Handlers(n)) :
          /\ queue' = queue \o x /\ Len(x) = Len(expired)
          /\ \A i \in 1 .. Len(expired) : /\ expired[i] \in ToSet(expired)
                                          /\ x[i] = TimerHandler(expired[i])
          /\ ToSet(x) = {TimerHandler(t) : t \in ToSet(expired)}
  BY <1>1, <1>5, <1>7, <1>8, <1>9
<1> QED BY <1>1, <1>3, <1>4, <1>10 DEF n

\* The expired timers' handlers: those of requests are of pending ones, whose
\* timers had none ready.
LEMMA TimersReadyStep ==
    ASSUME NodeInv, TimersReady
    PROVE  NodeInv'
<1> DEFINE n == Len(from)
           rb == recv_buff
           wn == wait'
<1>1. /\ expired' = <<>>
      /\ UNCHANGED <<from, sock, recv_buff, src_ep, handled, errors, thrown, receiving, running,
                     daemon, stopping, stopped, typed, requires, ask, older, overtaken,
                     glob_self_ep, since, stalls>>
  BY DEF TimersReady, udpRest, datagrams, life, asking, endpoint, clock
<1>2. /\ WaitOK(wait) /\ ExpiredOK(expired, wait) /\ AsksOK(queue, ask, wait)
      /\ QueueOK(queue, n, rb)
  BY ParametersOf
<1>3. PICK r \in Seq(Handlers(n)) :
          queue' = queue \o r /\ ToSet(r) = {TimerHandler(t) : t \in ToSet(expired)}
  BY ExpiredPosted
<1>4. /\ DOMAIN wn = Timer
      /\ \A t \in Timer : wn[t] = IF t \in ToSet(expired) THEN NoWait ELSE wait[t]
      /\ \A t \in ToSet(expired) :
            /\ wait[t] # NoWait
            /\ t \in Ask => TimerHandler(t) = [h |-> "on_timeout", of |-> t]
            /\ TimerHandler(t) # Received /\ \A s \in Ask : TimerHandler(t) \notin Results(s)
            /\ \A s \in Ask : TimerHandler(t) \in OnTimeout(s) => t = s
  BY ExpiredPosted
<1> HIDE DEF n, rb, wn
<1> DEFINE qn == queue \o r
<1>5. QueueOK(qn, n, rb)
  BY <1>2, <1>3, <1>4, QueuePost
<1>6. WaitOK(wn)
  BY <1>2, <1>4 DEF WaitOK
<1>7. ToSet(qn) = ToSet(queue) \cup ToSet(r) /\ queue \in Seq(Handlers(n))
  BY <1>2, PostManyEntries DEF QueueOK
<1>8. ASSUME NEW s \in Ask PROVE AskOK(s, qn, ask[s], wn[s])
  <2>1. s \in Timer /\ AskOK(s, queue, ask[s], wait[s])
    BY <1>2 DEF AsksOK, Timer
  <2>2. ToSet(r) \cap Results(s) = {}
    BY <1>3, <1>4
  <2>3. CASE s \notin ToSet(expired)
    <3>1. ToSet(r) \cap OnTimeout(s) = {}
      BY <1>3, <1>4, <2>3
    <3>2. AskOK(s, qn, ask[s], wait[s])
      BY <1>7, <2>1, <2>2, <3>1, AskPost
    <3> QED BY <1>4, <2>1, <2>3, <3>2
  <2>4. CASE s \in ToSet(expired)
    <3>1. ask[s] = "pending" /\ wn[s] = NoWait
      BY <1>4, <2>1, <2>4 DEF AskOK
    <3>2. OnTimeout(s) \subseteq ToSet(r)
      BY <1>3, <1>4, <2>4 DEF OnTimeout
    <3> HIDE DEF qn
    <3> QED BY <1>7, <2>1, <2>2, <3>1, <3>2 DEF AskOK
  <2> QED BY <2>3, <2>4
<1>9. AsksOK(qn, ask, wn)
  BY <1>2, <1>8 DEF AsksOK
<1>10. ExpiredOK(<<>>, wn)
  <2>1. DOMAIN <<>> = {} /\ <<>> \in Seq(Timer)
    OBVIOUS
  <2>2. ToSet(<<>>) = {}
    BY <2>1 DEF ToSet
  <2>3. \A t \in Timer : wn[t] # NoWait => wn[t].left # 0
    BY <1>2, <1>4 DEF ExpiredOK
  <2>4. \A t \in Timer : AtMostOne(<<>>, {t})
    BY <2>1 DEF AtMostOne
  <2> QED BY <2>1, <2>2, <2>3, <2>4 DEF ExpiredOK
<1>11. RestOK'
  BY <1>1 DEF NodeInv, RestOK
<1> QED BY <1>1, <1>3, <1>5, <1>6, <1>9, <1>10, <1>11, InvNext DEF NodeInv, n, rb, wn

-----------------------------------------------------------------------------
(* The invariant *)

LEMMA InvStep == NodeInv /\ [NodeNext]_allVars => NodeInv'
<1> SUFFICES ASSUME NodeInv, [NodeNext]_allVars PROVE NodeInv'
  OBVIOUS
<1>1. CASE \E p \in Peer : running /\ Arrives(p) /\ UNCHANGED nodeVars
  BY <1>1, ArrivesStep
<1>2. CASE Socket
  BY <1>2, ReceiveCompletesStep DEF Socket
<1>3. CASE ReceiveFails /\ UNCHANGED nodeVars
  BY <1>3, ReceiveFailsStep
<1>4. CASE Elapse
  BY <1>4, ElapseStep
<1>5. CASE TimersReady
  BY <1>5, TimersReadyStep
<1>6. CASE Handler
  <2>1. CASE call_income_message_handler /\ UNCHANGED nodeVars
    BY <2>1, IncomeMessageStep
  <2>2. CASE receive_error /\ UNCHANGED nodeVars
    BY <2>2, ReceiveErrorStep
  <2>3. CASE on_receive_packet
    BY <2>3, ReceivePacketStep, ThrowsStep DEF on_receive_packet
  <2>4. CASE on_timeout
    BY <2>4, OnTimeoutStep
  <2>5. CASE result
    BY <2>5, ResultStep
  <2>6. CASE tick
    BY <2>6, TickStep
  <2>7. CASE refresh_tick \/ maintainer_tick \/ get_remote_nodes
    BY <2>7, ChainsStep
  <2>8. CASE command_stop \/ command_other
    BY <2>8, CommandStep
  <2>9. CASE command_throws
    BY <2>9, ThrowsStep DEF command_throws
  <2> QED BY <1>6, <2>1, <2>2, <2>3, <2>4, <2>5, <2>6, <2>7, <2>8, <2>9 DEF Handler
<1>7. CASE \E i \in Start : start(i) \/ Daemon(i)
  <2>1. PICK i \in Start : start(i) \/ Daemon(i)
    BY <1>7
  <2> QED
    BY <2>1, StartStep, StartDhtStep, StartBindingStep, StartRefreshStep, StartTickStep, RunStep
    DEF Daemon
<1>8. CASE stop_udp_server
  BY <1>8, StopUdpStep
<1>9. CASE stop_io_context
  BY <1>9, StopIoContextStep
<1>10. CASE \E c \in Command : listen_stdin(c)
  BY <1>10, ListenStep
<1>11. CASE UNCHANGED allVars
  <2>1. UNCHANGED <<from, sock, receiving, recv_buff, src_ep, queue, handled, errors, thrown, running,
                    daemon, stopping, stopped, typed, requires, wait, expired, since, stalls,
                    ask, older, overtaken, glob_self_ep>>
    BY <1>11 DEF allVars, vars, nodeVars, life, timers, clock, asking, endpoint
  <2>2. RestOK'
    BY <2>1 DEF NodeInv, RestOK
  <2> QED BY <2>1, <2>2, InvNext DEF NodeInv
<1> QED
  BY <1>1, <1>2, <1>3, <1>4, <1>5, <1>6, <1>7, <1>8, <1>9, <1>10, <1>11 DEF NodeNext

LEMMA NodeInvariant == NodeSpec => []NodeInv
<1>1. NodeInit => NodeInv
  BY InvInit
<1>2. NodeInv /\ [NodeNext]_allVars => NodeInv'
  BY InvStep
<1> QED BY <1>1, <1>2, PTL DEF NodeSpec

\* Every variable has its type; the handlers in the queue of the io_context and
\* the waits of the timers are of those there are, a datagram bound to one has
\* arrived, and a binding request under way has its timer or its handler.
THEOREM NodeTypeCorrect == NodeSpec => []NodeTypeOK
<1>1. NodeInv => NodeTypeOK
  <2> SUFFICES ASSUME NodeInv PROVE NodeTypeOK
    OBVIOUS
  <2>1. /\ DataOK(from, sock, recv_buff, src_ep, handled, errors)
        /\ QueueOK(queue, Len(from), recv_buff)
        /\ WaitOK(wait) /\ ExpiredOK(expired, wait) /\ AsksOK(queue, ask, wait) /\ RestOK
    BY ParametersOf
  <2>2. Len(from) \in Nat /\ DOMAIN from = 1 .. Len(from)
    BY FromLength, <2>1
  <2>3. ReadyHandler = Handlers(Len(from))
    BY <2>2 DEF ReadyHandler, Handlers
  <2>4. queue \in Seq(ReadyHandler)
    BY <2>1, <2>3 DEF QueueOK
  <2>5. TypeOK
    <3>1. 0 .. Len(from) = {0} \cup 1 .. Len(from)
      BY <2>2
    <3> QED BY <2>1, <2>2, <3>1 DEF TypeOK, DataOK, RestOK
  <2>6. \A s \in Ask : ask[s] = "pending" =>
            wait[s] # NoWait \/ [h |-> "on_timeout", of |-> s] \in ToSet(queue)
    BY <2>1 DEF AsksOK, AskOK, OnTimeout
  <2>7. ask \in [Ask -> {"free", "pending", "posted"}]
    BY <2>1 DEF AsksOK, AskState
  <2>8. \A t \in ToSet(expired) : wait[t] # NoWait /\ wait[t].left = 0
    BY <2>1, Entries DEF ExpiredOK
  <2> QED BY <2>1, <2>4, <2>5, <2>6, <2>7, <2>8 DEF NodeTypeOK, WaitOK, ExpiredOK, RestOK
<1> QED BY <1>1, NodeInvariant, PTL

-----------------------------------------------------------------------------
(* What is stopped *)

LEMMA PrefixOfConcat ==
    ASSUME NEW S, NEW q \in Seq(S), NEW r \in Seq(S)
    PROVE  IsPrefix(q, q \o r)
<1> DEFINE qr == q \o r
<1>1. /\ qr \in Seq(S) /\ Len(qr) = Len(q) + Len(r)
      /\ \A i \in 1 .. Len(q) + Len(r) : qr[i] = IF i <= Len(q) THEN q[i] ELSE r[i - Len(q)]
  BY ConcatProperties
<1>2. Len(q) \in Nat /\ Len(r) \in Nat
  BY LenProperties
<1> HIDE DEF qr
<1>3. Len(q) <= Len(qr) /\ \A i \in 1 .. Len(q) : q[i] = qr[i]
  BY <1>1, <1>2
<1>4. IsPrefix(q, qr)
  BY <1>1, <1>3 DEF IsPrefix
<1> QED BY <1>4 DEF qr

LEMMA PrefixOfSelf ==
    ASSUME NEW S, NEW q \in Seq(S)
    PROVE  IsPrefix(q, q)
<1>1. Len(q) \in Nat
  BY LenProperties
<1> QED BY <1>1 DEF IsPrefix

\* Arming a timer, or typing a line, only puts handlers at the back.
LEMMA ArmPosts ==
    ASSUME NodeInv, NEW t \in Chained, Cancel(t, queue)
    PROVE  IsPrefix(queue, queue')
<1> DEFINE H == Handlers(Len(from))
           d == TimerHandler(t)
<1>1. queue \in Seq(H) /\ WaitOK(wait) /\ t \in Timer
  BY ParametersOf, Tasks DEF QueueOK, Chained
<1>2. CASE wait[t] = NoWait
  <2>1. queue' = queue \o <<>>
    BY <1>2 DEF Cancel
  <2>2. queue' = queue
    BY <1>1, <2>1, ConcatEmptySeq
  <2> QED BY <1>1, <2>2, PrefixOfSelf
<1>3. CASE wait[t] # NoWait
  <2>1. d \in H
    BY <1>1, <1>3, HandlerTypes DEF WaitOK, TimerHandler
  <2>2. queue' = queue \o <<d>>
    BY <1>3 DEF Cancel
  <2> HIDE DEF d, H
  <2>3. <<d>> \in Seq(H)
    BY <2>1
  <2> QED BY <1>1, <2>2, <2>3, PrefixOfConcat
<1> QED BY <1>2, <1>3

\* On a stopped io_context no handler runs, and no later start makes one run:
\* its io_context::run returns at once, as nothing restarts the context.
THEOREM StopIsFinalTheorem == NodeSpec => StopIsFinal
<1>1. ASSUME NodeInv, [NodeNext]_allVars, stopped
      PROVE  IsPrefix(queue, queue') /\ ~running'
  <2>1. /\ ~running /\ queue \in Seq(Handlers(Len(from)))
        /\ IsPrefix(queue, queue)
    BY <1>1, ParametersOf, PrefixOfSelf DEF RestOK, QueueOK
  <2>2. CASE UNCHANGED <<queue, running>>
    BY <2>1, <2>2
  <2>3. ASSUME NEW i \in Start, start(i) \/ Daemon(i)
        PROVE  IsPrefix(queue, queue') /\ ~running'
    <3>1. CASE start(i) \/ start_binding_request(i)
      BY <3>1, <2>2 DEF start, start_binding_request
    <3>2. CASE run(i)
      <4>1. queue' = queue /\ running' = ~stopped
        BY <3>2 DEF run
      <4> QED BY <4>1, <1>1, <2>1
    <3>3. CASE start_dht_manager(i) \/ start_refresh(i) \/ start_tick(i)
      <4>1. running' = running /\ \E t \in Chained : Cancel(t, queue)
        BY <3>3 DEF start_dht_manager, start_refresh, start_tick, Arm, Chained
      <4> QED BY <4>1, <1>1, <2>1, ArmPosts
    <3> QED BY <2>3, <3>1, <3>2, <3>3 DEF Daemon
  <2>4. ASSUME NEW c \in Command, listen_stdin(c)
        PROVE  IsPrefix(queue, queue') /\ ~running'
    <3> DEFINE H == Handlers(Len(from))
               e == [h |-> "command", word |-> c]
    <3>1. e \in H
      BY HandlerTypes
    <3>2. queue' = Append(queue, e) /\ running' = running
      BY <2>4 DEF listen_stdin, udpRest
    <3> HIDE DEF H, e
    <3>3. Append(queue, e) = queue \o <<e>> /\ <<e>> \in Seq(H)
      BY <2>1, <3>1, PostIsConcat DEF H
    <3>4. IsPrefix(queue, queue \o <<e>>)
      BY <2>1, <3>3, PrefixOfConcat DEF H
    <3> QED BY <2>1, <3>2, <3>3, <3>4
  <2>5. CASE stop_io_context
    BY <2>1, <2>5 DEF stop_io_context, io_context_stop
  <2>6. ~stop_udp_server
    BY <1>1 DEF stop_udp_server
  <2>7. ~Handler
    BY <2>1 DEF Handler, call_income_message_handler, receive_error, on_receive_packet,
        income_message, recv_handler, recv_handler_throws, on_timeout, result, tick,
        refresh_tick, maintainer_tick, get_remote_nodes, Chain, command_stop, command_other,
        command_throws, Running
  <2>8. ~Socket /\ ~ReceiveFails /\ ~Elapse /\ ~TimersReady
    BY <2>1 DEF Socket, ReceiveCompletes, ReceiveFails, Elapse, TimersReady
  <2>9. CASE UNCHANGED allVars
    <3>1. UNCHANGED <<queue, running>>
      BY <2>9 DEF allVars, vars
    <3> QED BY <2>2, <3>1
  <2> QED
    BY <1>1, <2>1, <2>3, <2>4, <2>5, <2>6, <2>7, <2>8, <2>9 DEF NodeNext
<1> QED BY <1>1, NodeInvariant, PTL DEF NodeSpec, StopIsFinal

-----------------------------------------------------------------------------
(* A node that is not started again before it was stopped *)

\* As long as it is not stopped, only the first start was called.
OneStart == \A i \in Start : i > 1 => daemon[i] = "none"

\* The handlers of a receive, and of a datagram that was received.
Receives == {Received, Error}
RecvHandler(m) == [h |-> "recv_handler", raw_msg |-> m]
OfDatagrams == Receives \cup {RecvHandler(m) : m \in Nat}

\* One receive at most is outstanding or has its handler ready, and none before
\* the start.  The queued datagrams are those that were received and not handled,
\* in the order they came in; the last received has its handler posted when that
\* of the receive has run.
DatagramsOK(q, rcv, rb, lo) ==
    /\ rcv \in {0, 1} /\ AtMostOne(q, Receives)
    /\ rcv = 1 => ToSet(q) \cap Receives = {}
    /\ \A m \in Nat : AtMostOne(q, {RecvHandler(m)})
    /\ \A m, k \in Nat : m < k => Before(q, {RecvHandler(m)}, {RecvHandler(k)})
    /\ LET hi == IF Received \in ToSet(q) THEN rb - 1 ELSE rb
       IN  lo <= hi /\ \A m \in Nat : RecvHandler(m) \in ToSet(q) <=> lo < m /\ m <= hi

BufferOK(f, sk, rb) ==
    /\ rb + Len(sk) = Len(f)
    /\ \A i \in 1 .. Len(sk) : sk[i] = rb + i

NotStarted == \A i \in Start : daemon[i] = "none"

ReceivesOK ==
    /\ DatagramsOK(queue, receiving, recv_buff, Len(handled))
    /\ BufferOK(from, sock, recv_buff)
    /\ NotStarted => receiving = 0 /\ ToSet(queue) \cap Receives = {}

HandledOK(f, hd) == /\ Len(hd) <= Len(f)
                    /\ \A i \in 1 .. Len(hd) : hd[i].msg = i

\* The handler of the controller's timer, and whether the first wait for it was
\* set.
TickHandler == [h |-> "tick", of |-> "tick"]
Ticks == \E i \in Start : daemon[i] \in {"run", "in run"}
BeforeBind == \A i \in Start : daemon[i] \in {"none", "dht", "bind"}

\* There is one wait w or one handler of it, as long after the last tick as it
\* was set for.
TickOK(q, w, time, ticks) ==
    /\ AtMostOne(q, {TickHandler})
    /\ TickHandler \in ToSet(q) => w = NoWait /\ time = TickTime
    /\ w # NoWait => w.left + time >= TickTime
    /\ ~ticks => w = NoWait /\ TickHandler \notin ToSet(q)

\* The timer of a request expires before the controller's.
Sooner(s, w, e) ==
    /\ w["tick"] # NoWait
    /\ w[s].left < w["tick"].left \/ (w[s].left = 0 /\ w["tick"].left = 0)
    /\ Before(e, {s}, {"tick"})

TimersOK(w, e, ticks) ==
    \A s \in Ask : w[s] # NoWait => w[s].left <= BindTimeout /\ (ticks => Sooner(s, w, e))

\* Requests are decided, and their results handed over, in the order they were
\* made: the timer of one runs out before the next tick, so that when a request
\* is made those before it have their results posted.
OfRequests == {TickHandler} \cup UNION {OnTimeout(s) \cup Results(s) : s \in Ask}

OrderOK(q, a, o) ==
    /\ \A s \in Ask :
          /\ a[s] = "pending" => Before(q, OnTimeout(s), {TickHandler})
          /\ a[s] = "posted" => ToSet(q) \cap Results(s) # {}
    /\ \A x \in Ask : \A s \in o[x] :
          s \in Ask /\ a[s] = "posted" /\ Before(q, Results(s), Results(x))

RequestsOK ==
    /\ TimersOK(wait, expired, Ticks) /\ OrderOK(queue, ask, older)
    /\ BeforeBind => \A s \in Ask : ask[s] = "free"
    /\ overtaken = {}

Alive == /\ OneStart /\ ReceivesOK
         /\ TickOK(queue, wait["tick"], since, Ticks) /\ RequestsOK

OneInv ==
    /\ HandledOK(from, handled) /\ glob_self_ep # "outdated"
    /\ ~stopped => Alive

-----------------------------------------------------------------------------
(* The handlers of datagrams *)

LEMMA DatagramKinds ==
    /\ \A e \in OfDatagrams : e.h \in {"received", "error", "recv_handler"}
    /\ \A e \in OfRequests : e.h \in {"tick", "on_timeout", "result"}
    /\ \A m \in Nat : RecvHandler(m) \notin Receives
    /\ \A m, k \in Nat : RecvHandler(m) = RecvHandler(k) => m = k
    /\ Received # Error
<1>1. \A m \in Nat : RecvHandler(m).h = "recv_handler" /\ RecvHandler(m).raw_msg = m
  BY DEF RecvHandler
<1>2. Received.h = "received" /\ Error.h = "error"
  BY DEF Received, Error
<1>3. \A e \in OfRequests : e.h \in {"tick", "on_timeout", "result"}
  BY DEF OfRequests, OnTimeout, Results, Result, TickHandler
<1> QED BY <1>1, <1>2, <1>3 DEF OfDatagrams, Receives

LEMMA DatagramsKept ==
    ASSUME NEW q, NEW qn, NEW rcv, NEW rb, NEW lo,
           DatagramsOK(q, rcv, rb, lo), Keeps(q, qn, OfDatagrams)
    PROVE  DatagramsOK(qn, rcv, rb, lo)
<1>1. Receives \in SUBSET OfDatagrams /\ \A m \in Nat : {RecvHandler(m)} \in SUBSET OfDatagrams
  BY DEF OfDatagrams
<1>2. /\ AtMostOne(qn, Receives) /\ ToSet(qn) \cap Receives = ToSet(q) \cap Receives
      /\ \A m \in Nat : AtMostOne(qn, {RecvHandler(m)})
      /\ \A m, k \in Nat : m < k => Before(qn, {RecvHandler(m)}, {RecvHandler(k)})
  BY <1>1 DEF Keeps, DatagramsOK
<1>3. /\ Received \in ToSet(qn) <=> Received \in ToSet(q)
      /\ \A m \in Nat : RecvHandler(m) \in ToSet(qn) <=> RecvHandler(m) \in ToSet(q)
  BY <1>1 DEF Keeps, Receives
<1> QED BY <1>2, <1>3 DEF DatagramsOK

\* A handler e of a receive is posted.
LEMMA ReceivePosted ==
    ASSUME NEW S, NEW q \in Seq(S), NEW e \in S, NEW rb, NEW lo, e \in Receives,
           DatagramsOK(q, 1, rb, lo)
    PROVE  LET qn == q \o <<e>>
           IN  /\ AtMostOne(qn, Receives) /\ ToSet(qn) = ToSet(q) \cup {e}
               /\ \A m \in Nat : AtMostOne(qn, {RecvHandler(m)})
               /\ \A m, k \in Nat : m < k => Before(qn, {RecvHandler(m)}, {RecvHandler(k)})
               /\ \A m \in Nat : RecvHandler(m) \in ToSet(qn) <=> RecvHandler(m) \in ToSet(q)
<1> DEFINE r == <<e>>
           qn == q \o r
           U == {RecvHandler(m) : m \in Nat}
<1>1. r \in Seq(S) /\ ToSet(r) = {e} /\ AtMostOne(r, Receives)
  BY EntriesOfTuples, OneOfTuples
<1>2. ToSet(r) \cap U = {}
  BY <1>1, DatagramKinds
<1> HIDE DEF r
<1>3. Keeps(q, qn, U)
  <2> HIDE DEF U
  <2> QED BY <1>1, <1>2, PostKeeps
<1>4. AtMostOne(qn, Receives)
  BY <1>1, PostOne DEF DatagramsOK
<1>5. ToSet(qn) = ToSet(q) \cup {e}
  BY <1>1, PostManyEntries
<1>6. \A m \in Nat : {RecvHandler(m)} \in SUBSET U
  OBVIOUS
<1> HIDE DEF U
<1>7. /\ \A m \in Nat : AtMostOne(qn, {RecvHandler(m)})
      /\ \A m, k \in Nat : m < k => Before(qn, {RecvHandler(m)}, {RecvHandler(k)})
      /\ \A m \in Nat : RecvHandler(m) \in ToSet(qn) <=> RecvHandler(m) \in ToSet(q)
  BY <1>3, <1>6 DEF Keeps, DatagramsOK
<1> QED BY <1>4, <1>5, <1>7 DEF r

LEMMA ReceivedPosted ==
    ASSUME NEW S, NEW q \in Seq(S), Received \in S, NEW rb \in Nat, NEW lo \in Nat,
           DatagramsOK(q, 1, rb, lo)
    PROVE  DatagramsOK(q \o <<Received>>, 0, rb + 1, lo)
<1> DEFINE qn == q \o <<Received>>
<1>1. Received \in Receives
  BY DEF Receives
<1>2. /\ AtMostOne(qn, Receives) /\ ToSet(qn) = ToSet(q) \cup {Received}
      /\ \A m \in Nat : AtMostOne(qn, {RecvHandler(m)})
      /\ \A m, k \in Nat : m < k => Before(qn, {RecvHandler(m)}, {RecvHandler(k)})
      /\ \A m \in Nat : RecvHandler(m) \in ToSet(qn) <=> RecvHandler(m) \in ToSet(q)
  BY <1>1, ReceivePosted
<1> HIDE DEF qn
<1>3. Received \notin ToSet(q)
  BY <1>1 DEF DatagramsOK
<1>4. lo <= rb /\ \A m \in Nat : RecvHandler(m) \in ToSet(q) <=> lo < m /\ m <= rb
  BY <1>3 DEF DatagramsOK
<1>5. Received \in ToSet(qn) /\ (rb + 1) - 1 = rb
  BY <1>2
<1>6. DatagramsOK(qn, 0, rb + 1, lo)
  BY <1>2, <1>4, <1>5 DEF DatagramsOK
<1> QED BY <1>6 DEF qn

LEMMA ErrorPosted ==
    ASSUME NEW S, NEW q \in Seq(S), Error \in S, NEW rb, NEW lo,
           DatagramsOK(q, 1, rb, lo)
    PROVE  DatagramsOK(q \o <<Error>>, 0, rb, lo)
<1> DEFINE qn == q \o <<Error>>
<1>1. Error \in Receives /\ Received \in Receives /\ Received # Error
  BY DatagramKinds DEF Receives
<1>2. /\ AtMostOne(qn, Receives) /\ ToSet(qn) = ToSet(q) \cup {Error}
      /\ \A m \in Nat : AtMostOne(qn, {RecvHandler(m)})
      /\ \A m, k \in Nat : m < k => Before(qn, {RecvHandler(m)}, {RecvHandler(k)})
      /\ \A m \in Nat : RecvHandler(m) \in ToSet(qn) <=> RecvHandler(m) \in ToSet(q)
  BY <1>1, ReceivePosted
<1> HIDE DEF qn
<1>3. Received \notin ToSet(q) /\ Received \notin ToSet(qn)
  BY <1>1, <1>2 DEF DatagramsOK
<1>4. DatagramsOK(qn, 0, rb, lo)
  BY <1>2, <1>3 DEF DatagramsOK
<1> QED BY <1>4 DEF qn

\* The handler of a receive runs, and receives again.
LEMMA ReceiveTaken ==
    ASSUME NEW S, NEW q \in Seq(S), q # <<>>, NEW rcv, NEW rb, NEW lo,
           DatagramsOK(q, rcv, rb, lo), Head(q) \in Receives
    PROVE  /\ rcv = 0 /\ ToSet(Tail(q)) \cap Receives = {}
           /\ Keeps(q, Tail(q), {RecvHandler(m) : m \in Nat})
<1>1. ToSet(Tail(q)) \cap Receives = {} /\ Head(q) \in ToSet(q)
  BY TakeOne, TakeEntries DEF DatagramsOK
<1>2. rcv = 0
  BY <1>1 DEF DatagramsOK
<1> DEFINE U == {RecvHandler(m) : m \in Nat}
<1>3. Head(q) \notin U
  BY DatagramKinds
<1> HIDE DEF U
<1>4. Keeps(q, Tail(q), U)
  BY <1>3, TakeKeeps
<1> QED BY <1>1, <1>2, <1>4 DEF U

LEMMA ErrorTaken ==
    ASSUME NEW S, NEW q \in Seq(S), q # <<>>, NEW rcv, NEW rb, NEW lo,
           DatagramsOK(q, rcv, rb, lo), Head(q) = Error
    PROVE  DatagramsOK(Tail(q), rcv + 1, rb, lo)
<1> DEFINE U == {RecvHandler(m) : m \in Nat}
           t == Tail(q)
<1>1. rcv = 0 /\ ToSet(t) \cap Receives = {} /\ Keeps(q, t, U)
  BY ReceiveTaken DEF Receives
<1>2. t \in Seq(S) /\ ToSet(q) = {Error} \cup ToSet(t)
  BY TakeEntries
<1>3. \A m \in Nat : {RecvHandler(m)} \in SUBSET U
  OBVIOUS
<1> HIDE DEF U, t
<1>4. /\ \A m \in Nat : AtMostOne(t, {RecvHandler(m)})
      /\ \A m, k \in Nat : m < k => Before(t, {RecvHandler(m)}, {RecvHandler(k)})
      /\ \A m \in Nat : RecvHandler(m) \in ToSet(t) <=> RecvHandler(m) \in ToSet(q)
  BY <1>1, <1>3 DEF Keeps, DatagramsOK
<1>5. AtMostOne(t, Receives)
  BY <1>1, <1>2, Entries DEF AtMostOne
<1>6. Received \notin ToSet(t) /\ Received \notin ToSet(q)
  BY <1>1, <1>2, DatagramKinds DEF Receives
<1>7. DatagramsOK(t, rcv + 1, rb, lo)
  BY <1>1, <1>4, <1>5, <1>6 DEF DatagramsOK
<1> QED BY <1>7 DEF t

\* The last datagram received gets its handler.
LEMMA ReceivedTaken ==
    ASSUME NEW S, NEW q \in Seq(S), q # <<>>, NEW rcv, NEW rb \in Nat, NEW lo \in Nat,
           DatagramsOK(q, rcv, rb, lo), Head(q) = Received, RecvHandler(rb) \in S
    PROVE  DatagramsOK(Tail(q) \o <<RecvHandler(rb)>>, rcv + 1, rb, lo)
<1> DEFINE U == {RecvHandler(m) : m \in Nat}
           t == Tail(q)
           e == RecvHandler(rb)
           r == <<e>>
           qn == t \o r
<1>1. rcv = 0 /\ ToSet(t) \cap Receives = {} /\ Keeps(q, t, U)
  BY ReceiveTaken DEF Receives
<1>2. t \in Seq(S) /\ ToSet(q) = {Received} \cup ToSet(t)
  BY TakeEntries
<1>3. \A m \in Nat : {RecvHandler(m)} \in SUBSET U
  OBVIOUS
<1> HIDE DEF U, t
<1>4. /\ \A m \in Nat : AtMostOne(t, {RecvHandler(m)})
      /\ \A m, k \in Nat : m < k => Before(t, {RecvHandler(m)}, {RecvHandler(k)})
      /\ \A m \in Nat : RecvHandler(m) \in ToSet(t) <=> RecvHandler(m) \in ToSet(q)
  BY <1>1, <1>3 DEF Keeps, DatagramsOK
<1>5. lo <= rb - 1 /\ \A m \in Nat : RecvHandler(m) \in ToSet(t) <=> lo < m /\ m <= rb - 1
  BY <1>2, <1>4 DEF DatagramsOK
<1>6. r \in Seq(S) /\ ToSet(r) = {e} /\ e \notin Receives
      /\ \A m \in Nat : RecvHandler(m) = e => m = rb
  BY EntriesOfTuples, DatagramKinds
<1>7. \A P : AtMostOne(r, P)
  BY OneOfTuples
<1> HIDE DEF r, e
<1>8. qn \in Seq(S) /\ ToSet(qn) = ToSet(t) \cup {e}
  BY <1>2, <1>6, PostManyEntries
<1>9. ToSet(qn) \cap Receives = {}
  BY <1>1, <1>6, <1>8
<1>10. \A m \in Nat : RecvHandler(m) \in ToSet(t) => m < rb
  BY <1>5
<1>11. ASSUME NEW m \in Nat PROVE AtMostOne(qn, {RecvHandler(m)})
  <2> DEFINE P == {RecvHandler(m)}
  <2>1. ToSet(t) \cap P = {} \/ ToSet(r) \cap P = {}
    BY <1>6, <1>10
  <2>2. AtMostOne(t, P) /\ AtMostOne(r, P)
    BY <1>4, <1>7
  <2> HIDE DEF P
  <2>3. AtMostOne(qn, P)
    BY <1>2, <1>6, <2>1, <2>2, PostOne
  <2> QED BY <2>3 DEF P
<1>12. ASSUME NEW m \in Nat, NEW k \in Nat, m < k
       PROVE  Before(qn, {RecvHandler(m)}, {RecvHandler(k)})
  <2> DEFINE P == {RecvHandler(m)}
             R == {RecvHandler(k)}
  <2>1. CASE m = rb
    <3>1. ToSet(qn) \cap R = {}
      BY <1>5, <1>6, <1>8, <1>12, <2>1
    <3> HIDE DEF P, R
    <3>2. Before(qn, P, R)
      BY <1>8, <3>1, NoneBefore
    <3> QED BY <3>2 DEF P, R
  <2>2. CASE m # rb
    <3>1. ToSet(r) \cap P = {} /\ Before(t, P, R)
      BY <1>4, <1>6, <1>12, <2>2
    <3> HIDE DEF P, R
    <3>2. Before(qn, P, R)
      BY <1>2, <1>6, <3>1, PostBefore
    <3> QED BY <3>2 DEF P, R
  <2> QED BY <2>1, <2>2
<1>13. \A m \in Nat : RecvHandler(m) \in ToSet(qn) <=> lo < m /\ m <= rb
  <2>1. \A m \in Nat : RecvHandler(m) \in ToSet(qn) <=> RecvHandler(m) \in ToSet(t) \/ m = rb
    BY <1>6, <1>8 DEF e
  <2> QED BY <1>5, <2>1
<1>14. Received \notin ToSet(qn) /\ lo <= rb
  BY <1>5, <1>9 DEF Receives
<1>15. AtMostOne(qn, Receives)
  <2> HIDE DEF qn
  <2> QED BY <1>8, <1>9, Entries DEF AtMostOne
<1> HIDE DEF qn
<1>16. DatagramsOK(qn, rcv + 1, rb, lo)
  BY <1>1, <1>9, <1>11, <1>12, <1>13, <1>14, <1>15 DEF DatagramsOK
<1> QED BY <1>16 DEF qn, r, e, t

\* The datagram handled is the one after the last.
LEMMA DatagramTaken ==
    ASSUME NEW S, NEW q \in Seq(S), q # <<>>, NEW rcv, NEW rb \in Nat, NEW lo \in Nat,
           DatagramsOK(q, rcv, rb, lo), NEW m \in Nat, Head(q) = RecvHandler(m)
    PROVE  m = lo + 1 /\ lo + 1 <= rb /\ DatagramsOK(Tail(q), rcv, rb, lo + 1)
<1> DEFINE t == Tail(q)
           hi == IF Received \in ToSet(q) THEN rb - 1 ELSE rb
<1>1. t \in Seq(S) /\ ToSet(q) = {RecvHandler(m)} \cup ToSet(t)
  BY TakeEntries
<1>2. \A k \in Nat : RecvHandler(k) \in ToSet(q) <=> lo < k /\ k <= hi
  BY DEF DatagramsOK
<1>3. hi \in Int /\ hi <= rb
  OBVIOUS
<1> HIDE DEF hi
<1>4. lo < m /\ m <= hi
  BY <1>1, <1>2
<1>5. RecvHandler(lo + 1) \in ToSet(q)
  BY <1>2, <1>3, <1>4
<1>6. ASSUME m # lo + 1 PROVE FALSE
  <2> DEFINE P == {RecvHandler(lo + 1)}
             R == {RecvHandler(m)}
  <2>1. Before(q, P, R)
    BY <1>3, <1>4, <1>6 DEF DatagramsOK
  <2>2. Head(q) \in R
    OBVIOUS
  <2> HIDE DEF P, R
  <2>3. ToSet(t) \cap P = {}
    BY <2>1, <2>2, TakeBefore
  <2> QED BY <1>1, <1>5, <1>6, <2>3, DatagramKinds DEF P
<1>7. RecvHandler(m) \notin ToSet(t)
  <2> DEFINE P == {RecvHandler(m)}
  <2>1. AtMostOne(q, P) /\ Head(q) \in P
    BY DEF DatagramsOK
  <2> HIDE DEF P
  <2>2. ToSet(t) \cap P = {}
    BY <2>1, TakeOne
  <2> QED BY <2>2 DEF P
<1>8. \A k \in Nat : RecvHandler(k) \in ToSet(t) <=> lo + 1 < k /\ k <= hi
  <2>1. \A k \in Nat : RecvHandler(k) \in ToSet(t) <=> RecvHandler(k) \in ToSet(q) /\ k # m
    BY <1>1, <1>7, DatagramKinds
  <2> QED BY <1>2, <1>3, <1>4, <1>6, <2>1
<1>9. /\ ToSet(t) \cap Receives = ToSet(q) \cap Receives
      /\ Received \in ToSet(t) <=> Received \in ToSet(q)
  BY <1>1, DatagramKinds DEF Receives
<1>10. /\ AtMostOne(t, Receives) /\ \A k \in Nat : AtMostOne(t, {RecvHandler(k)})
       /\ \A j, k \in Nat : j < k => Before(t, {RecvHandler(j)}, {RecvHandler(k)})
  BY TakeOne, TakeBefore DEF DatagramsOK
<1> HIDE DEF t
<1>11. DatagramsOK(t, rcv, rb, lo + 1)
  BY <1>3, <1>4, <1>6, <1>8, <1>9, <1>10 DEF DatagramsOK, hi
<1> QED BY <1>3, <1>4, <1>6, <1>11 DEF t

-----------------------------------------------------------------------------
(* Steps that are nothing to datagrams, ticks and requests *)

Plain == {"refresh_tick", "maintainer_tick", "get_remote_nodes", "command"}
OfBoth == OfDatagrams \cup OfRequests

LEMMA PlainNames ==
    ASSUME NEW e, e.h \in Plain
    PROVE  e \notin OfBoth /\ e \notin OfDatagrams /\ e \notin OfRequests
  BY DatagramKinds DEF Plain, OfBoth

LEMMA PlainRun ==
    ASSUME NEW S, NEW q \in Seq(S), q # <<>>, Head(q).h \in Plain,
           NEW r \in Seq(S), \A e \in ToSet(r) : e.h \in Plain
    PROVE  Keeps(q, Tail(q) \o r, OfBoth)
<1>1. Head(q) \notin OfBoth /\ ToSet(r) \cap OfBoth = {}
  BY PlainNames
<1> QED BY <1>1, RunKeeps

\* What a chain's timer leaves behind when it is armed anew.
LEMMA CancelPosts ==
    ASSUME NEW q, NEW t \in Chained, Cancel(t, q), WaitOK(wait), NEW n
    PROVE  \E r \in Seq(Handlers(n)) :
              /\ queue' = q \o r /\ \A e \in ToSet(r) : e.h \in Task(t)
              /\ wait[t] = NoWait => r = <<>>
<1>1. t \in Timer
  BY Tasks DEF Chained
<1>2. CASE wait[t] = NoWait
  <2>1. DOMAIN <<>> = {} /\ <<>> \in Seq(Handlers(n))
    OBVIOUS
  <2>2. ToSet(<<>>) = {}
    BY <2>1 DEF ToSet
  <2> QED BY <1>2, <2>1, <2>2 DEF Cancel
<1>3. CASE wait[t] # NoWait
  <2> DEFINE d == TimerHandler(t)
             r == <<d>>
  <2>1. d \in Handlers(n) /\ d.h \in Task(t)
    BY <1>1, <1>3, HandlerTypes DEF WaitOK, TimerHandler
  <2> HIDE DEF d
  <2>2. r \in Seq(Handlers(n)) /\ ToSet(r) = {d}
    BY <2>1, EntriesOfTuples
  <2>3. queue' = q \o r
    BY <1>3 DEF Cancel, d
  <2> HIDE DEF r
  <2> QED BY <1>3, <2>1, <2>2, <2>3
<1> QED BY <1>2, <1>3

\* The refresh and the maintainer's timers are armed.
LEMMA PlainArm ==
    ASSUME NEW n, NEW q \in Seq(Handlers(n)), WaitOK(wait), ExpiredOK(expired, wait),
           NEW t \in {"refresh", "maintainer"}, NEW h, NEW units, Arm(t, h, units, q)
    PROVE  /\ \E r \in Seq(Handlers(n)) : queue' = q \o r /\ \A e \in ToSet(r) : e.h \in Plain
           /\ Keeps(q, queue', OfBoth)
           /\ wait'["tick"] = wait["tick"] /\ \A s \in Ask : wait'[s] = wait[s]
           /\ \A P, R : Before(expired, P, R) => Before(expired', P, R)
<1>1. t \in Chained /\ t \in Timer /\ t # "tick" /\ t \notin Ask /\ Task(t) \subseteq Plain
  BY Tasks DEF Chained, Plain
<1>2. wait' = expires_from_now(wait, t, h, units) /\ Cancel(t, q)
  BY DEF Arm
<1>3. PICK r \in Seq(Handlers(n)) : queue' = q \o r /\ \A e \in ToSet(r) : e.h \in Task(t)
  BY <1>1, <1>2, CancelPosts
<1>4. \A e \in ToSet(r) : e.h \in Plain
  BY <1>1, <1>3
<1>5. ToSet(r) \cap OfBoth = {}
  BY <1>4, PlainNames
<1>6. Keeps(q, q \o r, OfBoth)
  BY <1>5, PostKeeps
<1>7. \A x \in Timer : x # t => wait'[x] = wait[x]
  BY <1>2 DEF expires_from_now, WaitOK
<1>8. \A P, R : Before(expired, P, R) => Before(expired', P, R)
  BY <1>2, WithoutProperties DEF Cancel, ExpiredOK
<1>9. "tick" \in Timer /\ Ask \subseteq Timer
  BY DEF Timer
<1> QED BY <1>1, <1>3, <1>4, <1>6, <1>7, <1>8, <1>9

\* What such a step leaves alone.
Unmoved ==
    /\ Keeps(queue, queue', OfBoth)
    /\ wait'["tick"] = wait["tick"] /\ \A s \in Ask : wait'[s] = wait[s]
    /\ \A P, R : Before(expired, P, R) => Before(expired', P, R)
    /\ UNCHANGED <<from, sock, recv_buff, receiving, handled, since, ask, older, overtaken,
                   glob_self_ep>>

LEMMA PlainChain ==
    ASSUME NodeInv, NEW h \in Plain, NEW t \in {"refresh", "maintainer"}, NEW next,
           NEW units, Chain(h, t, next, units)
    PROVE  Unmoved /\ UNCHANGED <<daemon, stopped, stopping>>
<1> DEFINE H == Handlers(Len(from))
           tq == Tail(queue)
<1>1. queue \in Seq(H) /\ WaitOK(wait) /\ ExpiredOK(expired, wait)
  BY ParametersOf DEF QueueOK
<1>2. queue # <<>> /\ Head(queue).h = h
      /\ UNCHANGED <<from, sock, recv_buff, receiving, handled, since, ask, older, overtaken,
                     glob_self_ep, daemon, stopped, stopping>>
  BY DEF Chain, Running, udpRest, datagrams, life, asking, endpoint, clock
<1>3. Head(queue) \notin OfBoth
  BY <1>2, PlainNames
<1>4. Keeps(queue, tq, OfBoth) /\ tq \in Seq(H)
  BY <1>1, <1>2, <1>3, TakeKeeps, TakeEntries
<1>5. CASE Arm(t, next, units, tq)
  <2> HIDE DEF tq, H
  <2>1. /\ Keeps(tq, queue', OfBoth)
        /\ wait'["tick"] = wait["tick"] /\ \A s \in Ask : wait'[s] = wait[s]
        /\ \A P, R : Before(expired, P, R) => Before(expired', P, R)
    BY <1>1, <1>4, <1>5, PlainArm DEF H
  <2>2. Keeps(queue, queue', OfBoth)
    BY <1>4, <2>1, KeepsTwice
  <2> QED BY <1>2, <2>1, <2>2 DEF Unmoved
<1>6. CASE queue' = tq /\ UNCHANGED timers
  BY <1>2, <1>4, <1>6 DEF Unmoved, timers
<1> QED BY <1>5, <1>6 DEF Chain

LEMMA PlainStart ==
    ASSUME NodeInv, NEW i \in Start, start_dht_manager(i) \/ start_refresh(i)
    PROVE  Unmoved /\ UNCHANGED <<stopped, stopping>>
<1>1. queue \in Seq(Handlers(Len(from))) /\ WaitOK(wait) /\ ExpiredOK(expired, wait)
  BY ParametersOf DEF QueueOK
<1>2. \E t \in {"refresh", "maintainer"}, h \in Plain, units \in {PingWait, RefreshTime} :
          Arm(t, h, units, queue)
  BY DEF start_dht_manager, start_refresh, Plain
<1>3. /\ Keeps(queue, queue', OfBoth)
      /\ wait'["tick"] = wait["tick"] /\ \A s \in Ask : wait'[s] = wait[s]
      /\ \A P, R : Before(expired, P, R) => Before(expired', P, R)
  BY <1>1, <1>2, PlainArm
<1>4. UNCHANGED <<from, sock, recv_buff, receiving, handled, since, ask, older, overtaken,
                  glob_self_ep, stopped, stopping>>
  BY DEF start_dht_manager, start_refresh, Step, datagrams, clock, endpoint
<1> QED BY <1>3, <1>4 DEF Unmoved

LEMMA PlainCommand ==
    ASSUME NodeInv, command_other \/ \E c \in Command : listen_stdin(c)
    PROVE  Unmoved /\ UNCHANGED <<daemon, stopped, stopping>>
<1> DEFINE H == Handlers(Len(from))
<1>1. queue \in Seq(H)
  BY ParametersOf DEF QueueOK
<1>2. UNCHANGED <<from, sock, recv_buff, receiving, handled, since, ask, older, overtaken,
                  glob_self_ep, daemon, stopped, stopping, wait, expired>>
  BY DEF command_other, listen_stdin, udpRest, datagrams, nodeVars, life, timers, clock,
         asking, endpoint
<1>3. CASE command_other
  <2>1. queue # <<>> /\ Head(queue).h = "command" /\ queue' = Tail(queue)
    BY <1>3 DEF command_other, Running
  <2>2. Head(queue) \notin OfBoth
    BY <2>1, PlainNames DEF Plain
  <2>3. Keeps(queue, queue', OfBoth)
    BY <1>1, <2>1, <2>2, TakeKeeps
  <2> QED BY <1>2, <2>3 DEF Unmoved
<1>4. ASSUME NEW c \in Command, listen_stdin(c)
      PROVE  Keeps(queue, queue', OfBoth)
  <2> DEFINE e == [h |-> "command", word |-> c]
             r == <<e>>
  <2>1. queue' = Append(queue, e) /\ e \in H
    BY <1>4, HandlerTypes DEF listen_stdin
  <2>2. e \notin OfBoth
    BY PlainNames DEF Plain
  <2> HIDE DEF e, H
  <2>3. Append(queue, e) = queue \o r /\ r \in Seq(H) /\ ToSet(r) = {e}
    BY <1>1, <2>1, PostIsConcat, EntriesOfTuples
  <2>4. ToSet(r) \cap OfBoth = {}
    BY <2>2, <2>3
  <2> HIDE DEF r
  <2>5. Keeps(queue, queue \o r, OfBoth)
    BY <1>1, <2>3, <2>4, PostKeeps
  <2> QED BY <2>1, <2>3, <2>5
<1> QED BY <1>2, <1>3, <1>4 DEF Unmoved

LEMMA OrderKept ==
    ASSUME NEW q, NEW qn, NEW a, NEW o, OrderOK(q, a, o), Keeps(q, qn, OfRequests)
    PROVE  OrderOK(qn, a, o)
<1>1. \A s \in Ask : OnTimeout(s) \in SUBSET OfRequests /\ Results(s) \in SUBSET OfRequests
  BY DEF OfRequests
<1>2. {TickHandler} \in SUBSET OfRequests
  BY DEF OfRequests
<1>3. \A s \in Ask : ToSet(qn) \cap Results(s) = ToSet(q) \cap Results(s)
  BY <1>1 DEF Keeps
<1>4. \A s, x \in Ask : Before(q, Results(s), Results(x)) => Before(qn, Results(s), Results(x))
  BY <1>1 DEF Keeps
<1>5. \A s \in Ask : Before(q, OnTimeout(s), {TickHandler})
                      => Before(qn, OnTimeout(s), {TickHandler})
  BY <1>1, <1>2 DEF Keeps
<1> QED BY <1>3, <1>4, <1>5 DEF OrderOK

\* Ticks and requests are kept by a step that takes and posts none of their
\* handlers and moves none of their timers.
LEMMA RequestsKept ==
    ASSUME TickOK(queue, wait["tick"], since, Ticks), RequestsOK,
           Keeps(queue, queue', OfRequests),
           wait'["tick"] = wait["tick"], \A s \in Ask : wait'[s] = wait[s],
           \A P, R : Before(expired, P, R) => Before(expired', P, R),
           UNCHANGED <<since, ask, older, overtaken>>,
           NEW ticks \in BOOLEAN, ticks = Ticks, Ticks' = ticks, BeforeBind' => BeforeBind
    PROVE  TickOK(queue', wait'["tick"], since', Ticks') /\ RequestsOK'
<1> DEFINE qn == queue'
           wn == wait'
           en == expired'
<1> HIDE DEF qn, wn, en
<1>1. Keeps(queue, qn, OfRequests)
  BY DEF qn
<1>2. {TickHandler} \in SUBSET OfRequests
  BY DEF OfRequests
<1>3. AtMostOne(qn, {TickHandler}) /\ (TickHandler \in ToSet(qn) <=> TickHandler \in ToSet(queue))
  BY <1>1, <1>2 DEF Keeps, TickOK
<1>4. TickOK(qn, wait["tick"], since, ticks)
  BY <1>3 DEF TickOK
<1>5. TimersOK(wn, en, ticks)
  BY DEF TimersOK, Sooner, RequestsOK, wn, en
<1>6. OrderOK(qn, ask, older)
  BY <1>1, OrderKept DEF RequestsOK
<1> QED BY <1>4, <1>5, <1>6 DEF RequestsOK, qn, wn, en

\* Datagrams are, by a step that takes and posts none of their handlers.
LEMMA ReceivesKept ==
    ASSUME ReceivesOK, Keeps(queue, queue', OfDatagrams),
           UNCHANGED <<from, sock, recv_buff, receiving, handled>>, NotStarted' => NotStarted
    PROVE  ReceivesOK'
<1> DEFINE qn == queue'
<1> HIDE DEF qn
<1>1. Keeps(queue, qn, OfDatagrams)
  BY DEF qn
<1>2. DatagramsOK(qn, receiving, recv_buff, Len(handled))
  BY <1>1, DatagramsKept DEF ReceivesOK
<1>3. ToSet(qn) \cap Receives = ToSet(queue) \cap Receives
  BY <1>1 DEF Keeps, OfDatagrams
<1> QED BY <1>2, <1>3 DEF ReceivesOK, DatagramsOK, BufferOK, qn

\* A step that leaves everything alone keeps all of it.
LEMMA UnmovedKeeps ==
    ASSUME Unmoved, ReceivesOK, TickOK(queue, wait["tick"], since, Ticks), RequestsOK,
           NEW ticks \in BOOLEAN, ticks = Ticks,
           NotStarted' => NotStarted, Ticks' = ticks, BeforeBind' => BeforeBind
    PROVE  ReceivesOK' /\ TickOK(queue', wait'["tick"], since', Ticks') /\ RequestsOK'
<1> DEFINE qn == queue'
<1>1. OfDatagrams \in SUBSET OfBoth /\ OfRequests \in SUBSET OfBoth
  BY DEF OfBoth
<1>2. Keeps(queue, qn, OfDatagrams) /\ Keeps(queue, qn, OfRequests)
  BY <1>1, KeepsLess DEF Unmoved
<1> QED BY <1>2, RequestsKept, ReceivesKept DEF Unmoved

-----------------------------------------------------------------------------
(* The steps of the only start *)

LEMMA OnlyStart ==
    ASSUME NodeInv, OneStart, ~stopped, ~Overlap, NEW i \in Start, NEW here, NEW next \in Stage,
           Step(i, here, next), here = "none" => start(i)
    PROVE  /\ i = 1 /\ OneStart'
           /\ NotStarted <=> here = "none"
           /\ Ticks <=> here \in {"run", "in run"}
           /\ BeforeBind <=> here \in {"none", "dht", "bind"}
           /\ NotStarted' <=> next = "none"
           /\ Ticks' <=> next \in {"run", "in run"}
           /\ BeforeBind' <=> next \in {"none", "dht", "bind"}
<1>1. daemon \in [Start -> Stage] /\ Start \subseteq Nat /\ \A x \in Start : x >= 1
  BY NodeAssumption DEF NodeInv, RestOK, Start
<1>2. daemon[i] = here /\ daemon' = [daemon EXCEPT ![i] = next]
  BY DEF Step
<1>3. i = 1
  <2>1. here = "none" => i <= 1
    BY <1>1 DEF start
  <2> QED BY <1>1, <1>2, <2>1 DEF OneStart
<1>4. \A x \in Start : x # 1 => daemon[x] = "none" /\ daemon'[x] = "none"
  BY <1>1, <1>2, <1>3 DEF OneStart
<1>5. daemon[1] = here /\ daemon'[1] = next /\ 1 \in Start
  BY <1>1, <1>2, <1>3
<1>6. OneStart'
  BY <1>1, <1>4 DEF OneStart
<1> QED BY <1>3, <1>4, <1>5, <1>6 DEF NotStarted, Ticks, BeforeBind

\* What a step that is none of start's leaves of it.
LEMMA SameStart ==
    UNCHANGED daemon => /\ OneStart' = OneStart /\ NotStarted' = NotStarted
                        /\ Ticks' = Ticks /\ BeforeBind' = BeforeBind
  BY DEF OneStart, NotStarted, Ticks, BeforeBind

LEMMA StageFacts == /\ Ticks \in BOOLEAN /\ NotStarted \in BOOLEAN /\ BeforeBind \in BOOLEAN
                    /\ Ticks' \in BOOLEAN
  BY DEF Ticks, NotStarted, BeforeBind

LEMMA UnmovedAlive ==
    ASSUME Alive, Unmoved, OneStart', NotStarted' => NotStarted, Ticks' = Ticks,
           BeforeBind' => BeforeBind
    PROVE  Alive'
<1> DEFINE ticks == Ticks
<1>1. ticks \in BOOLEAN
  BY StageFacts
<1> HIDE DEF ticks
<1>2. Ticks' = ticks /\ ticks = Ticks
  BY DEF ticks
<1>3. ReceivesOK' /\ TickOK(queue', wait'["tick"], since', Ticks') /\ RequestsOK'
  BY <1>1, <1>2, UnmovedKeeps DEF Alive
<1> QED BY <1>3 DEF Alive

LEMMA PlainAlive ==
    ASSUME NodeInv, Alive, ~stopped, ~Overlap,
           \/ refresh_tick \/ maintainer_tick \/ get_remote_nodes \/ command_other
           \/ \E c \in Command : listen_stdin(c)
           \/ \E i \in Start : start_dht_manager(i) \/ start_refresh(i) \/ run(i)
    PROVE  Alive'
<1>1. CASE \/ refresh_tick \/ maintainer_tick \/ get_remote_nodes \/ command_other
           \/ \E c \in Command : listen_stdin(c)
  <2>1. CASE refresh_tick \/ maintainer_tick \/ get_remote_nodes
    <3>1. "refresh_tick" \in Plain /\ "maintainer_tick" \in Plain /\ "get_remote_nodes" \in Plain
      BY DEF Plain
    <3>2. ASSUME refresh_tick PROVE Unmoved /\ UNCHANGED daemon
      BY <3>1, <3>2, PlainChain DEF refresh_tick
    <3>3. ASSUME maintainer_tick PROVE Unmoved /\ UNCHANGED daemon
      BY <3>1, <3>3, PlainChain DEF maintainer_tick
    <3>4. ASSUME get_remote_nodes PROVE Unmoved /\ UNCHANGED daemon
      BY <3>1, <3>4, PlainChain DEF get_remote_nodes
    <3>5. Unmoved /\ UNCHANGED daemon
      BY <2>1, <3>2, <3>3, <3>4
    <3> QED BY <3>5, UnmovedAlive, SameStart DEF Alive
  <2>2. CASE command_other \/ \E c \in Command : listen_stdin(c)
    <3>1. Unmoved /\ UNCHANGED daemon
      BY <2>2, PlainCommand
    <3> QED BY <3>1, UnmovedAlive, SameStart DEF Alive
  <2> QED BY <1>1, <2>1, <2>2
<1>2. ASSUME NEW i \in Start, start_dht_manager(i) \/ start_refresh(i) \/ run(i)
      PROVE  Alive'
  <2>1. {"bind", "tick", "in run"} \subseteq Stage
    BY DEF Stage
  <2>2. CASE start_dht_manager(i)
    <3>1. Step(i, "dht", "bind")
      BY <2>2 DEF start_dht_manager
    <3>2. OneStart' /\ ~NotStarted' /\ Ticks' = Ticks /\ BeforeBind
      <4>1. OneStart /\ "dht" # "none" /\ "bind" \in Stage
        BY <2>1 DEF Alive
      <4>2. /\ OneStart' /\ (NotStarted' <=> "bind" = "none")
            /\ Ticks <=> "dht" \in {"run", "in run"}
            /\ BeforeBind <=> "dht" \in {"none", "dht", "bind"}
            /\ Ticks' <=> "bind" \in {"run", "in run"}
            /\ BeforeBind' <=> "bind" \in {"none", "dht", "bind"}
        BY <3>1, <4>1, OnlyStart
      <4> QED BY <4>2, StageFacts
    <3>3. Unmoved
      BY <2>2, PlainStart
    <3> QED BY <3>2, <3>3, UnmovedAlive
  <2>3. CASE start_refresh(i)
    <3>1. Step(i, "pool", "tick")
      BY <2>3 DEF start_refresh
    <3>2. OneStart' /\ ~NotStarted' /\ Ticks' = Ticks /\ ~BeforeBind'
      <4>1. OneStart /\ "pool" # "none" /\ "tick" \in Stage
        BY <2>1 DEF Alive
      <4>2. /\ OneStart' /\ (NotStarted' <=> "tick" = "none")
            /\ Ticks <=> "pool" \in {"run", "in run"}
            /\ BeforeBind <=> "pool" \in {"none", "dht", "bind"}
            /\ Ticks' <=> "tick" \in {"run", "in run"}
            /\ BeforeBind' <=> "tick" \in {"none", "dht", "bind"}
        BY <3>1, <4>1, OnlyStart
      <4> QED BY <4>2, StageFacts
    <3>3. Unmoved
      BY <2>3, PlainStart
    <3> QED BY <3>2, <3>3, UnmovedAlive
  <2>4. CASE run(i)
    <3>1. Step(i, "run", "in run")
      BY <2>4 DEF run
    <3>2. OneStart' /\ ~NotStarted' /\ Ticks' = Ticks /\ ~BeforeBind'
      <4>1. OneStart /\ "run" # "none" /\ "in run" \in Stage
        BY <2>1 DEF Alive
      <4>2. /\ OneStart' /\ (NotStarted' <=> "in run" = "none")
            /\ Ticks <=> "run" \in {"run", "in run"}
            /\ BeforeBind <=> "run" \in {"none", "dht", "bind"}
            /\ Ticks' <=> "in run" \in {"run", "in run"}
            /\ BeforeBind' <=> "in run" \in {"none", "dht", "bind"}
        BY <3>1, <4>1, OnlyStart
      <4> QED BY <4>2, StageFacts
    <3>3. UNCHANGED <<queue, wait, expired, from, sock, recv_buff, receiving, handled, since,
                      ask, older, overtaken, glob_self_ep>>
      BY <2>4 DEF run, Step, datagrams, timers, clock, endpoint
    <3>4. Unmoved
      BY <3>3, KeepsSelf DEF Unmoved
    <3> QED BY <3>2, <3>4, UnmovedAlive
  <2> QED BY <1>2, <2>2, <2>3, <2>4
<1> QED BY <1>1, <1>2

-----------------------------------------------------------------------------
(* The steps of the udp server, on a node that was started once *)

\* They leave ticks and requests alone.
LEMMA UdpAlive ==
    ASSUME Alive, ReceivesOK', Keeps(queue, queue', OfRequests), UNCHANGED nodeVars
    PROVE  Alive'
<1> DEFINE ticks == Ticks
<1>1. ticks \in BOOLEAN
  BY StageFacts
<1>2. UNCHANGED <<daemon, wait, expired, since, ask, older, overtaken>>
  BY DEF nodeVars, life, timers, clock, asking, endpoint
<1>3. OneStart' /\ Ticks' = ticks /\ ticks = Ticks /\ BeforeBind' = BeforeBind
  BY <1>2, SameStart DEF Alive
<1> HIDE DEF ticks
<1>4. TickOK(queue', wait'["tick"], since', Ticks') /\ RequestsOK'
  BY <1>1, <1>2, <1>3, RequestsKept DEF Alive
<1> QED BY <1>3, <1>4 DEF Alive

LEMMA DatagramFacts ==
    NodeInv => /\ Len(from) \in Nat /\ Len(sock) \in Nat /\ Len(handled) \in Nat
               /\ recv_buff \in Nat /\ recv_buff <= Len(from) /\ DOMAIN from = 1 .. Len(from)
               /\ sock \in Seq(1 .. Len(from)) /\ queue \in Seq(Handlers(Len(from)))
  BY FromLength, LenProperties DEF NodeInv, DataOK, QueueOK

LEMMA ArrivesAlive ==
    ASSUME NodeInv, Alive, NEW p \in Peer, Arrives(p), UNCHANGED nodeVars
    PROVE  Alive'
<1> DEFINE n == Len(from)
           f == Append(from, p)
           sk == Append(sock, n + 1)
<1>1. from \in Seq(Peer) /\ n \in Nat /\ sock \in Seq(1 .. n) /\ Len(sock) \in Nat
  BY DatagramFacts DEF NodeInv, DataOK
<1>2. from' = f /\ sock' = sk /\ UNCHANGED <<receiving, recv_buff, queue, handled>>
  BY DEF Arrives
<1>3. Len(f) = n + 1
  BY <1>1, AppendProperties
<1>4. Len(sk) = Len(sock) + 1 /\ sk[Len(sock) + 1] = n + 1
      /\ \A i \in 1 .. Len(sock) : sk[i] = sock[i]
  <2>1. sock \in Seq(Nat) /\ n + 1 \in Nat
    BY <1>1, Entries, EntriesSeq
  <2> QED BY <2>1, AppendProperties
<1>5. recv_buff \in Nat /\ recv_buff + Len(sock) = n
      /\ \A i \in 1 .. Len(sock) : sock[i] = recv_buff + i
  BY DatagramFacts DEF Alive, ReceivesOK, BufferOK
<1> HIDE DEF f, sk, n
<1>6. BufferOK(f, sk, recv_buff)
  BY <1>1, <1>3, <1>4, <1>5 DEF BufferOK
<1>7. NotStarted' = NotStarted
  BY SameStart DEF nodeVars, life
<1>8. ReceivesOK'
  BY <1>2, <1>6, <1>7 DEF Alive, ReceivesOK
<1>9. Keeps(queue, queue', OfRequests)
  BY <1>2, KeepsSelf
<1> QED BY <1>8, <1>9, UdpAlive

LEMMA ReceiveCompletesAlive ==
    ASSUME NodeInv, Alive, ReceiveCompletes, UNCHANGED nodeVars
    PROVE  Alive'
<1> DEFINE H == Handlers(Len(from))
           rb == recv_buff
           lo == Len(handled)
           sk == Tail(sock)
           r == <<Received>>
<1>1. /\ sock # <<>> /\ recv_buff' = Head(sock) /\ sock' = sk /\ receiving > 0
      /\ queue' = Append(queue, Received) /\ receiving' = receiving - 1
      /\ UNCHANGED <<from, handled>>
  BY DEF ReceiveCompletes, Received
<1>2. /\ rb \in Nat /\ lo \in Nat /\ Len(sock) \in Nat /\ sock \in Seq(1 .. Len(from))
      /\ Len(from) \in Nat /\ queue \in Seq(H)
  BY DatagramFacts
<1>3. /\ DatagramsOK(queue, receiving, rb, lo) /\ rb + Len(sock) = Len(from)
      /\ \A i \in 1 .. Len(sock) : sock[i] = rb + i
      /\ NotStarted => receiving = 0
  BY DEF Alive, ReceivesOK, BufferOK
<1>4. receiving = 1 /\ receiving' = 0
  BY <1>1, <1>3 DEF DatagramsOK
<1>5. Len(sock) > 0 /\ Head(sock) = sock[1] /\ Len(sk) = Len(sock) - 1
      /\ \A i \in 1 .. Len(sk) : sk[i] = sock[i + 1]
  BY <1>1, <1>2, TakeEntries, HeadTailProperties
<1>6. recv_buff' = rb + 1
  BY <1>1, <1>2, <1>3, <1>5
<1>7. BufferOK(from, sk, rb + 1)
  <2> HIDE DEF sk, rb
  <2>1. (rb + 1) + Len(sk) = Len(from)
    <3>1. rb \in Nat /\ Len(sock) \in Nat /\ rb + Len(sock) = Len(from) /\ Len(sk) = Len(sock) - 1
      BY <1>2, <1>3, <1>5
    <3> DEFINE a == Len(sock)
               b == Len(sk)
               c == Len(from)
    <3> HIDE DEF a, b, c
    <3>2. (rb + 1) + b = c
      BY <3>1 DEF a, b, c
    <3> QED BY <3>2 DEF b, c
  <2>2. ASSUME NEW i \in 1 .. Len(sk) PROVE sk[i] = (rb + 1) + i
    <3>1. i + 1 \in 1 .. Len(sock) /\ sk[i] = sock[i + 1]
      BY <1>2, <1>5
    <3> QED BY <1>2, <1>3, <3>1
  <2> QED BY <2>1, <2>2 DEF BufferOK
<1>8. Received \in H /\ Received \notin OfRequests
  BY HandlerTypes, DatagramKinds DEF Received
<1>9. queue' = queue \o r /\ r \in Seq(H) /\ ToSet(r) = {Received}
  BY <1>1, <1>2, <1>8, PostIsConcat, EntriesOfTuples
<1>10. DatagramsOK(queue \o <<Received>>, 0, rb + 1, lo)
  <2> HIDE DEF H, rb, lo
  <2> QED BY <1>2, <1>3, <1>4, <1>8, ReceivedPosted
<1>11. ~NotStarted'
  BY <1>3, <1>4, SameStart DEF nodeVars, life
<1>12. ReceivesOK'
  BY <1>1, <1>4, <1>6, <1>7, <1>9, <1>10, <1>11 DEF ReceivesOK
<1>13. Keeps(queue, queue', OfRequests)
  <2>1. ToSet(r) \cap OfRequests = {}
    BY <1>8, <1>9
  <2> HIDE DEF r, H
  <2>2. Keeps(queue, queue \o r, OfRequests)
    BY <1>2, <1>9, <2>1, PostKeeps
  <2> QED BY <1>9, <2>2
<1> QED BY <1>12, <1>13, UdpAlive

LEMMA ReceiveFailsAlive ==
    ASSUME NodeInv, Alive, ReceiveFails, UNCHANGED nodeVars
    PROVE  Alive'
<1> DEFINE H == Handlers(Len(from))
           rb == recv_buff
           lo == Len(handled)
           r == <<Error>>
<1>1. /\ receiving > 0 /\ queue' = Append(queue, Error) /\ receiving' = receiving - 1
      /\ UNCHANGED <<from, sock, recv_buff, handled>>
  BY DEF ReceiveFails, Error
<1>2. queue \in Seq(H)
  BY DatagramFacts
<1>3. DatagramsOK(queue, receiving, rb, lo) /\ (NotStarted => receiving = 0)
  BY DEF Alive, ReceivesOK
<1>4. receiving = 1 /\ receiving' = 0
  BY <1>1, <1>3 DEF DatagramsOK
<1>5. Error \in H /\ Error \notin OfRequests
  BY HandlerTypes, DatagramKinds DEF Error
<1>6. queue' = queue \o r /\ r \in Seq(H) /\ ToSet(r) = {Error}
  BY <1>1, <1>2, <1>5, PostIsConcat, EntriesOfTuples
<1>7. DatagramsOK(queue \o <<Error>>, 0, rb, lo)
  <2> HIDE DEF H, rb, lo
  <2> QED BY <1>2, <1>3, <1>4, <1>5, ErrorPosted
<1>8. ~NotStarted'
  BY <1>3, <1>4, SameStart DEF nodeVars, life
<1>9. ReceivesOK'
  BY <1>1, <1>4, <1>6, <1>7, <1>8 DEF Alive, ReceivesOK, BufferOK
<1>10. Keeps(queue, queue', OfRequests)
  <2>1. ToSet(r) \cap OfRequests = {}
    BY <1>5, <1>6
  <2> HIDE DEF r, H
  <2>2. Keeps(queue, queue \o r, OfRequests)
    BY <1>2, <1>6, <2>1, PostKeeps
  <2> QED BY <1>6, <2>2
<1> QED BY <1>9, <1>10, UdpAlive

-----------------------------------------------------------------------------
(* The order of the requests, as their handlers are taken and posted *)

\* An entry at the front has none before it.
LEMMA FirstBefore ==
    ASSUME NEW S, NEW q \in Seq(S), q # <<>>, NEW P, NEW R, Before(q, P, R), Head(q) \in R
    PROVE  ToSet(q) \cap P = {}
<1>1. /\ Len(q) \in Nat /\ DOMAIN q = 1 .. Len(q) /\ ToSet(q) = {q[i] : i \in 1 .. Len(q)}
      /\ Head(q) = q[1] /\ Len(q) > 0
  BY Entries, TakeEntries
<1> SUFFICES ASSUME NEW i \in 1 .. Len(q), q[i] \in P PROVE FALSE
  BY <1>1
<1>2. 1 \in DOMAIN q /\ i \in DOMAIN q
  BY <1>1
<1>3. i < 1
  BY <1>1, <1>2 DEF Before
<1> QED BY <1>3

LEMMA RequestSets ==
    /\ \A s \in Ask : TickHandler \notin OnTimeout(s) /\ TickHandler \notin Results(s)
    /\ \A s, x \in Ask, found \in BOOLEAN : /\ Result(s, found) \notin OnTimeout(x)
                                            /\ Result(s, found) \in Results(x) <=> s = x
    /\ \A s, x \in Ask : \A e \in OnTimeout(s) : e \notin Results(x)
    /\ \A s, x \in Ask : \A e \in Results(s) : e \in Results(x) => s = x
    /\ \A s \in Ask, found \in BOOLEAN : Result(s, found) # TickHandler
<1>1. /\ TickHandler.h = "tick"
      /\ \A s \in Ask : \A e \in OnTimeout(s) : e.h = "on_timeout" /\ e.of = s
      /\ \A s \in Ask : \A e \in Results(s) : e.h = "result" /\ e.of = s
      /\ \A s \in Ask, found \in BOOLEAN : Result(s, found).h = "result" /\ Result(s, found).of = s
                                           /\ Result(s, found) \in Results(s)
  BY DEF TickHandler, OnTimeout, Results, Result
<1> QED BY <1>1

\* A handler that is no result is taken.
LEMMA OrderTake ==
    ASSUME NEW S, NEW q \in Seq(S), q # <<>>, NEW a, NEW o, OrderOK(q, a, o),
           \A s \in Ask : Head(q) \notin Results(s)
    PROVE  OrderOK(Tail(q), a, o)
<1> DEFINE t == Tail(q)
<1>1. ToSet(q) = {Head(q)} \cup ToSet(t) /\ \A P, R : Before(q, P, R) => Before(t, P, R)
  BY TakeEntries, TakeBefore
<1> HIDE DEF t
<1>2. \A s \in Ask : ToSet(t) \cap Results(s) = ToSet(q) \cap Results(s)
  BY <1>1
<1>3. OrderOK(t, a, o)
  BY <1>1, <1>2 DEF OrderOK
<1> QED BY <1>3 DEF t

\* The result of a pending request is posted: behind those of older ones.
LEMMA OrderResult ==
    ASSUME NEW S, NEW q \in Seq(S), NEW a \in [Ask -> AskState], NEW o, OrderOK(q, a, o),
           NEW s \in Ask, a[s] = "pending", NEW found \in BOOLEAN, Result(s, found) \in S
    PROVE  OrderOK(q \o <<Result(s, found)>>, [a EXCEPT ![s] = "posted"], o)
<1> DEFINE e == Result(s, found)
           r == <<e>>
           qn == q \o r
           an == [a EXCEPT ![s] = "posted"]
<1>1. r \in Seq(S) /\ ToSet(r) = {e}
  BY EntriesOfTuples
<1>2. an[s] = "posted" /\ \A x \in Ask : x # s => an[x] = a[x]
  OBVIOUS
<1>3. e \in Results(s) /\ \A x \in Ask : e \notin OnTimeout(x) /\ (x # s => e \notin Results(x))
  BY RequestSets
<1> HIDE DEF e, r, an
<1>4. ToSet(qn) = ToSet(q) \cup {e}
  BY <1>1, PostManyEntries
<1>5. \A P, R : Before(q, P, R) /\ e \notin P => Before(qn, P, R)
  BY <1>1, PostBefore
<1> HIDE DEF qn
<1>6. ASSUME NEW x \in Ask
      PROVE  /\ an[x] = "pending" => Before(qn, OnTimeout(x), {TickHandler})
             /\ an[x] = "posted" => ToSet(qn) \cap Results(x) # {}
  BY <1>2, <1>3, <1>4, <1>5 DEF OrderOK
<1>7. ASSUME NEW x \in Ask, NEW y \in o[x]
      PROVE  y \in Ask /\ an[y] = "posted" /\ Before(qn, Results(y), Results(x))
  <2>1. y \in Ask /\ a[y] = "posted" /\ Before(q, Results(y), Results(x))
    BY DEF OrderOK
  <2>2. y # s
    BY <2>1
  <2> QED BY <1>2, <1>3, <1>5, <2>1, <2>2
<1>8. OrderOK(qn, an, o)
  BY <1>6, <1>7 DEF OrderOK
<1> QED BY <1>8 DEF qn, r, e, an

\* A request is made when those before it have their results posted.
LEMMA OrderNew ==
    ASSUME NEW S, NEW q \in Seq(S), NEW a \in [Ask -> AskState], NEW o, OrderOK(q, a, o),
           DOMAIN o = Ask, NEW s \in Ask, a[s] = "free", \A x \in Ask : a[x] # "pending",
           ToSet(q) \cap OnTimeout(s) = {}, ToSet(q) \cap Results(s) = {}
    PROVE  OrderOK(q, [a EXCEPT ![s] = "pending"],
                   [o EXCEPT ![s] = {x \in Ask : a[x] # "free"}])
<1> DEFINE an == [a EXCEPT ![s] = "pending"]
           before == {x \in Ask : a[x] # "free"}
           on == [o EXCEPT ![s] = before]
<1>1. an[s] = "pending" /\ \A x \in Ask : x # s => an[x] = a[x]
  OBVIOUS
<1>2. on[s] = before /\ \A x \in Ask : x # s => on[x] = o[x]
  OBVIOUS
<1>3. \A y \in before : y \in Ask /\ y # s /\ a[y] = "posted"
  BY DEF AskState
<1> HIDE DEF an, on, before
<1>4. Before(q, OnTimeout(s), {TickHandler}) /\ \A P : Before(q, P, Results(s))
  BY NoneBefore
<1>5. ASSUME NEW x \in Ask
      PROVE  /\ an[x] = "pending" => Before(q, OnTimeout(x), {TickHandler})
             /\ an[x] = "posted" => ToSet(q) \cap Results(x) # {}
  BY <1>1, <1>4 DEF OrderOK
<1>6. ASSUME NEW x \in Ask, NEW y \in on[x]
      PROVE  y \in Ask /\ an[y] = "posted" /\ Before(q, Results(y), Results(x))
  <2>1. CASE x = s
    BY <1>1, <1>2, <1>3, <1>4, <1>6, <2>1
  <2>2. CASE x # s
    BY <1>1, <1>2, <1>6, <2>2 DEF OrderOK
  <2> QED BY <2>1, <2>2
<1>7. OrderOK(q, an, on)
  BY <1>5, <1>6 DEF OrderOK
<1> QED BY <1>7 DEF an, on, before

\* A result is handed over, and no older request is left.
LEMMA OrderFreed ==
    ASSUME NEW S, NEW q \in Seq(S), q # <<>>, NEW a \in [Ask -> AskState],
           NEW o \in [Ask -> SUBSET Ask], OrderOK(q, a, o),
           NEW s \in Ask, Head(q) \in Results(s), NEW on, on[s] = {},
           \A x \in Ask : x # s => on[x] = o[x] \ {s}
    PROVE  o[s] = {} /\ OrderOK(Tail(q), [a EXCEPT ![s] = "free"], on)
<1> DEFINE t == Tail(q)
           an == [a EXCEPT ![s] = "free"]
<1>1. o[s] = {}
  <2> SUFFICES ASSUME NEW y \in o[s] PROVE FALSE
    OBVIOUS
  <2>1. y \in Ask /\ Before(q, Results(y), Results(s)) /\ ToSet(q) \cap Results(y) # {}
    BY DEF OrderOK
  <2> QED BY <2>1, FirstBefore
<1>2. ToSet(q) = {Head(q)} \cup ToSet(t) /\ \A P, R : Before(q, P, R) => Before(t, P, R)
  BY TakeEntries, TakeBefore
<1>3. an[s] = "free" /\ \A x \in Ask : x # s => an[x] = a[x]
  OBVIOUS
<1> HIDE DEF t, an
<1>4. \A x \in Ask : x # s => ToSet(t) \cap Results(x) = ToSet(q) \cap Results(x)
  BY <1>2, RequestSets
<1>5. ASSUME NEW x \in Ask
      PROVE  /\ an[x] = "pending" => Before(t, OnTimeout(x), {TickHandler})
             /\ an[x] = "posted" => ToSet(t) \cap Results(x) # {}
  BY <1>2, <1>3, <1>4 DEF OrderOK
<1>6. ASSUME NEW x \in Ask, NEW y \in on[x]
      PROVE  y \in Ask /\ an[y] = "posted" /\ Before(t, Results(y), Results(x))
  <2>1. x # s /\ y \in o[x] /\ y # s
    BY <1>6
  <2> QED BY <1>2, <1>3, <2>1 DEF OrderOK
<1>7. OrderOK(t, an, on)
  BY <1>5, <1>6 DEF OrderOK
<1> QED BY <1>1, <1>7 DEF t, an

\* The controller's wait and handler are left alone.
LEMMA TickKept ==
    ASSUME NEW q, NEW qn, NEW w, NEW time, NEW ticks, TickOK(q, w, time, ticks),
           Keeps(q, qn, {TickHandler})
    PROVE  TickOK(qn, w, time, ticks)
<1>1. {TickHandler} \in SUBSET {TickHandler}
  OBVIOUS
<1>2. AtMostOne(qn, {TickHandler}) /\ (TickHandler \in ToSet(qn) <=> TickHandler \in ToSet(q))
  BY <1>1 DEF Keeps, TickOK
<1> QED BY <1>2 DEF TickOK

\* So are the waits, but for those of requests that are cancelled.
LEMMA TimersFewer ==
    ASSUME NEW w, NEW wn, NEW e, NEW en, NEW ticks, TimersOK(w, e, ticks),
           wn["tick"] = w["tick"], \A s \in Ask : wn[s] \in {w[s], NoWait},
           \A P, R : Before(e, P, R) => Before(en, P, R)
    PROVE  TimersOK(wn, en, ticks)
  BY DEF TimersOK, Sooner

-----------------------------------------------------------------------------
(* The handlers of the udp server *)

LEMMA IncomeMessageAlive ==
    ASSUME NodeInv, Alive, call_income_message_handler, UNCHANGED nodeVars
    PROVE  Alive'
<1> DEFINE n == Len(from)
           H == Handlers(n)
           rb == recv_buff
           lo == Len(handled)
           e == RecvHandler(rb)
           r == <<e>>
           t == Tail(queue)
<1>1. /\ Running("received") /\ queue' = Append(t, e) /\ receiving' = receiving + 1
      /\ UNCHANGED <<from, sock, recv_buff, handled>>
  BY DEF call_income_message_handler, call_receiver, RecvHandler
<1>2. queue # <<>> /\ Head(queue) = Received /\ Head(queue) \in ToSet(queue)
  BY <1>1, RunningHandler, HandlerKinds DEF Running
<1>3. rb \in Nat /\ lo \in Nat /\ queue \in Seq(H) /\ rb <= n /\ n \in Nat
  BY DatagramFacts
<1>4. rb # 0
  BY <1>2, ParametersOf DEF QueueOK
<1>5. e \in H
  <2>1. rb \in 1 .. n
    BY <1>3, <1>4
  <2> HIDE DEF n, rb
  <2> QED BY <2>1, HandlerTypes DEF RecvHandler
<1>6. DatagramsOK(queue, receiving, rb, lo) /\ ~NotStarted
  <2>1. Received \in Receives
    BY DEF Receives
  <2> QED BY <1>2, <2>1 DEF Alive, ReceivesOK
<1>7. DatagramsOK(t \o <<RecvHandler(rb)>>, receiving + 1, rb, lo)
  <2> HIDE DEF H, rb, lo
  <2> QED BY <1>2, <1>3, <1>5, <1>6, ReceivedTaken DEF t, e
<1>8. t \in Seq(H)
  BY <1>2, <1>3, TakeEntries
<1>9. Received \notin OfRequests /\ e \notin OfRequests
  BY DatagramKinds DEF Received, RecvHandler
<1> HIDE DEF e, t, H
<1>10. queue' = t \o r /\ r \in Seq(H) /\ ToSet(r) = {e}
  BY <1>1, <1>5, <1>8, PostIsConcat, EntriesOfTuples
<1>11. Keeps(queue, queue', OfRequests)
  <2>1. ToSet(r) \cap OfRequests = {} /\ Head(queue) \notin OfRequests
    BY <1>2, <1>9, <1>10
  <2> HIDE DEF r
  <2> QED BY <1>2, <1>3, <1>10, <2>1, RunKeeps DEF t
<1>12. ~NotStarted'
  BY <1>6, SameStart DEF nodeVars, life
<1>13. ReceivesOK'
  BY <1>1, <1>7, <1>10, <1>12 DEF Alive, ReceivesOK, BufferOK, e
<1> QED BY <1>11, <1>13, UdpAlive

LEMMA ReceiveErrorAlive ==
    ASSUME NodeInv, Alive, receive_error, UNCHANGED nodeVars
    PROVE  Alive'
<1> DEFINE H == Handlers(Len(from))
           rb == recv_buff
           lo == Len(handled)
<1>1. /\ Running("error") /\ queue' = Tail(queue) /\ receiving' = receiving + 1
      /\ UNCHANGED <<from, sock, recv_buff, handled>>
  BY DEF receive_error, call_receiver
<1>2. queue # <<>> /\ Head(queue) = Error /\ Head(queue) \in ToSet(queue)
  BY <1>1, RunningHandler, HandlerKinds DEF Running
<1>3. queue \in Seq(H)
  BY DatagramFacts
<1>4. DatagramsOK(queue, receiving, rb, lo) /\ ~NotStarted
  <2>1. Error \in Receives
    BY DEF Receives
  <2> QED BY <1>2, <2>1 DEF Alive, ReceivesOK
<1>5. DatagramsOK(Tail(queue), receiving + 1, rb, lo)
  <2> HIDE DEF H, rb, lo
  <2> QED BY <1>2, <1>3, <1>4, ErrorTaken
<1>6. Error \notin OfRequests
  BY DatagramKinds DEF Error
<1>7. Keeps(queue, queue', OfRequests)
  BY <1>1, <1>2, <1>3, <1>6, TakeKeeps
<1>8. ~NotStarted'
  BY <1>4, SameStart DEF nodeVars, life
<1>9. ReceivesOK'
  BY <1>1, <1>5, <1>8 DEF Alive, ReceivesOK, BufferOK
<1> QED BY <1>7, <1>9, UdpAlive

LEMMA RecvHandlerKind ==
    ASSUME NEW n, NEW e \in Handlers(n), e.h = "recv_handler"
    PROVE  e.raw_msg \in 1 .. n /\ e = RecvHandler(e.raw_msg)
<1>1. e \notin TimerTask
  <2> SUFFICES ASSUME NEW t \in Timer, e \in [h : Task(t), of : {t}] PROVE FALSE
    BY DEF TimerTask
  <2>1. e.h \in Task(t)
    OBVIOUS
  <2> QED BY <2>1, Tasks
<1>2. e \notin [h : {"received", "error"}] /\ e \notin [h : {"command"}, word : Command]
      /\ e \notin [h : {"result"}, of : Ask, found : BOOLEAN]
  OBVIOUS
<1>3. e \in [h : {"recv_handler"}, raw_msg : 1 .. n]
  BY <1>1, <1>2 DEF Handlers
<1> QED BY <1>3 DEF RecvHandler

\* The datagram that is handled is the next one; its handler posts results at
\* most.
LEMMA RecvHandlerAlive ==
    ASSUME NodeInv, Alive, HandledOK(from, handled),
           NEW posts \in Seq(Handlers(Len(from))), ToSet(posts) \cap OfDatagrams = {},
           recv_handler(posts), UNCHANGED daemon
    PROVE  /\ HandledOK(from', handled') /\ ReceivesOK'
           /\ queue # <<>> /\ Head(queue).h = "recv_handler" /\ Head(queue) \notin OfRequests
           /\ queue' = Tail(queue) \o posts
<1> DEFINE n == Len(from)
           H == Handlers(n)
           rb == recv_buff
           lo == Len(handled)
           t == Tail(queue)
           m == Head(queue).raw_msg
           d == [msg |-> m, src |-> src_ep]
           hd == Append(handled, d)
<1>1. /\ Running("recv_handler") /\ queue' = t \o posts /\ handled' = hd
      /\ UNCHANGED <<from, sock, recv_buff, receiving>>
  BY DEF recv_handler
<1>2. queue # <<>> /\ Head(queue) \in H /\ Head(queue).h = "recv_handler"
  BY <1>1, RunningHandler DEF Running
<1>3. rb \in Nat /\ lo \in Nat /\ queue \in Seq(H) /\ rb <= n /\ n \in Nat
  BY DatagramFacts
<1>4. m \in 1 .. n /\ Head(queue) = RecvHandler(m)
  BY <1>2, RecvHandlerKind
<1>5. DatagramsOK(queue, receiving, rb, lo)
  BY DEF Alive, ReceivesOK
<1>6. m = lo + 1 /\ lo + 1 <= rb /\ DatagramsOK(t, receiving, rb, lo + 1)
  <2> DEFINE k == m
  <2>1. k \in Nat /\ Head(queue) = RecvHandler(k)
    BY <1>3, <1>4
  <2> HIDE DEF H, rb, lo, k
  <2>2. k = lo + 1 /\ lo + 1 <= rb /\ DatagramsOK(t, receiving, rb, lo + 1)
    BY <1>2, <1>3, <1>5, <2>1, DatagramTaken
  <2> QED BY <2>2 DEF k
<1>7. /\ Len(hd) = lo + 1 /\ hd[lo + 1] = d /\ \A i \in 1 .. lo : hd[i] = handled[i]
  <2>1. handled \in Seq([msg : 1 .. n, src : Peer \cup {NoPeer}]) /\ d \in [msg : 1 .. n, src : Peer \cup {NoPeer}]
    BY <1>4 DEF NodeInv, DataOK
  <2> HIDE DEF d
  <2> QED BY <2>1, AppendProperties
<1>8. d.msg = lo + 1
  BY <1>6
<1> HIDE DEF hd, d, m, lo, rb, n
<1>9. HandledOK(from, hd)
  <2>1. Len(hd) <= n
    BY <1>3, <1>6, <1>7
  <2>2. ASSUME NEW i \in 1 .. Len(hd) PROVE hd[i].msg = i
    <3>1. CASE i = lo + 1
      BY <1>7, <1>8, <3>1
    <3>2. CASE i # lo + 1
      <4>1. i \in 1 .. lo
        BY <1>3, <1>7, <3>2
      <4> QED BY <1>7, <4>1 DEF HandledOK, lo
    <3> QED BY <3>1, <3>2
  <2> QED BY <2>1, <2>2 DEF HandledOK, n
<1>10. t \in Seq(H)
  BY <1>2, <1>3, TakeEntries
<1>11. Keeps(t, queue', OfDatagrams)
  <2> HIDE DEF t
  <2> QED BY <1>1, <1>10, PostKeeps DEF n
<1>12. DatagramsOK(queue', receiving, rb, lo + 1)
  <2> DEFINE qn == queue'
             hi == lo + 1
  <2>1. Keeps(t, qn, OfDatagrams) /\ DatagramsOK(t, receiving, rb, hi)
    BY <1>6, <1>11
  <2> HIDE DEF qn, t, hi
  <2>2. DatagramsOK(qn, receiving, rb, hi)
    BY <2>1, DatagramsKept
  <2> QED BY <2>2 DEF qn, hi
<1>13. NotStarted' => receiving = 0 /\ ToSet(queue') \cap Receives = {}
  <2>1. ToSet(queue') \cap OfDatagrams = ToSet(t) \cap OfDatagrams /\ Receives \subseteq OfDatagrams
    BY <1>11 DEF Keeps, OfDatagrams
  <2>2. ToSet(t) \subseteq ToSet(queue)
    BY <1>2, <1>3, TakeEntries
  <2>3. NotStarted' = NotStarted
    BY SameStart
  <2> QED BY <2>1, <2>2, <2>3 DEF Alive, ReceivesOK
<1>14. Len(hd) = lo + 1 /\ handled' = hd /\ rb = recv_buff
  BY <1>1, <1>7 DEF rb
<1>15. ReceivesOK'
  <2>1. BufferOK(from', sock', recv_buff')
    BY <1>1 DEF Alive, ReceivesOK, BufferOK
  <2>2. DatagramsOK(queue', receiving', recv_buff', Len(handled'))
    BY <1>1, <1>12, <1>14
  <2>3. receiving' = receiving
    BY <1>1
  <2> QED BY <1>13, <2>1, <2>2, <2>3 DEF ReceivesOK
<1> QED BY <1>1, <1>2, <1>9, <1>15, DatagramKinds DEF t

-----------------------------------------------------------------------------
(* The handlers of the requests, on a node that was started once *)

LEMMA AliveNext ==
    ASSUME OneStart', ReceivesOK', NEW ticks \in BOOLEAN, Ticks' = ticks,
           TickOK(queue', wait'["tick"], since', ticks), TimersOK(wait', expired', ticks),
           OrderOK(queue', ask', older'),
           BeforeBind' => \A s \in Ask : ask'[s] = "free", overtaken' = {}
    PROVE  Alive'
  BY DEF Alive, RequestsOK

\* What is posted and taken for a request is nothing to the datagrams and the
\* controller's timer.
LEMMA ResultKinds ==
    \A s \in Ask, found \in BOOLEAN :
        Result(s, found) \notin OfDatagrams /\ Result(s, found) # TickHandler
<1>1. \A s \in Ask, found \in BOOLEAN : Result(s, found).h = "result"
  BY DEF Result
<1> QED BY <1>1, DatagramKinds, RequestSets

LEMMA TupleInSeq ==
    ASSUME NEW S, NEW e \in S
    PROVE  <<e>> \in Seq(S) /\ ToSet(<<e>>) = {e}
<1>1. <<e>> \in Seq(S)
  OBVIOUS
<1> QED BY <1>1, EntriesOfTuples

\* A datagram is handled that decides no request, or one.
LEMMA ReceivePacketAlive ==
    ASSUME NodeInv, Alive, HandledOK(from, handled), income_message
    PROVE  HandledOK(from', handled') /\ Alive'
<1> DEFINE H == Handlers(Len(from))
           t == Tail(queue)
           ticks == Ticks
<1>1. queue \in Seq(H) /\ ask \in [Ask -> AskState]
  BY DatagramFacts, ParametersOf DEF AsksOK
<1>2. DOMAIN <<>> = {} /\ <<>> \in Seq(H)
  OBVIOUS
<1>3. ToSet(<<>>) = {}
  BY <1>2 DEF ToSet
<1>4. CASE recv_handler(<<>>) /\ UNCHANGED nodeVars
  <2>1. UNCHANGED daemon
    BY <1>4 DEF nodeVars, life
  <2>2. ToSet(<<>>) \cap OfDatagrams = {} /\ ToSet(<<>>) \cap OfRequests = {}
    BY <1>3
  <2>3. /\ HandledOK(from', handled') /\ ReceivesOK'
        /\ queue # <<>> /\ Head(queue) \notin OfRequests
        /\ queue' = t \o <<>>
    BY <1>2, <1>4, <2>1, <2>2, RecvHandlerAlive
  <2>4. Keeps(queue, queue', OfRequests)
    BY <1>1, <1>2, <2>2, <2>3, RunKeeps
  <2> QED BY <1>4, <2>3, <2>4, UdpAlive
<1>5. ASSUME NEW s \in Ask, ask[s] = "pending", recv_handler(<<Result(s, TRUE)>>),
             ask' = [ask EXCEPT ![s] = "posted"], wait' = [wait EXCEPT ![s] = NoWait],
             expired' = Without(expired, s),
             UNCHANGED <<life, requires, clock, older, endpoint>>
      PROVE  HandledOK(from', handled') /\ Alive'
  <2> DEFINE e == Result(s, TRUE)
             r == <<e>>
             an == [ask EXCEPT ![s] = "posted"]
  <2>1. UNCHANGED <<daemon, since, older, overtaken>>
    BY <1>5 DEF life, clock, endpoint
  <2>2. e \in H /\ e \notin OfDatagrams /\ e # TickHandler
    BY HandlerTypes, ResultKinds
  <2>3. r \in Seq(H) /\ ToSet(r) = {e}
    BY <2>2, TupleInSeq
  <2> HIDE DEF e
  <2>4. ToSet(r) \cap OfDatagrams = {}
    BY <2>2, <2>3
  <2>5. /\ HandledOK(from', handled') /\ ReceivesOK'
        /\ queue # <<>> /\ Head(queue) \notin OfRequests
        /\ queue' = t \o r
    BY <1>5, <2>1, <2>3, <2>4, RecvHandlerAlive DEF e
  <2>6. TickHandler \in OfRequests /\ \A x \in Ask : Results(x) \subseteq OfRequests
    BY DEF OfRequests
  <2>7. t \in Seq(H) /\ OrderOK(t, ask, older)
    <3>1. OrderOK(queue, ask, older) /\ \A x \in Ask : Head(queue) \notin Results(x)
      BY <2>5, <2>6 DEF Alive, RequestsOK
    <3> QED BY <1>1, <2>5, <3>1, OrderTake, TakeEntries
  <2>8. OrderOK(t \o r, an, older)
    <3> HIDE DEF t, H, an
    <3>1. OrderOK(t \o <<Result(s, TRUE)>>, [ask EXCEPT ![s] = "posted"], older)
      BY <1>1, <1>5, <2>2, <2>7, OrderResult DEF e
    <3> QED BY <3>1 DEF e, an
  <2>9. Keeps(queue, t \o r, {TickHandler})
    <3> DEFINE P == {TickHandler}
    <3>1. Head(queue) \notin P /\ ToSet(r) \cap P = {}
      BY <2>2, <2>3, <2>5, <2>6
    <3> HIDE DEF P, r
    <3>2. Keeps(queue, t \o r, P)
      BY <1>1, <2>3, <2>5, <3>1, RunKeeps
    <3> QED BY <3>2 DEF P
  <2>10. ticks \in BOOLEAN /\ Ticks' = ticks /\ OneStart' /\ BeforeBind' = BeforeBind
    BY <2>1, StageFacts, SameStart DEF Alive
  <2>11. /\ TickOK(queue, wait["tick"], since, ticks) /\ TimersOK(wait, expired, ticks)
         /\ overtaken = {} /\ (BeforeBind => \A x \in Ask : ask[x] = "free")
    BY DEF Alive, RequestsOK
  <2>12. /\ wait'["tick"] = wait["tick"] /\ \A x \in Ask : wait'[x] \in {wait[x], NoWait}
         /\ \A P, R : Before(expired, P, R) => Before(expired', P, R)
    <3>1. DOMAIN wait = Timer /\ "tick" \in Timer /\ Ask \subseteq Timer /\ "tick" \notin Ask
      BY ParametersOf DEF WaitOK, Timer, Ask
    <3>2. ExpiredOK(expired, wait)
      BY ParametersOf
    <3> QED BY <1>5, <3>1, <3>2, WithoutProperties DEF ExpiredOK
  <2>13. ~BeforeBind'
    BY <1>5, <2>10, <2>11
  <2> HIDE DEF ticks
  <2>14. TimersOK(wait', expired', ticks)
    <3> DEFINE wn == wait'
               en == expired'
    <3> HIDE DEF wn, en
    <3>1. TimersOK(wn, en, ticks)
      BY <2>11, <2>12, TimersFewer DEF wn, en
    <3> QED BY <3>1 DEF wn, en
  <2> HIDE DEF t, r
  <2>15. TickOK(t \o r, wait["tick"], since, ticks)
    BY <2>9, <2>11, TickKept
  <2>16. TickOK(queue', wait'["tick"], since', ticks)
    BY <2>1, <2>5, <2>12, <2>15
  <2>17. OrderOK(queue', ask', older') /\ overtaken' = {}
    BY <1>5, <2>1, <2>5, <2>8, <2>11
  <2> QED BY <2>5, <2>10, <2>13, <2>14, <2>16, <2>17, AliveNext
<1> QED BY <1>4, <1>5 DEF income_message

LEMMA OnTimeoutAlive ==
    ASSUME NodeInv, Alive, on_timeout
    PROVE  Alive'
<1> DEFINE H == Handlers(Len(from))
           s == Head(queue).of
           t == Tail(queue)
           e == Result(s, FALSE)
           ticks == Ticks
<1>1. /\ Running("on_timeout")
      /\ ask' = IF ask[s] # "pending" THEN ask ELSE [ask EXCEPT ![s] = "posted"]
      /\ queue' = t \o (IF ask[s] # "pending" THEN <<>> ELSE <<e>>)
      /\ UNCHANGED <<from, sock, recv_buff, handled, receiving, daemon, wait, expired, older,
                     overtaken, since>>
  BY DEF on_timeout, udpRest, datagrams, life, timers, endpoint, clock
<1>2. queue # <<>> /\ Head(queue) \in H /\ Head(queue).h = "on_timeout"
  BY <1>1, RunningHandler DEF Running
<1>3. s \in Ask /\ Head(queue) \in OnTimeout(s) /\ \A x \in Ask : Head(queue) \notin Results(x)
  BY <1>2, HandlerKinds
<1>4. Head(queue) \notin OfDatagrams /\ Head(queue) # TickHandler
  BY <1>2, DatagramKinds DEF TickHandler
<1>5. queue \in Seq(H) /\ ask \in [Ask -> AskState] /\ t \in Seq(H)
  <2>1. queue \in Seq(H) /\ ask \in [Ask -> AskState]
    BY DatagramFacts, ParametersOf DEF AsksOK
  <2> QED BY <1>2, <2>1, TakeEntries
<1>6. /\ ticks \in BOOLEAN /\ Ticks' = ticks /\ OneStart' /\ BeforeBind' = BeforeBind
      /\ NotStarted' = NotStarted
  BY <1>1, StageFacts, SameStart DEF Alive
<1>7. /\ TickOK(queue, wait["tick"], since, ticks) /\ TimersOK(wait, expired, ticks)
      /\ OrderOK(queue, ask, older) /\ ReceivesOK
      /\ overtaken = {} /\ (BeforeBind => \A x \in Ask : ask[x] = "free")
  BY DEF Alive, RequestsOK
<1>8. OrderOK(t, ask, older)
  BY <1>2, <1>3, <1>5, <1>7, OrderTake
<1> HIDE DEF H, t, ticks
<1>9. \E r \in Seq(H) :
         /\ queue' = t \o r /\ OrderOK(t \o r, ask', older)
         /\ ToSet(r) \cap OfDatagrams = {} /\ TickHandler \notin ToSet(r)
  <2>1. CASE ask[s] # "pending"
    <3>1. DOMAIN <<>> = {} /\ <<>> \in Seq(H)
      OBVIOUS
    <3>2. ToSet(<<>>) = {}
      BY <3>1 DEF ToSet
    <3>3. t \o <<>> = t
      BY <1>5, ConcatEmptySeq
    <3> QED BY <1>1, <1>8, <2>1, <3>1, <3>2, <3>3
  <2>2. CASE ask[s] = "pending"
    <3> DEFINE r == <<e>>
               an == [ask EXCEPT ![s] = "posted"]
    <3>1. e \in H /\ e \notin OfDatagrams /\ e # TickHandler
      BY <1>3, HandlerTypes, ResultKinds DEF H
    <3>2. OrderOK(t \o r, an, older)
      <4> HIDE DEF s, an
      <4>1. OrderOK(t \o <<Result(s, FALSE)>>, [ask EXCEPT ![s] = "posted"], older)
        BY <1>3, <1>5, <1>8, <2>2, <3>1, OrderResult
      <4> QED BY <4>1 DEF an
    <3>3. queue' = t \o r /\ ask' = an
      BY <1>1, <2>2
    <3> HIDE DEF e, an
    <3>4. r \in Seq(H) /\ ToSet(r) = {e}
      BY <3>1, TupleInSeq
    <3> HIDE DEF r
    <3>5. ToSet(r) \cap OfDatagrams = {} /\ TickHandler \notin ToSet(r)
      BY <3>1, <3>4
    <3> QED BY <3>2, <3>3, <3>4, <3>5
  <2> QED BY <2>1, <2>2
<1>10. PICK r \in Seq(H) :
         /\ queue' = t \o r /\ OrderOK(t \o r, ask', older)
         /\ ToSet(r) \cap OfDatagrams = {} /\ TickHandler \notin ToSet(r)
  BY <1>9
<1>11. Keeps(queue, queue', OfDatagrams)
  BY <1>2, <1>4, <1>5, <1>10, RunKeeps DEF t
<1>12. Keeps(queue, t \o r, {TickHandler})
  <2> DEFINE P == {TickHandler}
  <2>1. Head(queue) \notin P /\ ToSet(r) \cap P = {}
    BY <1>4, <1>10
  <2> HIDE DEF P
  <2>2. Keeps(queue, t \o r, P)
    BY <1>2, <1>5, <2>1, RunKeeps DEF t
  <2> QED BY <2>2 DEF P
<1>13. TickOK(t \o r, wait["tick"], since, ticks)
  BY <1>7, <1>12, TickKept
<1>14. ReceivesOK'
  BY <1>1, <1>6, <1>7, <1>11, ReceivesKept
<1>15. BeforeBind' => \A x \in Ask : ask'[x] = "free"
  BY <1>1, <1>3, <1>6, <1>7
<1>16. OrderOK(queue', ask', older') /\ TickOK(queue', wait'["tick"], since', ticks)
       /\ TimersOK(wait', expired', ticks) /\ overtaken' = {}
  BY <1>1, <1>7, <1>10, <1>13
<1> QED BY <1>6, <1>14, <1>15, <1>16, AliveNext

\* No request has been overtaken when its result is handed over.
LEMMA ResultAlive ==
    ASSUME NodeInv, Alive, result, glob_self_ep # "outdated"
    PROVE  Alive' /\ glob_self_ep' # "outdated"
<1> DEFINE H == Handlers(Len(from))
           s == Head(queue).of
           t == Tail(queue)
           an == [ask EXCEPT ![s] = "free"]
           on == [x \in Ask |-> IF x = s THEN {} ELSE older[x] \ {s}]
           ticks == Ticks
<1>1. /\ Running("result") /\ queue' = t /\ ask' = an /\ older' = on
      /\ glob_self_ep' = IF ~Head(queue).found THEN glob_self_ep
                         ELSE IF s \in overtaken THEN "outdated" ELSE "latest"
      /\ overtaken' = (overtaken \cup (IF Head(queue).found THEN older[s] ELSE {})) \ {s}
      /\ UNCHANGED <<from, sock, recv_buff, handled, receiving, daemon, wait, expired, since>>
  BY DEF result, udpRest, datagrams, life, timers, clock, update_global_self_endpoint
<1>2. queue # <<>> /\ Head(queue) \in H /\ Head(queue).h = "result"
  BY <1>1, RunningHandler DEF Running
<1>3. s \in Ask /\ Head(queue) \in Results(s)
  BY <1>2, HandlerKinds
<1>4. Head(queue) \notin OfDatagrams /\ Head(queue) \notin {TickHandler}
  BY <1>2, DatagramKinds DEF TickHandler
<1>5. queue \in Seq(H) /\ ask \in [Ask -> AskState] /\ older \in [Ask -> SUBSET Ask]
  BY DatagramFacts, ParametersOf DEF AsksOK, RestOK
<1>6. /\ ticks \in BOOLEAN /\ Ticks' = ticks /\ OneStart' /\ BeforeBind' = BeforeBind
      /\ NotStarted' = NotStarted
  BY <1>1, StageFacts, SameStart DEF Alive
<1>7. /\ TickOK(queue, wait["tick"], since, ticks) /\ TimersOK(wait, expired, ticks)
      /\ OrderOK(queue, ask, older) /\ ReceivesOK
      /\ overtaken = {} /\ (BeforeBind => \A x \in Ask : ask[x] = "free")
  BY DEF Alive, RequestsOK
<1>8. older[s] = {} /\ OrderOK(t, an, on)
  <2> HIDE DEF H, s
  <2>1. on[s] = {} /\ \A x \in Ask : x # s => on[x] = older[x] \ {s}
    BY <1>3
  <2> HIDE DEF on
  <2> QED BY <1>2, <1>3, <1>5, <1>7, <2>1, OrderFreed
<1>9. overtaken' = {} /\ glob_self_ep' # "outdated"
  BY <1>1, <1>7, <1>8
<1>10. BeforeBind' => \A x \in Ask : ask'[x] = "free"
  BY <1>1, <1>5, <1>6, <1>7
<1>11. Keeps(queue, t, OfDatagrams) /\ Keeps(queue, t, {TickHandler})
  <2> DEFINE P == {TickHandler}
  <2> HIDE DEF P
  <2>1. Keeps(queue, t, P)
    BY <1>2, <1>4, <1>5, TakeKeeps DEF P
  <2> QED BY <1>2, <1>4, <1>5, <2>1, TakeKeeps DEF P
<1> HIDE DEF H, t, an, on, ticks
<1>12. TickOK(t, wait["tick"], since, ticks)
  BY <1>7, <1>11, TickKept
<1>13. ReceivesOK'
  BY <1>1, <1>6, <1>7, <1>11, ReceivesKept
<1>14. OrderOK(queue', ask', older') /\ TickOK(queue', wait'["tick"], since', ticks)
       /\ TimersOK(wait', expired', ticks)
  BY <1>1, <1>7, <1>8, <1>12
<1> QED BY <1>6, <1>9, <1>10, <1>13, <1>14, AliveNext

\* A request is made when none is pending and the controller's wait, if there is
\* one, is longer than the request's.
LEMMA BindingRequestOrder ==
    ASSUME NEW S, NEW q \in Seq(S), NEW e \in Seq(Timer), NEW w, NEW ticks \in BOOLEAN,
           DOMAIN w = Timer, AsksOK(q, ask, w), older \in [Ask -> SUBSET Ask],
           binding_request(w), TimersOK(w, e, ticks), OrderOK(q, ask, older),
           \A x \in Ask : ask[x] # "pending", "tick" \notin ToSet(e),
           ticks => w["tick"] # NoWait /\ w["tick"].left > BindTimeout
    PROVE  /\ TimersOK(wait', e, ticks) /\ wait'["tick"] = w["tick"]
           /\ OrderOK(q, ask', older')
<1>1. CASE wait' = w /\ UNCHANGED <<ask, older>>
  BY <1>1
<1>2. ASSUME NEW s \in Ask, NewAsk(s),
             wait' = expires_from_now(w, s, "on_timeout", BindTimeout)
      PROVE  /\ TimersOK(wait', e, ticks) /\ wait'["tick"] = w["tick"]
             /\ OrderOK(q, ask', older')
  <2> DEFINE wn == expires_from_now(w, s, "on_timeout", BindTimeout)
  <2>1. s \in Timer /\ Ask \subseteq Timer /\ s # "tick" /\ "tick" \in Timer
    BY DEF Timer, Ask
  <2>2. wn[s] = [left |-> BindTimeout, h |-> "on_timeout"]
        /\ \A t \in Timer : t # s => wn[t] = w[t]
    BY <2>1 DEF expires_from_now
  <2> HIDE DEF wn
  <2>3. BindTimeout \in Nat
    BY NodeAssumption
  <2>4. Before(e, {s}, {"tick"})
    <3> DEFINE P == {s}
               R == {"tick"}
    <3>1. ToSet(e) \cap R = {}
      OBVIOUS
    <3> HIDE DEF P, R
    <3>2. Before(e, P, R)
      BY <3>1, NoneBefore
    <3> QED BY <3>2 DEF P, R
  <2>5. ASSUME NEW x \in Ask, wn[x] # NoWait
        PROVE  wn[x].left <= BindTimeout /\ (ticks => Sooner(x, wn, e))
    <3>1. wn["tick"] = w["tick"]
      BY <2>1, <2>2
    <3>2. CASE x = s
      BY <2>2, <2>3, <2>4, <3>1, <3>2 DEF Sooner
    <3>3. CASE x # s
      BY <2>1, <2>2, <2>5, <3>1, <3>3 DEF TimersOK, Sooner
    <3> QED BY <3>2, <3>3
  <2>6. TimersOK(wn, e, ticks)
    BY <2>5 DEF TimersOK
  <2>7. ask[s] = "free" /\ ask' = [ask EXCEPT ![s] = "pending"]
        /\ older' = [older EXCEPT ![s] = {x \in Ask : ask[x] # "free"}]
    BY <1>2 DEF NewAsk
  <2>8. ask \in [Ask -> AskState] /\ DOMAIN older = Ask
        /\ ToSet(q) \cap OnTimeout(s) = {} /\ ToSet(q) \cap Results(s) = {}
    BY <2>7 DEF AsksOK, AskOK
  <2>9. OrderOK(q, ask', older')
    BY <2>7, <2>8, OrderNew
  <2> QED BY <1>2, <2>1, <2>2, <2>6, <2>9 DEF wn
<1> QED BY <1>1, <1>2 DEF binding_request

-----------------------------------------------------------------------------
(* The controller's timer, on a node that was started once *)

\* Without a wait of the controller's timer, that it is armed posts nothing.
LEMMA ArmTick ==
    ASSUME NodeInv, NEW S, NEW q \in Seq(S), wait["tick"] = NoWait, Cancel("tick", q)
    PROVE  /\ queue' = q /\ expired' = expired /\ expired \in Seq(Timer)
           /\ "tick" \notin ToSet(expired) /\ DOMAIN call_tick(wait) = Timer
           /\ call_tick(wait)["tick"] = [left |-> TickTime, h |-> "tick"]
           /\ call_tick(wait)["tick"] # NoWait
           /\ \A s \in Ask : call_tick(wait)[s] = wait[s]
<1>1. WaitOK(wait) /\ ExpiredOK(expired, wait)
  BY ParametersOf
<1>2. "tick" \in Timer /\ "tick" \notin Ask /\ Ask \subseteq Timer
  BY DEF Timer, Ask
<1>3. "tick" \notin ToSet(expired) /\ expired \in Seq(Timer)
  BY <1>1, <1>2 DEF ExpiredOK
<1>4. expired' = expired
  BY <1>3 DEF Cancel, Without
<1>5. q \o <<>> = q
  BY ConcatEmptySeq
<1>6. queue' = q
  BY <1>5 DEF Cancel
<1>7. /\ DOMAIN call_tick(wait) = Timer
      /\ call_tick(wait)["tick"] = [left |-> TickTime, h |-> "tick"]
      /\ \A s \in Ask : call_tick(wait)[s] = wait[s]
  BY <1>1, <1>2 DEF call_tick, expires_from_now, WaitOK
<1> QED BY <1>3, <1>4, <1>6, <1>7 DEF NoWait

\* When its handler runs no request is pending: the timer of each ran out before.
LEMMA TickAlive ==
    ASSUME NodeInv, Alive, tick
    PROVE  Alive'
<1> DEFINE H == Handlers(Len(from))
           t == Tail(queue)
           w == call_tick(wait)
           ticks == Ticks
           wn == wait'
<1>1. /\ Running("tick") /\ binding_request(w) /\ Cancel("tick", t) /\ since' = 0
      /\ UNCHANGED <<from, sock, recv_buff, handled, receiving, daemon, overtaken>>
  BY DEF tick, udpRest, datagrams, life, endpoint
<1>2. /\ queue # <<>> /\ Head(queue) = TickHandler /\ TickHandler \in ToSet(queue)
      /\ AsksOK(t, ask, wait)
  BY <1>1, RunningHandler, HandlerKinds DEF Running, TickHandler
<1>3. /\ queue \in Seq(H) /\ ask \in [Ask -> AskState] /\ older \in [Ask -> SUBSET Ask]
      /\ \A s \in Ask : AskOK(s, queue, ask[s], wait[s])
  BY DatagramFacts, ParametersOf DEF AsksOK, RestOK
<1>4. t \in Seq(H)
  BY <1>2, <1>3, TakeEntries
<1>5. ticks \in BOOLEAN /\ Ticks' = ticks /\ OneStart' /\ NotStarted' = NotStarted
      /\ BeforeBind' = BeforeBind
  BY <1>1, StageFacts, SameStart DEF Alive
<1>6. /\ TickOK(queue, wait["tick"], since, ticks) /\ TimersOK(wait, expired, ticks)
      /\ OrderOK(queue, ask, older) /\ ReceivesOK /\ overtaken = {}
  BY DEF Alive, RequestsOK
<1>7. ticks /\ wait["tick"] = NoWait
  BY <1>2, <1>6 DEF TickOK
<1>8. ~BeforeBind'
  BY <1>5, <1>7 DEF Ticks, BeforeBind
<1> HIDE DEF ticks, t, H, wn
<1>9. \A s \in Ask : wait[s] = NoWait
  BY <1>6, <1>7 DEF TimersOK, Sooner
<1>10. \A s \in Ask : ask[s] # "pending"
  <2> SUFFICES ASSUME NEW s \in Ask, ask[s] = "pending" PROVE FALSE
    OBVIOUS
  <2>1. OnTimeout(s) \subseteq ToSet(queue)
    BY <1>3, <1>9 DEF AskOK
  <2>2. Before(queue, OnTimeout(s), {TickHandler}) /\ Head(queue) \in {TickHandler}
    BY <1>2, <1>6 DEF OrderOK
  <2> DEFINE R == {TickHandler}
  <2> HIDE DEF R
  <2>3. ToSet(queue) \cap OnTimeout(s) = {}
    BY <1>2, <1>3, <2>2, FirstBefore DEF R
  <2> QED BY <2>1, <2>3 DEF OnTimeout
<1>11. /\ queue' = t /\ expired' = expired /\ expired \in Seq(Timer)
       /\ "tick" \notin ToSet(expired) /\ DOMAIN w = Timer
       /\ w["tick"] = [left |-> TickTime, h |-> "tick"] /\ w["tick"] # NoWait
       /\ \A s \in Ask : w[s] = wait[s]
  BY <1>1, <1>4, <1>7, ArmTick
<1> HIDE DEF w
<1>12. TickTime \in Nat /\ BindTimeout \in Nat /\ BindTimeout < TickTime
  BY NodeAssumption
<1>13. OrderOK(t, ask, older)
  <2>1. \A s \in Ask : Head(queue) \notin Results(s)
    BY <1>2, RequestSets
  <2> QED BY <1>2, <1>3, <1>6, <2>1, OrderTake DEF t
<1>14. AsksOK(t, ask, w)
  BY <1>2, <1>11 DEF AsksOK
<1>15. TimersOK(w, expired, ticks)
  BY <1>9, <1>11 DEF TimersOK
<1>16. ticks => w["tick"] # NoWait /\ w["tick"].left > BindTimeout
  BY <1>11, <1>12
<1>17. /\ TimersOK(wn, expired, ticks) /\ wn["tick"] = w["tick"] /\ OrderOK(t, ask', older')
  BY <1>1, <1>3, <1>4, <1>5, <1>10, <1>11, <1>13, <1>14, <1>15, <1>16, BindingRequestOrder DEF wn
<1>18. TickHandler \notin ToSet(t) /\ AtMostOne(t, {TickHandler})
  <2> DEFINE P == {TickHandler}
  <2>1. AtMostOne(queue, P) /\ Head(queue) \in P
    BY <1>2, <1>6 DEF TickOK
  <2> HIDE DEF P
  <2>2. AtMostOne(t, P) /\ ToSet(t) \cap P = {}
    BY <1>2, <1>3, <2>1, TakeOne DEF t
  <2> QED BY <2>2 DEF P
<1>19. TickOK(t, wn["tick"], 0, ticks)
  BY <1>7, <1>11, <1>12, <1>17, <1>18 DEF TickOK
<1>20. Keeps(queue, t, OfDatagrams)
  <2>1. Head(queue) \notin OfDatagrams
    BY <1>2, DatagramKinds DEF TickHandler
  <2> QED BY <1>2, <1>3, <2>1, TakeKeeps DEF t
<1>21. ReceivesOK'
  BY <1>1, <1>5, <1>6, <1>11, <1>20, ReceivesKept
<1>22. /\ TickOK(queue', wait'["tick"], since', ticks) /\ TimersOK(wait', expired', ticks)
       /\ OrderOK(queue', ask', older') /\ overtaken' = {}
  BY <1>1, <1>6, <1>11, <1>17, <1>19 DEF wn
<1> QED BY <1>5, <1>8, <1>21, <1>22, AliveNext

-----------------------------------------------------------------------------
(* start and stop, on a node that was started once *)

LEMMA StartAlive ==
    ASSUME NodeInv, Alive, ~stopped, ~Overlap, NEW i \in Start, start(i)
    PROVE  Alive'
<1> DEFINE ticks == Ticks
<1>1. Step(i, "none", "dht") /\ receiving' = receiving + 1 /\ "dht" \in Stage
      /\ UNCHANGED <<queue, wait, expired, ask, older, from, sock, recv_buff, handled, since,
                     overtaken>>
  BY DEF start, Step, datagrams, clock, endpoint, timers, call_receiver, Stage
<1>2. OneStart
  BY DEF Alive
<1>3. /\ OneStart' /\ NotStarted /\ (NotStarted' <=> "dht" = "none")
      /\ Ticks <=> "none" \in {"run", "in run"}
      /\ BeforeBind <=> "none" \in {"none", "dht", "bind"}
      /\ Ticks' <=> "dht" \in {"run", "in run"}
  BY <1>1, <1>2, OnlyStart
<1>4. receiving = 0 /\ ToSet(queue) \cap Receives = {}
      /\ DatagramsOK(queue, receiving, recv_buff, Len(handled))
  BY <1>3 DEF Alive, ReceivesOK
<1>5. DatagramsOK(queue, 1, recv_buff, Len(handled)) /\ receiving' = 1
  BY <1>1, <1>4 DEF DatagramsOK
<1>6. ReceivesOK'
  BY <1>1, <1>3, <1>5 DEF Alive, ReceivesOK, BufferOK
<1>7. ticks \in BOOLEAN /\ Ticks' = ticks
  BY <1>3, StageFacts
<1>8. /\ TickOK(queue, wait["tick"], since, ticks) /\ TimersOK(wait, expired, ticks)
      /\ OrderOK(queue, ask, older) /\ overtaken = {} /\ \A x \in Ask : ask[x] = "free"
  BY <1>3 DEF Alive, RequestsOK
<1> HIDE DEF ticks
<1>9. /\ TickOK(queue', wait'["tick"], since', ticks) /\ TimersOK(wait', expired', ticks)
      /\ OrderOK(queue', ask', older') /\ overtaken' = {} /\ \A x \in Ask : ask'[x] = "free"
  BY <1>1, <1>8
<1> QED BY <1>3, <1>6, <1>7, <1>9, AliveNext

\* No request has been made before the first.
LEMMA StartBindingAlive ==
    ASSUME NodeInv, Alive, ~stopped, ~Overlap, NEW i \in Start, start_binding_request(i)
    PROVE  Alive'
<1> DEFINE ticks == Ticks
           wn == wait'
<1>1. Step(i, "bind", "pool") /\ binding_request(wait) /\ "pool" \in Stage
      /\ UNCHANGED <<queue, expired, receiving, from, sock, recv_buff, handled, since, overtaken>>
  BY DEF start_binding_request, Step, datagrams, clock, endpoint, Stage
<1>2. OneStart /\ "bind" # "none"
  BY DEF Alive
<1>3. /\ OneStart' /\ (NotStarted' <=> "pool" = "none")
      /\ Ticks <=> "bind" \in {"run", "in run"}
      /\ BeforeBind <=> "bind" \in {"none", "dht", "bind"}
      /\ Ticks' <=> "pool" \in {"run", "in run"}
      /\ BeforeBind' <=> "pool" \in {"none", "dht", "bind"}
  BY <1>1, <1>2, OnlyStart
<1>4. ticks = FALSE /\ Ticks' = ticks /\ ~BeforeBind' /\ ~NotStarted'
  BY <1>3, StageFacts
<1>5. /\ TickOK(queue, wait["tick"], since, ticks) /\ TimersOK(wait, expired, ticks)
      /\ OrderOK(queue, ask, older) /\ overtaken = {} /\ \A x \in Ask : ask[x] = "free"
  BY <1>3 DEF Alive, RequestsOK
<1>6. WaitOK(wait) /\ ExpiredOK(expired, wait) /\ AsksOK(queue, ask, wait)
      /\ older \in [Ask -> SUBSET Ask] /\ queue \in Seq(Handlers(Len(from)))
  BY ParametersOf DEF RestOK, QueueOK
<1> HIDE DEF ticks
<1>7. wait["tick"] = NoWait
  BY <1>4, <1>5 DEF TickOK
<1>8. "tick" \notin ToSet(expired) /\ expired \in Seq(Timer)
  BY <1>6, <1>7 DEF ExpiredOK, Timer
<1>9. DOMAIN wait = Timer /\ (\A x \in Ask : ask[x] # "pending") /\ ticks \in BOOLEAN
      /\ (ticks => wait["tick"] # NoWait /\ wait["tick"].left > BindTimeout)
  BY <1>4, <1>5, <1>6 DEF WaitOK
<1> HIDE DEF wn
<1>10. TimersOK(wn, expired, ticks) /\ wn["tick"] = wait["tick"] /\ OrderOK(queue, ask', older')
  BY <1>1, <1>5, <1>6, <1>8, <1>9, BindingRequestOrder DEF wn
<1>11. ReceivesOK'
  BY <1>1, <1>4 DEF Alive, ReceivesOK, BufferOK, DatagramsOK
<1>12. /\ TickOK(queue', wait'["tick"], since', ticks) /\ TimersOK(wait', expired', ticks)
       /\ OrderOK(queue', ask', older') /\ overtaken' = {}
  BY <1>1, <1>5, <1>10 DEF wn
<1> QED BY <1>3, <1>4, <1>9, <1>11, <1>12, AliveNext

\* The first wait of the controller's timer is longer than any request's.
LEMMA StartTickAlive ==
    ASSUME NodeInv, Alive, ~stopped, ~Overlap, NEW i \in Start, start_tick(i)
    PROVE  Alive'
<1> DEFINE ticks == TRUE
           w == call_tick(wait)
<1>1. Step(i, "tick", "run") /\ wait' = w /\ Cancel("tick", queue) /\ "run" \in Stage
      /\ UNCHANGED <<receiving, from, sock, recv_buff, handled, since, overtaken, ask, older>>
  BY DEF start_tick, Step, datagrams, clock, endpoint, Stage
<1>2. OneStart /\ "tick" # "none"
  BY DEF Alive
<1>3. /\ OneStart' /\ (NotStarted' <=> "run" = "none")
      /\ Ticks <=> "tick" \in {"run", "in run"}
      /\ Ticks' <=> "run" \in {"run", "in run"}
      /\ BeforeBind' <=> "run" \in {"none", "dht", "bind"}
  BY <1>1, <1>2, OnlyStart
<1>4. Ticks = FALSE /\ Ticks' = TRUE /\ ~BeforeBind' /\ ~NotStarted'
  BY <1>3, StageFacts
<1>5. /\ TickOK(queue, wait["tick"], since, FALSE) /\ TimersOK(wait, expired, FALSE)
      /\ OrderOK(queue, ask, older) /\ overtaken = {}
  BY <1>4 DEF Alive, RequestsOK
<1>6. wait["tick"] = NoWait /\ TickHandler \notin ToSet(queue) /\ AtMostOne(queue, {TickHandler})
  BY <1>5 DEF TickOK
<1>7. queue \in Seq(Handlers(Len(from)))
  BY DatagramFacts
<1>8. /\ queue' = queue /\ expired' = expired /\ expired \in Seq(Timer)
      /\ "tick" \notin ToSet(expired)
      /\ w["tick"] = [left |-> TickTime, h |-> "tick"] /\ w["tick"] # NoWait
      /\ \A s \in Ask : w[s] = wait[s]
  BY <1>1, <1>6, <1>7, ArmTick
<1>9. TickTime \in Nat /\ BindTimeout \in Nat /\ BindTimeout < TickTime /\ since \in Nat
  BY NodeAssumption, ParametersOf DEF RestOK
<1> HIDE DEF w
<1>10. TickOK(queue, w["tick"], since, ticks)
  BY <1>6, <1>8, <1>9 DEF TickOK
<1>11. ASSUME NEW s \in Ask, w[s] # NoWait
       PROVE  w[s].left <= BindTimeout /\ Sooner(s, w, expired)
  <2>1. wait[s].left <= BindTimeout /\ w[s] = wait[s] /\ wait[s].left \in Nat
    <3>1. s \in Timer /\ w[s] = wait[s] /\ wait[s] # NoWait
      BY <1>8, <1>11 DEF Timer
    <3>2. wait[s].left \in 0 .. Longest
      BY <3>1, ParametersOf DEF WaitOK
    <3> QED BY <1>5, <3>1, <3>2, LongestTimes DEF TimersOK
  <2> DEFINE P == {s}
             R == {"tick"}
  <2>2. ToSet(expired) \cap R = {}
    BY <1>8
  <2> HIDE DEF P, R
  <2>3. Before(expired, P, R)
    BY <1>8, <2>2, NoneBefore
  <2> QED BY <1>8, <1>9, <2>1, <2>3 DEF Sooner, P, R
<1>12. TimersOK(w, expired, ticks)
  BY <1>11 DEF TimersOK
<1>13. ReceivesOK'
  BY <1>1, <1>4, <1>8 DEF Alive, ReceivesOK, BufferOK, DatagramsOK
<1>14. /\ TickOK(queue', wait'["tick"], since', ticks) /\ TimersOK(wait', expired', ticks)
       /\ OrderOK(queue', ask', older') /\ overtaken' = {}
  BY <1>1, <1>5, <1>8, <1>10, <1>12
<1> QED BY <1>3, <1>4, <1>13, <1>14, AliveNext

\* The outstanding receive, if there is one, is cancelled.
LEMMA StopUdpAlive ==
    ASSUME NodeInv, Alive, stop_udp_server
    PROVE  Alive'
<1> DEFINE H == Handlers(Len(from))
           rb == recv_buff
           lo == Len(handled)
           ticks == Ticks
<1>1. /\ queue' = queue \o Cancelled /\ receiving' = 0
      /\ UNCHANGED <<from, sock, recv_buff, handled, daemon, wait, expired, since, ask, older,
                     overtaken>>
  BY DEF stop_udp_server, cancel, datagrams, timers, clock, asking, endpoint
<1>2. queue \in Seq(H)
  BY DatagramFacts
<1>3. DatagramsOK(queue, receiving, rb, lo) /\ (NotStarted => receiving = 0)
  BY DEF Alive, ReceivesOK
<1>4. /\ ticks \in BOOLEAN /\ Ticks' = ticks /\ OneStart' /\ BeforeBind' = BeforeBind
      /\ NotStarted' = NotStarted
  BY <1>1, StageFacts, SameStart DEF Alive
<1>5. /\ TickOK(queue, wait["tick"], since, ticks) /\ TimersOK(wait, expired, ticks)
      /\ OrderOK(queue, ask, older) /\ overtaken = {}
      /\ (BeforeBind => \A x \in Ask : ask[x] = "free")
  BY DEF Alive, RequestsOK
<1> HIDE DEF H, ticks
<1>6. ReceivesOK' /\ Keeps(queue, queue', OfRequests)
  <2>1. CASE receiving = 0
    <3>1. Cancelled = <<>>
      BY <2>1 DEF Cancelled
    <3>2. queue \o <<>> = queue
      BY <1>2, ConcatEmptySeq
    <3>3. queue' = queue /\ receiving' = receiving
      BY <1>1, <2>1, <3>1, <3>2
    <3> QED BY <1>1, <1>4, <3>3, KeepsSelf DEF Alive, ReceivesOK, BufferOK
  <2>2. CASE receiving = 1
    <3> DEFINE r == <<Error>>
    <3>1. Cancelled = r
      BY <2>2 DEF Cancelled, Error
    <3>2. Error \in H /\ Error \notin OfRequests
      BY HandlerTypes, DatagramKinds DEF Error, H
    <3>3. DatagramsOK(queue \o <<Error>>, 0, rb, lo)
      <4> HIDE DEF rb, lo
      <4> QED BY <1>2, <1>3, <2>2, <3>2, ErrorPosted
    <3>4. r \in Seq(H) /\ ToSet(r) = {Error}
      BY <3>2, TupleInSeq
    <3>5. ReceivesOK'
      BY <1>1, <1>3, <1>4, <2>2, <3>1, <3>3 DEF Alive, ReceivesOK, BufferOK
    <3> HIDE DEF r
    <3>6. Keeps(queue, queue', OfRequests)
      BY <1>1, <1>2, <3>1, <3>2, <3>4, PostKeeps
    <3> QED BY <3>5, <3>6
  <2> QED BY <1>3, <2>1, <2>2 DEF DatagramsOK
<1>7. OrderOK(queue', ask, older)
  BY <1>5, <1>6, OrderKept
<1>8. TickOK(queue', wait["tick"], since, ticks)
  <2>1. {TickHandler} \in SUBSET OfRequests
    BY DEF OfRequests
  <2>2. Keeps(queue, queue', {TickHandler})
    BY <1>6, <2>1, KeepsLess
  <2> QED BY <1>5, <2>2, TickKept
<1>9. /\ TickOK(queue', wait'["tick"], since', ticks) /\ TimersOK(wait', expired', ticks)
      /\ OrderOK(queue', ask', older') /\ overtaken' = {}
      /\ (BeforeBind' => \A x \in Ask : ask'[x] = "free")
  BY <1>1, <1>4, <1>5, <1>7, <1>8
<1> QED BY <1>4, <1>6, <1>9, AliveNext

-----------------------------------------------------------------------------
(* Time, on a node that was started once *)

\* The time left of a wait and the time since the last tick go together, and a
\* request's timer stays ahead of the controller's.
LEMMA ElapseAlive ==
    ASSUME NodeInv, Alive, Elapse
    PROVE  Alive'
<1> DEFINE wn == wait'
           en == expired'
           ticks == Ticks
<1>1. UNCHANGED <<queue, from, sock, recv_buff, receiving, handled, daemon, ask, older,
                  overtaken>>
  BY DEF Elapse, vars, life, asking, endpoint
<1>2. PICK r \in Seq(Timer) :
         /\ en = expired \o r
         /\ ToSet(r) = {t \in Timer : wait[t] # NoWait /\ wait[t].left = 1}
  BY ElapseTimes
<1>3. /\ \A t \in Timer :
            /\ wait[t] = NoWait => wn[t] = NoWait
            /\ wait[t] # NoWait =>
                  /\ wait[t].left \in 0 .. Longest /\ wn[t] # NoWait
                  /\ wn[t].left = IF wait[t].left = 0 THEN 0 ELSE wait[t].left - 1
      /\ since' = IF since = TickTime THEN TickTime ELSE since + 1
  BY ElapseTimes
<1>4. ExpiredOK(expired, wait) /\ expired \in Seq(Timer) /\ since \in 0 .. TickTime
  BY ParametersOf DEF ExpiredOK, RestOK
<1>5. /\ ticks \in BOOLEAN /\ Ticks' = ticks /\ OneStart' /\ BeforeBind' = BeforeBind
      /\ NotStarted' = NotStarted
  BY <1>1, StageFacts, SameStart DEF Alive
<1>6. /\ TickOK(queue, wait["tick"], since, ticks) /\ TimersOK(wait, expired, ticks)
      /\ OrderOK(queue, ask, older) /\ overtaken = {}
      /\ (BeforeBind => \A x \in Ask : ask[x] = "free")
  BY DEF Alive, RequestsOK
<1>7. "tick" \in Timer /\ Ask \subseteq Timer /\ TickTime \in Nat /\ BindTimeout \in Nat
      /\ Longest \in Nat
  BY NodeAssumption, LongestTimes DEF Timer
<1> HIDE DEF wn, en, ticks
<1>8. TickOK(queue, wn["tick"], since', ticks)
  <2>1. wait["tick"] = NoWait <=> wn["tick"] = NoWait
    BY <1>3, <1>7
  <2>2. since = TickTime => since' = TickTime
    BY <1>3
  <2>3. wn["tick"] # NoWait => wn["tick"].left + since' >= TickTime
    <3> SUFFICES ASSUME wait["tick"] # NoWait PROVE wn["tick"].left + since' >= TickTime
      BY <2>1
    <3> DEFINE k == wait["tick"].left
               j == wn["tick"].left
               later == since'
    <3>1. /\ k \in 0 .. Longest /\ j = IF k = 0 THEN 0 ELSE k - 1
          /\ k + since >= TickTime
          /\ later = IF since = TickTime THEN TickTime ELSE since + 1
      BY <1>3, <1>6, <1>7 DEF TickOK
    <3> HIDE DEF j, k, later
    <3>2. j + later >= TickTime
      BY <1>4, <1>7, <3>1
    <3> QED BY <3>2 DEF j, later
  <2> QED BY <1>6, <2>1, <2>2, <2>3 DEF TickOK
<1>9. ASSUME NEW s \in Ask, wn[s] # NoWait
      PROVE  wn[s].left <= BindTimeout /\ (ticks => Sooner(s, wn, en))
  <2> DEFINE k == wait[s].left
             j == wn[s].left
             kt == wait["tick"].left
             jt == wn["tick"].left
  <2>1. s \in Timer /\ wait[s] # NoWait
    BY <1>3, <1>7, <1>9
  <2>2. k \in 0 .. Longest /\ (j = IF k = 0 THEN 0 ELSE k - 1) /\ k <= BindTimeout
    BY <1>3, <1>6, <2>1 DEF TimersOK
  <2>3. j <= BindTimeout
    <3> HIDE DEF j, k
    <3> QED BY <1>7, <2>2
  <2>4. ASSUME ticks PROVE Sooner(s, wn, en)
    <3>1. /\ wait["tick"] # NoWait /\ (k < kt \/ (k = 0 /\ kt = 0))
          /\ Before(expired, {s}, {"tick"})
      BY <1>6, <2>1, <2>4 DEF TimersOK, Sooner
    <3>2. kt \in 0 .. Longest /\ (jt = IF kt = 0 THEN 0 ELSE kt - 1) /\ wn["tick"] # NoWait
      BY <1>3, <1>7, <3>1
    <3> HIDE DEF j, k, jt, kt
    <3>3. j < jt \/ (j = 0 /\ jt = 0)
      BY <1>7, <2>2, <3>1, <3>2
    <3>4. kt \in {0, 1} => k = 0
      BY <1>7, <2>2, <3>1, <3>2
    <3>5. "tick" \in ToSet(en) => kt \in {0, 1}
      <4>1. ToSet(en) = ToSet(expired) \cup ToSet(r)
        BY <1>2, <1>4, PostManyEntries
      <4>2. "tick" \in ToSet(expired) => kt = 0
        BY <1>4, <1>7 DEF ExpiredOK, kt
      <4>3. "tick" \in ToSet(r) => kt = 1
        BY <1>2 DEF kt
      <4> QED BY <4>1, <4>2, <4>3
    <3>6. Before(en, {s}, {"tick"})
      <4> DEFINE P == {s}
                 R == {"tick"}
      <4>1. ASSUME kt \in {0, 1} PROVE Before(en, P, R)
        <5>1. s \notin ToSet(r)
          BY <1>2, <3>4, <4>1 DEF k
        <5>2. ToSet(r) \cap P = {} /\ Before(expired, P, R)
          BY <3>1, <5>1
        <5> HIDE DEF P, R
        <5> QED BY <1>2, <1>4, <5>2, PostBefore
      <4>2. ASSUME kt \notin {0, 1} PROVE Before(en, P, R)
        <5>1. ToSet(en) \cap R = {} /\ en \in Seq(Timer)
          BY <1>2, <1>4, <3>5, <4>2, PostManyEntries
        <5> HIDE DEF P, R
        <5> QED BY <5>1, NoneBefore
      <4> QED BY <4>1, <4>2
    <3> QED BY <3>2, <3>3, <3>6 DEF Sooner, j, jt
  <2> QED BY <2>3, <2>4
<1>10. TimersOK(wn, en, ticks)
  BY <1>9 DEF TimersOK
<1>11. ReceivesOK'
  BY <1>1, <1>5 DEF Alive, ReceivesOK, BufferOK, DatagramsOK
<1>12. /\ TickOK(queue', wait'["tick"], since', ticks) /\ TimersOK(wait', expired', ticks)
       /\ OrderOK(queue', ask', older') /\ overtaken' = {}
       /\ (BeforeBind' => \A x \in Ask : ask'[x] = "free")
  BY <1>1, <1>5, <1>6, <1>8, <1>10 DEF wn, en
<1> QED BY <1>5, <1>11, <1>12, AliveNext

\* A request's handler is ready before the controller's: its timer expired first,
\* or the controller's handler would be ready already and no request has a wait.
LEMMA TimersReadyAlive ==
    ASSUME NodeInv, Alive, TimersReady
    PROVE  Alive'
<1> DEFINE H == Handlers(Len(from))
           wn == wait'
           ticks == Ticks
           T == {TickHandler}
<1>1. /\ expired' = <<>>
      /\ UNCHANGED <<from, sock, recv_buff, receiving, handled, daemon, ask, older, overtaken,
                     since>>
  BY DEF TimersReady, udpRest, datagrams, life, asking, endpoint, clock
<1>2. PICK r \in Seq(H) :
         /\ queue' = queue \o r /\ Len(r) = Len(expired)
         /\ \A i \in 1 .. Len(expired) : /\ expired[i] \in ToSet(expired)
                                         /\ r[i] = TimerHandler(expired[i])
         /\ ToSet(r) = {TimerHandler(t) : t \in ToSet(expired)}
  BY ExpiredPosted
<1>3. /\ \A t \in Timer : wn[t] = IF t \in ToSet(expired) THEN NoWait ELSE wait[t]
      /\ \A t \in ToSet(expired) :
            /\ wait[t] # NoWait /\ TimerHandler(t).h \in Task(t) /\ TimerHandler(t).of = t
            /\ \A s \in Ask : TimerHandler(t) \notin Results(s)
            /\ \A s \in Ask : TimerHandler(t) \in OnTimeout(s) => t = s
  BY ExpiredPosted
<1>4. /\ expired \in Seq(Timer) /\ Len(expired) \in Nat /\ ToSet(expired) \subseteq Timer
      /\ DOMAIN expired = 1 .. Len(expired) /\ DOMAIN r = 1 .. Len(expired)
      /\ \A x \in Timer : AtMostOne(expired, {x})
      /\ \A t \in Timer : t \in ToSet(expired) <=> wait[t] # NoWait /\ wait[t].left = 0
      /\ queue \in Seq(H) /\ \A s \in Ask : AskOK(s, queue, ask[s], wait[s])
      /\ since \in 0 .. TickTime
  <2>1. expired \in Seq(Timer) /\ ExpiredOK(expired, wait) /\ AsksOK(queue, ask, wait)
        /\ since \in 0 .. TickTime
    BY ParametersOf DEF ExpiredOK, RestOK
  <2>2. Len(expired) \in Nat /\ ToSet(expired) \subseteq Timer
        /\ DOMAIN expired = 1 .. Len(expired) /\ DOMAIN r = 1 .. Len(expired)
    BY <1>2, <2>1, Entries
  <2> QED BY <2>1, <2>2, DatagramFacts DEF ExpiredOK, AsksOK
<1>5. /\ ticks \in BOOLEAN /\ Ticks' = ticks /\ OneStart' /\ BeforeBind' = BeforeBind
      /\ NotStarted' = NotStarted
  BY <1>1, StageFacts, SameStart DEF Alive
<1>6. /\ TickOK(queue, wait["tick"], since, ticks) /\ TimersOK(wait, expired, ticks)
      /\ OrderOK(queue, ask, older) /\ overtaken = {} /\ ReceivesOK
      /\ (BeforeBind => \A x \in Ask : ask[x] = "free")
  BY DEF Alive, RequestsOK
<1>7. "tick" \in Timer /\ Ask \subseteq Timer /\ TickTime \in Nat
  BY NodeAssumption DEF Timer
<1> HIDE DEF H, wn, ticks
<1>8. \A t \in ToSet(expired) : TimerHandler(t) = TickHandler <=> t = "tick"
  <2>1. TickHandler.of = "tick" /\ Task("tick") = {"tick"}
    BY Tasks DEF TickHandler
  <2>2. "tick" \in ToSet(expired) => TimerHandler("tick") = TickHandler
    BY <1>3, <2>1 DEF TimerHandler, TickHandler
  <2> QED BY <1>3, <2>1, <2>2
<1>9. TickHandler \in ToSet(r) <=> "tick" \in ToSet(expired)
  BY <1>2, <1>8
<1>10. ToSet(r) \cap OfDatagrams = {} /\ \A s \in Ask : ToSet(r) \cap Results(s) = {}
  <2>1. ASSUME NEW t \in ToSet(expired) PROVE TimerHandler(t) \notin OfDatagrams
    <3>1. TimerHandler(t).h \in Task(t) /\ t \in Timer
      BY <1>3, <1>4
    <3>2. TimerHandler(t).h \notin {"received", "error", "recv_handler"}
      BY <3>1, Tasks
    <3> QED BY <3>2, DatagramKinds
  <2> QED BY <1>2, <1>3, <2>1
<1> DEFINE qn == queue \o r
<1>11. qn \in Seq(H) /\ ToSet(qn) = ToSet(queue) \cup ToSet(r)
  BY <1>4, PostManyEntries
<1>12. TickHandler \in ToSet(queue) => "tick" \notin ToSet(expired)
  BY <1>3, <1>6 DEF TickOK
<1>13. AtMostOne(qn, T)
  <2>1. AtMostOne(r, T)
    <3> SUFFICES ASSUME NEW i \in 1 .. Len(expired), NEW j \in 1 .. Len(expired),
                        r[i] \in T, r[j] \in T
                 PROVE  i = j
      BY <1>4 DEF AtMostOne
    <3>1. expired[i] = "tick" /\ expired[j] = "tick"
      BY <1>2, <1>8
    <3> QED BY <1>4, <1>7, <3>1 DEF AtMostOne
  <2>2. AtMostOne(queue, T) /\ (ToSet(queue) \cap T = {} \/ ToSet(r) \cap T = {})
    BY <1>6, <1>9, <1>12 DEF TickOK
  <2> HIDE DEF T
  <2> QED BY <1>4, <2>1, <2>2, PostOne
<1> HIDE DEF qn, T
<1>14. TickOK(qn, wn["tick"], since, ticks)
  <2>1. ASSUME TickHandler \in ToSet(qn) PROVE wn["tick"] = NoWait /\ since = TickTime
    <3>1. CASE TickHandler \in ToSet(queue)
      BY <1>3, <1>6, <1>7, <3>1 DEF TickOK
    <3>2. CASE TickHandler \in ToSet(r)
      <4>1. wait["tick"] # NoWait /\ wait["tick"].left = 0 /\ wn["tick"] = NoWait
        BY <1>3, <1>4, <1>7, <1>9, <3>2
      <4> QED BY <1>4, <1>6, <1>7, <4>1 DEF TickOK
    <3> QED BY <1>11, <2>1, <3>1, <3>2
  <2>2. wn["tick"] # NoWait => wn["tick"] = wait["tick"]
    BY <1>3, <1>7
  <2>3. ~ticks => wn["tick"] = NoWait /\ TickHandler \notin ToSet(qn)
    BY <1>3, <1>6, <1>7, <1>9, <1>11 DEF TickOK
  <2> QED BY <1>6, <1>13, <2>1, <2>2, <2>3 DEF TickOK, T
<1>15. TimersOK(wn, <<>>, ticks)
  <2>1. Before(<<>>, {}, {}) /\ \A P, R : Before(<<>>, P, R)
    BY DEF Before
  <2> SUFFICES ASSUME NEW s \in Ask, wn[s] # NoWait
               PROVE  wn[s].left <= BindTimeout /\ (ticks => Sooner(s, wn, <<>>))
    BY DEF TimersOK
  <2>2. wn[s] = wait[s] /\ wait[s] # NoWait /\ wait[s].left # 0
    BY <1>3, <1>4, <1>7
  <2>3. wait[s].left <= BindTimeout /\ (ticks => Sooner(s, wait, expired))
    BY <1>6, <2>2 DEF TimersOK
  <2>4. ASSUME ticks PROVE Sooner(s, wn, <<>>)
    <3>1. wait["tick"] # NoWait /\ wait[s].left < wait["tick"].left
      BY <2>2, <2>3, <2>4 DEF Sooner
    <3>2. wait[s].left \in 0 .. Longest
      BY <1>7, <2>2, ParametersOf DEF WaitOK
    <3>3. wait["tick"].left # 0
      BY <3>1, <3>2, LongestTimes
    <3>4. wn["tick"] = wait["tick"]
      BY <1>3, <1>4, <1>7, <3>3
    <3> QED BY <2>1, <2>2, <3>1, <3>4 DEF Sooner
  <2> QED BY <2>2, <2>3, <2>4
<1>16. ASSUME NEW s \in Ask, ask[s] = "pending"
       PROVE  Before(qn, OnTimeout(s), {TickHandler})
  <2>1. Before(queue, OnTimeout(s), T)
    BY <1>6, <1>16 DEF OrderOK, T
  <2>2. ASSUME TickHandler \in ToSet(queue) PROVE Before(qn, OnTimeout(s), T)
    <3>1. wait["tick"] = NoWait /\ ticks
      BY <1>6, <2>2 DEF TickOK
    <3>2. s \notin ToSet(expired)
      BY <1>3, <1>6, <3>1 DEF TimersOK, Sooner
    <3>3. ToSet(r) \cap OnTimeout(s) = {}
      BY <1>2, <1>3, <3>2
    <3> QED BY <1>4, <2>1, <3>3, PostBefore DEF qn
  <2>3. ASSUME TickHandler \notin ToSet(queue) PROVE Before(qn, OnTimeout(s), T)
    <3>1. ToSet(queue) \cap T = {}
      BY <2>3 DEF T
    <3>2. Before(r, OnTimeout(s), T)
      <4> SUFFICES ASSUME NEW i \in 1 .. Len(expired), NEW j \in 1 .. Len(expired),
                          r[i] \in OnTimeout(s), r[j] \in T
                   PROVE  i < j
        BY <1>4 DEF Before
      <4>1. expired[i] = s /\ expired[j] = "tick"
        BY <1>2, <1>3, <1>8 DEF T
      <4>2. s \in ToSet(expired) /\ "tick" \in ToSet(expired)
        BY <1>2, <4>1
      <4>3. wait["tick"] # NoWait /\ wait[s] # NoWait
        BY <1>3, <4>2
      <4>4. Sooner(s, wait, expired)
        BY <1>6, <4>3 DEF TickOK, TimersOK
      <4> QED BY <1>4, <4>1, <4>4 DEF Sooner, Before
    <3> QED BY <1>4, <3>1, <3>2, JoinBefore DEF qn
  <2> QED BY <2>2, <2>3 DEF T
<1>17. OrderOK(qn, ask, older)
  <2>1. \A s \in Ask : ask[s] = "posted" => ToSet(qn) \cap Results(s) # {}
    BY <1>6, <1>11 DEF OrderOK
  <2>2. \A s, x \in Ask : Before(queue, Results(s), Results(x)) => Before(qn, Results(s), Results(x))
    BY <1>4, <1>10, PostBefore DEF qn
  <2> QED BY <1>6, <1>16, <2>1, <2>2 DEF OrderOK
<1>18. ReceivesOK'
  <2>1. Keeps(queue, qn, OfDatagrams)
    BY <1>4, <1>10, PostKeeps DEF qn
  <2> QED BY <1>1, <1>2, <1>5, <1>6, <2>1, ReceivesKept DEF qn
<1>19. /\ TickOK(queue', wait'["tick"], since', ticks) /\ TimersOK(wait', expired', ticks)
       /\ OrderOK(queue', ask', older') /\ overtaken' = {}
       /\ (BeforeBind' => \A x \in Ask : ask'[x] = "free")
  BY <1>1, <1>2, <1>5, <1>6, <1>14, <1>15, <1>17 DEF wn, qn
<1> QED BY <1>5, <1>18, <1>19, AliveNext

-----------------------------------------------------------------------------
(* The invariant of a node that is not started again before it was stopped *)

LEMMA AliveInit == NodeInit => OneInv
<1> SUFFICES ASSUME NodeInit PROVE OneInv
  OBVIOUS
<1>0. DOMAIN <<>> = {}
  OBVIOUS
<1>1. ToSet(<<>>) = {} /\ DOMAIN <<>> = {} /\ Len(<<>>) = 0
  BY <1>0 DEF ToSet
<1>2. /\ from = <<>> /\ sock = <<>> /\ recv_buff = 0 /\ receiving = 0 /\ queue = <<>>
      /\ handled = <<>> /\ daemon = [i \in Start |-> "none"]
      /\ wait = [t \in Timer |-> NoWait] /\ expired = <<>>
      /\ ask = [s \in Ask |-> "free"] /\ older = [s \in Ask |-> {}]
      /\ overtaken = {} /\ glob_self_ep = "initial"
  BY DEF NodeInit
<1>3. HandledOK(from, handled)
  BY <1>1, <1>2 DEF HandledOK
<1>4. OneStart /\ NotStarted /\ ~Ticks
  BY <1>2 DEF OneStart, NotStarted, Ticks
<1>5. ReceivesOK
  <2>1. /\ AtMostOne(<<>>, Receives) /\ \A m \in Nat : AtMostOne(<<>>, {RecvHandler(m)})
        /\ \A m, k \in Nat : Before(<<>>, {RecvHandler(m)}, {RecvHandler(k)})
    BY DEF AtMostOne, Before
  <2>2. DatagramsOK(<<>>, 0, 0, 0)
    BY <1>1, <2>1 DEF DatagramsOK
  <2>3. BufferOK(<<>>, <<>>, 0)
    BY <1>1 DEF BufferOK
  <2> QED BY <1>1, <1>2, <2>2, <2>3 DEF ReceivesOK
<1>6. "tick" \in Timer /\ Ask \subseteq Timer
  BY DEF Timer
<1>7. TickOK(queue, wait["tick"], since, Ticks)
  <2>1. AtMostOne(<<>>, {TickHandler})
    BY DEF AtMostOne
  <2> QED BY <1>1, <1>2, <1>4, <1>6, <2>1 DEF TickOK
<1>8. RequestsOK
  <2>1. TimersOK(wait, expired, Ticks)
    BY <1>2, <1>6 DEF TimersOK
  <2>2. OrderOK(queue, ask, older)
    BY <1>2 DEF OrderOK
  <2> QED BY <1>2, <2>1, <2>2 DEF RequestsOK
<1> QED BY <1>2, <1>3, <1>4, <1>5, <1>7, <1>8 DEF OneInv, Alive

\* The handlers of the io_context run on a node that is not stopped.
LEMMA HistoryStep ==
    ASSUME NodeInv, OneInv, [NodeNext]_allVars
    PROVE  HandledOK(from', handled') /\ glob_self_ep' # "outdated"
<1>1. HandledOK(from, handled) /\ glob_self_ep # "outdated" /\ (~stopped => Alive)
  BY DEF OneInv
<1>2. CASE UNCHANGED <<from, handled, glob_self_ep>>
  BY <1>1, <1>2
<1>3. CASE \E p \in Peer : running /\ Arrives(p) /\ UNCHANGED nodeVars
  <2>1. PICK p \in Peer : Arrives(p) /\ UNCHANGED nodeVars
    BY <1>3
  <2>2. from' = Append(from, p) /\ handled' = handled /\ glob_self_ep' = glob_self_ep
    BY <2>1 DEF Arrives, nodeVars, asking, endpoint
  <2>3. from \in Seq(Peer) /\ Len(from) \in Nat /\ Len(handled) \in Nat
    BY DatagramFacts, ParametersOf DEF DataOK
  <2>4. Len(from') = Len(from) + 1
    BY <2>2, <2>3, AppendProperties
  <2> QED BY <1>1, <2>2, <2>3, <2>4 DEF HandledOK
<1>4. CASE income_message
  <2>1. Running("recv_handler")
    BY <1>4 DEF income_message, recv_handler
  <2>2. Alive
    BY <1>1, <2>1, RunningHandler
  <2>3. glob_self_ep' = glob_self_ep
    BY <1>4 DEF income_message, nodeVars, asking, endpoint
  <2> QED BY <1>1, <1>4, <2>2, <2>3, ReceivePacketAlive
<1>5. CASE result
  <2>1. Running("result") /\ UNCHANGED <<from, handled>>
    BY <1>5 DEF result, udpRest, datagrams
  <2>2. Alive
    BY <1>1, <2>1, RunningHandler
  <2> QED BY <1>1, <1>5, <2>1, <2>2, ResultAlive
<1>6. CASE UNCHANGED allVars
  BY <1>2, <1>6 DEF allVars, vars, nodeVars, asking, endpoint
<1>7. ASSUME (Socket \/ (ReceiveFails /\ UNCHANGED nodeVars) \/ Elapse \/ TimersReady
              \/ ((call_income_message_handler \/ receive_error) /\ UNCHANGED nodeVars))
      PROVE  UNCHANGED <<from, handled, glob_self_ep>>
  BY <1>7 DEF Socket, ReceiveCompletes, ReceiveFails, Elapse, TimersReady, vars, udpRest,
      datagrams, nodeVars, asking, endpoint, call_income_message_handler, receive_error
<1>8. ASSUME on_timeout \/ tick \/ refresh_tick \/ maintainer_tick \/ get_remote_nodes
             \/ command_stop \/ command_other
      PROVE  UNCHANGED <<from, handled, glob_self_ep>>
  BY <1>8 DEF on_timeout, tick, refresh_tick, maintainer_tick, get_remote_nodes, Chain,
      command_stop, command_other, udpRest, datagrams, nodeVars, asking, endpoint
<1>9. ASSUME \/ \E i \in Start : start(i) \/ Daemon(i)
             \/ stop_udp_server \/ stop_io_context \/ \E c \in Command : listen_stdin(c)
      PROVE  UNCHANGED <<from, handled, glob_self_ep>>
  BY <1>9 DEF start, Daemon, start_dht_manager, start_binding_request, start_refresh, start_tick,
      run, Step, stop_udp_server, stop_io_context, listen_stdin, udpRest, datagrams, nodeVars,
      asking, endpoint
<1>10. ASSUME recv_handler_throws \/ command_throws, UNCHANGED nodeVars
       PROVE  UNCHANGED <<from, handled, glob_self_ep>>
  BY <1>10 DEF recv_handler_throws, command_throws, throws, nodeVars, asking, endpoint
<1> QED
  BY <1>2, <1>3, <1>4, <1>5, <1>6, <1>7, <1>8, <1>9, <1>10
  DEF NodeNext, Handler, on_receive_packet, command_throws

LEMMA AliveStep ==
    ASSUME ~Overlap, NodeInv, OneInv, ~stopped, [NodeNext]_allVars, ~stopped'
    PROVE  Alive'
<1>1. HandledOK(from, handled) /\ glob_self_ep # "outdated" /\ Alive
  BY DEF OneInv
<1>2. ASSUME UNCHANGED allVars \/ ((recv_handler_throws \/ command_throws) /\ UNCHANGED nodeVars)
      PROVE  Alive'
  <2>1. UNCHANGED <<queue, wait, expired, from, sock, recv_buff, receiving, handled, since, ask,
                    older, overtaken, glob_self_ep, daemon>>
    BY <1>2 DEF recv_handler_throws, command_throws, throws, allVars, vars, nodeVars, life,
        timers, clock, asking, endpoint
  <2>2. Unmoved
    BY <2>1, KeepsSelf DEF Unmoved
  <2>3. OneStart' /\ NotStarted' = NotStarted /\ Ticks' = Ticks /\ BeforeBind' = BeforeBind
    BY <1>1, <2>1, SameStart DEF Alive
  <2> QED BY <1>1, <2>2, <2>3, UnmovedAlive
<1>3. ASSUME NEW p \in Peer, Arrives(p), UNCHANGED nodeVars PROVE Alive'
  BY <1>1, <1>3, ArrivesAlive
<1>4. ASSUME Socket \/ (ReceiveFails /\ UNCHANGED nodeVars)
             \/ ((call_income_message_handler \/ receive_error) /\ UNCHANGED nodeVars)
      PROVE  Alive'
  BY <1>1, <1>4, ReceiveCompletesAlive, ReceiveFailsAlive, IncomeMessageAlive, ReceiveErrorAlive
      DEF Socket
<1>5. ASSUME Elapse \/ TimersReady PROVE Alive'
  BY <1>1, <1>5, ElapseAlive, TimersReadyAlive
<1>6. ASSUME income_message \/ on_timeout \/ result \/ tick PROVE Alive'
  BY <1>1, <1>6, ReceivePacketAlive, OnTimeoutAlive, ResultAlive, TickAlive
<1>7. ASSUME \/ refresh_tick \/ maintainer_tick \/ get_remote_nodes \/ command_other
             \/ \E c \in Command : listen_stdin(c)
      PROVE  Alive'
  BY <1>1, <1>7, PlainAlive
<1>8. ASSUME NEW i \in Start, start(i) \/ Daemon(i) PROVE Alive'
  BY <1>1, <1>8, StartAlive, StartBindingAlive, StartTickAlive, PlainAlive DEF Daemon
<1>9. ASSUME stop_udp_server PROVE Alive'
  BY <1>1, <1>9, StopUdpAlive
<1>10. ASSUME stop_io_context \/ command_stop PROVE FALSE
  BY <1>10 DEF stop_io_context, command_stop, io_context_stop
<1> QED
  BY <1>2, <1>3, <1>4, <1>5, <1>6, <1>7, <1>8, <1>9, <1>10
  DEF NodeNext, Handler, on_receive_packet, command_throws

\* A stopped node stays stopped: io_context::run is called without a restart.
LEMMA StoppedStays ==
    ASSUME NodeInv, stopped, [NodeNext]_allVars
    PROVE  stopped'
<1>1. CASE UNCHANGED allVars
  BY <1>1 DEF allVars, nodeVars, life
<1>2. ASSUME NEW i \in Start, start(i) \/ Daemon(i) PROVE stopped'
  BY <1>2 DEF start, Daemon, start_dht_manager, start_binding_request, start_refresh, start_tick,
      run
<1>3. ASSUME \/ \E p \in Peer : Arrives(p) /\ UNCHANGED nodeVars
             \/ Socket \/ (ReceiveFails /\ UNCHANGED nodeVars) \/ Elapse \/ TimersReady
             \/ \E c \in Command : listen_stdin(c)
             \/ stop_udp_server \/ stop_io_context
      PROVE  stopped'
  BY <1>3 DEF Socket, Elapse, TimersReady, nodeVars, life, listen_stdin, stop_udp_server,
      stop_io_context, io_context_stop
<1>4. ASSUME Handler PROVE FALSE
  <2>1. ~running
    BY DEF NodeInv, RestOK
  <2> QED BY <1>4, <2>1 DEF Handler, call_income_message_handler, receive_error, on_receive_packet,
      income_message, recv_handler, recv_handler_throws, on_timeout, result, tick, refresh_tick,
      maintainer_tick, get_remote_nodes, Chain, command_stop, command_other, command_throws, Running
<1> QED BY <1>1, <1>2, <1>3, <1>4 DEF NodeNext

LEMMA OneInvariant == ~Overlap /\ NodeSpec => [](NodeInv /\ OneInv)
<1>1. NodeInit => OneInv
  BY AliveInit
<1>2. ASSUME ~Overlap, NodeInv, OneInv, [NodeNext]_allVars PROVE OneInv'
  <2>1. HandledOK(from', handled') /\ glob_self_ep' # "outdated"
    BY <1>2, HistoryStep
  <2>2. stopped => stopped'
    BY <1>2, StoppedStays
  <2>3. ~stopped' => Alive'
    BY <1>2, <2>2, AliveStep
  <2> QED BY <2>1, <2>3 DEF OneInv
<1>3. NodeSpec => []NodeInv
  BY NodeInvariant
<1>4. ~Overlap /\ NodeSpec => []OneInv
  <2> SUFFICES ASSUME ~Overlap PROVE NodeSpec => []OneInv
    OBVIOUS
  <2>1. NodeInv /\ OneInv /\ [NodeNext]_allVars => OneInv'
    BY <1>2
  <2> QED BY <1>1, <1>3, <2>1, PTL DEF NodeSpec
<1> QED BY <1>3, <1>4, PTL

\* Datagrams are handled in the order in which they arrived, each once, on a node
\* that is not started again before it was stopped: one receive at a time is
\* outstanding, and what it fills is copied for the posted handler before the next
\* one is asked for (udp_server::call_income_message_handler).
THEOREM HandledInOrderTheorem == ~Overlap /\ NodeSpec => []HandledInOrder
<1>1. NodeInv /\ OneInv => HandledInOrder
  <2> SUFFICES ASSUME NodeInv, OneInv PROVE HandledInOrder
    OBVIOUS
  <2> DEFINE n == Len(from)
             lo == Len(handled)
             f == [i \in DOMAIN from |-> i]
  <2>1. n \in Nat /\ lo \in Nat /\ DOMAIN from = 1 .. n /\ DOMAIN handled = 1 .. lo
    <3>1. handled \in Seq([msg : 1 .. n, src : Peer \cup {NoPeer}])
      BY ParametersOf DEF DataOK
    <3> QED BY <3>1, DatagramFacts, Entries
  <2>2. lo <= n /\ \A i \in 1 .. lo : handled[i].msg = i
    BY DEF OneInv, HandledOK
  <2> HIDE DEF n, lo
  <2>3. f \in [1 .. n -> Nat] /\ Handled \in [1 .. lo -> Nat]
    BY <2>1, <2>2 DEF Handled
  <2>4. f \in Seq(Nat) /\ Handled \in Seq(Nat)
    BY <2>1, <2>3, SeqDef
  <2>5. Len(f) = n /\ Len(Handled) = lo
    BY <2>1, <2>3, <2>4, LenProperties
  <2>6. \A i \in 1 .. lo : f[i] = i /\ Handled[i] = i
    BY <2>1, <2>2 DEF Handled
  <2> HIDE DEF f
  <2> QED BY <2>1, <2>2, <2>4, <2>5, <2>6 DEF HandledInOrder, IsPrefix, f
<1> QED BY <1>1, OneInvariant, PTL

\* The controller's ticks keep their interval, however late its handlers run and
\* whatever is cancelled, on a node that is not started again before it was
\* stopped: there is one wait or one handler of its timer, never both.
THEOREM TickIntervalTheorem == ~Overlap /\ NodeSpec => []TickInterval
<1>1. NodeInv /\ OneInv => TickInterval
  <2> SUFFICES ASSUME NodeInv, OneInv, Running("tick") PROVE since = TickTime
    BY DEF TickInterval
  <2>1. ~stopped /\ Head(queue) = TickHandler /\ Head(queue) \in ToSet(queue)
    BY RunningHandler, HandlerKinds DEF TickHandler
  <2> QED BY <2>1 DEF OneInv, Alive, TickOK
<1> QED BY <1>1, OneInvariant, PTL

\* The node's endpoint is never that of a request older than one whose result it
\* has taken (update_global_self_endpoint), on a node that is not started again
\* before it was stopped: a request is decided or out of time, and its result
\* posted, before the next tick makes another.
THEOREM EndpointUpToDateTheorem == ~Overlap /\ NodeSpec => []EndpointUpToDate
<1>1. OneInv => EndpointUpToDate
  BY DEF OneInv, EndpointUpToDate
<1> QED BY <1>1, OneInvariant, PTL
-----------------------------------------------------------------------------
(* Nothing that is under way breaks off, however often start is called *)

\* What brings the next handler of a chain of timers, and of the receives.
ChainDue(t, q, w) == w[t] # NoWait \/ \E h \in Task(t) : [h |-> h, of |-> t] \in ToSet(q)
ReceiveDue(q, rcv) == rcv > 0 \/ ToSet(q) \cap Receives # {}

Refreshes == \E i \in Start : daemon[i] \in {"tick", "run", "in run"}

\* Once started, a receive is outstanding or its handler ready, which asks for
\* the next; each chain that is to go on has its timer set or its handler ready;
\* and a request that was decided has the call of its handler ready.
NothingBreaksOff ==
    /\ ~NotStarted => ReceiveDue(queue, receiving)
    /\ requires["maintainer"] => ChainDue("maintainer", queue, wait)
    /\ requires["refresh"] /\ Refreshes => ChainDue("refresh", queue, wait)
    /\ Ticks => ChainDue("tick", queue, wait)
    /\ \A s \in Ask : ask[s] = "posted" => ToSet(queue) \cap Results(s) # {}

LEMMA NothingBreaksOffInit == NodeInit => NothingBreaksOff
<1> SUFFICES ASSUME NodeInit PROVE NothingBreaksOff
  OBVIOUS
<1>1. NotStarted /\ ~Refreshes /\ ~Ticks
  BY DEF NodeInit, NotStarted, Refreshes, Ticks
<1>2. ~requires["maintainer"] /\ \A s \in Ask : ask[s] # "posted"
  BY DEF NodeInit
<1> QED BY <1>1, <1>2 DEF NothingBreaksOff

\* A step takes the handlers X: what they had to bring is brought by others.
LEMMA WorkKept ==
    ASSUME NothingBreaksOff, daemon' = daemon,
           \A r \in {"refresh", "maintainer"} : requires'[r] => requires[r],
           NEW X, \A e \in ToSet(queue) : e \in X \/ e \in ToSet(queue'),
           \A t \in Chained : \/ ChainDue(t, queue', wait')
                              \/ wait[t] = NoWait /\ \A e \in X : e.h \notin Task(t)
                              \/ t # "tick" /\ ~requires[t],
           ReceiveDue(queue', receiving') \/ (receiving = 0 /\ X \cap Receives = {}),
           \A s \in Ask : ask'[s] = "posted" =>
              ToSet(queue') \cap Results(s) # {} \/ (ask[s] = "posted" /\ X \cap Results(s) = {}),
           receiving \in Nat
    PROVE  NothingBreaksOff'
<1>1. ASSUME NEW t \in Chained, ChainDue(t, queue, wait), t = "tick" \/ requires[t]
      PROVE  ChainDue(t, queue', wait')
  <2>1. CASE wait[t] = NoWait /\ \A e \in X : e.h \notin Task(t)
    <3>1. PICK h \in Task(t) : [h |-> h, of |-> t] \in ToSet(queue)
      BY <1>1, <2>1 DEF ChainDue
    <3>2. [h |-> h, of |-> t] \notin X
      BY <2>1
    <3> QED BY <3>1, <3>2 DEF ChainDue
  <2> QED BY <1>1, <2>1
<1>2. ReceiveDue(queue, receiving) => ReceiveDue(queue', receiving')
  BY DEF ReceiveDue
<1>3. /\ NotStarted' = NotStarted /\ Refreshes' = Refreshes /\ Ticks' = Ticks
  BY DEF NotStarted, Refreshes, Ticks
<1>4. \A s \in Ask : ask'[s] = "posted" => ToSet(queue') \cap Results(s) # {}
  BY DEF NothingBreaksOff
<1>5. "tick" \in Chained /\ "refresh" \in Chained /\ "maintainer" \in Chained
  BY DEF Chained
<1>6. /\ ~NotStarted' => ReceiveDue(queue', receiving')
      /\ requires'["maintainer"] => ChainDue("maintainer", queue', wait')
      /\ requires'["refresh"] /\ Refreshes' => ChainDue("refresh", queue', wait')
      /\ Ticks' => ChainDue("tick", queue', wait')
  BY <1>1, <1>2, <1>3, <1>5 DEF NothingBreaksOff
<1> QED BY <1>4, <1>6 DEF NothingBreaksOff, ChainDue, ReceiveDue, ToSet, Task

\* A step that takes no handler, and leaves the timers of the chains.
LEMMA NothingTaken ==
    ASSUME NodeInv, NothingBreaksOff, daemon' = daemon,
           \A r \in {"refresh", "maintainer"} : requires'[r] => requires[r],
           \A e \in ToSet(queue) : e \in ToSet(queue'),
           \A t \in Chained : wait'[t] # NoWait \/ wait[t] = NoWait,
           ReceiveDue(queue', receiving') \/ receiving = 0, ask' = ask
    PROVE  NothingBreaksOff'
<1> DEFINE X == {}
<1>1. \A x : x \notin X
  OBVIOUS
<1>2. receiving \in Nat
  BY DEF NodeInv, RestOK
<1> HIDE DEF X
<1>3. X \cap Receives = {} /\ \A s \in Ask : X \cap Results(s) = {}
  BY <1>1
<1>4. \A t \in Chained : \/ ChainDue(t, queue', wait')
                         \/ wait[t] = NoWait /\ \A e \in X : e.h \notin Task(t)
  BY <1>1 DEF ChainDue
<1> QED BY <1>1, <1>2, <1>3, <1>4, WorkKept

\* The handler that runs is taken, and others are posted.
LEMMA HandlerTaken ==
    ASSUME NodeInv, NEW k, Running(k)
    PROVE  /\ queue \in Seq(Handlers(Len(from))) /\ Tail(queue) \in Seq(Handlers(Len(from)))
           /\ Head(queue) \in Handlers(Len(from)) /\ Head(queue).h = k
           /\ ToSet(queue) = {Head(queue)} \cup ToSet(Tail(queue))
           /\ receiving \in Nat /\ Len(from) \in Nat
<1>1. queue \in Seq(Handlers(Len(from))) /\ queue # <<>> /\ Head(queue).h = k
      /\ receiving \in Nat /\ Len(from) \in Nat
  BY FromLength, ParametersOf DEF QueueOK, Running, NodeInv, RestOK
<1> QED BY <1>1, TakeEntries

\* It belongs to no chain, or the timer of its chain is set again.
LEMMA OneTaken ==
    ASSUME NodeInv, NothingBreaksOff, NEW k, Running(k), daemon' = daemon,
           \A r \in {"refresh", "maintainer"} : requires'[r] => requires[r],
           \A e \in ToSet(Tail(queue)) : e \in ToSet(queue'),
           \A t \in Chained : \/ wait'[t] # NoWait
                              \/ wait[t] = NoWait /\ k \notin Task(t)
                              \/ t # "tick" /\ ~requires[t],
           ReceiveDue(queue', receiving') \/ (receiving = 0 /\ k \notin {"received", "error"}),
           \A s \in Ask : ask'[s] = "posted" =>
              ToSet(queue') \cap Results(s) # {} \/ (ask[s] = "posted" /\ Head(queue) \notin Results(s))
    PROVE  NothingBreaksOff'
<1> DEFINE X == {Head(queue)}
<1>1. /\ Head(queue) \in Handlers(Len(from)) /\ Head(queue).h = k /\ receiving \in Nat
      /\ \A e \in ToSet(queue) : e = Head(queue) \/ e \in ToSet(Tail(queue))
  BY HandlerTaken
<1>2. \A x : x \in X <=> x = Head(queue)
  OBVIOUS
<1> HIDE DEF X
<1>3. k \notin {"received", "error"} => X \cap Receives = {}
  BY <1>1, <1>2 DEF Receives, Received, Error
<1>4. \A s \in Ask : Head(queue) \notin Results(s) => X \cap Results(s) = {}
  BY <1>2
<1>5. \A t \in Chained : \/ ChainDue(t, queue', wait')
                         \/ wait[t] = NoWait /\ \A e \in X : e.h \notin Task(t)
                         \/ t # "tick" /\ ~requires[t]
  BY <1>1, <1>2 DEF ChainDue
<1>6. \A e \in ToSet(queue) : e \in X \/ e \in ToSet(queue')
  BY <1>1, <1>2
<1>7. \A s \in Ask : ask'[s] = "posted" =>
         ToSet(queue') \cap Results(s) # {} \/ (ask[s] = "posted" /\ X \cap Results(s) = {})
  BY <1>4
<1>8. ReceiveDue(queue', receiving') \/ (receiving = 0 /\ X \cap Receives = {})
  BY <1>3
<1> QED BY <1>1, <1>5, <1>6, <1>7, <1>8, WorkKept

LEMMA PostedMore ==
    ASSUME NEW S, NEW q \in Seq(S), NEW r \in Seq(S), queue' = q \o r
    PROVE  ToSet(q) \subseteq ToSet(queue') /\ ToSet(r) \subseteq ToSet(queue')
  BY PostManyEntries

\* What stop makes ready for the receives it cancels.
LEMMA CancelledPosts ==
    ASSUME NodeInv, NEW q \in Seq(Handlers(Len(from))), queue' = q \o Cancelled
    PROVE  /\ ToSet(q) \subseteq ToSet(queue')
           /\ receiving > 0 => Error \in ToSet(queue')
<1> DEFINE r == Cancelled
           H == Handlers(Len(from))
<1>1. receiving \in Nat /\ Error \in H
  BY HandlerTypes DEF NodeInv, RestOK
<1>2. r \in [1 .. receiving -> H] /\ DOMAIN r = 1 .. receiving
      /\ \A i \in 1 .. receiving : r[i] = Error
  BY <1>1 DEF Cancelled, Error
<1>3. queue' = q \o r
  OBVIOUS
<1> HIDE DEF r, H
<1>4. r \in Seq(H)
  BY <1>1, <1>2, SeqDef
<1>5. ToSet(q) \subseteq ToSet(queue') /\ ToSet(r) \subseteq ToSet(queue')
  BY <1>3, <1>4, PostedMore DEF H
<1>6. receiving > 0 => Error \in ToSet(r)
  BY <1>1, <1>2 DEF ToSet
<1> QED BY <1>5, <1>6

LEMMA ArmedTimer ==
    ASSUME NodeInv, NEW t \in Chained, NEW h, NEW units \in 1 .. Longest
    PROVE  /\ expires_from_now(wait, t, h, units)[t] # NoWait
           /\ \A x \in Timer : x # t => expires_from_now(wait, t, h, units)[x] = wait[x]
<1>1. DOMAIN wait = Timer /\ t \in Timer /\ Longest \in Nat
  BY Tasks, LongestTimes DEF NodeInv, WaitOK, Chained
<1> QED BY <1>1 DEF expires_from_now, NoWait

\* A timer is set again, for the handlers q that are ready then.
LEMMA ArmedPosts ==
    ASSUME NodeInv, NEW q \in Seq(Handlers(Len(from))), NEW t \in Chained, Cancel(t, q)
    PROVE  ToSet(q) \subseteq ToSet(queue')
<1>1. PICK r \in Seq(Handlers(Len(from))) : queue' = q \o r
  BY CancelPosts, ParametersOf
<1> QED BY <1>1, PostedMore

LEMMA AskTimers ==
    ASSUME NEW w, NEW s \in Ask, NEW h, NEW units
    PROVE  \A t \in Chained : expires_from_now(w, s, h, units)[t] = w[t]
<1>1. \A t \in Chained : t # s
  BY Tasks DEF Chained
<1> QED BY <1>1 DEF expires_from_now

\* A binding request has a timer of its own, and none is decided at once.
LEMMA RequestMade ==
    ASSUME NodeInv, NEW w, binding_request(w)
    PROVE  /\ \A t \in Chained : wait'[t] = w[t]
           /\ \A s \in Ask : ask'[s] = "posted" => ask[s] = "posted"
<1>1. DOMAIN ask = Ask
  BY DEF NodeInv, AsksOK
<1>2. CASE wait' = w /\ UNCHANGED <<ask, older>>
  BY <1>2
<1>3. ASSUME NEW s \in Ask, NewAsk(s),
             wait' = expires_from_now(w, s, "on_timeout", BindTimeout)
      PROVE  /\ \A t \in Chained : wait'[t] = w[t]
             /\ \A x \in Ask : ask'[x] = "posted" => ask[x] = "posted"
  <2>1. \A t \in Chained : wait'[t] = w[t]
    BY <1>3, AskTimers
  <2>2. ask' = [ask EXCEPT ![s] = "pending"]
    BY <1>3 DEF NewAsk
  <2> QED BY <1>1, <2>1, <2>2
<1> QED BY <1>2, <1>3 DEF binding_request

\* A handler that is not the call of a request's.
LEMMA NoResultTaken ==
    ASSUME NodeInv, NothingBreaksOff, NEW k, Running(k), k # "result", daemon' = daemon,
           \A r \in {"refresh", "maintainer"} : requires'[r] => requires[r],
           ToSet(Tail(queue)) \subseteq ToSet(queue'),
           \A t \in Chained : \/ wait'[t] # NoWait
                              \/ wait[t] = NoWait /\ k \notin Task(t)
                              \/ t # "tick" /\ ~requires[t],
           ReceiveDue(queue', receiving') \/ (receiving = 0 /\ k \notin {"received", "error"}),
           \A s \in Ask : ask'[s] = "posted" =>
              ToSet(queue') \cap Results(s) # {} \/ ask[s] = "posted"
    PROVE  NothingBreaksOff'
<1>1. \A s \in Ask : Head(queue) \notin Results(s)
  BY HandlerTaken, HandlerKinds
<1> QED BY <1>1, OneTaken
LEMMA ReceivingDue ==
    ASSUME NodeInv, receiving' = receiving
    PROVE  ReceiveDue(queue', receiving') \/ receiving = 0
  BY DEF ReceiveDue, NodeInv, RestOK

LEMMA SocketDue ==
    ASSUME NodeInv, NothingBreaksOff, NEW e \in {Received, Error}, queue' = Append(queue, e),
           UNCHANGED <<daemon, requires, wait, ask>>
    PROVE  NothingBreaksOff'
<1> DEFINE H == Handlers(Len(from))
<1>1. queue \in Seq(H) /\ e \in H
  BY ParametersOf, HandlerTypes DEF QueueOK
<1> HIDE DEF H
<1>2. ToSet(queue') = ToSet(queue) \cup {e}
  BY <1>1, PostEntries
<1>3. ReceiveDue(queue', receiving')
  BY <1>2 DEF ReceiveDue, Receives
<1> QED BY <1>2, <1>3, NothingTaken

LEMMA ArrivalDue ==
    ASSUME NodeInv, NothingBreaksOff,
           UNCHANGED <<queue, receiving, daemon, requires, wait, ask>>
    PROVE  NothingBreaksOff'
  BY ReceivingDue, NothingTaken

LEMMA ElapseDue ==
    ASSUME NodeInv, NothingBreaksOff, Elapse
    PROVE  NothingBreaksOff'
<1>1. UNCHANGED <<queue, receiving, daemon, requires, ask>>
  BY DEF Elapse, vars, life, asking
<1>2. \A t \in Chained : wait'[t] # NoWait \/ wait[t] = NoWait
  BY ElapseTimes, Tasks DEF Chained
<1> QED BY <1>1, <1>2, ReceivingDue, NothingTaken

LEMMA ListenDue ==
    ASSUME NodeInv, NothingBreaksOff, NEW c \in Command, listen_stdin(c)
    PROVE  NothingBreaksOff'
<1> DEFINE H == Handlers(Len(from))
           e == [h |-> "command", word |-> c]
<1>1. queue \in Seq(H) /\ e \in H
  BY ParametersOf, HandlerTypes DEF QueueOK
<1>2. queue' = Append(queue, e) /\ UNCHANGED <<receiving, daemon, requires, wait, ask>>
  BY DEF listen_stdin, udpRest, timers, asking
<1> HIDE DEF H, e
<1>3. ToSet(queue') = ToSet(queue) \cup {e}
  BY <1>1, <1>2, PostEntries
<1> QED BY <1>2, <1>3, ReceivingDue, NothingTaken

\* A timer that expired has its handler ready in place of its wait.
LEMMA TimersReadyDue ==
    ASSUME NodeInv, NothingBreaksOff, TimersReady
    PROVE  NothingBreaksOff'
<1> DEFINE H == Handlers(Len(from))
           X == {}
<1>1. PICK r \in Seq(H) : queue' = queue \o r
                          /\ ToSet(r) = {TimerHandler(t) : t \in ToSet(expired)}
  BY ExpiredPosted
<1>2. queue \in Seq(H)
  BY ParametersOf DEF QueueOK
<1> HIDE DEF H
<1>3. ToSet(queue) \subseteq ToSet(queue') /\ ToSet(r) \subseteq ToSet(queue')
  BY <1>1, <1>2, PostedMore
<1>4. UNCHANGED <<receiving, daemon, requires, ask>>
  BY DEF TimersReady, udpRest, life, asking
<1>5. ASSUME NEW t \in Chained
      PROVE  \/ ChainDue(t, queue', wait') \/ wait[t] = NoWait
  <2>1. t \in Timer /\ wait'[t] = IF t \in ToSet(expired) THEN NoWait ELSE wait[t]
    BY ExpiredPosted, Tasks DEF Chained
  <2>2. CASE t \in ToSet(expired)
    <3>0. TimerHandler(t) \in ToSet(queue') /\ TimerHandler(t).h \in Task(t)
      BY <2>2, <1>1, <1>3, ExpiredPosted
    <3>1. TimerHandler(t) \in ToSet(queue') /\ wait[t].h \in Task(t)
      BY <3>0 DEF TimerHandler
    <3>2. [h |-> wait[t].h, of |-> t] \in ToSet(queue')
      BY <3>1 DEF TimerHandler
    <3> DEFINE q == ToSet(queue')
               k == wait[t].h
    <3>3. k \in Task(t) /\ [h |-> k, of |-> t] \in q
      BY <3>1, <3>2
    <3> HIDE DEF q, k
    <3>4. \E h \in Task(t) : [h |-> h, of |-> t] \in q
      BY <3>3
    <3> QED BY <3>4 DEF ChainDue, q
  <2>3. CASE t \notin ToSet(expired)
    <3>1. wait'[t] = wait[t]
      BY <2>1, <2>3
    <3> QED BY <3>1 DEF ChainDue
  <2> QED BY <2>2, <2>3
<1>6. \A x : x \notin X
  OBVIOUS
<1> HIDE DEF X
<1>7. X \cap Receives = {} /\ \A s \in Ask : X \cap Results(s) = {}
  BY <1>6
<1>8. receiving \in Nat /\ (ReceiveDue(queue', receiving') \/ receiving = 0)
  BY <1>4, ReceivingDue DEF NodeInv, RestOK
<1> QED BY <1>3, <1>4, <1>5, <1>6, <1>7, <1>8, WorkKept

LEMMA StopUdpDue ==
    ASSUME NodeInv, NothingBreaksOff, stop_udp_server
    PROVE  NothingBreaksOff'
<1>1. queue' = queue \o Cancelled /\ UNCHANGED <<daemon, requires, wait, ask>>
  BY DEF stop_udp_server, cancel, timers, asking
<1>2. ToSet(queue) \subseteq ToSet(queue') /\ (receiving > 0 => Error \in ToSet(queue'))
  BY <1>1, ParametersOf, CancelledPosts DEF QueueOK
<1>3. receiving \in Nat
  BY DEF NodeInv, RestOK
<1>4. ReceiveDue(queue', receiving') \/ receiving = 0
  BY <1>2, <1>3 DEF ReceiveDue, Receives
<1> QED BY <1>1, <1>2, <1>4, NothingTaken

LEMMA StoppedParts ==
    ASSUME NodeInv, stop_parts
    PROVE  \A r \in {"refresh", "maintainer"} : ~requires'[r]
<1>1. DOMAIN requires = {"refresh", "maintainer"}
  BY DEF NodeInv, RestOK
<1> QED BY <1>1 DEF stop_parts

LEMMA StopIoContextDue ==
    ASSUME NodeInv, NothingBreaksOff, stop_io_context
    PROVE  NothingBreaksOff'
<1>1. stop_parts /\ UNCHANGED <<queue, receiving, daemon, wait, ask>>
  BY DEF stop_io_context, timers, asking
<1> QED BY <1>1, StoppedParts, ReceivingDue, NothingTaken
-----------------------------------------------------------------------------
(* The handlers that bring what comes next *)

LEMMA NoChainOf ==
    /\ \A t \in Chained : {"received", "error", "recv_handler", "on_timeout", "result", "command"}
                             \cap Task(t) = {}
    /\ \A s, t \in Chained : Task(s) \cap Task(t) # {} => s = t
  BY Tasks DEF Chained

LEMMA ReceiveHandlersDue ==
    ASSUME NodeInv, NothingBreaksOff, call_income_message_handler \/ receive_error,
           UNCHANGED nodeVars
    PROVE  NothingBreaksOff'
<1> DEFINE H == Handlers(Len(from))
           e == [h |-> "recv_handler", raw_msg |-> recv_buff]
<1>1. UNCHANGED <<daemon, requires, wait, ask>>
  BY DEF nodeVars, life, timers, asking
<1>2. receiving \in Nat /\ Tail(queue) \in Seq(H) /\ receiving' = receiving + 1
      /\ (Running("received") \/ Running("error"))
  BY HandlerTaken DEF call_income_message_handler, receive_error, call_receiver
<1>3. ToSet(Tail(queue)) \subseteq ToSet(queue')
  <2>1. CASE receive_error
    BY <2>1 DEF receive_error
  <2>2. CASE call_income_message_handler
    <3> DEFINE T == H \cup {e}
               tq == Tail(queue)
    <3>1. H \subseteq T /\ e \in T
      OBVIOUS
    <3>2. queue' = Append(tq, e)
      BY <2>2 DEF call_income_message_handler
    <3> HIDE DEF H, T, e, tq
    <3>3. tq \in Seq(H)
      BY <1>2 DEF tq
    <3>4. tq \in Seq(T)
      BY <3>1, <3>3, Entries, EntriesSeq
    <3>5. ToSet(queue') = ToSet(tq) \cup {e}
      BY <3>1, <3>2, <3>4, PostEntries
    <3> QED BY <3>5 DEF tq
  <2> QED BY <2>1, <2>2 DEF call_income_message_handler
<1>4. ReceiveDue(queue', receiving')
  BY <1>2 DEF ReceiveDue
<1>5. \A k \in {"received", "error"} : \A t \in Chained : k \notin Task(t)
  BY NoChainOf
<1> HIDE DEF H, e
<1>6. CASE Running("received")
  BY <1>1, <1>3, <1>4, <1>5, <1>6, NoResultTaken
<1>7. CASE Running("error")
  BY <1>1, <1>3, <1>4, <1>5, <1>7, NoResultTaken
<1> QED BY <1>2, <1>6, <1>7

\* The result of a request is posted with its decision.
LEMMA ResultPosted ==
    ASSUME NEW n, NEW q \in Seq(Handlers(n)), NEW s \in Ask, NEW found \in BOOLEAN,
           queue' = q \o <<Result(s, found)>>
    PROVE  ToSet(q) \subseteq ToSet(queue') /\ ToSet(queue') \cap Results(s) # {}
<1> DEFINE r == <<Result(s, found)>>
           H == Handlers(n)
<1>1. Result(s, found) \in H /\ Result(s, found) \in Results(s)
  BY HandlerTypes DEF Results
<1> HIDE DEF H
<1>2. r \in Seq(H) /\ ToSet(r) = {Result(s, found)} /\ queue' = q \o r
  BY <1>1, TupleInSeq
<1> HIDE DEF r
<1>3. ToSet(q) \subseteq ToSet(queue') /\ ToSet(r) \subseteq ToSet(queue')
  BY <1>2, PostedMore DEF H
<1> QED BY <1>1, <1>2, <1>3

LEMMA ReceivePacketDue ==
    ASSUME NodeInv, NothingBreaksOff, income_message
    PROVE  NothingBreaksOff'
<1>1. Running("recv_handler") /\ UNCHANGED <<daemon, requires, receiving>>
  BY DEF income_message, recv_handler, nodeVars, life
<1>2. Tail(queue) \in Seq(Handlers(Len(from)))
  BY <1>1, HandlerTaken
<1>3. \A t \in Chained : "recv_handler" \notin Task(t)
  BY NoChainOf
<1>4. DOMAIN ask = Ask
  BY DEF NodeInv, AsksOK
<1>5. CASE recv_handler(<<>>) /\ UNCHANGED nodeVars
  <2>1. queue' = Tail(queue) /\ UNCHANGED <<wait, ask>>
    <3>1. Tail(queue) \o <<>> = Tail(queue)
      BY <1>2, ConcatEmptySeq
    <3> QED BY <1>5, <3>1 DEF recv_handler, nodeVars, timers, asking
  <2> QED BY <1>1, <1>3, <2>1, ReceivingDue, NoResultTaken
<1>6. ASSUME NEW s \in Ask, recv_handler(<<Result(s, TRUE)>>),
             ask' = [ask EXCEPT ![s] = "posted"], wait' = [wait EXCEPT ![s] = NoWait]
      PROVE  NothingBreaksOff'
  <2>1. queue' = Tail(queue) \o <<Result(s, TRUE)>>
    BY <1>6 DEF recv_handler
  <2>2. ToSet(Tail(queue)) \subseteq ToSet(queue') /\ ToSet(queue') \cap Results(s) # {}
    BY <1>2, <2>1, ResultPosted
  <2>3. \A t \in Chained : wait'[t] = wait[t]
    <3>1. \A t \in Chained : t # s
      BY Tasks DEF Chained
    <3> QED BY <1>6, <3>1
  <2>4. \A x \in Ask : ask'[x] = "posted" =>
           ToSet(queue') \cap Results(x) # {} \/ ask[x] = "posted"
    BY <1>4, <1>6, <2>2
  <2> QED BY <1>1, <1>3, <2>2, <2>3, <2>4, ReceivingDue, NoResultTaken
<1> QED BY <1>5, <1>6 DEF income_message

LEMMA OnTimeoutDue ==
    ASSUME NodeInv, NothingBreaksOff, on_timeout
    PROVE  NothingBreaksOff'
<1> DEFINE s == Head(queue).of
           tq == Tail(queue)
<1>1. /\ Running("on_timeout") /\ UNCHANGED <<daemon, requires, receiving, wait>>
      /\ ask' = IF ask[s] # "pending" THEN ask ELSE [ask EXCEPT ![s] = "posted"]
      /\ queue' = tq \o (IF ask[s] # "pending" THEN <<>> ELSE <<Result(s, FALSE)>>)
  BY DEF on_timeout, udpRest, life, timers
<1>2. tq \in Seq(Handlers(Len(from))) /\ s \in Ask
  BY <1>1, HandlerTaken, HandlerKinds
<1>3. \A t \in Chained : "on_timeout" \notin Task(t)
  BY NoChainOf
<1>4. DOMAIN ask = Ask
  BY DEF NodeInv, AsksOK
<1> HIDE DEF s
<1>5. CASE ask[s] # "pending"
  <2>1. tq \o <<>> = tq
    BY <1>2, ConcatEmptySeq
  <2>2. queue' = tq /\ ask' = ask
    BY <1>1, <1>5, <2>1
  <2> QED BY <1>1, <1>3, <2>2, ReceivingDue, NoResultTaken
<1>6. CASE ask[s] = "pending"
  <2>1. queue' = tq \o <<Result(s, FALSE)>> /\ ask' = [ask EXCEPT ![s] = "posted"]
    BY <1>1, <1>6
  <2>2. ToSet(tq) \subseteq ToSet(queue') /\ ToSet(queue') \cap Results(s) # {}
    BY <1>2, <2>1, ResultPosted
  <2>3. \A x \in Ask : ask'[x] = "posted" =>
           ToSet(queue') \cap Results(x) # {} \/ ask[x] = "posted"
    BY <1>4, <2>1, <2>2
  <2> QED BY <1>1, <1>3, <2>2, <2>3, ReceivingDue, NoResultTaken
<1> QED BY <1>5, <1>6

\* The call of a request's handler leaves those of the others.
LEMMA ResultDue ==
    ASSUME NodeInv, NothingBreaksOff, result
    PROVE  NothingBreaksOff'
<1> DEFINE s == Head(queue).of
<1>1. /\ Running("result") /\ UNCHANGED <<daemon, requires, receiving, wait>>
      /\ ask' = [ask EXCEPT ![s] = "free"] /\ queue' = Tail(queue)
  BY DEF result, udpRest, life, timers
<1>2. s \in Ask /\ \A x \in Ask : Head(queue) \in Results(x) => x = s
  BY <1>1, HandlerTaken, HandlerKinds
<1>3. \A t \in Chained : "result" \notin Task(t)
  BY NoChainOf
<1>4. DOMAIN ask = Ask
  BY DEF NodeInv, AsksOK
<1> HIDE DEF s
<1>5. \A x \in Ask : ask'[x] = "posted" =>
         ToSet(queue') \cap Results(x) # {} \/ (ask[x] = "posted" /\ Head(queue) \notin Results(x))
  BY <1>1, <1>2, <1>4
<1> QED BY <1>1, <1>3, <1>5, ReceivingDue, OneTaken

LEMMA TickDue ==
    ASSUME NodeInv, NothingBreaksOff, tick
    PROVE  NothingBreaksOff'
<1> DEFINE tq == Tail(queue)
           w == expires_from_now(wait, "tick", "tick", TickTime)
<1>1. /\ Running("tick") /\ binding_request(w) /\ Cancel("tick", tq)
      /\ UNCHANGED <<daemon, requires, receiving>>
  BY DEF tick, call_tick, udpRest, life
<1>2. tq \in Seq(Handlers(Len(from)))
  BY <1>1, HandlerTaken
<1>3. "tick" \in Chained /\ TickTime \in 1 .. Longest /\ Chained \subseteq Timer
  BY Tasks, LongestTimes DEF Chained
<1>4. ToSet(tq) \subseteq ToSet(queue')
  BY <1>1, <1>2, <1>3, ArmedPosts
<1>5. w["tick"] # NoWait /\ \A t \in Chained : t # "tick" => w[t] = wait[t]
  BY <1>3, ArmedTimer
<1> HIDE DEF w
<1>6. /\ \A t \in Chained : wait'[t] = w[t]
      /\ \A s \in Ask : ask'[s] = "posted" => ask[s] = "posted"
  BY <1>1, RequestMade
<1>7. \A t \in Chained : t # "tick" => "tick" \notin Task(t)
  BY Tasks DEF Chained
<1>8. \A t \in Chained : wait'[t] # NoWait \/ (wait[t] = NoWait /\ "tick" \notin Task(t))
  BY <1>5, <1>6, <1>7
<1> QED BY <1>1, <1>4, <1>6, <1>8, ReceivingDue, NoResultTaken

\* A chain goes on, or it is not to.
LEMMA ChainHandlerDue ==
    ASSUME NodeInv, NothingBreaksOff, NEW t \in {"refresh", "maintainer"}, NEW h \in Task(t),
           NEW next, NEW units \in 1 .. Longest, Chain(h, t, next, units)
    PROVE  NothingBreaksOff'
<1> DEFINE tq == Tail(queue)
<1>1. /\ Running(h) /\ UNCHANGED <<daemon, requires, receiving, ask>>
      /\ \/ requires[t] /\ Arm(t, next, units, tq)
         \/ ~requires[t] /\ queue' = tq /\ UNCHANGED timers
  BY DEF Chain, udpRest, life, asking
<1>2. tq \in Seq(Handlers(Len(from)))
  BY <1>1, HandlerTaken
<1>3. t \in Chained /\ t # "tick" /\ Chained \subseteq Timer /\ h # "result"
      /\ h \notin {"received", "error"} /\ \A x \in Chained : x # t => h \notin Task(x)
  BY Tasks DEF Chained
<1>4. CASE requires[t] /\ Arm(t, next, units, tq)
  <2>1. wait' = expires_from_now(wait, t, next, units) /\ Cancel(t, tq)
    BY <1>4 DEF Arm
  <2>2. ToSet(tq) \subseteq ToSet(queue')
    BY <1>2, <1>3, <2>1, ArmedPosts
  <2> DEFINE w == expires_from_now(wait, t, next, units)
  <2>0. w[t] # NoWait /\ \A x \in Timer : x # t => w[x] = wait[x]
    <3>1. t \in Chained
      BY <1>3
    <3> QED BY <3>1, ArmedTimer
  <2> HIDE DEF w
  <2>3. w[t] # NoWait /\ \A x \in Chained : x # t => w[x] = wait[x]
    BY <1>3, <2>0
  <2>4. \A x \in Chained : wait'[x] # NoWait \/ (wait[x] = NoWait /\ h \notin Task(x))
    BY <1>3, <2>1, <2>3 DEF w
  <2> QED BY <1>1, <1>3, <2>2, <2>4, ReceivingDue, NoResultTaken
<1>5. CASE ~requires[t] /\ queue' = tq /\ UNCHANGED timers
  <2>1. UNCHANGED wait
    BY <1>5 DEF timers
  <2>2. \A x \in Chained : \/ wait'[x] # NoWait
                           \/ wait[x] = NoWait /\ h \notin Task(x)
                           \/ x # "tick" /\ ~requires[x]
    BY <1>3, <1>5, <2>1
  <2> QED BY <1>1, <1>3, <1>5, <2>2, ReceivingDue, NoResultTaken
<1> QED BY <1>1, <1>4, <1>5

LEMMA ChainsDue ==
    ASSUME NodeInv, NothingBreaksOff, refresh_tick \/ maintainer_tick \/ get_remote_nodes
    PROVE  NothingBreaksOff'
<1>1. RefreshTime \in 1 .. Longest /\ PingWait \in 1 .. Longest /\ RoundWait \in 1 .. Longest
  BY LongestTimes
<1>2. "refresh_tick" \in Task("refresh")
      /\ "get_remote_nodes" \in Task("maintainer") /\ "maintainer_tick" \in Task("maintainer")
  BY Tasks
<1>3. CASE refresh_tick
  BY <1>1, <1>2, <1>3, ChainHandlerDue DEF refresh_tick
<1>4. CASE maintainer_tick
  BY <1>1, <1>2, <1>4, ChainHandlerDue DEF maintainer_tick
<1>5. CASE get_remote_nodes
  BY <1>1, <1>2, <1>5, ChainHandlerDue DEF get_remote_nodes
<1> QED BY <1>3, <1>4, <1>5

LEMMA CommandsDue ==
    ASSUME NodeInv, NothingBreaksOff, command_stop \/ command_other
    PROVE  NothingBreaksOff'
<1>1. Running("command")
  BY DEF command_stop, command_other
<1>2. Tail(queue) \in Seq(Handlers(Len(from))) /\ receiving \in Nat
  BY <1>1, HandlerTaken
<1>3. \A t \in Chained : "command" \notin Task(t)
  BY NoChainOf
<1>4. CASE command_stop
  <2>1. queue' = Tail(queue) \o Cancelled /\ stop_parts /\ UNCHANGED <<daemon, wait, ask>>
    BY <1>4 DEF command_stop, timers, asking
  <2>2. ToSet(Tail(queue)) \subseteq ToSet(queue') /\ (receiving > 0 => Error \in ToSet(queue'))
    BY <1>2, <2>1, CancelledPosts
  <2>3. ReceiveDue(queue', receiving') \/ receiving = 0
    BY <1>2, <2>2 DEF ReceiveDue, Receives
  <2> QED BY <1>1, <1>3, <2>1, <2>2, <2>3, StoppedParts, NoResultTaken
<1>5. CASE command_other
  <2>1. queue' = Tail(queue) /\ UNCHANGED <<daemon, requires, receiving, wait, ask>>
    BY <1>5 DEF command_other, udpRest, nodeVars, life, timers, asking
  <2> QED BY <1>1, <1>3, <2>1, ReceivingDue, NoResultTaken
<1> QED BY <1>4, <1>5

\* A step of a start: the chain it starts has its timer set.
LEMMA DaemonDue ==
    ASSUME NodeInv, NothingBreaksOff, NEW i \in Start, NEW here, NEW next, Step(i, here, next),
           ReceiveDue(queue', receiving') \/ (here # "none" /\ receiving' = receiving),
           ToSet(queue) \subseteq ToSet(queue'),
           \A t \in Chained : wait'[t] # NoWait \/ wait[t] = NoWait,
           requires'["maintainer"] => requires["maintainer"] \/ wait'["maintainer"] # NoWait,
           requires'["refresh"] => requires["refresh"] \/ wait'["refresh"] # NoWait,
           next = "tick" => wait'["refresh"] # NoWait,
           next = "run" => here = "tick" /\ wait'["tick"] # NoWait,
           next = "in run" => here = "run",
           \A s \in Ask : ask'[s] = "posted" => ask[s] = "posted"
    PROVE  NothingBreaksOff'
<1>1. daemon \in [Start -> Stage] /\ daemon[i] = here
      /\ daemon' = [daemon EXCEPT ![i] = next]
  BY DEF NodeInv, RestOK, Step
<1>2. \A x \in Start : daemon'[x] = IF x = i THEN next ELSE daemon[x]
  BY <1>1
<1>3. ReceiveDue(queue', receiving')
  <2>1. CASE here # "none" /\ receiving' = receiving
    <3>1. ReceiveDue(queue, receiving) /\ receiving' = receiving
      BY <1>1, <2>1 DEF NothingBreaksOff, NotStarted
    <3> QED BY <3>1 DEF ReceiveDue
  <2> QED BY <2>1
<1>4. \A t \in Chained : ChainDue(t, queue, wait) => ChainDue(t, queue', wait')
  BY DEF ChainDue
<1>5. \A t \in Chained : wait'[t] # NoWait => ChainDue(t, queue', wait')
  BY DEF ChainDue
<1>6. Ticks' => Ticks \/ wait'["tick"] # NoWait
  BY <1>1, <1>2 DEF Ticks
<1>7. Refreshes' => Refreshes \/ wait'["refresh"] # NoWait
  BY <1>1, <1>2 DEF Refreshes
<1>8. \A s \in Ask : ask'[s] = "posted" => ToSet(queue') \cap Results(s) # {}
  BY DEF NothingBreaksOff
<1>9. "tick" \in Chained /\ "refresh" \in Chained /\ "maintainer" \in Chained
  BY DEF Chained
<1>10. /\ requires'["maintainer"] => ChainDue("maintainer", queue', wait')
       /\ requires'["refresh"] /\ Refreshes' => ChainDue("refresh", queue', wait')
       /\ Ticks' => ChainDue("tick", queue', wait')
  BY <1>4, <1>5, <1>6, <1>7, <1>9 DEF NothingBreaksOff
<1> QED BY <1>3, <1>8, <1>10 DEF NothingBreaksOff, ChainDue, ReceiveDue, ToSet, Task

LEMMA StartDue ==
    ASSUME NodeInv, NothingBreaksOff, NEW i \in Start, start(i)
    PROVE  NothingBreaksOff'
<1>1. Step(i, "none", "dht") /\ receiving' = receiving + 1
      /\ UNCHANGED <<queue, requires, wait, ask>>
  BY DEF start, call_receiver, timers
<1>2. ToSet(queue) \subseteq ToSet(queue')
  BY <1>1
<1>3. \A t \in Chained : wait'[t] # NoWait \/ wait[t] = NoWait
  BY <1>1
<1>4. \A s \in Ask : ask'[s] = "posted" => ask[s] = "posted"
  BY <1>1
<1>5. \A n \in Nat : ReceiveDue(queue', n + 1)
  BY DEF ReceiveDue
<1>6. receiving \in Nat
  BY DEF NodeInv, RestOK
<1>7. ReceiveDue(queue', receiving')
  BY <1>1, <1>5, <1>6
<1> QED BY <1>1, <1>2, <1>3, <1>4, <1>7, DaemonDue

\* A step of a start that sets the timer of t.
LEMMA ArmingDue ==
    ASSUME NodeInv, NEW t \in Chained, NEW h, NEW units \in 1 .. Longest,
           wait' = expires_from_now(wait, t, h, units), Cancel(t, queue)
    PROVE  /\ ToSet(queue) \subseteq ToSet(queue') /\ wait'[t] # NoWait
           /\ \A x \in Chained : wait'[x] # NoWait \/ wait[x] = NoWait
<1> DEFINE w == expires_from_now(wait, t, h, units)
<1>1. queue \in Seq(Handlers(Len(from))) /\ Chained \subseteq Timer
  BY ParametersOf, Tasks DEF QueueOK, Chained
<1>2. w[t] # NoWait /\ \A x \in Chained : x # t => w[x] = wait[x]
  BY <1>1, ArmedTimer
<1> HIDE DEF w
<1>3. ToSet(queue) \subseteq ToSet(queue')
  BY <1>1, ArmedPosts
<1>4. wait' = w
  BY DEF w
<1> QED BY <1>2, <1>3, <1>4

LEMMA StartDhtDue ==
    ASSUME NodeInv, NothingBreaksOff, NEW i \in Start, start_dht_manager(i)
    PROVE  NothingBreaksOff'
<1>1. /\ Step(i, "dht", "bind") /\ requires' = [requires EXCEPT !["maintainer"] = TRUE]
      /\ wait' = expires_from_now(wait, "maintainer", "get_remote_nodes", PingWait)
      /\ Cancel("maintainer", queue) /\ UNCHANGED <<receiving, ask>>
  BY DEF start_dht_manager, Arm
<1>2. "maintainer" \in Chained /\ PingWait \in 1 .. Longest
  BY LongestTimes DEF Chained
<1>3. /\ ToSet(queue) \subseteq ToSet(queue') /\ wait'["maintainer"] # NoWait
      /\ \A x \in Chained : wait'[x] # NoWait \/ wait[x] = NoWait
  BY <1>1, <1>2, ArmingDue
<1>4. requires'["refresh"] = requires["refresh"]
  BY <1>1 DEF NodeInv, RestOK
<1>5. \A s \in Ask : ask'[s] = "posted" => ask[s] = "posted"
  BY <1>1
<1> QED BY <1>1, <1>3, <1>4, <1>5, DaemonDue

LEMMA StartBindingDue ==
    ASSUME NodeInv, NothingBreaksOff, NEW i \in Start, start_binding_request(i)
    PROVE  NothingBreaksOff'
<1>1. /\ Step(i, "bind", "pool") /\ binding_request(wait)
      /\ UNCHANGED <<queue, receiving, requires>>
  BY DEF start_binding_request
<1>2. /\ \A t \in Chained : wait'[t] = wait[t]
      /\ \A s \in Ask : ask'[s] = "posted" => ask[s] = "posted"
  BY <1>1, RequestMade
<1>3. /\ ToSet(queue) \subseteq ToSet(queue')
      /\ \A t \in Chained : wait'[t] # NoWait \/ wait[t] = NoWait
  BY <1>1, <1>2
<1> QED BY <1>1, <1>2, <1>3, DaemonDue

LEMMA StartRefreshDue ==
    ASSUME NodeInv, NothingBreaksOff, NEW i \in Start, start_refresh(i)
    PROVE  NothingBreaksOff'
<1>1. /\ Step(i, "pool", "tick") /\ requires' = [requires EXCEPT !["refresh"] = TRUE]
      /\ wait' = expires_from_now(wait, "refresh", "refresh_tick", RefreshTime)
      /\ Cancel("refresh", queue) /\ UNCHANGED <<receiving, ask>>
  BY DEF start_refresh, Arm
<1>2. "refresh" \in Chained /\ RefreshTime \in 1 .. Longest
  BY LongestTimes DEF Chained
<1>3. /\ ToSet(queue) \subseteq ToSet(queue') /\ wait'["refresh"] # NoWait
      /\ \A x \in Chained : wait'[x] # NoWait \/ wait[x] = NoWait
  BY <1>1, <1>2, ArmingDue
<1>4. requires'["maintainer"] = requires["maintainer"]
  BY <1>1 DEF NodeInv, RestOK
<1>5. \A s \in Ask : ask'[s] = "posted" => ask[s] = "posted"
  BY <1>1
<1> QED BY <1>1, <1>3, <1>4, <1>5, DaemonDue

LEMMA StartTickDue ==
    ASSUME NodeInv, NothingBreaksOff, NEW i \in Start, start_tick(i)
    PROVE  NothingBreaksOff'
<1>1. /\ Step(i, "tick", "run") /\ wait' = expires_from_now(wait, "tick", "tick", TickTime)
      /\ Cancel("tick", queue) /\ UNCHANGED <<receiving, requires, ask>>
  BY DEF start_tick, call_tick
<1>2. "tick" \in Chained /\ TickTime \in 1 .. Longest
  BY LongestTimes DEF Chained
<1>3. /\ ToSet(queue) \subseteq ToSet(queue') /\ wait'["tick"] # NoWait
      /\ \A x \in Chained : wait'[x] # NoWait \/ wait[x] = NoWait
  BY <1>1, <1>2, ArmingDue
<1>4. \A s \in Ask : ask'[s] = "posted" => ask[s] = "posted"
  BY <1>1
<1> QED BY <1>1, <1>3, <1>4, DaemonDue

LEMMA RunDue ==
    ASSUME NodeInv, NothingBreaksOff, NEW i \in Start, run(i)
    PROVE  NothingBreaksOff'
<1>1. Step(i, "run", "in run") /\ UNCHANGED <<queue, receiving, requires, wait, ask>>
  BY DEF run, timers
<1>2. /\ ToSet(queue) \subseteq ToSet(queue')
      /\ \A t \in Chained : wait'[t] # NoWait \/ wait[t] = NoWait
      /\ \A s \in Ask : ask'[s] = "posted" => ask[s] = "posted"
  BY <1>1
<1> QED BY <1>1, <1>2, DaemonDue

LEMMA NothingBreaksOffStep ==
    NodeInv /\ NothingBreaksOff /\ [NodeNext]_allVars => NothingBreaksOff'
<1> SUFFICES ASSUME NodeInv, NothingBreaksOff, [NodeNext]_allVars PROVE NothingBreaksOff'
  OBVIOUS
<1>1. CASE UNCHANGED <<queue, receiving, daemon, requires, wait, ask>>
  BY <1>1, ArrivalDue
<1>2. CASE \E p \in Peer : running /\ Arrives(p) /\ UNCHANGED nodeVars
  BY <1>1, <1>2 DEF Arrives, nodeVars, life, timers, asking
<1>3. CASE Socket
  <2>1. queue' = Append(queue, Received) /\ UNCHANGED <<daemon, requires, wait, ask>>
    BY <1>3 DEF Socket, ReceiveCompletes, Received, nodeVars, life, timers, asking
  <2> QED BY <2>1, SocketDue
<1>4. CASE ReceiveFails /\ UNCHANGED nodeVars
  <2>1. queue' = Append(queue, Error) /\ UNCHANGED <<daemon, requires, wait, ask>>
    BY <1>4 DEF ReceiveFails, Error, nodeVars, life, timers, asking
  <2> QED BY <2>1, SocketDue
<1>5. CASE Elapse
  BY <1>5, ElapseDue
<1>6. CASE TimersReady
  BY <1>6, TimersReadyDue
<1>7. CASE Handler
  <2>0. ASSUME recv_handler_throws \/ command_throws, UNCHANGED nodeVars
        PROVE  NothingBreaksOff'
    BY <1>1, <2>0 DEF recv_handler_throws, command_throws, throws, nodeVars, life, timers, asking
  <2>1. CASE (call_income_message_handler \/ receive_error) /\ UNCHANGED nodeVars
    BY <2>1, ReceiveHandlersDue
  <2>2. CASE on_receive_packet
    BY <2>0, <2>2, ReceivePacketDue DEF on_receive_packet
  <2>3. CASE on_timeout
    BY <2>3, OnTimeoutDue
  <2>4. CASE result
    BY <2>4, ResultDue
  <2>5. CASE tick
    BY <2>5, TickDue
  <2>6. CASE refresh_tick \/ maintainer_tick \/ get_remote_nodes
    BY <2>6, ChainsDue
  <2>7. CASE command_stop \/ command_other
    BY <2>7, CommandsDue
  <2> QED
    BY <1>7, <2>0, <2>1, <2>2, <2>3, <2>4, <2>5, <2>6, <2>7 DEF Handler, command_throws
<1>8. ASSUME NEW i \in Start, start(i) \/ Daemon(i) PROVE NothingBreaksOff'
  BY <1>8, StartDue, StartDhtDue, StartBindingDue, StartRefreshDue, StartTickDue, RunDue
  DEF Daemon
<1>9. CASE stop_udp_server
  BY <1>9, StopUdpDue
<1>10. CASE stop_io_context
  BY <1>10, StopIoContextDue
<1>11. CASE \E c \in Command : listen_stdin(c)
  BY <1>11, ListenDue
<1>12. CASE UNCHANGED allVars
  BY <1>1, <1>12 DEF allVars, vars, nodeVars, life, timers, asking
<1> QED
  BY <1>2, <1>3, <1>4, <1>5, <1>6, <1>7, <1>8, <1>9, <1>10, <1>11, <1>12 DEF NodeNext

\* However often the node is started and stopped, and in whatever order starts,
\* handlers, errors and timers come: once started it has a receive outstanding or
\* the handler ready that asks for the next (udp_server::call_receiver after each
\* datagram and each error); the chain of the ticks, and those of the message
\* pool and of the connection_maintainer while they are to go on, have a timer
\* set or a handler ready; and a request that is decided has the call of its
\* handler posted.  ChainsGoOn and EveryDatagramHandled rest on it.
THEOREM NothingBreaksOffTheorem == NodeSpec => []NothingBreaksOff
<1>1. NodeInit => NothingBreaksOff
  BY NothingBreaksOffInit
<1>2. NodeInv /\ NothingBreaksOff /\ [NodeNext]_allVars => NothingBreaksOff'
  BY NothingBreaksOffStep
<1> QED BY <1>1, <1>2, NodeInvariant, PTL DEF NodeSpec

\* Where a datagram is that arrived.
NoDatagramLost ==
    ~stopped /\ thrown = Nothing =>
        \A i \in DOMAIN from : \/ i \in ToSet(Handled)
                               \/ RecvHandler(i) \in ToSet(queue)
                               \/ recv_buff = i /\ Received \in ToSet(queue)
                               \/ i \in ToSet(sock)

\* No datagram that arrived is dropped or overwritten, on a node that is not
\* started again before it was stopped: until the io_context is stopped, or an
\* exception ends the process, it is in the socket, in _recv_buff with the handler
\* of its receive ready, copied for a _recv_handler that is posted, or handled.
\* EveryDatagramHandled rests on it.
THEOREM NoDatagramLostTheorem == ~Overlap /\ NodeSpec => []NoDatagramLost
<1>1. NodeInv /\ OneInv => NoDatagramLost
  <2> SUFFICES ASSUME NodeInv, OneInv, ~stopped
               PROVE  \A i \in DOMAIN from : \/ i \in ToSet(Handled)
                                             \/ RecvHandler(i) \in ToSet(queue)
                                             \/ recv_buff = i /\ Received \in ToSet(queue)
                                             \/ i \in ToSet(sock)
    BY DEF NoDatagramLost
  <2> TAKE i \in DOMAIN from
  <2> DEFINE n == Len(from)
             lo == Len(handled)
             rb == recv_buff
             hi == IF Received \in ToSet(queue) THEN rb - 1 ELSE rb
  <2>1. n \in Nat /\ lo \in Nat /\ rb \in 0 .. n /\ i \in 1 .. n /\ DOMAIN handled = 1 .. lo
        /\ sock \in Seq(1 .. n)
    <3>1. handled \in Seq([msg : 1 .. n, src : Peer \cup {NoPeer}]) /\ rb \in 0 .. n
          /\ sock \in Seq(1 .. n)
      BY ParametersOf DEF DataOK
    <3> QED BY <3>1, DatagramFacts, Entries
  <2>2. \A m \in 1 .. lo : handled[m].msg = m
    BY DEF OneInv, HandledOK
  <2>3. /\ \A m \in Nat : RecvHandler(m) \in ToSet(queue) <=> lo < m /\ m <= hi
        /\ rb + Len(sock) = n /\ \A m \in 1 .. Len(sock) : sock[m] = rb + m
    BY DEF OneInv, Alive, ReceivesOK, DatagramsOK, BufferOK
  <2> HIDE DEF n, lo, rb
  <2>4. CASE i <= lo
    <3>1. i \in 1 .. lo /\ i \in DOMAIN Handled /\ Handled[i] = i
      BY <2>1, <2>2, <2>4 DEF Handled
    <3> QED BY <3>1 DEF ToSet
  <2>5. CASE rb < i
    <3>1. Len(sock) \in Nat /\ ToSet(sock) = {sock[m] : m \in 1 .. Len(sock)}
      BY <2>1, Entries
    <3>2. i - rb \in 1 .. Len(sock) /\ sock[i - rb] = i
      BY <2>1, <2>3, <2>5, <3>1
    <3> QED BY <3>1, <3>2
  <2>6. CASE lo < i /\ i <= rb
    <3>1. CASE Received \in ToSet(queue) /\ i = rb
      BY <3>1 DEF rb
    <3>2. CASE ~(Received \in ToSet(queue) /\ i = rb)
      <4>1. i <= hi /\ i \in Nat
        BY <2>1, <2>6, <3>2
      <4> QED BY <2>3, <2>6, <4>1
    <3> QED BY <3>1, <3>2
  <2> QED BY <2>1, <2>4, <2>5, <2>6
<1> QED BY <1>1, OneInvariant, PTL
=============================================================================

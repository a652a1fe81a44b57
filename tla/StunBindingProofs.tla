-------------------------- MODULE StunBindingProofs --------------------------
(***************************************************************************)
(* Proofs about one binding request, for every set of nodes that may be    *)
(* asked or answer, every set of endpoints and every length of the queue.  *)
(***************************************************************************)
EXTENDS StunBinding, QueueTheorems, FiniteSetTheorems

Value == Endpoint \cup {None}

\* A posted call of the handler that async_get left.
Calls == [h : {"handler"}, ep : Value]

ReadyHandler == [h : {"income"}, from : Target] \cup [h : {"on_timeout"}] \cup Calls

StunType ==
    /\ TypeOK
    /\ responses \in [DOMAIN responses -> Value]
    /\ todo \in Seq(Target)
    /\ queue \in Seq(ReadyHandler)
    /\ IsFiniteSet(asked)

-----------------------------------------------------------------------------
(* The observer's operators *)

\* Whatever is decided is nothing, or a value that one of the answers reports and
\* that is no loopback address, resting on enough answers.
LEMMA ConsensusReported ==
    ASSUME NEW r, NEW ep \in global_ep_consensus(r), ep # None
    PROVE  /\ ep \in Endpoint
           /\ \E t \in DOMAIN r : r[t] = ep /\ ep \notin Loopback
           /\ ~Undecided(r)
<1>1. ep \in Endpoint /\ Votes(r, ep) > 0 /\ ~Undecided(r)
  BY DEF global_ep_consensus
<1>2. {t \in Valid(r) : r[t] = ep} # {}
  BY <1>1, FS_EmptySet DEF Votes
<1> QED BY <1>1, <1>2 DEF Valid, Answered

LEMMA ConsensusType ==
    ASSUME NEW r, NEW ep \in global_ep_consensus(r)
    PROVE  ep \in Value
  BY DEF global_ep_consensus, Value

\* An answer is entered for a node that is listed, and for no other.
LEMMA AddResponse ==
    ASSUME NEW r, r \in [DOMAIN r -> Value], NEW t \in Target, NEW ep \in Endpoint
    PROVE  /\ DOMAIN add_response(r, t, ep) = DOMAIN r
           /\ add_response(r, t, ep) \in [DOMAIN r -> Value]
           /\ \A x \in DOMAIN r : add_response(r, t, ep)[x] = IF x = t THEN ep ELSE r[x]
  BY DEF add_response, Value

\* What a call of the handler posts.
LEMMA CallPosted ==
    ASSUME NEW ep \in Value
    PROVE  /\ async_call_sr_handler(ep) \in Seq(ReadyHandler)
           /\ ToSet(async_call_sr_handler(ep)) =
                 IF Async /\ ~called THEN {[h |-> "handler", ep |-> ep]} ELSE {}
           /\ AtMostOne(async_call_sr_handler(ep), Calls)
<1>1. [h |-> "handler", ep |-> ep] \in ReadyHandler
  BY DEF ReadyHandler, Calls
<1>2. CASE Async /\ ~called
  <2>1. async_call_sr_handler(ep) = <<[h |-> "handler", ep |-> ep]>>
    BY <1>2 DEF async_call_sr_handler
  <2>2. <<[h |-> "handler", ep |-> ep]>> \in Seq(ReadyHandler)
    BY <1>1
  <2> QED BY <1>2, <2>1, <2>2, EntriesOfTuples, OneOfTuples
<1>3. CASE ~(Async /\ ~called)
  <2>1. async_call_sr_handler(ep) = <<>>
    BY <1>3 DEF async_call_sr_handler
  <2> QED BY <1>3, <2>1, EmptySeq, EntriesOfTuples, OneOfTuples
<1> QED BY <1>2, <1>3

-----------------------------------------------------------------------------
(* Type correctness *)

LEMMA StunTypeInit == Init => StunType
<1> SUFFICES ASSUME Init PROVE StunType
  OBVIOUS
<1>1. PICK request_nodes \in Requests : /\ asked = ToSet(request_nodes)
                                        /\ todo = IF Async THEN <<>> ELSE request_nodes
  BY DEF Init
<1>2. request_nodes \in Seq(Target)
  BY StunAssumption
<1>3. asked \subseteq Target /\ asked = {request_nodes[i] : i \in 1 .. Len(request_nodes)}
  BY <1>1, <1>2, Entries
<1>4. IsFiniteSet(asked)
  <2>1. Len(request_nodes) \in Nat /\ IsFiniteSet(1 .. Len(request_nodes))
    BY <1>2, Entries, FS_Interval
  <2>2. request_nodes \in Surjection(1 .. Len(request_nodes), asked)
    BY <1>2, <1>3, Entries DEF Surjection
  <2> QED BY <2>1, <2>2, FS_Surjection
<1>5. todo \in Seq(Target) /\ ToSet(todo) \subseteq asked
  <2>1. <<>> \in Seq(Target) /\ ToSet(<<>>) = {}
    BY EmptySeq, EntriesOfTuples
  <2> QED BY <1>1, <1>2, <2>1
<1>6. responses \in [DOMAIN responses -> Value] /\ DOMAIN responses \subseteq asked
  BY DEF Init, Value
<1>7. <<>> \in Seq(ReadyHandler) /\ <<>> \in Seq(Value)
  BY EmptySeq
<1>8. sees \in [Target -> Endpoint] /\ caller \in {"asks", "async"}
  BY StunAssumption DEF Init
<1> QED
  BY <1>3, <1>4, <1>5, <1>6, <1>7, <1>8
  DEF Init, StunType, TypeOK, Value, SrObject, Notfound

\* A decision goes to the sr_object; another outcome leaves its endpoint.
LEMMA UpdateSr ==
    ASSUME StunType, NEW ep \in Value, update_sr(ep)
    PROVE  /\ sr' \in SrObject
           /\ caller' \in {"asks", "gets", "waits", "woken", "returned", "async"}
           /\ Async' = Async
           /\ IF ep = None THEN sr'.ep = sr.ep /\ sr'.state = "notfound"
                           ELSE sr'.ep = ep /\ sr'.state = "done"
<1>1. sr \in SrObject /\ caller \in {"asks", "gets", "waits", "woken", "returned", "async"}
  BY DEF StunType, TypeOK
<1>2. sr' = IF ep # None THEN [state |-> "done", ep |-> ep]
                         ELSE [sr EXCEPT !.state = "notfound"]
  BY DEF update_sr, update_state
<1>3. caller' = IF caller = "waits" THEN "woken" ELSE caller
  BY DEF update_sr, update_state
<1>4. (caller' = "async") = (caller = "async")
  BY <1>3
<1> QED BY <1>1, <1>2, <1>3, <1>4 DEF SrObject, Value, Async

\* The handler at the front, and the queue without it.
LEMMA RunningType ==
    ASSUME StunType, NEW h, Running(h)
    PROVE  /\ queue # <<>> /\ Head(queue) \in ReadyHandler /\ Head(queue).h = h
           /\ Head(queue) \in ToSet(queue)
           /\ Tail(queue) \in Seq(ReadyHandler) /\ ToSet(Tail(queue)) \subseteq ToSet(queue)
           /\ h = "income" => Head(queue).from \in Target
           /\ h = "handler" => Head(queue) \in Calls
<1>1. queue \in Seq(ReadyHandler) /\ queue # <<>> /\ Head(queue).h = h
  BY DEF StunType, Running
<1>2. /\ Head(queue) \in ReadyHandler /\ Tail(queue) \in Seq(ReadyHandler)
      /\ ToSet(queue) = {Head(queue)} \cup ToSet(Tail(queue))
  BY <1>1, TakeEntries
<1>3. /\ h = "income" => Head(queue).from \in Target
      /\ h = "handler" => Head(queue) \in Calls
  BY <1>1, <1>2 DEF ReadyHandler, Calls
<1> QED BY <1>1, <1>2, <1>3

\* What income_message posts when it has decided.
Cancelled == IF timer THEN <<[h |-> "on_timeout"]>> ELSE <<>>

LEMMA CancelledType ==
    ASSUME StunType
    PROVE  /\ Cancelled \in Seq(ReadyHandler) /\ ToSet(Cancelled) \cap Calls = {}
           /\ AtMostOne(Cancelled, Calls)
<1>1. [h |-> "on_timeout"] \in ReadyHandler /\ [h |-> "on_timeout"] \notin Calls
  BY DEF ReadyHandler, Calls
<1>2. CASE timer
  <2>1. Cancelled = <<[h |-> "on_timeout"]>>
    BY <1>2 DEF Cancelled
  <2> QED BY <1>1, <2>1, EntriesOfTuples, OneOfTuples
<1>3. CASE ~timer
  <2>1. Cancelled = <<>>
    BY <1>3 DEF Cancelled
  <2> QED BY <2>1, EmptySeq, EntriesOfTuples, OneOfTuples
<1> QED BY <1>2, <1>3

\* The queue after on_timeout and, with more, after income_message has decided.
LEMMA DecisionPosted ==
    ASSUME StunType, queue # <<>>, NEW ep \in Value,
           NEW more \in Seq(ReadyHandler), ToSet(more) \cap Calls = {}, AtMostOne(more, Calls),
           NEW q, q = Tail(queue) \o async_call_sr_handler(ep) \o more
    PROVE  /\ q \in Seq(ReadyHandler)
           /\ ToSet(q) \cap Calls =
                 (ToSet(Tail(queue)) \cap Calls) \cup
                 (IF Async /\ ~called THEN {[h |-> "handler", ep |-> ep]} ELSE {})
           /\ AtMostOne(queue, Calls) /\ (~called => ToSet(queue) \cap Calls = {}) =>
                 AtMostOne(q, Calls)
<1> DEFINE c == async_call_sr_handler(ep)
           e == [h |-> "handler", ep |-> ep]
<1>1. /\ Tail(queue) \in Seq(ReadyHandler) /\ ToSet(Tail(queue)) \subseteq ToSet(queue)
      /\ AtMostOne(queue, Calls) => AtMostOne(Tail(queue), Calls)
  BY TakeEntries, TakeOne DEF StunType
<1>2. /\ c \in Seq(ReadyHandler) /\ AtMostOne(c, Calls)
      /\ ToSet(c) = IF Async /\ ~called THEN {e} ELSE {}
  BY CallPosted
<1>3. e \in Calls
  BY DEF Calls
<1> HIDE DEF c, e
<1> DEFINE x == Tail(queue) \o c
<1>4. x \in Seq(ReadyHandler) /\ ToSet(x) = ToSet(Tail(queue)) \cup ToSet(c)
  BY <1>1, <1>2, PostManyEntries
<1>5. q = x \o more
  BY DEF c
<1>6. ASSUME AtMostOne(queue, Calls), ~called => ToSet(queue) \cap Calls = {}
      PROVE  AtMostOne(x, Calls)
  <2>1. ToSet(Tail(queue)) \cap Calls = {} \/ ToSet(c) \cap Calls = {}
    BY <1>1, <1>2, <1>6
  <2> QED BY <1>1, <1>2, <1>6, <2>1, PostOne
<1> HIDE DEF x
<1>7. q \in Seq(ReadyHandler) /\ ToSet(q) = ToSet(x) \cup ToSet(more)
  <2>1. x \o more \in Seq(ReadyHandler) /\ ToSet(x \o more) = ToSet(x) \cup ToSet(more)
    BY <1>4, PostManyEntries
  <2> QED BY <1>5, <2>1
<1>8. ASSUME AtMostOne(queue, Calls), ~called => ToSet(queue) \cap Calls = {}
      PROVE  AtMostOne(q, Calls)
  BY <1>4, <1>5, <1>6, <1>8, PostOne
<1>9. ToSet(c) \cap Calls = IF Async /\ ~called THEN {e} ELSE {}
  BY <1>2, <1>3
<1>10. ToSet(q) \cap Calls = (ToSet(Tail(queue)) \cap Calls) \cup (ToSet(c) \cap Calls)
  BY <1>4, <1>7
<1> QED BY <1>7, <1>8, <1>9, <1>10 DEF e

LEMMA StunTypeStep == StunType /\ [Next]_vars => StunType'
<1> SUFFICES ASSUME StunType, [Next]_vars PROVE StunType'
  OBVIOUS
<1> USE DEF StunType, TypeOK
<1>1. CASE income_message
  <2> DEFINE from == Head(queue).from
             r == add_response(responses, from, sees[from])
  <2>1. Running("income") /\ responses' = r
    BY <1>1 DEF income_message
  <2>2. from \in Target /\ Tail(queue) \in Seq(ReadyHandler)
    BY <2>1, RunningType
  <2>3. /\ DOMAIN responses' = DOMAIN responses /\ responses' \in [DOMAIN responses -> Value]
    BY <2>1, <2>2, AddResponse
  <2>4. PICK ep \in global_ep_consensus(r) :
           IF ep = None
           THEN /\ queue' = Tail(queue)
                /\ UNCHANGED <<observer, timer, called, sr, caller>>
           ELSE /\ update_sr(ep)
                /\ queue' = Tail(queue) \o async_call_sr_handler(ep) \o Cancelled
                /\ called' = (called \/ Async)
                /\ timer' = FALSE
                /\ observer' = "expired"
    BY <1>1 DEF income_message, Cancelled
  <2>5. ep \in Value
    BY ConsensusType
  <2>6. UNCHANGED <<asked, todo, unlisted, sees, handed, result, crashed>>
    BY <1>1 DEF income_message
  <2>7. CASE ep = None
    BY <2>2, <2>3, <2>4, <2>6, <2>7 DEF Value
  <2>8. CASE ep # None
    <3>1. queue' \in Seq(ReadyHandler)
      BY <2>1, <2>4, <2>5, <2>8, RunningType, CancelledType, DecisionPosted
    <3>2. sr' \in SrObject /\ caller' \in {"asks", "gets", "waits", "woken", "returned", "async"}
      BY <2>4, <2>5, <2>8, UpdateSr
    <3>3. called' \in BOOLEAN /\ timer' \in BOOLEAN /\ observer' = "expired"
      BY <2>4, <2>8 DEF Async
    <3> HIDE DEF r, from
    <3> QED BY <2>3, <2>6, <3>1, <3>2, <3>3 DEF Value
  <2> QED BY <2>7, <2>8
<1>2. CASE income_ignored
  BY <1>2, RunningType DEF income_ignored
<1>3. CASE on_timeout
  <2>1. PICK ep \in global_ep_consensus(responses) :
           update_sr(ep) /\ queue' = Tail(queue) \o async_call_sr_handler(ep)
    BY <1>3 DEF on_timeout
  <2>2. ep \in Value
    BY ConsensusType
  <2>3. queue' \in Seq(ReadyHandler)
    BY <1>3, <2>1, <2>2, RunningType, CallPosted, PostManyEntries DEF on_timeout
  <2>4. sr' \in SrObject /\ caller' \in {"asks", "gets", "waits", "woken", "returned", "async"}
    BY <2>1, <2>2, UpdateSr
  <2> QED BY <1>3, <2>3, <2>4 DEF on_timeout, Async
<1>4. CASE handler
  <2>1. Head(queue).ep \in Value /\ Tail(queue) \in Seq(ReadyHandler)
    BY <1>4, RunningType DEF handler, Calls
  <2>2. handed' \in Seq(Value)
    BY <1>4, <2>1 DEF handler, Value
  <2> QED BY <1>4, <2>1, <2>2 DEF handler, Value
<1>5. CASE DiesOnFreed
  BY <1>5 DEF DiesOnFreed
<1>6. CASE async_ice_send
  <2>1. /\ Tail(todo) \in Seq(Target) /\ Head(todo) \in ToSet(todo)
        /\ ToSet(Tail(todo)) \subseteq ToSet(todo)
    BY <1>6, TakeEntries DEF async_ice_send
  <2> QED BY <1>6, <2>1 DEF async_ice_send
<1>7. CASE add_requested_ep
  BY <1>7 DEF add_requested_ep, Value
<1>8. CASE binding_request_returns
  BY <1>8 DEF binding_request_returns
<1>9. CASE sync_get
  BY <1>9 DEF sync_get
<1>10. CASE sync_get_returns
  BY <1>10 DEF sync_get_returns, SrObject
<1>11. CASE TimerDue
  <2>1. [h |-> "on_timeout"] \in ReadyHandler
    BY DEF ReadyHandler
  <2>2. queue' \in Seq(ReadyHandler)
    BY <1>11, <2>1 DEF TimerDue
  <2> QED BY <1>11, <2>2 DEF TimerDue
<1>12. CASE refresh_tick
  BY <1>12 DEF refresh_tick
<1>13. ASSUME NEW t \in Target, Answer(t) PROVE StunType'
  <2>1. [h |-> "income", from |-> t] \in ReadyHandler
    BY DEF ReadyHandler
  <2>2. queue' \in Seq(ReadyHandler)
    BY <1>13, <2>1 DEF Answer
  <2> QED BY <1>13, <2>2 DEF Answer
<1>14. CASE UNCHANGED vars
  BY <1>14 DEF vars
<1> QED
  BY <1>1, <1>2, <1>3, <1>4, <1>5, <1>6, <1>7, <1>8, <1>9, <1>10, <1>11, <1>12, <1>13, <1>14
  DEF Next, Handler, Caller

THEOREM StunTypeCorrect == Spec => []TypeOK
<1>1. StunType => TypeOK
  BY DEF StunType
<1> QED BY <1>1, StunTypeInit, StunTypeStep, PTL DEF Spec

-----------------------------------------------------------------------------
(* The handler is called once *)

\* The handler was not called, or its one call is posted, or has run.
OnceInv ==
    /\ ~called => handed = <<>> /\ ToSet(queue) \cap Calls = {}
    /\ AtMostOne(queue, Calls)
    /\ handed # <<>> => Len(handed) = 1 /\ ToSet(queue) \cap Calls = {}

LEMMA OnceInit == Init => OnceInv
  BY EntriesOfTuples, OneOfTuples DEF Init, OnceInv

\* A handler other than a call leaves the queue.
LEMMA OnceTake ==
    ASSUME StunType, OnceInv, queue # <<>>, queue' = Tail(queue), UNCHANGED <<called, handed>>
    PROVE  OnceInv'
<1>1. ToSet(Tail(queue)) \subseteq ToSet(queue) /\ AtMostOne(Tail(queue), Calls)
  BY TakeEntries, TakeOne DEF StunType, OnceInv
<1> QED BY <1>1 DEF OnceInv

\* A handler other than a call enters the queue.
LEMMA OncePost ==
    ASSUME StunType, OnceInv, NEW e \in ReadyHandler \ Calls, queue' = Append(queue, e),
           UNCHANGED <<called, handed>>
    PROVE  OnceInv'
<1>1. queue \in Seq(ReadyHandler) /\ <<e>> \in Seq(ReadyHandler)
  BY DEF StunType
<1>2. queue' = queue \o <<e>>
  BY <1>1, PostIsConcat
<1>3. ToSet(<<e>>) = {e} /\ AtMostOne(<<e>>, Calls)
  BY EntriesOfTuples, OneOfTuples
<1>4. ToSet(queue') = ToSet(queue) \cup {e}
  BY <1>1, PostEntries
<1>5. AtMostOne(queue', Calls)
  BY <1>1, <1>2, <1>3, PostOne DEF OnceInv
<1> QED BY <1>4, <1>5 DEF OnceInv

\* A decision is made.
LEMMA OnceDecision ==
    ASSUME StunType, OnceInv, queue # <<>>, NEW ep \in Value,
           NEW more \in Seq(ReadyHandler), ToSet(more) \cap Calls = {}, AtMostOne(more, Calls),
           queue' = Tail(queue) \o async_call_sr_handler(ep) \o more,
           called' = (called \/ Async), handed' = handed
    PROVE  OnceInv'
<1>1. /\ ToSet(queue') \cap Calls =
            (ToSet(Tail(queue)) \cap Calls) \cup
            (IF Async /\ ~called THEN {[h |-> "handler", ep |-> ep]} ELSE {})
      /\ AtMostOne(queue', Calls)
  BY DecisionPosted DEF OnceInv
<1>2. ToSet(Tail(queue)) \subseteq ToSet(queue)
  BY TakeEntries DEF StunType
<1>3. called \in BOOLEAN
  BY DEF StunType, TypeOK
<1> QED BY <1>1, <1>2, <1>3 DEF OnceInv

\* The steps that may touch the queue, the calls or what was handed on: a handler
\* that is no call leaves, or enters, the handler is called, or it is a decision.
Quiet == UNCHANGED <<queue, called, handed>>
Takes == queue # <<>> /\ Head(queue) \notin Calls /\ queue' = Tail(queue) /\ UNCHANGED <<called, handed>>
Posts == (\E e \in ReadyHandler \ Calls : queue' = Append(queue, e)) /\ UNCHANGED <<called, handed>>
Decides ==
    /\ queue # <<>> /\ Head(queue) \notin Calls
    /\ \E ep \in Value, more \in Seq(ReadyHandler) :
          /\ ToSet(more) \cap Calls = {} /\ AtMostOne(more, Calls)
          /\ queue' = Tail(queue) \o async_call_sr_handler(ep) \o more
    /\ called' = (called \/ Async) /\ handed' = handed

\* Every step but a call of the handler is one of them.
LEMMA QueueSteps ==
    ASSUME StunType, [Next]_vars
    PROVE  Quiet \/ Takes \/ Posts \/ Decides \/ handler
<1>0. \A h \in {"income", "on_timeout"} : Running(h) => queue # <<>> /\ Head(queue) \notin Calls
  BY DEF Running, Calls
<1>1. CASE income_message
  <2> DEFINE r == add_response(responses, Head(queue).from, sees[Head(queue).from])
  <2>1. PICK ep \in global_ep_consensus(r) :
           IF ep = None
           THEN /\ queue' = Tail(queue)
                /\ UNCHANGED <<observer, timer, called, sr, caller>>
           ELSE /\ update_sr(ep)
                /\ queue' = Tail(queue) \o async_call_sr_handler(ep) \o Cancelled
                /\ called' = (called \/ Async)
                /\ timer' = FALSE
                /\ observer' = "expired"
    BY <1>1 DEF income_message, Cancelled
  <2>2. ep \in Value
    BY ConsensusType
  <2>3. Running("income") /\ handed' = handed
    BY <1>1 DEF income_message
  <2> HIDE DEF r
  <2>4. CASE ep = None
    BY <1>0, <2>1, <2>3, <2>4 DEF Takes
  <2>5. CASE ep # None
    BY <1>0, <2>1, <2>2, <2>3, <2>5, CancelledType DEF Decides
  <2> QED BY <2>4, <2>5
<1>2. CASE income_ignored
  BY <1>0, <1>2 DEF income_ignored, Takes
<1>3. CASE on_timeout
  <2>1. PICK ep \in global_ep_consensus(responses) :
           queue' = Tail(queue) \o async_call_sr_handler(ep)
    BY <1>3 DEF on_timeout
  <2>2. ep \in Value
    BY ConsensusType
  <2>3. /\ Tail(queue) \in Seq(ReadyHandler) /\ async_call_sr_handler(ep) \in Seq(ReadyHandler)
    BY <1>3, <2>2, RunningType, CallPosted DEF on_timeout
  <2>4. Tail(queue) \o async_call_sr_handler(ep) \in Seq(ReadyHandler)
    BY <2>3, PostManyEntries
  <2>5. queue' = Tail(queue) \o async_call_sr_handler(ep) \o <<>>
    BY <2>1, <2>4, ConcatEmptySeq
  <2>6. <<>> \in Seq(ReadyHandler) /\ ToSet(<<>>) \cap Calls = {} /\ AtMostOne(<<>>, Calls)
    BY EmptySeq, EntriesOfTuples, OneOfTuples
  <2> QED BY <1>0, <1>3, <2>2, <2>5, <2>6 DEF on_timeout, Decides
<1>4. CASE TimerDue
  <2>1. [h |-> "on_timeout"] \in ReadyHandler \ Calls
    BY DEF ReadyHandler, Calls
  <2> QED BY <1>4, <2>1 DEF TimerDue, Posts
<1>5. ASSUME NEW t \in Target, Answer(t) PROVE Posts
  <2>1. [h |-> "income", from |-> t] \in ReadyHandler \ Calls
    BY DEF ReadyHandler, Calls
  <2> QED BY <1>5, <2>1 DEF Answer, Posts
<1>6. CASE DiesOnFreed \/ Caller \/ refresh_tick \/ UNCHANGED vars
  BY <1>6 DEF DiesOnFreed, Caller, refresh_tick, vars, async_ice_send, add_requested_ep,
     binding_request_returns, sync_get, sync_get_returns, Quiet
<1> QED BY <1>1, <1>2, <1>3, <1>4, <1>5, <1>6 DEF Next, Handler

\* A call runs: it was the only one, and the first.
LEMMA CallRuns ==
    ASSUME StunType, OnceInv, handler
    PROVE  /\ Head(queue) \in Calls /\ ToSet(queue) \cap Calls = {Head(queue)}
           /\ ToSet(queue') \cap Calls = {} /\ AtMostOne(queue', Calls)
           /\ handed = <<>> /\ handed' = <<Head(queue).ep>>
           /\ called
<1>1. queue \in Seq(ReadyHandler) /\ queue # <<>> /\ Head(queue) \in Calls
  BY RunningType DEF handler, StunType
<1>2. /\ ToSet(queue) = {Head(queue)} \cup ToSet(Tail(queue))
      /\ AtMostOne(Tail(queue), Calls) /\ ToSet(Tail(queue)) \cap Calls = {}
  BY <1>1, TakeEntries, TakeOne DEF OnceInv
<1>3. handed = <<>> /\ called
  BY <1>1, <1>2 DEF OnceInv
<1>4. Append(<<>>, Head(queue).ep) = <<Head(queue).ep>>
  OBVIOUS
<1> QED BY <1>1, <1>2, <1>3, <1>4 DEF handler

LEMMA OnceStep == StunType /\ OnceInv /\ [Next]_vars => OnceInv'
<1> SUFFICES ASSUME StunType, OnceInv, [Next]_vars PROVE OnceInv'
  OBVIOUS
<1>1. CASE Quiet
  BY <1>1 DEF Quiet, OnceInv
<1>2. CASE Takes
  BY <1>2, OnceTake DEF Takes
<1>3. CASE Posts
  BY <1>3, OncePost DEF Posts
<1>4. CASE Decides
  BY <1>4, OnceDecision DEF Decides
<1>5. CASE handler
  <2>1. Len(<<Head(queue).ep>>) = 1 /\ called' = called
    BY <1>5 DEF handler
  <2> QED BY <1>5, <2>1, CallRuns DEF OnceInv
<1> QED BY <1>1, <1>2, <1>3, <1>4, <1>5, QueueSteps

-----------------------------------------------------------------------------
(* The refinement *)

\* The decision as AsyncResult sees it.
Outcome == IF handed # <<>> THEN Head(handed)
           ELSE IF Posted # {} THEN (CHOOSE e \in Posted : TRUE).ep ELSE "undecided"

LEMMA PostedAreCalls ==
    ASSUME NEW q \in Seq(ReadyHandler)
    PROVE  {e \in ToSet(q) : e.h = "handler"} = ToSet(q) \cap Calls
<1>1. ToSet(q) \subseteq ReadyHandler
  BY Entries
<1>2. \A e \in ReadyHandler : e.h = "handler" <=> e \in Calls
  BY DEF ReadyHandler, Calls
<1> QED BY <1>1, <1>2

\* As long as the posted calls and those that ran are the same, nothing has
\* happened.
LEMMA SameOutcome ==
    ASSUME Posted' = Posted, handed' = handed
    PROVE  UNCHANGED <<Outcome, Len(handed)>>
  BY DEF Outcome

LEMMA RefinementStep ==
    ASSUME StunType, StunType', OnceInv, [Next]_vars
    PROVE  \/ /\ Outcome = "undecided" /\ Outcome' \in Value
              /\ UNCHANGED Len(handed)
           \/ /\ Outcome # "undecided" /\ Len(handed) = 0
              /\ Len(handed)' = 1 /\ UNCHANGED Outcome
           \/ UNCHANGED <<Outcome, Len(handed)>>
<1>0. /\ Posted = ToSet(queue) \cap Calls /\ Posted' = ToSet(queue') \cap Calls
      /\ queue \in Seq(ReadyHandler)
  BY PostedAreCalls DEF StunType, Posted
<1>1. CASE Quiet
  BY <1>1, <1>0, SameOutcome DEF Quiet
<1>2. CASE Takes
  <2>1. ToSet(queue) = {Head(queue)} \cup ToSet(Tail(queue))
    BY <1>0, <1>2, TakeEntries DEF Takes
  <2> QED BY <1>0, <1>2, <2>1, SameOutcome DEF Takes
<1>3. CASE Posts
  <2>1. PICK e \in ReadyHandler \ Calls : queue' = Append(queue, e)
    BY <1>3 DEF Posts
  <2>2. ToSet(Append(queue, e)) = ToSet(queue) \cup {e}
    BY <1>0, PostEntries
  <2> QED BY <1>0, <1>3, <2>1, <2>2, SameOutcome DEF Posts
<1>4. CASE Decides
  <2>1. PICK ep \in Value, more \in Seq(ReadyHandler) :
           /\ ToSet(more) \cap Calls = {} /\ AtMostOne(more, Calls)
           /\ queue' = Tail(queue) \o async_call_sr_handler(ep) \o more
    BY <1>4 DEF Decides
  <2>2. ToSet(queue') \cap Calls =
            (ToSet(Tail(queue)) \cap Calls) \cup
            (IF Async /\ ~called THEN {[h |-> "handler", ep |-> ep]} ELSE {})
    BY <1>4, <2>1, DecisionPosted DEF Decides
  <2>3. ToSet(queue) = {Head(queue)} \cup ToSet(Tail(queue)) /\ Head(queue) \notin Calls
    BY <1>0, <1>4, TakeEntries DEF Decides
  <2>4. handed' = handed
    BY <1>4 DEF Decides
  <2>5. CASE Async /\ ~called
    <3>1. Posted = {} /\ handed = <<>> /\ Posted' = {[h |-> "handler", ep |-> ep]}
      BY <1>0, <2>2, <2>3, <2>5 DEF OnceInv
    <3>2. Outcome = "undecided"
      BY <3>1 DEF Outcome
    <3>3. Outcome' = (CHOOSE e \in {[h |-> "handler", ep |-> ep]} : TRUE).ep
      BY <2>4, <3>1 DEF Outcome
    <3>4. \A x : (CHOOSE e \in {x} : TRUE) = x
      OBVIOUS
    <3>5. Outcome' = [h |-> "handler", ep |-> ep].ep
      BY <3>3, <3>4, Zenon
    <3>6. Outcome' = ep
      BY <3>5
    <3> QED BY <2>4, <3>2, <3>6
  <2>6. CASE ~(Async /\ ~called)
    BY <1>0, <2>2, <2>3, <2>4, <2>6, SameOutcome
  <2> QED BY <2>5, <2>6
<1>5. CASE handler
  <2>1. /\ Head(queue) \in Calls /\ Posted = {Head(queue)} /\ handed = <<>>
        /\ handed' = <<Head(queue).ep>>
    BY <1>0, <1>5, CallRuns
  <2>2. Outcome = (CHOOSE e \in {Head(queue)} : TRUE).ep
    BY <2>1 DEF Outcome
  <2>3. Outcome = Head(queue).ep
    BY <2>2
  <2>4. Outcome' = Head(<<Head(queue).ep>>)
    BY <2>1 DEF Outcome
  <2>5. Outcome' = Head(queue).ep /\ Len(handed) = 0 /\ Len(handed') = 1
    BY <2>1, <2>4
  <2>6. Head(queue).ep # "undecided"
    BY <2>1, StunAssumption DEF Calls, Value, None
  <2> QED BY <2>3, <2>5, <2>6
<1> QED BY <1>1, <1>2, <1>3, <1>4, <1>5, QueueSteps

\* However many answers and timeouts find a decision again, the request decides
\* once, and its handler is called once, with that decision.
THEOREM StunImplementsAsyncResult == Spec => ImplementsAsyncResult
<1>1. Init => Result!Init
  <2> SUFFICES ASSUME Init PROVE Result!Init
    OBVIOUS
  <2>1. Posted = {} /\ handed = <<>>
    BY EntriesOfTuples DEF Init, Posted
  <2> QED BY <2>1 DEF Result!Init
<1>2. StunType /\ StunType' /\ OnceInv /\ [Next]_vars =>
         [Result!Decide \/ Result!Tell]_<<IF handed # <<>> THEN Head(handed)
               ELSE IF Posted # {} THEN (CHOOSE e \in Posted : TRUE).ep ELSE "undecided",
               Len(handed)>>
  BY RefinementStep DEF Outcome, Result!Decide, Result!Tell, Value
<1> QED
  BY <1>1, <1>2, StunTypeInit, StunTypeStep, OnceInit, OnceStep, PTL
  DEF Spec, ImplementsAsyncResult, Result!Spec

-----------------------------------------------------------------------------
(* What is handed on was reported *)

Reported(ep, r) == ep # None => ep \notin Loopback /\ \E t \in DOMAIN r : r[t] = ep

\* A node always reports the same, so that an answer that was entered stays.
AnswersInv == \A t \in DOMAIN responses : responses[t] \in {None, sees[t]}

\* Wherever the outcome is on its way, it is one that was reported.
ReportInv ==
    /\ AnswersInv
    /\ \A e \in ToSet(queue) \cap Calls : Reported(e.ep, responses)
    /\ \A ep \in ToSet(handed) : Reported(ep, responses)
    /\ Reported(result, responses)
    /\ Reported(sr.ep, responses)

LEMMA ReportInit == Init => ReportInv
<1> SUFFICES ASSUME Init PROVE ReportInv
  OBVIOUS
<1>1. ToSet(queue) = {} /\ ToSet(handed) = {}
  BY EntriesOfTuples DEF Init
<1>2. \A t \in DOMAIN responses : responses[t] = None
  BY DEF Init
<1>3. result = None /\ sr.ep = None
  BY DEF Init, Notfound
<1> QED BY <1>1, <1>2, <1>3 DEF ReportInv, AnswersInv, Reported

\* Nodes are added to the list, and answers entered, but none is lost.
LEMMA AnswersStay ==
    ASSUME StunType, AnswersInv, [Next]_vars
    PROVE  /\ DOMAIN responses \subseteq DOMAIN responses'
           /\ \A t \in DOMAIN responses : responses[t] # None => responses'[t] = responses[t]
           /\ AnswersInv'
           /\ \A ep : Reported(ep, responses) => Reported(ep, responses')
           /\ asked' = asked
<1>1. CASE income_message
  <2> DEFINE from == Head(queue).from
  <2>1. /\ responses' = add_response(responses, from, sees[from]) /\ Running("income")
        /\ UNCHANGED <<sees, asked>>
    BY <1>1 DEF income_message
  <2>2. from \in Target /\ sees[from] \in Endpoint
    BY <2>1, RunningType DEF StunType, TypeOK
  <2>3. /\ DOMAIN responses' = DOMAIN responses
        /\ \A x \in DOMAIN responses : responses'[x] = IF x = from THEN sees[from] ELSE responses[x]
    BY <2>1, <2>2, AddResponse DEF StunType
  <2> HIDE DEF from
  <2> QED BY <2>1, <2>3 DEF AnswersInv, Reported
<1>2. CASE add_requested_ep
  <2>1. /\ DOMAIN responses' = DOMAIN responses \cup unlisted
        /\ \A t \in DOMAIN responses' : responses'[t] = IF t \in DOMAIN responses THEN responses[t] ELSE None
        /\ UNCHANGED <<sees, asked>>
    BY <1>2 DEF add_requested_ep
  <2> QED BY <2>1 DEF AnswersInv, Reported
<1>3. CASE UNCHANGED <<responses, sees, asked>>
  BY <1>3 DEF AnswersInv
<1>4. [Next]_vars => income_message \/ add_requested_ep \/ UNCHANGED <<responses, sees, asked>>
  BY DEF Next, Handler, Caller, vars, income_ignored, on_timeout, handler, DiesOnFreed,
     async_ice_send, binding_request_returns, sync_get, sync_get_returns, TimerDue, refresh_tick, Answer
<1> QED BY <1>1, <1>2, <1>3, <1>4

\* A decision was reported, whichever of two equal votes it is.
LEMMA DecisionReported ==
    ASSUME StunType, NEW r, NEW ep \in global_ep_consensus(r)
    PROVE  Reported(ep, r)
  BY ConsensusReported DEF Reported

\* The calls in the queue and the sr_object after a decision.
LEMMA ReportDecision ==
    ASSUME StunType, ReportInv, queue # <<>>, NEW ep \in Value, Reported(ep, responses'),
           \A x : Reported(x, responses) => Reported(x, responses'),
           NEW more \in Seq(ReadyHandler), ToSet(more) \cap Calls = {}, AtMostOne(more, Calls),
           queue' = Tail(queue) \o async_call_sr_handler(ep) \o more,
           update_sr(ep)
    PROVE  /\ \A e \in ToSet(queue') \cap Calls : Reported(e.ep, responses')
           /\ Reported(sr'.ep, responses')
<1>1. ToSet(queue') \cap Calls =
            (ToSet(Tail(queue)) \cap Calls) \cup
            (IF Async /\ ~called THEN {[h |-> "handler", ep |-> ep]} ELSE {})
  BY DecisionPosted
<1>2. ToSet(Tail(queue)) \subseteq ToSet(queue)
  BY TakeEntries DEF StunType
<1>3. sr'.ep \in {ep, sr.ep}
  BY UpdateSr
<1>4. \A e \in {[h |-> "handler", ep |-> ep]} : e.ep = ep
  OBVIOUS
<1> QED BY <1>1, <1>2, <1>3, <1>4 DEF ReportInv

LEMMA ReportStep == StunType /\ ReportInv /\ [Next]_vars => ReportInv'
<1> SUFFICES ASSUME StunType, ReportInv, [Next]_vars PROVE ReportInv'
  OBVIOUS
<1>0. AnswersInv' /\ \A ep : Reported(ep, responses) => Reported(ep, responses')
  BY AnswersStay DEF ReportInv
<1>1. CASE income_message
  <2> DEFINE r == add_response(responses, Head(queue).from, sees[Head(queue).from])
  <2>1. /\ queue # <<>> /\ responses' = r /\ UNCHANGED <<handed, result>>
    BY <1>1 DEF income_message, Running
  <2>2. PICK ep \in global_ep_consensus(r) :
           IF ep = None
           THEN /\ queue' = Tail(queue)
                /\ UNCHANGED <<observer, timer, called, sr, caller>>
           ELSE /\ update_sr(ep)
                /\ queue' = Tail(queue) \o async_call_sr_handler(ep) \o Cancelled
                /\ called' = (called \/ Async)
                /\ timer' = FALSE
                /\ observer' = "expired"
    BY <1>1 DEF income_message, Cancelled
  <2>3. ep \in Value /\ Reported(ep, responses')
    BY <2>1, ConsensusType, DecisionReported
  <2> HIDE DEF r
  <2>4. CASE ep = None
    <3>1. ToSet(Tail(queue)) \subseteq ToSet(queue)
      BY <2>1, TakeEntries DEF StunType
    <3> QED BY <1>0, <2>1, <2>2, <2>4, <3>1 DEF ReportInv
  <2>5. CASE ep # None
    <3>1. /\ \A e \in ToSet(queue') \cap Calls : Reported(e.ep, responses')
          /\ Reported(sr'.ep, responses')
      BY <1>0, <2>1, <2>2, <2>3, <2>5, CancelledType, ReportDecision
    <3> QED BY <1>0, <2>1, <3>1 DEF ReportInv
  <2> QED BY <2>4, <2>5
<1>2. CASE on_timeout
  <2>1. PICK ep \in global_ep_consensus(responses) :
           update_sr(ep) /\ queue' = Tail(queue) \o async_call_sr_handler(ep)
    BY <1>2 DEF on_timeout
  <2>2. queue # <<>> /\ UNCHANGED <<responses, handed, result>>
    BY <1>2 DEF on_timeout, Running
  <2>3. ep \in Value /\ Reported(ep, responses')
    BY <2>2, ConsensusType, DecisionReported
  <2>4. Tail(queue) \o async_call_sr_handler(ep) \in Seq(ReadyHandler)
    <3>1. Tail(queue) \in Seq(ReadyHandler) /\ async_call_sr_handler(ep) \in Seq(ReadyHandler)
      BY <2>2, <2>3, TakeEntries, CallPosted DEF StunType
    <3> QED BY <3>1, PostManyEntries
  <2>5. queue' = Tail(queue) \o async_call_sr_handler(ep) \o <<>>
    BY <2>1, <2>4, ConcatEmptySeq
  <2>6. <<>> \in Seq(ReadyHandler) /\ ToSet(<<>>) \cap Calls = {} /\ AtMostOne(<<>>, Calls)
    BY EmptySeq, EntriesOfTuples, OneOfTuples
  <2>7. /\ \A e \in ToSet(queue') \cap Calls : Reported(e.ep, responses')
        /\ Reported(sr'.ep, responses')
    BY <1>0, <2>1, <2>2, <2>3, <2>5, <2>6, ReportDecision
  <2> QED BY <1>0, <2>2, <2>7 DEF ReportInv
<1>3. CASE handler
  <2>1. /\ Head(queue) \in Calls /\ Head(queue) \in ToSet(queue)
        /\ ToSet(Tail(queue)) \subseteq ToSet(queue)
    BY <1>3, RunningType DEF handler
  <2>2. handed \in Seq(Value) /\ Head(queue).ep \in Value
    BY <2>1 DEF StunType, TypeOK, Value, Calls
  <2>3. ToSet(Append(handed, Head(queue).ep)) = ToSet(handed) \cup {Head(queue).ep}
    BY <2>2, PostEntries
  <2>4. /\ handed' = Append(handed, Head(queue).ep) /\ queue' = Tail(queue)
        /\ UNCHANGED <<responses, sr, result>>
    BY <1>3 DEF handler
  <2>5. ToSet(handed') = ToSet(handed) \cup {Head(queue).ep}
    BY <2>3, <2>4
  <2> QED BY <1>0, <2>1, <2>4, <2>5 DEF ReportInv
<1>4. CASE sync_get_returns
  <2>1. result' \in {sr.ep, None} /\ UNCHANGED <<queue, handed, sr>>
    BY <1>4 DEF sync_get_returns
  <2> QED BY <1>0, <2>1 DEF ReportInv, Reported
<1>5. CASE UNCHANGED <<handed, sr, result>> /\ (Quiet \/ Takes \/ Posts)
  <2>1. ToSet(queue') \cap Calls \subseteq ToSet(queue) \cap Calls
    <3>1. CASE Quiet
      BY <3>1 DEF Quiet
    <3>2. CASE Takes
      BY <3>2, TakeEntries DEF Takes, StunType
    <3>3. CASE Posts
      BY <3>3, PostEntries DEF Posts, StunType
    <3> QED BY <1>5, <3>1, <3>2, <3>3
  <2> QED BY <1>0, <1>5, <2>1 DEF ReportInv
<1>6. CASE income_ignored
  <2>1. queue # <<>> /\ Head(queue) \notin Calls
    BY <1>6 DEF income_ignored, Running, Calls
  <2> QED BY <1>5, <1>6, <2>1 DEF income_ignored, Takes
<1>7. CASE TimerDue
  <2>1. [h |-> "on_timeout"] \in ReadyHandler \ Calls
    BY DEF ReadyHandler, Calls
  <2> QED BY <1>5, <1>7, <2>1 DEF TimerDue, Posts
<1>8. ASSUME NEW t \in Target, Answer(t) PROVE ReportInv'
  <2>1. [h |-> "income", from |-> t] \in ReadyHandler \ Calls
    BY DEF ReadyHandler, Calls
  <2> QED BY <1>5, <1>8, <2>1 DEF Answer, Posts
<1>9. CASE DiesOnFreed \/ async_ice_send \/ add_requested_ep \/ binding_request_returns
             \/ sync_get \/ refresh_tick \/ UNCHANGED vars
  BY <1>5, <1>9 DEF DiesOnFreed, refresh_tick, vars, async_ice_send, add_requested_ep,
     binding_request_returns, sync_get, Quiet
<1> QED
  BY <1>1, <1>2, <1>3, <1>4, <1>6, <1>7, <1>8, <1>9 DEF Next, Handler, Caller

\* Neither the handler nor sync_get is ever given an endpoint that no node which was
\* asked has reported, nor a loopback address.
THEOREM ReportedByAskedTheorem == Spec => []ReportedByAsked
<1>1. StunType /\ ReportInv => ReportedByAsked
  BY DEF StunType, TypeOK, ReportInv, Reported, ReportedByAsked
<1> QED BY <1>1, StunTypeInit, StunTypeStep, ReportInit, ReportStep, PTL DEF Spec

-----------------------------------------------------------------------------
(* A decision rests on enough answers *)

\* When asynchronous, every node is listed from the beginning, and what has been
\* decided rests on 2 / 5 of them.
CountInv ==
    Async =>
        /\ DOMAIN responses = asked /\ unlisted = {}
        /\ sr.state = "done" => 5 * Cardinality(Answered(responses)) >= 2 * Cardinality(asked)

LEMMA CountInit == Init => CountInv
  BY DEF Init, CountInv, Notfound, Async

\* Of answers that stay there are never fewer.
LEMMA AnsweredGrows ==
    ASSUME StunType, StunType', AnswersInv, [Next]_vars
    PROVE  /\ Cardinality(Answered(responses)) \in Nat
           /\ Cardinality(Answered(responses')) \in Nat
           /\ Cardinality(asked) \in Nat
           /\ Cardinality(Answered(responses)) <= Cardinality(Answered(responses'))
<1>1. /\ IsFiniteSet(asked) /\ asked' = asked
      /\ Answered(responses) \subseteq asked /\ Answered(responses') \subseteq asked
  BY AnswersStay DEF StunType, TypeOK, Answered
<1>2. Answered(responses) \subseteq Answered(responses')
  BY AnswersStay DEF Answered
<1>3. IsFiniteSet(Answered(responses)) /\ IsFiniteSet(Answered(responses'))
  BY <1>1, FS_Subset
<1> QED BY <1>1, <1>2, <1>3, FS_Subset, FS_CardinalityType

LEMMA CountStep ==
    StunType /\ StunType' /\ AnswersInv /\ CountInv /\ [Next]_vars => CountInv'
<1> SUFFICES ASSUME StunType, StunType', AnswersInv, CountInv, [Next]_vars, Async'
             PROVE  CountInv'
  BY DEF CountInv
<1>0. /\ Cardinality(Answered(responses)) \in Nat /\ Cardinality(Answered(responses')) \in Nat
      /\ Cardinality(asked) \in Nat /\ asked' = asked
      /\ Cardinality(Answered(responses)) <= Cardinality(Answered(responses'))
  BY AnsweredGrows, AnswersStay
<1>1. ASSUME NEW ep \in Value, ep # None => ~Undecided(responses'), update_sr(ep),
             DOMAIN responses' = DOMAIN responses, unlisted' = unlisted
      PROVE  CountInv'
  <2>1. Async /\ DOMAIN responses = asked /\ unlisted = {}
    BY <1>1, UpdateSr DEF CountInv
  <2>2. sr'.state = "done" => ep # None
    BY <1>1, UpdateSr
  <2>3. ep # None => 5 * Cardinality(Answered(responses')) >= 2 * Cardinality(DOMAIN responses')
    BY <1>0, <1>1, <2>1 DEF Undecided
  <2> QED BY <1>0, <1>1, <2>1, <2>2, <2>3 DEF CountInv
<1>2. CASE income_message
  <2> DEFINE r == add_response(responses, Head(queue).from, sees[Head(queue).from])
  <2>1. /\ responses' = r /\ unlisted' = unlisted /\ Running("income")
    BY <1>2 DEF income_message
  <2>2. PICK ep \in global_ep_consensus(r) :
           IF ep = None THEN UNCHANGED <<sr, caller>> ELSE update_sr(ep)
    BY <1>2 DEF income_message
  <2>3. ep \in Value /\ (ep # None => ~Undecided(responses'))
    BY <2>1, ConsensusType, ConsensusReported
  <2>4. DOMAIN responses' = DOMAIN responses
    BY <2>1, RunningType, AddResponse DEF StunType, TypeOK
  <2> HIDE DEF r
  <2>5. CASE ep = None
    BY <1>0, <2>1, <2>2, <2>4, <2>5 DEF CountInv, Async
  <2>6. CASE ep # None
    BY <1>1, <2>1, <2>2, <2>3, <2>4, <2>6
  <2> QED BY <2>5, <2>6
<1>3. CASE on_timeout
  <2>1. PICK ep \in global_ep_consensus(responses) : update_sr(ep)
    BY <1>3 DEF on_timeout
  <2>2. UNCHANGED <<responses, unlisted>>
    BY <1>3 DEF on_timeout
  <2>3. ep \in Value /\ (ep # None => ~Undecided(responses'))
    BY <2>2, ConsensusType, ConsensusReported
  <2> QED BY <1>1, <2>1, <2>2, <2>3
<1>4. CASE add_requested_ep
  BY <1>4 DEF add_requested_ep, CountInv, Async
<1>5. CASE UNCHANGED <<asked, responses, unlisted, sr>> /\ (caller' = "async" => caller = "async")
  BY <1>5 DEF CountInv, Async
<1>6. CASE async_ice_send \/ binding_request_returns \/ sync_get \/ sync_get_returns
  BY <1>6 DEF async_ice_send, binding_request_returns, sync_get, sync_get_returns, Async
<1>7. CASE \/ income_ignored \/ handler \/ DiesOnFreed \/ TimerDue \/ refresh_tick
           \/ (\E t \in Target : Answer(t)) \/ UNCHANGED vars
  BY <1>5, <1>7 DEF income_ignored, handler, DiesOnFreed, TimerDue, refresh_tick, Answer, vars
<1> QED BY <1>2, <1>3, <1>4, <1>6, <1>7 DEF Next, Handler, Caller

\* No decision of an asynchronous request rests on fewer answers than a third of
\* the nodes that were asked, however many there are.
THEOREM EnoughAnswersTheorem == Spec => []EnoughAnswersAsync
<1>1. StunType /\ CountInv => EnoughAnswersAsync
  <2> SUFFICES ASSUME StunType, CountInv, Async, sr.state = "done"
               PROVE  3 * Cardinality(Answered(responses)) >= Cardinality(asked)
    BY DEF EnoughAnswersAsync
  <2>1. Answered(responses) \subseteq asked /\ IsFiniteSet(asked)
    BY DEF StunType, TypeOK, Answered
  <2>2. Cardinality(Answered(responses)) \in Nat /\ Cardinality(asked) \in Nat
    BY <2>1, FS_Subset, FS_CardinalityType
  <2>3. 5 * Cardinality(Answered(responses)) >= 2 * Cardinality(asked)
    BY DEF CountInv
  <2> QED BY <2>2, <2>3
<1>2. StunType /\ ReportInv /\ CountInv /\ [Next]_vars => CountInv'
  BY StunTypeStep, CountStep DEF ReportInv
<1> QED
  BY <1>1, <1>2, StunTypeInit, StunTypeStep, ReportInit, ReportStep, CountInit, PTL DEF Spec
-----------------------------------------------------------------------------
(* No asynchronous request is forgotten *)

OnTimeout == [h |-> "on_timeout"]

\* Before its handler is called an asynchronous request has its timer, running or
\* with on_timeout ready; the call is posted or has run; and no decision is made
\* without one.
NotForgotten ==
    Async => /\ asked # {} /\ ~called => timer \/ OnTimeout \in ToSet(queue)
             /\ called => handed # <<>> \/ ToSet(queue) \cap Calls # {}
             /\ sr.state = "done" => called

LEMMA NotForgottenInit == Init => NotForgotten
<1> SUFFICES ASSUME Init PROVE NotForgotten
  OBVIOUS
<1>1. called = FALSE /\ sr.state = "notfound"
  BY DEF Init, Notfound
<1>2. asked # {} => timer
  BY DEF Init
<1> QED BY <1>1, <1>2 DEF NotForgotten

\* A step that leaves what the request waits for in the queue.
LEMMA NothingTaken ==
    ASSUME NotForgotten, Async' => Async, UNCHANGED <<asked, called>>,
           timer => timer' \/ OnTimeout \in ToSet(queue'),
           OnTimeout \in ToSet(queue) => OnTimeout \in ToSet(queue'),
           ToSet(queue) \cap Calls \subseteq ToSet(queue'),
           handed # <<>> => handed' # <<>>, Async /\ sr'.state = "done" => sr.state = "done"
    PROVE  NotForgotten'
<1> SUFFICES ASSUME Async'
             PROVE  /\ asked # {} /\ ~called => timer' \/ OnTimeout \in ToSet(queue')
                    /\ called => handed' # <<>> \/ ToSet(queue') \cap Calls # {}
                    /\ sr'.state = "done" => called
  BY DEF NotForgotten
<1> QED BY DEF NotForgotten

\* A decision, or the timeout: the call is posted, unless it was before.
LEMMA DecisionCalls ==
    ASSUME StunType, NotForgotten, queue # <<>>, Head(queue) \notin Calls, NEW ep \in Value,
           NEW more \in Seq(ReadyHandler), ToSet(more) \cap Calls = {}, AtMostOne(more, Calls),
           queue' = Tail(queue) \o async_call_sr_handler(ep) \o more,
           called' = (called \/ Async), handed' = handed, Async' => Async
    PROVE  NotForgotten'
<1>1. ToSet(queue') \cap Calls =
            (ToSet(Tail(queue)) \cap Calls) \cup
            (IF Async /\ ~called THEN {[h |-> "handler", ep |-> ep]} ELSE {})
  BY DecisionPosted
<1>2. ToSet(queue) \cap Calls = ToSet(Tail(queue)) \cap Calls
  BY TakeEntries DEF StunType
<1> SUFFICES ASSUME Async
             PROVE  called' /\ (handed' # <<>> \/ ToSet(queue') \cap Calls # {})
  BY DEF NotForgotten
<1>3. CASE called
  BY <1>1, <1>2, <1>3 DEF NotForgotten
<1>4. CASE ~called
  BY <1>1, <1>4
<1> QED BY <1>3, <1>4

LEMMA NotForgottenStep == StunType /\ OnceInv /\ NotForgotten /\ [Next]_vars => NotForgotten'
<1> SUFFICES ASSUME StunType, OnceInv, NotForgotten, [Next]_vars PROVE NotForgotten'
  OBVIOUS
<1>1. queue \in Seq(ReadyHandler)
  BY DEF StunType
<1>2. ASSUME NEW h, Running(h), h # "on_timeout", h # "handler"
      PROVE  /\ queue # <<>> /\ Head(queue) \notin Calls
             /\ OnTimeout \in ToSet(queue) => OnTimeout \in ToSet(Tail(queue))
             /\ ToSet(queue) \cap Calls \subseteq ToSet(Tail(queue))
  <2>1. queue # <<>> /\ Head(queue).h = h
    BY <1>2 DEF Running
  <2>2. Head(queue) # OnTimeout /\ Head(queue) \notin Calls
    BY <1>2, <2>1 DEF OnTimeout, Calls
  <2> QED BY <1>1, <2>1, <2>2, TakeEntries
<1>3. CASE income_message
  <2> DEFINE r == add_response(responses, Head(queue).from, sees[Head(queue).from])
  <2>1. PICK ep \in global_ep_consensus(r) :
           IF ep = None
           THEN /\ queue' = Tail(queue)
                /\ UNCHANGED <<observer, timer, called, sr, caller>>
           ELSE /\ update_sr(ep)
                /\ queue' = Tail(queue) \o async_call_sr_handler(ep) \o Cancelled
                /\ called' = (called \/ Async)
                /\ timer' = FALSE
                /\ observer' = "expired"
    BY <1>3 DEF income_message, Cancelled
  <2>2. ep \in Value
    BY ConsensusType
  <2>3. Running("income") /\ UNCHANGED <<asked, handed>>
    BY <1>3 DEF income_message
  <2>4. /\ queue # <<>> /\ Head(queue) \notin Calls
        /\ OnTimeout \in ToSet(queue) => OnTimeout \in ToSet(Tail(queue))
        /\ ToSet(queue) \cap Calls \subseteq ToSet(Tail(queue))
    BY <1>2, <2>3
  <2> HIDE DEF r
  <2>5. CASE ep = None
    <3>1. UNCHANGED <<timer, called, sr>> /\ queue' = Tail(queue) /\ Async' = Async
      BY <2>1, <2>5 DEF Async
    <3> QED BY <2>3, <2>4, <3>1, NothingTaken
  <2>6. CASE ep # None
    <3>1. Async' = Async
      BY <2>1, <2>2, <2>6, UpdateSr
    <3> QED BY <2>1, <2>2, <2>3, <2>4, <2>6, <3>1, CancelledType, DecisionCalls
  <2> QED BY <2>5, <2>6
<1>4. CASE income_ignored
  <2>1. Running("income") /\ queue' = Tail(queue) /\ Async' = Async
        /\ UNCHANGED <<asked, called, timer, handed, sr>>
    BY <1>4 DEF income_ignored, Async
  <2>2. /\ OnTimeout \in ToSet(queue) => OnTimeout \in ToSet(Tail(queue))
        /\ ToSet(queue) \cap Calls \subseteq ToSet(Tail(queue))
    BY <1>2, <2>1
  <2> QED BY <2>1, <2>2, NothingTaken
<1>5. CASE on_timeout
  <2>1. PICK ep \in global_ep_consensus(responses) :
           update_sr(ep) /\ queue' = Tail(queue) \o async_call_sr_handler(ep)
    BY <1>5 DEF on_timeout
  <2>2. ep \in Value
    BY ConsensusType
  <2>3. /\ Tail(queue) \in Seq(ReadyHandler) /\ async_call_sr_handler(ep) \in Seq(ReadyHandler)
        /\ queue # <<>> /\ Head(queue).h = "on_timeout"
    BY <1>5, <2>2, RunningType, CallPosted DEF on_timeout
  <2>4. Tail(queue) \o async_call_sr_handler(ep) \in Seq(ReadyHandler)
    BY <2>3, PostManyEntries
  <2>5. queue' = Tail(queue) \o async_call_sr_handler(ep) \o <<>>
    BY <2>1, <2>4, ConcatEmptySeq
  <2>6. <<>> \in Seq(ReadyHandler) /\ ToSet(<<>>) \cap Calls = {} /\ AtMostOne(<<>>, Calls)
    BY EmptySeq, EntriesOfTuples, OneOfTuples
  <2>7. Async' = Async
    BY <2>1, <2>2, UpdateSr
  <2>8. called' = (called \/ Async) /\ handed' = handed
    BY <1>5 DEF on_timeout
  <2>9. Head(queue) \notin Calls
    BY <2>3 DEF Calls
  <2> QED BY <2>2, <2>3, <2>5, <2>6, <2>7, <2>8, <2>9, DecisionCalls
<1>6. CASE handler
  <2>1. called /\ handed' # <<>>
    BY <1>6, CallRuns
  <2>2. called' = called /\ Async' = Async
    BY <1>6 DEF handler, Async
  <2> QED BY <2>1, <2>2 DEF NotForgotten
<1>7. CASE TimerDue
  <2>1. queue' = Append(queue, OnTimeout) /\ Async' = Async
        /\ UNCHANGED <<asked, called, handed, sr>>
    BY <1>7 DEF TimerDue, Async, OnTimeout
  <2>2. OnTimeout \in ReadyHandler
    BY DEF ReadyHandler, OnTimeout
  <2>3. ToSet(queue') = ToSet(queue) \cup {OnTimeout}
    BY <1>1, <2>1, <2>2, PostEntries
  <2> QED BY <2>1, <2>3, NothingTaken
<1>8. ASSUME NEW t \in Target, Answer(t) PROVE NotForgotten'
  <2> DEFINE e == [h |-> "income", from |-> t]
  <2>1. queue' = Append(queue, e) /\ Async' = Async
        /\ UNCHANGED <<asked, called, timer, handed, sr>>
    BY <1>8 DEF Answer, Async
  <2>2. e \in ReadyHandler
    BY DEF ReadyHandler
  <2> HIDE DEF e
  <2>3. ToSet(queue') = ToSet(queue) \cup {e}
    BY <1>1, <2>1, <2>2, PostEntries
  <2> QED BY <2>1, <2>3, NothingTaken
<1>9. CASE DiesOnFreed \/ Caller \/ refresh_tick \/ UNCHANGED vars
  <2>1. UNCHANGED <<asked, called, timer, queue, handed, sr>> /\ (Async' => Async)
    BY <1>9 DEF DiesOnFreed, Caller, refresh_tick, vars, async_ice_send, add_requested_ep,
       binding_request_returns, sync_get, sync_get_returns, Async
  <2> QED BY <2>1, NothingTaken
<1> QED BY <1>3, <1>4, <1>5, <1>6, <1>7, <1>8, <1>9 DEF Next, Handler

\* An asynchronous request that went out is never left without what ends it: its
\* timer runs or on_timeout is ready, or the call of its handler is posted, or the
\* handler was called; and no answer decides it without that call
\* (income_message, on_timeout, async_call_sr_handler).  It is what HandlerCalled
\* rests on, whatever answers come and whenever the observer is freed.
THEOREM NotForgottenTheorem == Spec => []NotForgotten
<1>1. StunType /\ OnceInv /\ NotForgotten /\ [Next]_vars => NotForgotten'
  BY NotForgottenStep
<1> QED
  BY <1>1, StunTypeInit, StunTypeStep, OnceInit, OnceStep, NotForgottenInit, PTL DEF Spec
=============================================================================

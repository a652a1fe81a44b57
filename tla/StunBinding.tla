---------------------------- MODULE StunBinding ----------------------------
(***************************************************************************)
(* One binding request: stun_server asks some nodes under which endpoint    *)
(* they see this one, a binding_request observer collects the answers, and *)
(* an sr_object hands the outcome to whoever asked.                        *)
(*                                                                         *)
(* Asynchronous: node_controller::start and tick ask before the io_context *)
(* runs or on its thread, and leave a handler (async_get).  Synchronous:   *)
(* an application thread asks while the io_context thread is running and   *)
(* then blocks (node_controller::sync_get_global_address).                 *)
(***************************************************************************)
EXTENDS Integers, FiniteSets, SequencesExt

CONSTANTS
    Target,     \* nodes that may answer
    Requests,   \* what request_nodes may be, the nodes to ask in order
    Endpoint,   \* endpoints they may report
    Views,      \* what each node may see: a set of functions Target -> Endpoint
    Loopback,   \* the reported endpoints that are loopback addresses
    Callers,    \* who asks: "async" and leaves a handler, "asks" and will wait
    MaxQueue    \* bound: nothing arrives while this many handlers wait

None == "none"    \* std::nullopt

ASSUME StunAssumption ==
    /\ Loopback \subseteq Endpoint /\ {None, "undecided"} \cap Endpoint = {}
    /\ Requests \subseteq Seq(Target) /\ Views \subseteq [Target -> Endpoint]
    /\ Callers \subseteq {"async", "asks"} /\ MaxQueue \in Nat \ {0}

VARIABLES
    asked,      \* the nodes in request_nodes
    todo,       \* those the loop in binding_request has not sent to yet
    unlisted,   \* sent to, add_requested_ep still to come
    responses,  \* _responses: node -> what it reported, or None
    sees,       \* the endpoint under which each node sees this one
    observer,   \* "stored", "expired" (destruct_self) or "freed"
    timer,      \* is _timer running?
    queue,      \* ready handlers of the io_context, oldest first
    called,     \* _is_handler_called
    handed,     \* (history) what the async handler was called with
    sr,         \* the sr_object: _state and _global_ep
    caller,     \* where the thread that wants the result is
    result,     \* what sync_get returned
    crashed     \* a handler used the freed observer and the process died

vars == <<asked, todo, unlisted, responses, sees, observer, timer, queue,
          called, handed, sr, caller, result, crashed>>

\* Once asynchronous, always: such a caller does not come back for the result.
Async == caller = "async"

\* An sr_object, between the observer that settles it and whoever asked.
SrObject == [state : {"done", "notfound"}, ep : Endpoint \cup {None}]

\* As it is made: every constructor starts in this state.
Notfound == [state |-> "notfound", ep |-> None]

\* Every variable has its type, and answers are listed of asked nodes only.
TypeOK ==
    /\ sees \in [Target -> Endpoint]
    /\ ToSet(todo) \subseteq asked /\ unlisted \subseteq asked /\ asked \subseteq Target
    /\ DOMAIN responses \subseteq asked
    /\ \A t \in DOMAIN responses : responses[t] \in Endpoint \cup {None}
    /\ observer \in {"none", "stored", "expired", "freed"}
    /\ timer \in BOOLEAN /\ called \in BOOLEAN /\ crashed \in BOOLEAN
    /\ handed \in Seq(Endpoint \cup {None})
    /\ sr \in SrObject
    /\ caller \in {"asks", "gets", "waits", "woken", "returned", "async"}
    /\ result \in Endpoint \cup {None}

-----------------------------------------------------------------------------
(* stun_server::binding_request *)

\* The request goes out before its node is listed.
async_ice_send ==
    /\ ~crashed /\ caller = "asks" /\ unlisted = {} /\ todo # <<>>
    /\ todo' = Tail(todo)
    /\ unlisted' = {Head(todo)}
    /\ UNCHANGED <<asked, responses, sees, observer, timer, queue, called,
                   handed, sr, caller, result, crashed>>

add_requested_ep ==
    /\ ~crashed /\ unlisted # {}
    /\ responses' = [t \in DOMAIN responses \cup unlisted |->
                        IF t \in DOMAIN responses THEN responses[t] ELSE None]
    /\ unlisted' = {}
    /\ UNCHANGED <<asked, todo, sees, observer, timer, queue, called, handed,
                   sr, caller, result, crashed>>

binding_request_returns ==
    /\ ~crashed /\ caller = "asks" /\ todo = <<>> /\ unlisted = {}
    /\ caller' = "gets"
    /\ UNCHANGED <<asked, todo, unlisted, responses, sees, observer, timer,
                   queue, called, handed, sr, result, crashed>>

-----------------------------------------------------------------------------
(* sr_object *)

\* Any state but done becomes notfound, pending too.  A thread that waits in
\* sync_get is woken; one that does not wait yet misses it.
update_state(s, ep) ==
    /\ sr' = IF s = "done" /\ ep # None THEN [state |-> "done", ep |-> ep]
                                       ELSE [sr EXCEPT !.state = "notfound"]
    /\ caller' = IF caller = "waits" THEN "woken" ELSE caller

\* Waits in every state but pending, then answers from the state it finds.
sync_get ==
    /\ ~crashed /\ caller = "gets"
    /\ caller' = IF sr.state # "pending" THEN "waits" ELSE "woken"
    /\ UNCHANGED <<asked, todo, unlisted, responses, sees, observer, timer,
                   queue, called, handed, sr, result, crashed>>

sync_get_returns ==
    /\ ~crashed /\ caller = "woken"
    /\ caller' = "returned"
    /\ result' = IF sr.state = "done" THEN sr.ep ELSE None
    /\ UNCHANGED <<asked, todo, unlisted, responses, sees, observer, timer,
                   queue, called, handed, sr, crashed>>

-----------------------------------------------------------------------------
(* The binding_request observer *)

add_response_Anyone(r, t, ep) == (t :> ep) @@ r

add_response(r, t, ep) == IF t \in DOMAIN r THEN [r EXCEPT ![t] = ep] ELSE r

Answered(r) == {t \in DOMAIN r : r[t] # None}
Valid(r) == {t \in Answered(r) : r[t] \notin Loopback}
Votes(r, ep) == Cardinality({t \in Valid(r) : r[t] = ep})

Undecided_OneIsEnough(r) ==
    Cardinality(Valid(r)) < Max({Cardinality(Answered(r)) \div 3, 1})

\* Fewer answers than size / 2.5, or fewer usable ones than a third of them.
Undecided(r) ==
    \/ 5 * Cardinality(Answered(r)) < 2 * Cardinality(DOMAIN r)
    \/ Cardinality(Valid(r)) < Max({Cardinality(Answered(r)) \div 3, 1})

\* An endpoint with the most votes; any of them on a tie.
global_ep_consensus(r) ==
    IF Undecided(r) THEN {None}
    ELSE {ep \in Endpoint : Votes(r, ep) > 0 /\ \A e \in Endpoint :
                                                   Votes(r, e) <= Votes(r, ep)}

update_sr(ep) == update_state(IF ep = None THEN "pending" ELSE "done", ep)

async_call_sr_handler_Again(ep) ==
    IF Async THEN <<[h |-> "handler", ep |-> ep]>> ELSE <<>>

\* What is posted if a handler is waiting and was not called yet.
async_call_sr_handler(ep) ==
    IF Async /\ ~called THEN <<[h |-> "handler", ep |-> ep]>> ELSE <<>>

Running(h) == ~crashed /\ queue # <<>> /\ Head(queue).h = h

\* An answer to a request: the first decision settles the sr_object, cancels
\* the timer, which calls on_timeout, and lets the observer expire; so does
\* any later answer.
income_message ==
    /\ Running("income") /\ observer # "freed"
    /\ LET from == Head(queue).from
           r == add_response(responses, from, sees[from])
       IN  /\ responses' = r
           /\ \E ep \in global_ep_consensus(r) :
                 IF ep = None
                 THEN /\ queue' = Tail(queue)
                      /\ UNCHANGED <<observer, timer, called, sr, caller>>
                 ELSE /\ update_sr(ep)
                      /\ queue' = Tail(queue) \o async_call_sr_handler(ep)
                                     \o (IF timer THEN <<[h |-> "on_timeout"]>>
                                                  ELSE <<>>)
                      /\ called' = (called \/ Async)
                      /\ timer' = FALSE
                      /\ observer' = "expired"
    /\ UNCHANGED <<asked, todo, unlisted, sees, handed, result, crashed>>

\* No observer has the id any more: the response is ignored.
income_ignored ==
    /\ Running("income") /\ observer = "freed"
    /\ queue' = Tail(queue)
    /\ UNCHANGED <<asked, todo, unlisted, responses, sees, observer, timer,
                   called, handed, sr, caller, result, crashed>>

on_timeout_Silent ==
    /\ Running("on_timeout")
    /\ \E ep \in global_ep_consensus(responses) : update_sr(ep)
    /\ queue' = Tail(queue)
    /\ UNCHANGED <<asked, todo, unlisted, responses, sees, observer, timer,
                   called, handed, result, crashed>>

\* Called when the timer expires and when it is cancelled alike.
on_timeout ==
    /\ Running("on_timeout")
    /\ \E ep \in global_ep_consensus(responses) :
          /\ update_sr(ep)
          /\ queue' = Tail(queue) \o async_call_sr_handler(ep)
    /\ called' = (called \/ Async)
    /\ UNCHANGED <<asked, todo, unlisted, responses, sees, observer, timer,
                   handed, result, crashed>>

\* The posted call of the handler that async_get left.
handler ==
    /\ Running("handler")
    /\ handed' = Append(handed, Head(queue).ep)
    /\ queue' = Tail(queue)
    /\ UNCHANGED <<asked, todo, unlisted, responses, sees, observer, timer,
                   called, sr, caller, result, crashed>>

\* Either reads the observer through a raw pointer.
DiesOnFreed ==
    /\ Running("handler") \/ Running("on_timeout")
    /\ observer = "freed"
    /\ crashed' = TRUE
    /\ UNCHANGED <<asked, todo, unlisted, responses, sees, observer, timer,
                   queue, called, handed, sr, caller, result>>

-----------------------------------------------------------------------------
(* The rest of the process and of the network *)

\* After 4 seconds.
TimerDue ==
    /\ ~crashed /\ timer
    /\ timer' = FALSE
    /\ queue' = Append(queue, [h |-> "on_timeout"])
    /\ UNCHANGED <<asked, todo, unlisted, responses, sees, observer, called,
                   handed, sr, caller, result, crashed>>

\* observer_strage::refresh_tick: the observer has expired, by destruct_self
\* or because its 20 seconds are over, long after its timer.
refresh_tick ==
    /\ ~crashed
    /\ \/ observer = "expired"
       \/ observer = "stored" /\ ~timer /\ [h |-> "on_timeout"] \notin ToSet(queue)
    /\ observer' = "freed"
    /\ UNCHANGED <<asked, todo, unlisted, responses, sees, timer, queue,
                   called, handed, sr, caller, result, crashed>>

\* A node that was sent the request answers, perhaps twice; so may one that
\* was not asked.
Answer(t) ==
    /\ ~crashed /\ asked # {} /\ t \notin ToSet(todo) /\ Len(queue) < MaxQueue
    /\ queue' = Append(queue, [h |-> "income", from |-> t])
    /\ UNCHANGED <<asked, todo, unlisted, responses, sees, observer, timer,
                   called, handed, sr, caller, result, crashed>>

-----------------------------------------------------------------------------

\* The nodes are chosen: the given ones, or one of the routing table, or there
\* is none and the sr_object is an error.  The observer is initialised and
\* stored.  When asynchronous, the loop is over before any handler runs.
Init ==
    /\ caller \in Callers
    /\ \E request_nodes \in Requests :
          /\ asked = ToSet(request_nodes)
          /\ todo = IF Async THEN <<>> ELSE request_nodes
    /\ unlisted = {}
    /\ responses = [t \in (IF Async THEN asked ELSE {}) |-> None]
    /\ sees \in Views
    /\ observer = IF asked = {} THEN "none" ELSE "stored"
    /\ timer = (asked # {})
    /\ queue = <<>>
    /\ called = FALSE /\ handed = <<>>
    /\ sr = Notfound
    /\ result = None
    /\ crashed = FALSE

Handler == income_message \/ income_ignored \/ on_timeout \/ handler \/ DiesOnFreed

Caller ==
    \/ async_ice_send \/ add_requested_ep \/ binding_request_returns
    \/ sync_get \/ sync_get_returns

Next ==
    \/ Handler \/ Caller \/ TimerDue \/ refresh_tick
    \/ \E t \in Target : Answer(t)

Spec == Init /\ [][Next]_vars

\* Ready handlers run, a timer that is due is served, the caller goes on.
\* Nobody need ever answer.
FairSpec == Spec /\ WF_vars(Handler) /\ WF_vars(TimerDue) /\ WF_vars(Caller)

-----------------------------------------------------------------------------
(* Properties *)

\* The calls of the handler that wait in the queue.
Posted == {e \in ToSet(queue) : e.h = "handler"}

Result == INSTANCE AsyncResult WITH
    Outcome <- Endpoint \cup {None},
    Pending <- "undecided",
    outcome <- IF handed # <<>> THEN Head(handed)
               ELSE IF Posted # {} THEN (CHOOSE e \in Posted : TRUE).ep ELSE "undecided",
    told <- Len(handed)

\* The request decides once, although every further answer and the cancelled
\* timer find a decision again, perhaps another one, and calls the handler that
\* async_get left once, with that decision (_is_handler_called).
ImplementsAsyncResult == Result!Spec

\* What the handler or sync_get is given was reported by a node that was
\* asked, and is no loopback address (add_response, global_ep_consensus).
ReportedByAsked ==
    \A ep \in (ToSet(handed) \cup {result}) \ {None} :
        /\ ep \notin Loopback
        /\ \E t \in asked \cap DOMAIN responses : responses[t] = ep

\* "Once a third of the requests sent are answered, the majority decides"
\* (ice_observer.cpp:250): no decision rests on fewer answers, when every node
\* is listed before the first answer is handled, as binding_request on the
\* io_context's own thread has it.  On an application thread it is not so: an
\* answer is counted against the nodes listed so far.
EnoughAnswersAsync ==
    Async /\ sr.state = "done" =>
        3 * Cardinality(Answered(responses)) >= Cardinality(asked)

\* An asynchronous request that went out ends with a call of its handler, even
\* if nobody answers.
HandlerCalled ==
    (Async /\ asked # {}) ~> (handed # <<>> \/ crashed)

\* A thread in sync_get gets the result that is there: "if it is not in the
\* waiting state (already processed), return at once" (stun_server.cpp:109).
SettledGetReturns ==
    (caller = "waits" /\ sr.state = "done") ~> (caller = "returned" \/ crashed)
=============================================================================

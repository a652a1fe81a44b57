----------------------------- MODULE DhtManager -----------------------------
(***************************************************************************)
(* Kademlia maintenance of one node: dht_manager, its connection_maintainer *)
(* and rpc_manager, the ping and find_node observers and the storage that  *)
(* keeps them, on one io_context thread.                                   *)
(*                                                                         *)
(* Everything the node does is a handler that the io_context runs from its *)
(* FIFO of ready handlers.  Timers, when due, and packets, when they       *)
(* arrive, append a handler; handlers append others with io_context::post. *)
(* The handlers of an observer hold a raw pointer to it (`[this]`), so an  *)
(* observer that observer_strage::refresh_tick frees may still be named by *)
(* a handler in the queue.                                                 *)
(*                                                                         *)
(* Time is counted in units of two seconds.  A timer is the number of      *)
(* units left, or Off.  The period of refresh_tick (60 s) has no fixed     *)
(* phase relative to the maintainer's rounds; it may come due at any time. *)
(***************************************************************************)
EXTENDS Integers, FiniteSets, SequencesExt

CONSTANTS
    Node, IdBits, K, Id, SelfId,    \* see KRoutingTable
    RootNode,       \* the endpoint 0.0.0.0:0 that get_remote_nodes searches from
    MINIMUM_NODES,  \* below this many nodes, others are asked for more (5)
    FindCount,      \* how many nodes get_remote_nodes asks (5)
    MaxSeq,         \* bound: live observers of one role for one peer
    PingTimer,      \* units until ping::timeout (4 s)
    PingExpire,     \* units until a ping observer expires (6 s)
    RefreshWait,    \* units from the refresh pings to get_remote_nodes (6 s)
    TickWait,       \* units from tick_done to the next tick (10 s or more)
    FindExpire,     \* units until a find_node observer expires (20 s)
    MaxDelay,       \* bound: units after which an answer no longer arrives
    MaxQueue,       \* bound: nothing arrives while this many handlers wait
    Duplicates,     \* may an answer arrive more than once?
    Stall           \* may time pass while handlers are ready?

ASSUME TableAssumption ==           \* see KRoutingTable
    /\ IsFiniteSet(Node) /\ IdBits \in Nat \ {0} /\ K \in Nat \ {0}
    /\ Id \in [Node -> [0 .. IdBits - 1 -> {0, 1}]]
    /\ SelfId \in [0 .. IdBits - 1 -> {0, 1}]
    /\ \A m, n \in Node : Id[m] = Id[n] => m = n

ASSUME TimerAssumption ==
    /\ {PingTimer, PingExpire, RefreshWait, TickWait, FindExpire} \subseteq Nat \ {0}
    /\ PingTimer < RefreshWait     \* 4 s and 6 s
    /\ Stall \in BOOLEAN /\ Duplicates \in BOOLEAN
    /\ MaxSeq \in Nat /\ MaxDelay \in Nat /\ MaxQueue \in Nat \ {0}

VARIABLES
    table,          \* the routing table
    queue,          \* ready handlers of the io_context, oldest first
    obs,            \* observers something still refers to, by id
    timer,          \* the maintainer's _timer: units left, or Off
    timer_fn,       \* the member function that timer calls
    requires_tick,  \* _requires_tick
    net,            \* requests whose answer may still arrive
    alive,          \* peers that still answer
    heard,          \* (history) peers a packet of which was handled
    crashed         \* a handler used a freed observer and the process died

vars == <<table, queue, obs, timer, timer_fn, requires_tick, net, alive,
          heard, crashed>>

RT == INSTANCE KRoutingTable WITH table <- table

Off == -1

\* Handlers without an argument, of the maintainer and of the storage.
TickHandler == [h |-> "tick"]
StorageHandler == [h |-> "refresh_tick"]

\* Every node of the table: the bucket iterator goes through all buckets.
AllNodes == {n \in Node : RT!Holds(n)}

\* What an observer is for decides its handlers:
\*   refresh    a ping; pong -> k_bucket::move_back, timeout -> delete_node
\*   probe      a ping; pong -> auto_update, timeout -> null_handler
\*   find_node  an endpoint it is told -> ping_request (a probe)
Role == {"refresh", "probe", "find_node"}

\* An observer's id (a random uuid): here its role, the peer it asks and the
\* a number that tells it from others.  Ids nothing refers to are reused.
ObsId == [role : Role, dest : Node, seq : 1 .. MaxSeq]

\* The id in a request that a peer makes on its own account.
OwnRequest(n) == [role |-> "peer", dest |-> n, seq |-> 0]

Observer == [pong : BOOLEAN,     \* _is_pong_arrived
             late : BOOLEAN,     \* (history) the timer came before a pong
             settled : BOOLEAN,  \* (history) one of its handlers has run
             timer : {Off} \cup 0 .. Max({PingTimer, RefreshWait}),
             expire : 0 .. Max({PingExpire, FindExpire}),  \* left of its life
             bucket : {Off} \cup RT!BucketIndex,  \* what a refresh ping's handlers refer to
             freed : BOOLEAN]

\* A k_message, as far as a handler reads it: the rpc and the observer it
\* belongs to, who sent it, and the endpoints in the answer to a find_node.
k_message == [o : ObsId \cup {OwnRequest(n) : n \in Node}, eps : SUBSET Node]

\* A handler that is ready, with what it is bound to; those of an observer hold
\* a pointer to it.
OfObserver == {"timeout", "on_timeout", "pong", "found"}
ReadyHandler ==
    [h : {"tick", "get_remote_nodes", "refresh_tick"}]
        \cup [h : {"timeout", "on_timeout", "pong"}, o : ObsId]
        \cup [h : {"found"}, o : ObsId, ep : Node]
        \cup [h : {"income"}, packet : k_message]

\* A request, or its answer, on the way.
Request == [o : ObsId, ignore : SUBSET Node, left : 0 .. MaxDelay]

\* Every variable has its type; no handler and no packet names an observer
\* that is not remembered.
TypeOK ==
    /\ RT!TypeOK
    /\ DOMAIN obs \subseteq ObsId /\ obs \in [DOMAIN obs -> Observer]
    /\ queue \in Seq(ReadyHandler)
    /\ \A e \in ToSet(queue) : e.h \in OfObserver => e.o \in DOMAIN obs
    /\ net \subseteq Request /\ \A p \in net : p.o \in DOMAIN obs
    /\ timer \in {Off} \cup 0 .. Max({RefreshWait, TickWait})
    /\ timer_fn \in {"tick", "get_remote_nodes"}
    /\ requires_tick \in BOOLEAN
    /\ alive \subseteq Node /\ heard \subseteq Node
    /\ crashed \in BOOLEAN

-----------------------------------------------------------------------------
(* Observers *)

\* The iterator itself instead of the bucket it stood at.
get_raw_MovedOn(n) == IdBits - 1

\* std::ref( bucket_itr.get_raw() ): a refresh ping's handlers refer to the slot
\* of _table in which the iterator found the node, then and for good.
get_raw(n) == CHOOSE i \in RT!BucketIndex : RT!BucketHas(table[i], n)

NewObserver_SlowPing(o) ==
    [pong |-> FALSE, late |-> FALSE, settled |-> FALSE, freed |-> FALSE,
     bucket |-> IF o.role = "refresh" THEN get_raw(o.dest) ELSE Off,
     timer |-> IF o.role = "find_node" THEN Off ELSE RefreshWait,
     expire |-> IF o.role = "find_node" THEN FindExpire ELSE PingExpire]

\* A ping starts its timer and shortens its life (ping::init); a find_node
\* only has the life every observer is given.
NewObserver(o) ==
    [pong |-> FALSE, late |-> FALSE, settled |-> FALSE, freed |-> FALSE,
     bucket |-> IF o.role = "refresh" THEN get_raw(o.dest) ELSE Off,
     timer |-> IF o.role = "find_node" THEN Off ELSE PingTimer,
     expire |-> IF o.role = "find_node" THEN FindExpire ELSE PingExpire]

Unused(role, n) ==
    {q \in 1 .. MaxSeq : [role |-> role, dest |-> n, seq |-> q] \notin DOMAIN obs}

FreshIds(role, nodes) ==
    {[role |-> role, dest |-> n, seq |-> CHOOSE q \in Unused(role, n) : TRUE] : n \in nodes}

CanCreate(role, nodes) == \A n \in nodes : Unused(role, n) # {}

\* The observer is stored before its request is sent (add_observer).
add_observers(ids) ==
    [o \in DOMAIN obs \cup ids |->
        IF o \in DOMAIN obs THEN obs[o] ELSE NewObserver(o)]

\* A request on its way out or its answer on the way back: either may still be
\* lost, and a peer that answered may have died since.  What is sent to a dead
\* peer never comes back.
Requests(ids, ignore) ==
    {[o |-> o, ignore |-> ignore, left |-> MaxDelay] :
        o \in {x \in ids : x.dest \in alive}}

Refers(q, packets, o) ==
    \/ \E e \in ToSet(q) : e.h \in OfObserver /\ e.o = o
    \/ \E e \in ToSet(q) : e.h = "income" /\ e.packet.o = o
    \/ \E p \in packets : p.o = o

\* An observer that no handler, packet or running timer refers to can never
\* act again; it is forgotten whether or not refresh_tick has freed it yet.
\* (A ping is remembered until one of its handlers has run.)
Keep(newobs, q, packets) ==
    [o \in {x \in DOMAIN newobs : \/ newobs[x].timer # Off
                                  \/ Refers(q, packets, x)
                                  \/ x.role # "find_node" /\ ~newobs[x].settled}
        |-> newobs[o]]

\* The observer store, queue and network after a handler ran.
Becomes(newobs, q, packets) ==
    /\ obs' = Keep(newobs, q, packets)
    /\ queue' = q
    /\ net' = packets

-----------------------------------------------------------------------------
(* Requests of the rpc_manager, made by the handler that is running *)

Running(h) == ~crashed /\ queue # <<>> /\ Head(queue).h = h

ping_request(ids) ==
    Becomes(add_observers(ids), Tail(queue), net \cup Requests(ids, {}))

find_node_request(ids, ignore) ==
    Becomes(add_observers(ids), Tail(queue), net \cup Requests(ids, ignore))

-----------------------------------------------------------------------------
(* Handlers of the maintainer *)

\* send_refresh_ping: every node of the table is pinged.
send_refresh_ping ==
    /\ CanCreate("refresh", AllNodes)
    /\ ping_request(FreshIds("refresh", AllNodes))

tick ==
    /\ Running("tick")
    /\ IF requires_tick
       THEN /\ send_refresh_ping
            /\ timer' = RefreshWait
            /\ timer_fn' = "get_remote_nodes"
       ELSE /\ Becomes(obs, Tail(queue), net)
            /\ UNCHANGED <<timer, timer_fn>>
    /\ UNCHANGED <<table, requires_tick, alive, heard, crashed>>

tick_done_WhenKnown ==
    IF requires_tick /\ RT!get_node_count > 0
    THEN timer' = TickWait /\ timer_fn' = "tick"
    ELSE UNCHANGED <<timer, timer_fn>>

tick_done ==
    IF requires_tick
    THEN timer' = TickWait /\ timer_fn' = "tick"
    ELSE UNCHANGED <<timer, timer_fn>>

get_remote_nodes ==
    /\ Running("get_remote_nodes")
    /\ LET found_eps == RT!collect_endpoint(RootNode, FindCount, {})
           eps == IF RT!get_node_count < MINIMUM_NODES
                  THEN {n \in Node : RT!BucketHas(found_eps, n)} ELSE {}
       IN  /\ CanCreate("find_node", eps)
           /\ find_node_request(FreshIds("find_node", eps), eps)
    /\ tick_done
    /\ UNCHANGED <<table, requires_tick, alive, heard, crashed>>

-----------------------------------------------------------------------------
(* Handlers of an observer, reached through a raw pointer *)

\* When the observer has been freed the handler reads freed memory: it works
\* as before if the memory still holds what it held, or the process dies.
Dies(o) ==
    /\ obs[o].freed
    /\ crashed' = TRUE
    /\ UNCHANGED <<table, queue, obs, timer, timer_fn, requires_tick, net,
                   alive, heard>>

DiesOnFreed ==
    /\ \/ Running("pong") \/ Running("on_timeout")
       \/ Running("timeout") \/ Running("found")
    /\ Dies(Head(queue).o)

timeout_NoFlag ==
    /\ Running("timeout")
    /\ LET o == Head(queue).o
       IN  Becomes([obs EXCEPT ![o].late = @ \/ ~obs[o].pong, ![o].expire = 0],
                   Append(Tail(queue), [h |-> "on_timeout", o |-> o]), net)
    /\ UNCHANGED <<table, timer, timer_fn, requires_tick, alive, heard, crashed>>

\* ping::timeout, called when the timer expires and also when it is cancelled.
timeout ==
    /\ Running("timeout")
    /\ LET o == Head(queue).o
       IN  /\ IF obs[o].pong
              THEN Becomes(obs, Tail(queue), net)
              ELSE Becomes([obs EXCEPT ![o].late = TRUE, ![o].expire = 0],
                           Append(Tail(queue), [h |-> "on_timeout", o |-> o]),
                           net)
    /\ UNCHANGED <<table, timer, timer_fn, requires_tick, alive, heard, crashed>>

\* k_bucket::delete_node and move_back through the reference the handler holds.
delete_node(o) ==
    RT!OnBucket(obs[o].bucket, RT!delete_node(table[obs[o].bucket], o.dest))

move_back(o) ==
    RT!OnBucket(obs[o].bucket, RT!move_back(table[obs[o].bucket], o.dest))

on_timeout_NoDelete ==
    /\ Running("on_timeout")
    /\ Becomes([obs EXCEPT ![Head(queue).o].settled = TRUE], Tail(queue), net)
    /\ UNCHANGED <<table, timer, timer_fn, requires_tick, alive, heard, crashed>>

\* The handler that ping::timeout posted: delete_node for a refresh ping,
\* rpc_manager::null_handler for another.
on_timeout ==
    /\ Running("on_timeout")
    /\ LET o == Head(queue).o
       IN  /\ IF o.role = "refresh" THEN delete_node(o)
                                   ELSE UNCHANGED table
           /\ Becomes([obs EXCEPT ![o].settled = TRUE], Tail(queue), net)
    /\ UNCHANGED <<timer, timer_fn, requires_tick, alive, heard, crashed>>

pong_NoErase ==
    /\ Running("pong")
    /\ LET o == Head(queue).o
       IN  /\ IF o.role = "refresh"
              THEN RT!OnBucket(obs[o].bucket, Append(table[obs[o].bucket], o.dest))
              ELSE RT!AutoUpdate(o.dest)
           /\ Becomes([obs EXCEPT ![o].settled = TRUE], Tail(queue), net)
    /\ UNCHANGED <<timer, timer_fn, requires_tick, alive, heard, crashed>>

pong_WrongSlot ==
    /\ Running("pong")
    /\ LET o == Head(queue).o
       IN  /\ IF o.role = "refresh" THEN move_back(o)
                                   ELSE RT!AutoUpdate_WrongSlot(o.dest)
           /\ Becomes([obs EXCEPT ![o].settled = TRUE], Tail(queue), net)
    /\ UNCHANGED <<timer, timer_fn, requires_tick, alive, heard, crashed>>

\* The handler that ping::income_message posted: move_back for a refresh ping,
\* auto_update for one sent to a node another peer named.
pong ==
    /\ Running("pong")
    /\ LET o == Head(queue).o
       IN  /\ IF o.role = "refresh" THEN move_back(o)
                                   ELSE RT!AutoUpdate(o.dest)
           /\ Becomes([obs EXCEPT ![o].settled = TRUE], Tail(queue), net)
    /\ UNCHANGED <<timer, timer_fn, requires_tick, alive, heard, crashed>>

found_AutoUpdate ==
    /\ Running("found")
    /\ RT!AutoUpdate(Head(queue).ep)
    /\ Becomes([obs EXCEPT ![Head(queue).o].settled = TRUE], Tail(queue), net)
    /\ UNCHANGED <<timer, timer_fn, requires_tick, alive, heard, crashed>>

\* The handler that find_node::income_message posted for one endpoint: it is
\* pinged, and enters the table when it answers.
found ==
    /\ Running("found")
    /\ LET o == Head(queue).o
           nodes == {Head(queue).ep}
           ids == FreshIds("probe", nodes)
       IN  /\ CanCreate("probe", nodes)
           /\ Becomes([add_observers(ids) EXCEPT ![o].settled = TRUE],
                      Tail(queue), net \cup Requests(ids, {}))
    /\ UNCHANGED <<table, timer, timer_fn, requires_tick, alive, heard, crashed>>

-----------------------------------------------------------------------------
(* dht_manager::income_message *)

\* find_observer: by id; an expired observer that is still stored is found.
Stored(o) == o \in DOMAIN obs /\ ~obs[o].freed

income_pong_NoPost(o) ==
    Becomes([obs EXCEPT ![o].pong = TRUE, ![o].timer = Off, ![o].expire = 0],
            IF obs[o].timer # Off
            THEN Append(Tail(queue), [h |-> "timeout", o |-> o]) ELSE Tail(queue),
            net)

\* ping::income_message
income_pong(o) ==
    Becomes([obs EXCEPT ![o].pong = TRUE, ![o].timer = Off, ![o].expire = 0],
            Tail(queue) \o <<[h |-> "pong", o |-> o]>>
                \o (IF obs[o].timer # Off
                    THEN <<[h |-> "timeout", o |-> o]>>  \* _timer.cancel()
                    ELSE <<>>),
            net)

\* find_node::income_message
income_found(o, eps) ==
    \E order \in SetToSeqs(eps) :
        Becomes([obs EXCEPT ![o].expire = 0],
                Tail(queue) \o [i \in DOMAIN order |->
                                   [h |-> "found", o |-> o, ep |-> order[i]]],
                net)

\* A ping of n is answered and n entered in the table (auto_update_batch).
ping_response(n) ==
    /\ RT!AutoUpdate(n)
    /\ Becomes(obs, Tail(queue), net)

\* A response goes to its observer or nowhere, a request to the rpc_manager.
income_message ==
    /\ Running("income")
    /\ LET o == Head(queue).packet.o
       IN  /\ heard' = heard \cup {o.dest}
           /\ \/ /\ o.role \in {"refresh", "probe"} /\ Stored(o)
                 /\ income_pong(o)
                 /\ UNCHANGED table
              \/ /\ o.role = "find_node" /\ Stored(o)
                 /\ income_found(o, Head(queue).packet.eps)
                 /\ UNCHANGED table
              \/ /\ o.role \in Role /\ ~Stored(o)
                 /\ Becomes(obs, Tail(queue), net)
                 /\ UNCHANGED table
              \/ /\ o = OwnRequest(o.dest)
                 /\ ping_response(o.dest)
    /\ UNCHANGED <<timer, timer_fn, requires_tick, alive, crashed>>

-----------------------------------------------------------------------------
(* observer_strage::refresh_tick *)

\* Its time is over, or destruct_self has set it to 0.
is_expired(o) == obs[o].expire = 0

refresh_tick ==
    /\ Running("refresh_tick")
    /\ Becomes([o \in DOMAIN obs |->
                   [obs[o] EXCEPT !.freed = @ \/ is_expired(o)]],
               Tail(queue), net)
    /\ UNCHANGED <<table, timer, timer_fn, requires_tick, alive, heard, crashed>>

-----------------------------------------------------------------------------
(* Timers that come due, the clock, and dht_manager::stop *)

MaintainerTimerDue ==
    /\ ~crashed /\ timer = 0
    /\ timer' = Off
    /\ queue' = Append(queue, [h |-> timer_fn])
    /\ UNCHANGED <<table, obs, timer_fn, requires_tick, net, alive, heard, crashed>>

PingTimerDue(o) ==
    /\ ~crashed /\ obs[o].timer = 0
    /\ obs' = [obs EXCEPT ![o].timer = Off]
    /\ queue' = Append(queue, [h |-> "timeout", o |-> o])
    /\ UNCHANGED <<table, timer, timer_fn, requires_tick, net, alive, heard, crashed>>

StorageTimerDue ==
    /\ ~crashed
    /\ StorageHandler \notin ToSet(queue) /\ Len(queue) < MaxQueue
    /\ DOMAIN obs # {}    \* otherwise it would find nothing the model tracks
    /\ queue' = Append(queue, StorageHandler)
    /\ UNCHANGED <<table, obs, timer, timer_fn, requires_tick, net, alive,
                   heard, crashed>>

Elapsed(t) == IF t > 0 THEN t - 1 ELSE t

\* One unit of time passes.  A timer that is due is served first.  Unless the
\* thread may stall, it keeps up: nothing is left to run when time passes.
TimePasses ==
    /\ ~crashed
    /\ timer # 0 /\ \A o \in DOMAIN obs : obs[o].timer # 0
    /\ Stall \/ queue = <<>>
    /\ timer' = Elapsed(timer)
    /\ Becomes([o \in DOMAIN obs |-> [obs[o] EXCEPT !.timer = Elapsed(@),
                                                    !.expire = Elapsed(@)]],
               queue,
               {[p EXCEPT !.left = @ - 1] : p \in {x \in net : x.left > 0}})
    /\ UNCHANGED <<table, timer_fn, requires_tick, alive, heard, crashed>>

stop ==
    /\ ~crashed /\ requires_tick
    /\ requires_tick' = FALSE
    /\ UNCHANGED <<table, queue, obs, timer, timer_fn, net, alive, heard, crashed>>

-----------------------------------------------------------------------------
(* Peers and the network (external) *)

Arrival(packet) ==
    /\ Len(queue) < MaxQueue
    /\ queue' = Append(queue, [h |-> "income", packet |-> packet])

\* A peer pings this node on its own account.
PeerPings(n) ==
    /\ ~crashed /\ n \in alive
    /\ Arrival([o |-> OwnRequest(n), eps |-> {}])
    /\ UNCHANGED <<table, obs, timer, timer_fn, requires_tick, net, alive,
                   heard, crashed>>

\* The answer to a request arrives, late or not, in any order, possibly once
\* more.  To find_node a peer answers with nodes it knows, the requester and
\* the ignored ones excepted.
AnswerArrives(p) ==
    /\ ~crashed
    /\ \E eps \in IF p.o.role = "find_node"
                  THEN SUBSET (Node \ (p.ignore \cup {p.o.dest, RootNode}))
                  ELSE {{}} :
          Arrival([o |-> p.o, eps |-> eps])
    /\ net' \in {net \ {p}} \cup (IF Duplicates THEN {net} ELSE {})
    /\ UNCHANGED <<table, obs, timer, timer_fn, requires_tick, alive, heard,
                   crashed>>

\* The request or its answer is lost.
Lost(p) ==
    /\ ~crashed
    /\ Becomes(obs, queue, net \ {p})
    /\ UNCHANGED <<table, timer, timer_fn, requires_tick, alive, heard, crashed>>

PeerDies(n) ==
    /\ ~crashed /\ n \in alive
    /\ alive' = alive \ {n}
    /\ UNCHANGED <<table, queue, obs, timer, timer_fn, requires_tick, net,
                   heard, crashed>>

-----------------------------------------------------------------------------

\* dht_manager::start has run: the first tick is the first handler.
Init ==
    /\ RT!Init
    /\ queue = <<TickHandler>>
    /\ obs = [o \in {} |-> 0]
    /\ timer = Off /\ timer_fn = "tick"
    /\ requires_tick = TRUE
    /\ net = {}
    /\ alive = Node \ {RootNode}
    /\ heard = {}
    /\ crashed = FALSE

Handler ==
    \/ tick \/ get_remote_nodes
    \/ timeout \/ on_timeout \/ pong \/ found \/ DiesOnFreed
    \/ income_message \/ refresh_tick

Due == MaintainerTimerDue \/ \E o \in DOMAIN obs : PingTimerDue(o)

Environment ==
    \/ \E n \in Node : PeerPings(n) \/ PeerDies(n)
    \/ \E p \in net : AnswerArrives(p) \/ Lost(p)

Next == Handler \/ Due \/ StorageTimerDue \/ TimePasses \/ stop \/ Environment

Spec == Init /\ [][Next]_vars

\* The thread in io_context::run goes on running handlers, timers that are due
\* are served, and time passes.  Nothing is assumed of peers or the network.
Fairness == WF_vars(Handler) /\ WF_vars(Due) /\ WF_vars(TimePasses)

FairSpec == Spec /\ Fairness

-----------------------------------------------------------------------------
(* Properties *)

\* Composed with the maintainer, the rpcs and the observers, the routing table
\* still only changes as KRoutingTable specifies: at most one auto_update,
\* move_back or delete_node per handler, and in the bucket of the node it is
\* about, although a refresh ping's handlers choose no bucket but write to the
\* one that the iterator stood at (connection_maintainer.cpp:88, 89).
ImplementsRoutingTable == RT!Spec

\* What a refresh ping's handlers do reaches the node, however long after the
\* ping was sent they run and whatever was removed and entered in between: the
\* table does not hold it after on_timeout, and after pong it holds the nodes it
\* held, this one, if it is still there, as the last seen of its bucket
\* (connection_maintainer.cpp:88, 89).
RefreshReachesNode ==
    [][\A o \in DOMAIN obs :
          o.role = "refresh" =>
             /\ on_timeout /\ Head(queue).o = o => ~RT!Holds(o.dest)'
             /\ pong /\ Head(queue).o = o =>
                   /\ \A n \in Node : RT!Holds(n)' <=> RT!Holds(n)
                   /\ RT!Holds(o.dest) => Last(RT!get_bucket(o.dest))' = o.dest]_vars

\* A node is entered only on its own evidence, a ping or a pong of its own;
\* an endpoint that a find_node answer merely names is not.
EnteredOnEvidence == \A n \in Node : RT!Holds(n) => n \in heard

\* A node is removed only after a refresh ping whose timer expired before its
\* pong was handled.  In particular the timer that ping::income_message
\* cancels, which calls ping::timeout all the same, removes nobody.
RemovedOnlyIfSilent ==
    [][\A n \in Node :
          RT!Holds(n) /\ ~RT!Holds(n)' =>
              \E o \in DOMAIN obs :
                  o.role = "refresh" /\ o.dest = n /\ obs[o].late]_vars

\* When get_remote_nodes counts the nodes, every refresh ping of the round has
\* been answered or has removed its node: "to count the nodes that are really
\* alive" (connection_maintainer.cpp:26).
SettledBeforeCount ==
    Running("get_remote_nodes") =>
        \A o \in DOMAIN obs : o.role = "refresh" => obs[o].settled

\* No handler of an observer runs after the observer was freed: its timer is
\* shorter than its life "so that the observer is not deleted first"
\* (k_observer.cpp:30).
NoDanglingHandler == ~crashed

\* A peer that died leaves the table for good, unless maintenance was stopped
\* or the process died.
DeadNodeRemoved ==
    \A n \in Node :
        n \notin alive ~> [](~RT!Holds(n) \/ ~requires_tick \/ crashed)

\* Until it is stopped the maintainer starts round after round.
RoundsGoOn == []<>(Running("tick") \/ ~requires_tick \/ crashed)

\* Every ping ends: one of its two handlers runs.
PingSettles ==
    \A o \in ObsId :
        (o \in DOMAIN obs /\ o.role # "find_node") ~>
            (crashed \/ (o \in DOMAIN obs => obs[o].settled))
=============================================================================

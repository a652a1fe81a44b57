----------------------------- MODULE Signaling -----------------------------
(***************************************************************************)
(* Signaling over several nodes: signaling_send, the relaying done by      *)
(* signaling_server::income_message, and the signaling_request observer    *)
(* that releases the payload when the destination has answered.            *)
(*                                                                         *)
(* The node that wants to send asks nodes of its routing table to pass a    *)
(* request on; each adds itself and those it asks to the list of relays    *)
(* the message carries, so that they are not asked again.  The destination *)
(* answers the source directly, the source then sends its payload.         *)
(*                                                                         *)
(* Every node runs its handlers on one thread; an application thread may   *)
(* call signaling_send while that thread runs.  signaling_relay and        *)
(* signaling_response observers are stored under ids of their own that no  *)
(* message carries: they are never found, do nothing, and are left out, as *)
(* is the dummy packet that is to open the source's NAT.                   *)
(***************************************************************************)
EXTENDS Integers, FiniteSets, SequencesExt

CONSTANTS
    Node,       \* nodes; a node is also its global endpoint
    Unknown,    \* what a node takes for its endpoint until it has learnt it
    Request,    \* calls of signaling_send
    Sources,    \* nodes that call it
    Threads,    \* where: on the "io" thread, or on an "app" thread
    Tables,     \* what the routing tables may be: functions Node -> SUBSET Node
    Meetings,   \* <<n, m>>: n may enter m in its table meanwhile
    Unaware,    \* nodes that do not know their global endpoint at first
    Fanout,     \* how many nodes a message is passed on to (3)
    TTL,        \* the ttl a message starts with (5)
    MaxFaults   \* bound: packets lost or duplicated

ASSUME SignalingAssumption ==
    /\ Unknown \notin Node /\ Unaware \subseteq Node /\ Sources \subseteq Node
    /\ Tables \subseteq [Node -> SUBSET Node] /\ Meetings \subseteq Node \X Node
    /\ Threads \subseteq {"io", "app"}
    /\ Fanout \in Nat \ {0} /\ TTL \in Nat \ {0} /\ MaxFaults \in Nat

VARIABLES
    table,      \* the endpoints in each node's routing table
    self_ep,    \* _glob_self_ep of each node
    req,        \* the signaling_request observer of each call
    sending,    \* per call, payload sends whose handler has not run yet
    net,        \* packets on their way; one may arrive more than once
    faults,     \* packets lost or duplicated so far
    down,       \* nodes whose process died
    answered,   \* (history) calls whose request reached the destination
    delivered   \* (history) calls whose payload reached the destination

vars == <<table, self_ep, req, sending, net, faults, down, answered, delivered>>

Endpoint == Node \cup {Unknown}

\* at: where the observer is; "sent" is between the requests and add_observer.
\* way is history: the tables led to the destination when the call was made.
Unused == [at |-> "unused"]

signaling_request ==
    [at : {"direct", "sent", "stored", "freed"}, by : Threads,
     src : Node, dest : Node, done : BOOLEAN, way : BOOLEAN]

\* A signaling message; its ttl is written once.  hops is history: how often it
\* was relayed, counted up to TTL + 1.  The payload travels as sub = "payload".
ice_message ==
    [to : Node, sub : {"request", "relay", "response", "payload"},
     req : Request, src : Endpoint, dest : Node, relay : SUBSET Endpoint,
     ttl : 0 .. TTL, hops : 0 .. TTL + 1]

\* Every variable has its type; every packet belongs to a call that was made.
TypeOK ==
    /\ table \in [Node -> SUBSET Node]
    /\ self_ep \in [Node -> Endpoint]
    /\ req \in [Request -> {Unused} \cup signaling_request]
    /\ \A m \in net : m \in ice_message /\ req[m.req] # Unused
    /\ sending \in [Request -> Nat]
    /\ faults \in 0 .. MaxFaults
    /\ down \subseteq Node
    /\ answered \subseteq Request /\ delivered \subseteq Request

-----------------------------------------------------------------------------
(* The node that sends *)

\* direct_routing_table_controller::collect_endpoint: Fanout nodes of the table
\* that are not ignored, or all of them if there are fewer; one more than
\* Fanout may come (KRoutingTable, collect_node).
collect_endpoint(n, ignore) ==
    LET known == table[n] \ ignore
    IN  IF Cardinality(known) <= Fanout THEN {known}
        ELSE {eps \in SUBSET known : Cardinality(eps) \in Fanout .. Fanout + 1}

\* A new message, to ep: no relays yet, and the whole ttl.
new_message(sub, r, src, dest, ep) ==
    [to |-> ep, sub |-> sub, req |-> r, src |-> src, dest |-> dest,
     relay |-> {}, ttl |-> TTL, hops |-> 0]

Payload(r, dest) == new_message("payload", r, Unknown, dest, dest)

\* A call whose destination the table holds: the payload is sent at once.
send_direct(r, n, dest, by) ==
    /\ req[r] = Unused /\ n \notin down /\ dest \in table[n]
    /\ req' = [req EXCEPT ![r] = [at |-> "direct", by |-> by, src |-> n,
                                  dest |-> dest, done |-> FALSE, way |-> TRUE]]
    /\ net' = net \cup {Payload(r, dest)}
    /\ UNCHANGED <<table, self_ep, sending, faults, down, answered, delivered>>

\* Where one comes to from n, from table to table.
Within(n) ==
    FoldLeft(LAMBDA S, i : S \cup UNION {table[x] : x \in S},
             {n}, [i \in 1 .. Cardinality(Node) |-> i])

\* signaling_request::init: the requests go out, the relay list still empty.
\* On the node's own thread add_observer follows before anything else.
signaling_request_init(r, n, dest, by) ==
    /\ req[r] = Unused /\ n \notin down
    /\ dest \notin table[n] /\ dest # n
    /\ req' = [req EXCEPT ![r] = [at |-> IF by = "io" THEN "stored" ELSE "sent",
                                  by |-> by, src |-> n, dest |-> dest,
                                  done |-> FALSE, way |-> dest \in Within(n)]]
    /\ \E forward_eps \in collect_endpoint(n, {}) :
          net' = net \cup {new_message("request", r, self_ep[n], dest, ep) :
                                ep \in forward_eps}
    /\ UNCHANGED <<table, self_ep, sending, faults, down, answered, delivered>>

add_observer(r) ==
    /\ req[r].at = "sent"
    /\ req' = [req EXCEPT ![r].at = "stored"]
    /\ UNCHANGED <<table, self_ep, sending, net, faults, down, answered, delivered>>

\* observer_strage::refresh_tick, 20 seconds or more later.
refresh_tick(r) ==
    /\ req[r].at = "stored"
    /\ req' = [req EXCEPT ![r].at = "freed"]
    /\ UNCHANGED <<table, self_ep, sending, net, faults, down, answered, delivered>>

\* The handler of a payload send, which holds a raw pointer to the observer.
on_traversal_done(r) ==
    /\ sending[r] > 0 /\ req[r].src \notin down
    /\ sending' = [sending EXCEPT ![r] = @ - 1]
    /\ req' = [req EXCEPT ![r].done = TRUE]
    /\ UNCHANGED <<table, self_ep, net, faults, down, answered, delivered>>

\* The same when the observer has been freed: the write may also end the process.
DiesOnFreed(r) ==
    /\ sending[r] > 0 /\ req[r].at = "freed" /\ req[r].src \notin down
    /\ down' = down \cup {req[r].src}
    /\ UNCHANGED <<table, self_ep, req, sending, net, faults, answered, delivered>>

-----------------------------------------------------------------------------
(* ice_agent::income_message: a packet that arrives at m.to *)

\* A signaling message is handled.
Arrives(m) == m.sub # "payload" /\ m.to \notin down

\* find_observer by the id in the message.
HasObserver(m) == req[m.req].at = "stored" /\ req[m.req].src = m.to

ForSelf(m) == m.dest = self_ep[m.to]

\* The packet is consumed, or it is still to arrive once more.
Becomes(m, out) ==
    \/ net' = (net \ {m}) \cup out /\ UNCHANGED faults
    \/ net' = net \cup out /\ faults < MaxFaults /\ faults' = faults + 1

Releases_Any(m) == ~req[m.req].done

\* signaling_request::income_message: a response releases the payload; so does
\* a request that is for this very node.  A copy that the relays passed back
\* to the source does nothing.
Releases(m) == ~req[m.req].done /\ (m.sub = "response" \/ ForSelf(m))

income_observer(m) ==
    /\ Arrives(m) /\ HasObserver(m)
    /\ Becomes(m, IF Releases(m) THEN {Payload(m.req, m.dest)} ELSE {})
    /\ sending' = [sending EXCEPT ![m.req] = @ + IF Releases(m) THEN 1 ELSE 0]
    /\ UNCHANGED <<table, self_ep, req, down, answered, delivered>>

\* signaling_server::income_message at the destination: the message goes back
\* to the endpoint the source gave, marked as a response.
income_response(m) ==
    /\ Arrives(m) /\ ~HasObserver(m) /\ ForSelf(m)
    /\ Becomes(m, IF m.src \in Node
                  THEN {[m EXCEPT !.to = m.src, !.sub = "response"]} ELSE {})
    /\ answered' = answered \cup {m.req}
    /\ UNCHANGED <<table, self_ep, req, sending, down, delivered>>

relayed_Decrement(m) ==
    [m EXCEPT !.sub = "relay", !.relay = @ \cup {self_ep[m.to]}, !.ttl = @ - 1,
              !.hops = Min({@ + 1, TTL + 1})]

\* The message with this node as a relay.
relayed(m) == [m EXCEPT !.sub = "relay", !.relay = @ \cup {self_ep[m.to]},
                        !.hops = Min({@ + 1, TTL + 1})]

\* The table holds the destination: straight to it, whatever the ttl.
relay_direct(m) ==
    /\ Arrives(m) /\ ~HasObserver(m) /\ ~ForSelf(m)
    /\ m.dest \in table[m.to]
    /\ Becomes(m, {[relayed(m) EXCEPT !.to = m.dest]})
    /\ UNCHANGED <<table, self_ep, req, sending, down, answered, delivered>>

forwarded_One(m, eps) ==
    IF eps = {} THEN {} ELSE {[m EXCEPT !.to = CHOOSE ep \in eps : TRUE, !.relay = @ \cup eps]}

\* Everyone it is passed on to is entered in the list first.
forwarded(m, eps) == {[m EXCEPT !.to = ep, !.relay = @ \cup eps] : ep \in eps}

income_relay_AnyNode(m) ==
    /\ Arrives(m) /\ ~HasObserver(m) /\ ~ForSelf(m)
    /\ m.dest \notin table[m.to]
    /\ \E forward_eps \in collect_endpoint(m.to, {}) :
          Becomes(m, IF m.ttl <= 0 THEN {} ELSE forwarded(relayed(m), forward_eps))
    /\ UNCHANGED <<table, self_ep, req, sending, down, answered, delivered>>

\* It is passed on to nodes not in the list, unless the ttl is used up (it is
\* never decremented).
income_relay(m) ==
    /\ Arrives(m) /\ ~HasObserver(m) /\ ~ForSelf(m)
    /\ m.dest \notin table[m.to]
    /\ \E forward_eps \in collect_endpoint(m.to, relayed(m).relay) :
          Becomes(m, IF m.ttl <= 0 THEN {} ELSE forwarded(relayed(m), forward_eps))
    /\ UNCHANGED <<table, self_ep, req, sending, down, answered, delivered>>

\* The payload arrives.
income_payload(m) ==
    /\ m.sub = "payload" /\ m.to \notin down
    /\ Becomes(m, {})
    /\ delivered' = delivered \cup {m.req}
    /\ UNCHANGED <<table, self_ep, req, sending, down, answered>>

-----------------------------------------------------------------------------
(* The rest of each node, and the network *)

\* A binding request has succeeded (StunBinding).
update_global_self_endpoint(n) ==
    /\ self_ep[n] = Unknown
    /\ self_ep' = [self_ep EXCEPT ![n] = n]
    /\ UNCHANGED <<table, req, sending, net, faults, down, answered, delivered>>

\* A node enters another in its table (KRoutingTable, DhtManager).
Meet(n, m) ==
    /\ m \notin table[n]
    /\ table' = [table EXCEPT ![n] = @ \cup {m}]
    /\ UNCHANGED <<self_ep, req, sending, net, faults, down, answered, delivered>>

\* What reaches a dead node is gone.
Gone(m) ==
    /\ m.to \in down
    /\ net' = net \ {m}
    /\ UNCHANGED <<table, self_ep, req, sending, faults, down, answered, delivered>>

Lose(m) ==
    /\ faults < MaxFaults
    /\ faults' = faults + 1
    /\ net' = net \ {m}
    /\ UNCHANGED <<table, self_ep, req, sending, down, answered, delivered>>

-----------------------------------------------------------------------------

Init ==
    /\ table \in Tables
    /\ self_ep = [n \in Node |-> IF n \in Unaware THEN Unknown ELSE n]
    /\ req = [r \in Request |-> Unused]
    /\ sending = [r \in Request |-> 0]
    /\ net = {}
    /\ faults = 0 /\ down = {}
    /\ answered = {} /\ delivered = {}

income_message(m) ==
    \/ income_observer(m) \/ income_response(m) \/ relay_direct(m)
    \/ income_relay(m) \/ income_payload(m)

signaling_send(r, n, dest, by) ==
    \/ send_direct(r, n, dest, by)
    \/ signaling_request_init(r, n, dest, by)

Observer(r) == add_observer(r) \/ on_traversal_done(r) \/ DiesOnFreed(r)

Network == \E m \in net : income_message(m) \/ Lose(m) \/ Gone(m)

Next ==
    \/ \E r \in Request, n \in Sources, dest \in Node, by \in Threads :
          signaling_send(r, n, dest, by)
    \/ \E r \in Request : Observer(r) \/ refresh_tick(r)
    \/ Network
    \/ \E n \in Node : update_global_self_endpoint(n)
    \/ \E p \in Meetings : Meet(p[1], p[2])

Spec == Init /\ [][Next]_vars

\* While there are packets, one arrives or is lost, and handlers that are ready
\* run.  Nobody need ever call signaling_send, free an observer or learn
\* anything.
FairSpec == Spec /\ WF_vars(Network) /\ \A r \in Request : WF_vars(Observer(r))

-----------------------------------------------------------------------------
(* Properties *)

Released(r) == req[r].at = "direct" \/ req[r].done \/ sending[r] > 0

Stage(r) ==
    IF req[r] = Unused THEN "idle"
    ELSE IF r \in delivered THEN "delivered"
    ELSE IF Released(r) THEN "released"
    ELSE IF r \in answered THEN "reached" ELSE "asked"

\* Each call of signaling_send as the abstract protocol sees it.
Abstract == INSTANCE Rendezvous WITH
    stage <- [r \in Request |-> Stage(r)],
    outstanding <- sending,
    closed <- {r \in Request : req[r] # Unused /\ req[r].done}

\* The payload is sent only once the destination has been reached: a copy of
\* the request that the relays pass back to its source, which is in no relay
\* list, releases nothing (signaling_request::income_message).  Several answers
\* may each release it, but none does after on_traversal_done, whatever comes
\* between a send and its handler (_done, ice_observer.cpp:116).
ImplementsRendezvous == Abstract!Spec

\* The source has entered the destination in its own table since it asked.
SourceMet ==
    \E r \in Request : /\ req[r] # Unused /\ req[r].at # "direct"
                       /\ req[r].dest \in table[req[r].src]

\* However the tables lie, the copies of a request die out: the relay list, to
\* which each relay adds itself and those it asks, ends the forwarding.  The
\* exception is a source that met the destination: see TtlBoundsRelays.
RelayingEnds == <>[](net = {} \/ SourceMet)

\* If the tables lead from the source to the destination, the request finds
\* its way, whichever copies come first and whoever is already listed in them,
\* and the payload arrives; unless a packet is lost, an end does not know its
\* own endpoint, the observer expires, or some node knows more nodes than it
\* passes a message on to.  (Not so if an application thread stored the
\* observer too late.)
PayloadArrives ==
    \A r \in Request :
        (/\ req[r].at = "stored" /\ req[r].by = "io" /\ req[r].way
         /\ {req[r].src, req[r].dest} \cap Unaware = {}) ~>
            (\/ r \in delivered \/ faults > 0 \/ req[r].at = "freed"
             \/ \E n \in Node : Cardinality(table[n]) > Fanout)

\* "If the destination is not this node and the ttl is valid, it is forwarded"
\* (signaling_server.cpp:77): no message is relayed more often than its ttl
\* allows.
TtlBoundsRelays == \A m \in net : m.hops <= TTL
=============================================================================

# Verification of ss_p2p_node_controller

TLA+ models of the node controller library (`src/include/ss_p2p`,
`src/src/ss_p2p`), the TLC configurations that check them on small instances,
and TLAPS proofs of the safety properties that the runs check, for every value
of the constants.

Paths below are relative to the repository unless they end in `.tla` or `.cfg`.

## 1. The system

A *node* owns a UDP socket, one `boost::asio::io_context` with one thread in
`run`, and the parts below. Everything but the application's own calls
(`get_peer`, `peer::receive`, `sync_get_global_address`, `start`, `stop`, the
picks of the multicast manager) and the thread that reads the console is a
handler on that thread: a packet arrives, a timer is due, or an earlier handler
posted another. The hard behaviours follow from that shape: what happens
between the posting of a handler and its run, timers that are cancelled after
they expired, raw pointers in handlers, and application threads beside the one
io thread.

| Component | State | Operations | Talks to |
|---|---|---|---|
| udp server (`udp_server`) | socket, `_recv_buff`, `_src_ep` | receive loop, posts a handler per datagram, stop | node controller's `on_receive_packet` |
| node controller (`node_controller`) | own endpoints and id, timers, all other parts | `start`, `stop`, `tick`, `get_peer`, `on_receive_packet`, `sync_get_global_address` | everything |
| routing table (`k_node`, `k_bucket`, `k_routing_table`, `direct_routing_table_controller`) | one list of nodes per bucket | `auto_update`, `move_back`, `delete_node`, `swap_node`, `collect_node`, searches | dht manager, multicast manager |
| dht manager (`dht_manager`, `connection_maintainer`, `rpc_manager`, `k_observer`) | maintenance timer, ping and find_node observers | rounds of refresh pings, discovery of nodes, answering and handling packets | routing table, observer storage, sender |
| observer storage (`observer`, `observer_strage`) | observers by kind and id, sweep timer | `add_observer`, `find_observer`, `refresh_tick` | dht manager, stun server, signaling server |
| stun server (`stun_server`, `binding_request`, `sr_object`) | answers so far, one timer, the result object | `binding_request`, `async_get`, `sync_get`, answers, timeout | observer storage, node controller |
| signaling server (`signaling_server`, signaling observers) | requests being relayed or awaited | request, relay, response, payload | routing table, observer storage |
| message pool and hub (`message_pool`, `message_hub`, `peer`) | messages per peer, hub state, expiry timer | `store`, hub delivery, expiry, `get_peer_message_buffer`, `receive` | node controller, application |
| multicast manager (`multicast_manager`) | `_context._picked_peers` | `get_random`, `get_multicast_target`, `update_context`, `clear_context` | routing table, application |
| sender, `k_message`, `ice_message`, `json_parser` | none | encode, send, decode | network |
| console interface (`interface`) | a thread reading lines | `listen_stdin`, posts `on_command_input` | node controller |
| logger | terminal, file | print | everything |

What makes each part correct:

* *routing table*: buckets stay within their capacity, hold no node twice and
  only nodes of their own branch; a node is removed only for being silent; the
  searches miss and repeat nothing.
* *dht manager*: nodes are entered and removed on evidence; every ping ends;
  rounds never stop; no handler uses a freed observer.
* *message pool*: what the application receives is what the peer sent, in
  order; the sweep drops nothing early and nothing is kept for ever; a blocked
  `receive` ends when a message comes, as its declaration says (it does not).
* *stun server*: one result, handed over once, resting on enough answers of nodes
  that were asked.
* *udp server*: each datagram is handled, once, in order, with its own sender (it
  may be another's), while the process lives.
* *signaling server*: a request finds its way where the tables lead to the
  destination, its copies die out, and only an answer releases the payload.
* *node controller*: each part's chain of timers goes on, at its interval, while
  the node runs; the endpoint it believes in is the latest it was told; once
  stopped it stays stopped.
* *multicast manager*: a pick passes over no node that is there to be picked.

`PROJECT.json` lists the hazards line by line, with the properties aimed at
each.

## 2. Modules

Names of actions and operators are those of the functions they model;
`PROJECT.json` maps every one to its lines. Operators called
`<name>_<Slip>` (for example `move_back_NoErase`) are wrong on purpose: each is
a plausible slip in `<name>`, and the named property fails when it takes
`<name>`'s place. No specification uses them. `MC*.tla` modules only give values
to constants.

### KRoutingTable

`table` maps bucket indexes to sequences of nodes, least recently seen first,
as the `std::vector` in `k_bucket` has them. An id is a function from bit
positions to bits in the order `calc_node_xor_distance` scans them, a node is an
endpoint with an id. The hash is external: all that is assumed is that different
endpoints have different ids. The actions are the three ways in which the code
changes a table: a packet of a node (`AutoUpdate`), a pong to a refresh ping
(`MoveBack`), a refresh ping that timed out (`DeleteNode`). `swap_node` has no
caller in the library; it is the extra action of `SpecWithSwap`, which only the
proofs use.
`collect_node` is the walk over both directions from a bucket, turn by turn.

### MulticastManager

Extends KRoutingTable by an application thread that picks nodes. Nothing is
locked, so `get_random` is one step per bucket (`try_bucket`) and the table's own
actions come between them (`TableUpdate`, the only steps that change the table). The
shuffled indexes are a set, taken from in any order. What kills the process is
in the model, as `dies`: the function object `_ep_to_peer_func` refers to is gone
by the time it is called, and a bucket may be read while it changes (both work or
do not); `convert_peers_to_k_nodes` writes into an empty vector as soon as
anything has been picked; `get_multicast_target` with `n <= 1` goes on to use the
peer it has, or has not. `witness` is a history variable: a node, any, that the
table held from the beginning of the call.

### DhtManager

The maintenance of the table by `connection_maintainer` and `rpc_manager`. The
routing table is the instance `RT` of KRoutingTable over the same variable.
`queue` is the io_context's FIFO of ready handlers; a handler's action takes the
head and does all that the function does, posts included. The handlers of a refresh
ping are bound to the bucket the iterator stood at when the ping was sent
(`get_raw`), kept in the observer: they change that slot of the table
(`RefreshReachesNode` says that it is the right one), while other packets change the
bucket their node selects. A timer is a count of
units left; when it is due its handler is appended. `obs` holds each observer's
flags, timer and remaining life. `refresh_tick` frees expired observers; a
handler in the queue may still name a freed one, and running it (`DiesOnFreed`)
is where undefined behaviour begins, modelled as the death of the process.
A peer may answer, be late, answer twice, answer after the timeout, or die;
`heard`, `late` and `settled` are history variables.

The role of an observer stands for the callbacks it was built with (refresh,
probe, find_node). Of a message only what handlers read is kept: kind, sender,
observer id, and for a find_node answer the endpoints it names.

### MessagePool

`pool`, the hub's flag and the expiry timer are the io thread's; `buf` and `call`
belong to application threads. `get_peer_message_buffer` makes a *copy* of the
entry, so `buf` and `pool` part ways from then on, exactly as the code's copies
do. `store` and the notification of the hub are separate steps of the io thread.
`_pool` is an unguarded map: a `get_peer` while
the io thread is in the middle of a step is a data race, modelled as a possible
death of the process (`get_peer_races`) or a correct read (`get_peer`). A
receive that ends without a message dereferences null and kills the process.

### StunBinding

One binding request. If the caller is asynchronous (`Async`) the loop that sends
the requests is over before any handler runs (it runs before the io_context does, or on its thread);
otherwise an application thread runs the loop while the io thread handles
answers, so sending to a node and listing it (`add_requested_ep`) are two steps.
`sees` is fixed at the start: the endpoint each node would report.
`sync_get` waits without a predicate, so only a notification that comes after it
began wakes it (spurious wake-ups are left out). With no node to ask,
`binding_request` returns an error object that nothing will ever notify: its
handler is never called and `sync_get` never returns. Accesses to `_responses`
are taken as atomic.

**AsyncResult** is the promise of `async_get`: one decision, once and for all, told
once. The mapping takes the value that is handed on for the decision, so that
the outcome that `on_timeout` may still write into the `sr_object` later is no
second one.

### Signaling

Several nodes. A node is its global endpoint, or `Unknown` to itself until it has
learnt it. The routing tables are sets, given at the start, that may grow by
`Meetings`; what `collect_endpoint` returns is any set of the right size
(KRoutingTable has the choice). `req` is the `signaling_request` observer of a
call; on the io thread its requests go out and it is stored in one step, on an
application thread other handlers may come between (`"sent"`). Each arrival is
one handler of the receiving node: the observer, the destination, a relay that
knows the destination, a relay that forwards. A message carries its relay list as
a set. Identical packets on their way count as one, which may arrive again.

**Rendezvous** is the promise of `signaling_send`, without relays and packets: a
payload for a node that is not known is released only after that node was
reached, and none is released any more once one is known to have gone out. The
mapping counts the payload sends whose handler, which sets `_done`, has not run.

### UdpServer

The receive loop. The two members that a receive fills are variables; the
datagram is copied into the posted handler, the sender is read when it runs.
`receiving` counts the outstanding receives, as every `start` adds one; `cancel`
ends them, and each of their handlers, seeing an error, receives again. The posted
`_recv_handler` decodes the datagram, which it survives or not
(`recv_handler_throws`): `json::from_bson` throws on what is not BSON, nothing up to
the daemon's `io_context::run` catches, and the process ends. `thrown` is the
handler it ended in. Its own specification is a node that runs; NodeController
extends it by the rest of a node's life.

### NodeController

`start` detaches a daemon thread that works through the parts (`daemon[i]`, one
step each) and ends in `io_context::run`; the application may call `stop`
meanwhile. A datagram that does not decode ends all of it, and so may a line
(`command_throws`): `send` to what is no address throws, too few words are read past
the end of a vector, and as that is undefined the same outcome stands for all.
`stop` is two steps: the cancelled receive, and the stopped io_context
together with the flags cleared after it, which only handlers read. Typed at the
console it is one step, on the io thread.

A timer is a wait with its time left and its handler. Setting one again cancels
the wait it had, and as the handlers ignore the error code a cancelled one runs,
at once: `Cancel` appends it to the queue. What has expired (`expired`) can still be
cancelled until the reactor moves it, with all others that have expired, to the
queue (`TimersReady`). The timers are those of the three chains and one for each
binding request under way; the sweeps of the observer storages, which share nothing
with these, are in DhtManager. What a chain's handler does besides setting its timer is in the
part's own module; of a datagram only that it may decide a binding request
matters here. `older` and `overtaken` are history: they say whether a result comes
after that of a later request.

### The proofs

`<module>Proofs` extends `<module>` by its theorems: KRoutingTableProofs,
MulticastManagerProofs, DhtManagerProofs, MessagePoolProofs, StunBindingProofs,
SignalingProofs, NodeControllerProofs (which has those of the udp server too).
QueueTheorems holds what they all need of queues: which handlers a queue has,
that it has at most one of a kind (`AtMostOne`), that those of one kind come
before those of another (`Before`), and how taking the head, posting and removing
keep that. Section 4 says what is proved.

## 3. Runs

A run marked *violated* checks what a comment in the repository says against what
the code does; the counterexample and the comment are quoted in the `findings` of
`PROJECT.json`.

| Run | Checks | Result |
|---|---|---|
| `routing_table` | `TypeOK`, `NoDuplicates`, `WellPlaced`, `NoNodeMissed`, `SearchesSound`, `SearchesComplete`, `LeastRecentlySeenOrder`, `OnlyTimeoutRemoves` | hold |
| `dht` | `TypeOK`, `EnteredOnEvidence`, `SettledBeforeCount`, `ImplementsRoutingTable`, `RefreshReachesNode`, `RemovedOnlyIfSilent` | hold |
| `dht_live` | `DeadNodeRemoved`, `RoundsGoOn`, `PingSettles` | hold |
| `dht_dangling` | `NoDanglingHandler` | violated: the sweep frees an observer between the expiry of its ping and the handler that expiry posted |
| `message_pool` | `TypeOK`, `ReceivedInOrder`, `SweepExact`, `ExpiredDropped` | hold |
| `message_pool_blocking` | `BlockedUntilArrival` | violated: the blocked copy is never notified |
| `stun` | `TypeOK`, `EnoughAnswersAsync`, `ReportedByAsked`, `ImplementsAsyncResult`, `HandlerCalled` | hold |
| `stun_sync_get` | `SettledGetReturns` | violated: the condition is inverted |
| `node_controller` | `NodeTypeOK`, `HandledInOrder`, `TickInterval`, `EndpointUpToDate`, `StopIsFinal`, `EveryDatagramHandled`, `ChainsGoOn`, `ConsoleStops` | hold |
| `udp_server_source` | `SourceIsSender` | violated: the next receive overwrites the sender's endpoint |
| `signaling` | `TypeOK`, `ImplementsRendezvous`, `RelayingEnds`, `PayloadArrives` | hold |
| `signaling_ttl` | `TtlBoundsRelays` | violated: the ttl is never decremented; a response that finds no observer at the source goes round and round between it and the destination |

More behaviours are in the models, though no run is about them. The first four contradict a
comment or declaration of the code; no property claims what they break, and none
is worded so as to allow it:

* `collect_node` may return `max_count + 1` nodes, where `k_routing_table.hpp:58`
  says at most `max_count`: the count reaches 0 between the two buckets of a turn
  and `get_node_back(0)` returns one;
* once a peer has been picked, the next pick kills the process (`conversion_dies`), where
  `multicast_manager.hpp:23` and `:50` promise a peer that was not picked before, unless
  every bucket it tries is empty or the context was cleared;
* a `receive` whose time is over without a message dereferences null
  (`receive_gives_up`) and kills the process, where `peer.hpp:81` and `:82` promise a
  return at once or after n seconds;
* the hub pops from a copy of the entry, and `receive` from the peer object's, so a
  message given to one is still in the pool for the next `get_peer`, where
  `message_pool.hpp:96` says that what is obtained is taken out, and
  `message_pool.cpp:299` that a message popped in `receive` is gone for the hub;
* a datagram that is not BSON ends the process (`node_controller.cpp:211`,
  `message.cpp:49`), and so does a `send` typed at the console with no address
  in it (`utils.cpp:31`); `EveryDatagramHandled` says that a bad
  datagram takes only itself and later ones with it;
* a synchronous binding request may be decided by fewer answers than a third of
  the nodes, as an answer is counted against the nodes listed so far
  (`EnoughAnswersAsync` is about the asynchronous one);
* a payload is sent twice if a second response is handled before the handler of
  the first send has set `_done`; and it is never sent if the caller is an
  application thread and the only response comes before `add_observer`;
* `on_timeout` ignores its error code: after a decision it runs although the
  timer was cancelled, and if enough loopback answers were handled in between it
  sets the `sr_object` back to notfound. The handler is still called only once;
* `get_random` never looks into the last bucket, which is where half of all ids
  belong: its indexes are passed on as branches, and branches 0 and 1 are one
  bucket (`NoNodeMissed` excepts it, and says nothing about it);
* a `start` on a running node makes two chains of ticks that cancel each other's
  waits and run without waiting (with `Overlap = TRUE` TLC finds `TickInterval`
  violated; the run has `Overlap = FALSE` and is no evidence about it);
* a `start` after `stop` arms everything and runs nothing, as the io_context is not
  restarted (`StopIsFinal`).

### Bounds, and why they are enough

* *Routing table*: ids of three bits (160 in the code), `K = 3` (4). Eight nodes
  give one bucket that is contended (four nodes for three places; with fewer
  places the order of a bucket could not be told from its reverse), two that
  are not, and slot 0 shared by branch 0 and branch 1. With three buckets
  `collect_node` turns both ways and runs off both ends. The proofs remove the
  bounds for all but the searches, and cover `swap_node` too. All a table depends
  on of a node is the bucket its id selects, so nodes of one bucket are
  interchangeable (`SameBucket`).
* *Multicast*: one peer that the application put into the context by itself is
  enough for every outcome of a pick. The searches read only the table, and are
  checked while nothing has been picked or asked for (`Untouched`), which leaves
  out no table.
* *Maintenance*: two buckets of one place. `far1` and `near` can both be
  held, both be the sought root's neighbours, and be told of each other by
  find_node answers. `MINIMUM_NODES = 2`, so that both outcomes of the
  comparison in `get_remote_nodes` occur. The code's 4, 6, 6, 10 and 20 seconds
  are 1, 2, 2, 1 and 2 units: what the order of events depends on is that a
  ping's timer is shorter than its life and than the wait for the count. The
  10 and 20 seconds are shortened, which makes rounds and left-over observers
  overlap more than they do in the code. `MaxDelay` lets an answer come after the
  ping's timeout. `MaxSeq` (live observers of one role and peer) and `MaxQueue`
  (no *arrival* while so many handlers wait) bound the network, not the
  handlers. The period of the sweep has no phase: it may be due at any time.
* *Stall*: with `Stall = FALSE` time passes only when no handler is ready.
  `SettledBeforeCount` needs that: with `Stall = TRUE` TLC finds the order
  `timeout`, `get_remote_nodes`, `on_timeout`, in which the thread is so late
  that both timers are due together. The liveness run has `Stall = TRUE` and
  duplicates, with one peer.
* *Message pool*: two peers, one application thread, three messages. A lifetime
  of two units and a period of one gives messages younger than, at and past the
  lifetime in one entry. A thread's peer object shares nothing with another's,
  only with the pool.
* *Binding request*: up to four nodes, asked in a fixed order; with four,
  deciding takes two answers and one would be less than a third. Two global
  endpoints and a loopback address make agreement, ties and exclusion possible.
  Nodes differ only in what they see, and every combination of views is tried,
  up to the exchange of the two global endpoints.
* *Signaling*: five nodes, one call to any of them. In one set of tables two
  relays list and ask each other and a third alone knows the destination; in the
  other a circle leads nowhere until a node meets the destination. One packet is
  lost or duplicated. `Fanout` is the code's 3, `TTL` is 2 where its value does
  not matter and the code's 5 in `signaling_ttl`. With more than three nodes in a
  table the choice of whom to ask may miss the way, which `PayloadArrives`
  excepts. Calls share nothing but the tables.
* *UDP*: in `udp_server_source` two senders, a few datagrams and errors; two
  datagrams already overlap as often as a third can.
* *Node*: two starts, one line at the console, two datagrams, and one trouble: a
  unit of time that passes while a handler waits, a receive that fails, or a
  second start (`MaxTrouble`; the invariants were also checked for two). The
  code's 60, 200, 6, 10 and 4 seconds are 2, 2, 2, 2 and 1 units: the order that
  matters is that a binding request times out before the next tick, and
  equal times make the three chains meet as often as they can.

Deadlock is not checked where the modelled system may stop: after `stop`, after
the process died, or once the bounded number of arrivals is used up.

### Fairness

Weak fairness of the handlers (`Handler`, `IoThread`): a thread is in
`io_context::run`, and asio's FIFO runs every ready handler. Weak fairness of
due timers and of time: asio serves an expired timer, clocks go on. Weak fairness
of a caller that can go on (`Waiting`, `Caller`): the operating system schedules
the thread. In NodeController, the threads inside `start` and `stop` go on, each
by itself (`Daemon(i)`, `stop_io_context`); nobody need ever call them, type a line or
send a datagram, and no receive need fail. In Signaling, packets do not stay on
their way for ever: they arrive or, within the bound, are lost (`Network`).
Nothing else is assumed of peers, of the network, of the sweep's phase or
of the application's future calls.

## 4. Proofs

Every theorem is of a specification whose constants are left open. The assumptions on them are those the modules state: ids are bit strings and
different endpoints have different ones, capacities and periods are positive, the
values that stand for nothing are none of the real ones, in NodeController that a
binding request times out before the next tick (4 and 6 seconds in the code), and in
DhtManager that a ping times out before the maintainer counts (also 4 and 6). What
follows names, for each module, the theorems, and the inductive invariant
they rest on.

**Routing table** (`KRoutingTableProofs`)

* `TypeCorrect`: no bucket outgrows `K`, with `swap_node` as an action too;
* `NoDuplicatesTheorem`: no bucket holds a node twice, `swap_node` included;
* `WellPlacedTheorem`: every node is in the bucket its id selects;
* `OnlyTimeoutRemovesTheorem`: a node leaves only by its own timed-out ping;
* `LeastRecentlySeenOrderTheorem`: an update leaves the others of a bucket in their
  order and puts the node it is about at the back.

None of the first three is inductive alone: that `move_back` keeps the length and
that `delete_node` removes the node rest on the node being there at most once;
that a bucket stays free of repetitions rests on `auto_update` finding the node in
the very bucket it would append to. The inductive invariant (`BucketInv`) says of
each bucket that it is a sequence of at most `K` distinct nodes. Lemmas give what each
operation on one bucket makes of it (`add_back`, `move_back`, `delete_node`,
`swap_node`), its order included; an action then changes one bucket by one of them.

**Multicast manager** (`MulticastManagerProofs`)

* `NoNodeMissedTheorem`: a pick that returns nothing has passed over no node that
  was in the table all the time, the last bucket excepted.

The inductive invariant adds, while a call is under way, that the index leading
to the witness's bucket has not been tried yet (`WitnessAhead`); it cannot be
tried in vain, as by `WellPlaced` the witness is in that very bucket.

**Dht manager** (`DhtManagerProofs`)

* `DhtTypeCorrect`: types; no handler and no request names an observer that is not
  remembered;
* `EnteredOnEvidenceTheorem`: each node in the table sent a packet of its own;
* `RemovedOnlyIfSilentTheorem`: one leaves only if a ping of it timed out first;
* `DhtImplementsRoutingTable`: each step is one of KRoutingTable or leaves the table
  alone, the handlers of refresh pings too, which do not choose the bucket they
  change by the node, as KRoutingTable does, but were bound to it long before;
* `RefreshReachesNodeTheorem`: what such a handler does reaches its node;
* `OneRoundTheorem`: until stop the maintainer's timer waits or exactly one of its
  handlers is ready, so its rounds neither stop nor double;
* `NoPingForgottenTheorem`: an unsettled ping has its timer or a handler to come;
* `SettledBeforeCountTheorem`: when `get_remote_nodes` counts, the pings of its round
  are settled.

What is in the table is decided handlers after the evidence for it, so the invariant
(`DhtInv`) says what a queued handler may stand on: a pong's peer was heard
already, an `on_timeout` is of an observer whose timer came first, and `obs` still has
what a handler or a request names (`StoreOK`). A step posts, takes or delivers, and
lemmas say what each does to `StoreOK`; on the table it is an operation on one
bucket, for which KRoutingTableProofs is used through an instance.

Which bucket, is what the refinement is about. `StoreOK` also says that the bucket
an observer of a refresh ping keeps is the one its node's id selects. When the ping
is sent that holds because the node was found there and every node of the table is
`WellPlaced`; later, because no bucket ever moves. `RefreshBucket` draws the
conclusion: the handler's own `move_back` or `delete_node` is KRoutingTable's of
that node. Had the handlers been bound to the iterator, the theorem would be false.

The last three rest on `DueInv`, which relates the maintainer's timer to those of
the pings: a ping that is not settled has its own timer, or the `timeout`, `pong` or
`on_timeout` that follows it (`NoPingForgotten`), and while a refresh ping is unsettled
the maintainer's timer is set for `get_remote_nodes` and is longer than the ping's
(`RoundOpen`). `RoundOpen` has the hypothesis `~Stall`, time passing only when no
handler is ready, and so has `SettledBeforeCountTheorem`. Without it the property is
false: a thread that stalls finds both timers due, and TLC shows the wrong order
(section 3). The other two hold with stalls as well.

**Message pool and hub** (`MessagePoolProofs`)

* `PoolTypeCorrect`: types;
* `ReceivedInOrderTheorem`: what a peer object gave out and still holds is a run of
  that peer's messages in order, none missing in between;
* `SweepExactTheorem`: a refresh leaves of each entry exactly the messages that have
  not expired;
* `SweepGoesOnTheorem`: until stop the refresh has its timer set or is running.

`EntriesInv` says that an entry is always its peer's messages from some one on
to the last. Expiry cuts from the front only, a message is appended to the log and
to the entry in one step, so a copy is a run, and a run without its head is one.
That the sweep is exact needs that ages never increase along the log
(`AgesOrdered`): then `upper_bound` is the last message that expired
(`UpperBoundExact`). In an entry out of order it would cut too little.

**Stun server** (`StunBindingProofs`)

* `StunTypeCorrect`: types;
* `StunImplementsAsyncResult`: each step is one of AsyncResult or none;
* `ReportedByAskedTheorem`: what is handed over was reported by a node that was asked;
* `EnoughAnswersTheorem`: an asynchronous request rests on a third of the nodes;
* `NotForgottenTheorem`: until the handler of an asynchronous request is called, its
  timer, `on_timeout` or the call itself is to come.

The refinement needs that there is at most one call of the handler, on its way or
made, however often a decision is found again, and that it hands on the decision
of its time, not what `on_timeout` writes into the object later. For the report,
every place where an outcome is on its way is covered (`ReportInv`). The count rests
on all nodes being listed before the first answer (`CountInv`), which is only so
if the caller is asynchronous.

**Signaling server** (`SignalingProofs`)

* `SignalingTypeCorrect`: types;
* `SignalingImplementsRendezvous`: each step is one of Rendezvous or none.

The invariant (`SignalingInv`) says of each packet on its way what it proves: a
response, that the destination was reached; a payload, that it was released. An
unused call has left no trace, a call that asks is not for its own node, and a node
takes itself for nobody else; without the last a relay could answer in the place of
the destination.

**Node controller and udp server** (`NodeControllerProofs`)

* `NodeTypeCorrect`: types; the handlers in the queue and of the waits are of those
  there are;
* `StopIsFinalTheorem`: on a stopped io_context nothing runs any more;
* `HandledInOrderTheorem`: datagrams are handled in order, each once;
* `TickIntervalTheorem`: a tick comes `TickTime` after the one before;
* `EndpointUpToDateTheorem`: no older result replaces a newer one;
* `NothingBreaksOffTheorem`: what was started goes on: a receive is outstanding or its
  handler ready, each of the three chains has its timer set or its handler ready, and
  a decided request has its result posted;
* `NoDatagramLostTheorem`: until stop, or an exception ends the process, a datagram
  that arrived is in the socket, in the buffer with its handler ready, copied for
  a posted handler, or handled.

`NodeTypeCorrect`, `StopIsFinalTheorem` and `NothingBreaksOffTheorem` hold of every
life of a node. `NodeInv` says, besides the types, of
each name of a binding request that it has its wait, or the handler of its timeout,
or its result in the queue, and that nothing of its timer is left behind its
result (`AskOK`), so that no handler meets the next request of that name.

The others have the hypothesis `~Overlap`: no `start` on a node that is running.
It is not for the sake of the proof: a second `start` makes a second receive
outstanding and a second chain of ticks, which cancel each other's waits, and
with `Overlap = TRUE` TLC finds `TickInterval` violated. Their invariant
(`OneInv`) speaks of what has happened and, while the node is not stopped, of
`Alive`:

* `OneStart`: only the first `start` has a daemon;
* `ReceivesOK`: one receive is outstanding or has one handler ready, and the
  datagrams in the queue are those received and not handled, in order. Each is
  copied for its handler before the next receive is asked for;
* `TickOK`: there is one wait of the controller's timer or one handler of it, and
  time left and time since the last tick make up `TickTime`;
* `RequestsOK`: a request's timer expires before the controller's, also when both do
  while a handler keeps the thread (`Sooner`, which speaks of the order in
  `expired`). Hence none is pending when the next is made, and results are posted in
  the order of their requests.

Once the node is stopped no handler runs, so nothing has to be said of the queue
then.

**Model-checked only**

* Liveness, which the prover does not handle: `DeadNodeRemoved`, `RoundsGoOn`,
  `PingSettles`, `ExpiredDropped`, `HandlerCalled`,
  `EveryDatagramHandled`, `ChainsGoOn`, `ConsoleStops`, `RelayingEnds`,
  `PayloadArrives`. Proved is what several of them rest on, that something is always
  there that will make the step: `OneRound` (for `RoundsGoOn`), `NoPingForgotten`
  (`PingSettles`), `SweepGoesOn` and `SweepExact` (`ExpiredDropped`), `NotForgotten`
  (`HandlerCalled`), `NothingBreaksOff` and `NoDatagramLost` (`ChainsGoOn`,
  `EveryDatagramHandled`). That it does make the step is fairness, and TLC's.
* `SearchesSound` and `SearchesComplete`, which need induction over the walk of
  `collect_node`, and the facts about `SelectSeq` that `get_node_front` and
  `get_node_back` filter a bucket with.
* The violations of section 3. A counterexample is a behaviour, and TLC shows it.

## 5. Not modelled

* Encoding, sockets and the network below datagrams; the hash. That a datagram may
  not decode is in UdpServer and NodeController, where it ends the process; the
  modules of the other parts start from a decoded message.
* Collisions of ids or uuids, clocks that go backwards.
* `pop_observer`, `delete_observer`, `message_pool::clear`, `pop_since`,
  `union_observer` and other functions without a caller.
* Data races on the observer storage between an application thread in
  `binding_request` or `signaling_send` and the io thread; of those calls only
  the order of sending, listing and storing is modelled.
* The relay and response observers of signaling, which no message ever finds.
* Two threads in `io_context::run` at once, after a `start` on a running node:
  their handlers would run concurrently, which nothing in the code allows for.
* The routing table's own copy of the node's id, which stays what it was when
  `update_global_self_endpoint` changes the id: `SelfId` is a constant.
* The destruction of a controller whose detached daemon still runs, or whose
  console thread, which never ends, is joined.
* What a console `send` does beyond the call of a peer, and the exception or undefined
  read that ends the process.
* Buffers that a send still reads after `async_send` returned (`sender.hpp:32`).
* `json`, a third-party library, and the logger, whose output nothing depends on.

## 6. Plan

Of the system, what is left is listed in section 5. Of the properties, those without
a theorem are the liveness properties and the two about searches; section
4 says what stands in the way of each. The searches would come into reach with a
prover for induction over data: `collect_node` as a fold over the turns.

--------------------------- MODULE NodeController ---------------------------
(***************************************************************************)
(* The life of a node: node_controller::start and stop, the timers that    *)
(* keep its parts going, the requests for its own endpoint, and the        *)
(* console.  The udp server is UdpServer's, on the same io_context; the    *)
(* other parts appear as the handlers and timers they have on it.          *)
(*                                                                         *)
(* Threads: the application, the daemon that each start detaches and that  *)
(* ends up in io_context::run, and the one that reads the console.  The    *)
(* handlers run one at a time, on a daemon's thread.                       *)
(***************************************************************************)
EXTENDS UdpServer, FiniteSets

CONSTANTS
    MaxStarts,    \* bound: calls of start
    MaxCommands,  \* bound: lines read from the console
    MaxTrouble,   \* bound: units of time that pass while a handler waits, failed
                  \* receives and starts after the first, together
    Overlap,      \* may start be called on a node that was not stopped?
    TickTime,     \* DEFAULT_GLOBAL_ADDRESS_REFRESH_TICK_TIME_s (60 s)
    RefreshTime,  \* DEFAULT_MEMPOOL_REFRESH_TICK_TIME_S (200 s)
    PingWait,     \* connection_maintainer: from tick to get_remote_nodes (6 s)
    RoundWait,    \* connection_maintainer: from tick_done to tick (10 s or more)
    BindTimeout   \* DEFAULT_BINDING_REQUEST_TIMEOUT_s (4 s)

ASSUME NodeAssumption ==
    /\ {MaxStarts, MaxCommands, MaxTrouble} \subseteq Nat /\ Overlap \in BOOLEAN
    /\ {TickTime, RefreshTime, PingWait, RoundWait, BindTimeout} \subseteq Nat \ {0}
    /\ BindTimeout < TickTime

Start == 1 .. MaxStarts

\* The deadline_timers: the controller's, the pool's and the maintainer's, and
\* one for each binding request under way.  The sweeps of the observer storages
\* share nothing with these: DhtManager has one.
Ask == {"ask1", "ask2", "ask3"}
Timer == {"tick", "refresh", "maintainer"} \cup Ask

VARIABLES
    daemon,       \* how far the thread of each start is
    stopping,     \* how far an application thread in stop is
    stopped,      \* has the io_context been stopped?
    requires,     \* _requires_refresh and the maintainer's _requires_tick
    wait,         \* Timer -> time left and handler of its wait, or NoWait
    expired,      \* timers that expired, their handlers not yet ready
    ask,          \* Ask -> "free", "pending", or "posted" its result
    older,        \* (history) Ask -> the requests under way when it was made
    overtaken,    \* (history) requests that a later one's result has overtaken
    glob_self_ep, \* _glob_self_ep, by the request it is a result of
    since,        \* (history) time since the last tick, up to TickTime
    typed,        \* lines read from the console
    stalls        \* units of time that passed while a handler was waiting

life == <<daemon, stopping, stopped, typed>>
timers == <<wait, expired>>
clock == <<since, stalls>>
endpoint == <<overtaken, glob_self_ep>>
asking == <<ask, older, endpoint>>
nodeVars == <<life, requires, timers, clock, asking>>
allVars == <<vars, nodeVars>>

\* UdpServer's variables but for the queue, which both fill, the receive and
\* the run of the io_context, which start and stop change.
datagrams == <<from, sock, recv_buff, src_ep, handled, errors, thrown>>
udpRest == <<datagrams, receiving, running>>

Trouble == stalls + errors + Cardinality({i \in Start \ {1} : daemon[i] # "none"})

NoWait == [left |-> 0, h |-> "none"]

Stage == {"none", "dht", "bind", "pool", "tick", "run", "in run"}
Command == {"stop", "other"}

\* What a timer's wait may call.
Task(t) == CASE t = "tick" -> {"tick"} [] t = "refresh" -> {"refresh_tick"}
             [] t = "maintainer" -> {"maintainer_tick", "get_remote_nodes"}
             [] t \in Ask -> {"on_timeout"}
TimerTask == UNION {[h : Task(t), of : {t}] : t \in Timer}

\* A handler that is ready, with what it is bound to.
ReadyHandler ==
    [h : {"received", "error"}] \cup [h : {"recv_handler"}, raw_msg : DOMAIN from]
        \cup TimerTask \cup [h : {"result"}, of : Ask, found : BOOLEAN]
        \cup [h : {"command"}, word : Command]

Longest == Max({TickTime, RefreshTime, RoundWait, PingWait})

\* Every variable has its type, and a binding request under way has its timer,
\* set, expired or with its handler ready.
NodeTypeOK ==
    /\ TypeOK /\ queue \in Seq(ReadyHandler)
    /\ daemon \in [Start -> Stage] /\ stopping \in {"no", "io"}
    /\ stopped \in BOOLEAN /\ requires \in [{"refresh", "maintainer"} -> BOOLEAN]
    /\ DOMAIN wait = Timer
    /\ \A t \in Timer : wait[t] \in {NoWait} \cup [left : 0 .. Longest, h : Task(t)]
    /\ expired \in Seq(Timer)
    /\ \A t \in ToSet(expired) : wait[t] # NoWait /\ wait[t].left = 0
    /\ ask \in [Ask -> {"free", "pending", "posted"}]
    /\ \A s \in Ask : ask[s] = "pending" =>
          wait[s] # NoWait \/ [h |-> "on_timeout", of |-> s] \in ToSet(queue)
    /\ older \in [Ask -> SUBSET Ask] /\ overtaken \subseteq Ask
    /\ glob_self_ep \in {"initial", "latest", "outdated"}
    /\ since \in 0 .. TickTime /\ stalls \in 0 .. MaxTrouble
    /\ typed \in 0 .. MaxCommands /\ thrown.h \in {"none", "recv_handler", "command"}

-----------------------------------------------------------------------------
(* Timers *)

\* expires_from_now and async_wait: the waits with a new one for t.
expires_from_now(w, t, h, units) == [w EXCEPT ![t] = [left |-> units, h |-> h]]

\* The handler of a wait, ready to run.
TimerHandler(t) == [h |-> wait[t].h, of |-> t]

\* A timer that expired is there once.
Without(s, t) ==
    IF t \in ToSet(s) THEN RemoveAt(s, CHOOSE i \in DOMAIN s : s[i] = t) ELSE s

\* A new wait of t, asked for when the handlers q are ready, cancels the one it
\* still had, whose handler ignores the error code and is ready at once.
Cancel(t, q) ==
    /\ expired' = Without(expired, t)
    /\ queue' = q \o (IF wait[t] = NoWait THEN <<>> ELSE <<TimerHandler(t)>>)

Arm(t, h, units, q) == wait' = expires_from_now(wait, t, h, units) /\ Cancel(t, q)

\* Time passes.  What expires together may do so in any order; that of the
\* maintainer and the pool, which share nothing with the others, is fixed.
Elapse ==
    /\ running
    /\ \/ queue = <<>> /\ expired = <<>> /\ UNCHANGED stalls
       \/ (queue # <<>> \/ expired # <<>>) /\ Trouble < MaxTrouble /\ stalls' = stalls + 1
    /\ LET due == {t \in Timer : wait[t].left = 1}
           apart == {"maintainer", "refresh"}
       IN  \E order \in SetToSeqs(due \ apart) :
              expired' = expired \o order \o SetToSeq(due \cap apart)
    /\ wait' = [t \in Timer |-> [wait[t] EXCEPT !.left = Max({@ - 1, 0})]]
    /\ since' = Min({since + 1, TickTime})
    /\ UNCHANGED <<vars, life, requires, asking>>

\* The reactor makes the handlers of all expired timers ready, in the order of
\* their times.
TimersReady ==
    /\ running /\ expired # <<>>
    /\ queue' = queue \o [i \in DOMAIN expired |-> TimerHandler(expired[i])]
    /\ wait' = [t \in Timer |-> IF t \in ToSet(expired) THEN NoWait ELSE wait[t]]
    /\ expired' = <<>>
    /\ UNCHANGED <<udpRest, life, requires, asking, clock>>

-----------------------------------------------------------------------------
(* The requests for the node's own endpoint (StunBinding) *)

NewAsk(s) ==
    /\ ask[s] = "free" /\ s = CHOOSE x \in Ask : ask[x] = "free"
    /\ ask' = [ask EXCEPT ![s] = "pending"]
    /\ older' = [older EXCEPT ![s] = {x \in Ask : ask[x] # "free"}]

binding_request_NoTimer(w) == \E s \in Ask : NewAsk(s) /\ wait' = w

binding_request_Slow(w) ==
    \E s \in Ask : NewAsk(s) /\ wait' = expires_from_now(w, s, "on_timeout", 2 * TickTime - 1)

\* stun_server::binding_request and async_get; w: the waits but for its own.
\* Without a node to ask it leaves an error object that calls no handler.
binding_request(w) ==
    \/ wait' = w /\ UNCHANGED <<ask, older>>
    \/ \E s \in Ask : NewAsk(s) /\ wait' = expires_from_now(w, s, "on_timeout", BindTimeout)

\* The call of the handler that async_get left, posted with the outcome.
Result(s, found) == [h |-> "result", of |-> s, found |-> found]

\* No decision in time.
on_timeout ==
    /\ Running("on_timeout")
    /\ LET s == Head(queue).of
           late == ask[s] # "pending"
       IN  /\ ask' = IF late THEN ask ELSE [ask EXCEPT ![s] = "posted"]
           /\ queue' = Tail(queue) \o (IF late THEN <<>> ELSE <<Result(s, FALSE)>>)
    /\ UNCHANGED <<udpRest, life, requires, timers, clock, older, endpoint>>

\* update_global_self_endpoint: the controller's copy, and those of the ice_agent
\* and the dht_manager, take the result.  std::nullopt changes nothing.
update_global_self_endpoint(s, found) ==
    /\ glob_self_ep' = IF ~found THEN glob_self_ep
                       ELSE IF s \in overtaken THEN "outdated" ELSE "latest"
    /\ overtaken' = (overtaken \cup (IF found THEN older[s] ELSE {})) \ {s}

result ==
    /\ Running("result")
    /\ LET s == Head(queue).of
       IN  /\ update_global_self_endpoint(s, Head(queue).found)
           /\ ask' = [ask EXCEPT ![s] = "free"]
           /\ older' = [x \in Ask |-> IF x = s THEN {} ELSE older[x] \ {s}]
    /\ queue' = Tail(queue)
    /\ UNCHANGED <<udpRest, life, requires, timers, clock>>

-----------------------------------------------------------------------------
(* Handlers of the io_context *)

\* A message goes to the dht_manager, the ice_agent or the message pool.  What
\* they do with it is in their own modules, except for the answer that decides
\* a binding request: its timer is cancelled and its result posted.
income_message ==
    \/ recv_handler(<<>>) /\ UNCHANGED nodeVars
    \/ \E s \in Ask :
          /\ ask[s] = "pending"
          /\ recv_handler(<<Result(s, TRUE)>>)
          /\ ask' = [ask EXCEPT ![s] = "posted"]
          /\ wait' = [wait EXCEPT ![s] = NoWait]
          /\ expired' = Without(expired, s)
          /\ UNCHANGED <<life, requires, clock, older, endpoint>>

\* A datagram is decoded, or is the end of the process.
on_receive_packet == income_message \/ (recv_handler_throws /\ UNCHANGED nodeVars)

call_tick_Early(w) == expires_from_now(w, "tick", "tick", TickTime - 1)

call_tick(w) == expires_from_now(w, "tick", "tick", TickTime)

tick_Once ==
    /\ Running("tick")
    /\ binding_request(wait)
    /\ queue' = Tail(queue)
    /\ since' = 0
    /\ UNCHANGED <<udpRest, life, requires, expired, endpoint, stalls>>

\* node_controller::tick: asks for the endpoint again, and goes on for ever.
tick ==
    /\ Running("tick")
    /\ binding_request(call_tick(wait))
    /\ Cancel("tick", Tail(queue))
    /\ since' = 0
    /\ UNCHANGED <<udpRest, life, requires, endpoint, stalls>>

\* A handler that does nothing but start its timer again, if it is to go on.
Chain(h, t, next, units) ==
    /\ Running(h)
    /\ \/ requires[t] /\ Arm(t, next, units, Tail(queue))
       \/ ~requires[t] /\ queue' = Tail(queue) /\ UNCHANGED timers
    /\ UNCHANGED <<udpRest, life, requires, asking, clock>>

\* message_pool::refresh_tick (MessagePool has what it drops).
refresh_tick == Chain("refresh_tick", "refresh", "refresh_tick", RefreshTime)

\* connection_maintainer::tick, and get_remote_nodes, which ends with tick_done
\* (DhtManager has what they send).
maintainer_tick == Chain("maintainer_tick", "maintainer", "get_remote_nodes", PingWait)
get_remote_nodes == Chain("get_remote_nodes", "maintainer", "maintainer_tick", RoundWait)

-----------------------------------------------------------------------------
(* start *)

Step(i, here, next) ==
    /\ daemon[i] = here /\ thrown = Nothing
    /\ daemon' = [daemon EXCEPT ![i] = next]
    /\ UNCHANGED <<datagrams, stopping, typed, clock, endpoint>>

\* The daemon is detached: start returns before any of its steps, the first of
\* which is udp_server::start.
start(i) ==
    /\ Step(i, "none", "dht")
    /\ i > 1 => /\ daemon[i - 1] # "none" /\ Trouble < MaxTrouble
                /\ Overlap \/ (stopped /\ stopping = "no")
    /\ call_receiver
    /\ UNCHANGED <<queue, running, stopped, requires, timers, ask, older>>

\* dht_manager::start: the flag, and a first tick of the maintainer.
start_dht_manager(i) ==
    /\ Step(i, "dht", "bind")
    /\ requires' = [requires EXCEPT !["maintainer"] = TRUE]
    /\ Arm("maintainer", "get_remote_nodes", PingWait, queue)
    /\ UNCHANGED <<receiving, running, stopped, ask, older>>

\* The first request goes to the boot nodes.
start_binding_request(i) ==
    /\ Step(i, "bind", "pool")
    /\ binding_request(wait)
    /\ UNCHANGED <<queue, receiving, running, stopped, requires, expired>>

\* message_pool::requires_refresh( true ).
start_refresh(i) ==
    /\ Step(i, "pool", "tick")
    /\ requires' = [requires EXCEPT !["refresh"] = TRUE]
    /\ Arm("refresh", "refresh_tick", RefreshTime, queue)
    /\ UNCHANGED <<receiving, running, stopped, ask, older>>

start_tick(i) ==
    /\ Step(i, "tick", "run")
    /\ wait' = call_tick(wait)
    /\ Cancel("tick", queue)
    /\ UNCHANGED <<receiving, running, stopped, requires, ask, older>>

run_Restart(i) ==
    /\ Step(i, "run", "in run")
    /\ stopped' = FALSE /\ running' = TRUE
    /\ UNCHANGED <<queue, receiving, requires, timers, ask, older>>

\* io_context::run, without a restart before it: on a stopped context it returns
\* at once.
run(i) ==
    /\ Step(i, "run", "in run")
    /\ running' = ~stopped
    /\ UNCHANGED <<queue, receiving, stopped, requires, timers, ask, older>>

-----------------------------------------------------------------------------
(* stop *)

\* run returns to the daemon, which ends.
io_context_stop == stopped' = TRUE /\ running' = FALSE

\* requires_refresh( false ) and dht_manager::stop.
stop_parts == requires' = [r \in DOMAIN requires |-> FALSE]

\* On an application thread, beside the handlers and the daemons.
stop_udp_server ==
    /\ stopping = "no" /\ ~stopped /\ thrown = Nothing /\ stopping' = "io"
    /\ cancel
    /\ UNCHANGED <<datagrams, running, daemon, stopped, typed, requires, timers, clock, asking>>

\* The flags it clears last are read by handlers alone, and none runs any more.
stop_io_context ==
    /\ stopping = "io" /\ thrown = Nothing /\ stopping' = "no"
    /\ io_context_stop
    /\ stop_parts
    /\ UNCHANGED <<datagrams, queue, receiving, daemon, typed, timers, clock, asking>>

-----------------------------------------------------------------------------
(* The console *)

\* interface::listen_stdin: the words of a line are posted; at the end of the
\* input it goes on posting lines without a word.
listen_stdin(c) ==
    /\ typed < MaxCommands /\ thrown = Nothing
    /\ typed' = typed + 1
    /\ queue' = Append(queue, [h |-> "command", word |-> c])
    /\ UNCHANGED <<udpRest, daemon, stopping, stopped, requires, timers, clock, asking>>

command_stop_Polite ==
    /\ Running("command") /\ Head(queue).word = "stop"
    /\ receiving' = 0
    /\ queue' = Tail(queue) \o Cancelled
    /\ stop_parts
    /\ UNCHANGED <<datagrams, running, life, timers, clock, asking>>

\* on_command_input: stop, all of it, on the io_context's own thread.
command_stop ==
    /\ Running("command") /\ Head(queue).word = "stop"
    /\ receiving' = 0
    /\ queue' = Tail(queue) \o Cancelled
    /\ io_context_stop
    /\ stop_parts
    /\ UNCHANGED <<datagrams, daemon, stopping, typed, timers, clock, asking>>

\* A send is the call of a peer (Signaling); a line without a word is nothing.
command_other ==
    /\ Running("command") /\ Head(queue).word # "stop"
    /\ queue' = Tail(queue)
    /\ UNCHANGED <<udpRest, nodeVars>>

\* A send to what is no address: str_to_endpoint throws, and without the words it
\* takes it reads past the line's end, after which anything, so this, may happen.
command_throws ==
    /\ Running("command") /\ Head(queue).word # "stop"
    /\ throws
    /\ UNCHANGED nodeVars

-----------------------------------------------------------------------------

NodeInit ==
    /\ from = <<>> /\ sock = <<>> /\ receiving = 0 /\ recv_buff = 0 /\ src_ep = NoPeer
    /\ queue = <<>> /\ handled = <<>> /\ errors = 0 /\ running = FALSE
    /\ daemon = [i \in Start |-> "none"] /\ stopping = "no" /\ stopped = FALSE
    /\ requires = [r \in {"refresh", "maintainer"} |-> r = "refresh"]
    /\ wait = [t \in Timer |-> NoWait] /\ expired = <<>>
    /\ ask = [s \in Ask |-> "free"] /\ older = [s \in Ask |-> {}]
    /\ overtaken = {} /\ glob_self_ep = "initial"
    /\ since = TickTime /\ stalls = 0 /\ typed = 0 /\ thrown = Nothing

Handler ==
    \/ (call_income_message_handler \/ receive_error) /\ UNCHANGED nodeVars
    \/ on_receive_packet
    \/ on_timeout \/ result
    \/ tick \/ refresh_tick \/ maintainer_tick \/ get_remote_nodes
    \/ command_stop \/ command_other \/ command_throws

Daemon(i) ==
    \/ start_dht_manager(i) \/ start_binding_request(i) \/ start_refresh(i)
    \/ start_tick(i) \/ run(i)

Socket == ReceiveCompletes /\ UNCHANGED nodeVars

NodeNext ==
    \/ \E p \in Peer : running /\ Arrives(p) /\ UNCHANGED nodeVars
    \/ Socket \/ (Trouble < MaxTrouble /\ ReceiveFails /\ UNCHANGED nodeVars)
    \/ Elapse \/ TimersReady \/ Handler
    \/ \E i \in Start : start(i) \/ Daemon(i)
    \/ stop_udp_server \/ stop_io_context
    \/ \E c \in Command : listen_stdin(c)

\* A thread in io_context::run completes receives, serves expired timers and
\* runs ready handlers; time passes; threads inside start and stop go on.
\* Nobody need ever call them, type or send.
NodeSpec ==
    /\ NodeInit /\ [][NodeNext]_allVars
    /\ WF_allVars(Socket) /\ WF_allVars(TimersReady) /\ WF_allVars(Handler)
    /\ WF_allVars(Elapse) /\ WF_allVars(stop_io_context)
    /\ \A i \in Start : WF_allVars(Daemon(i))

-----------------------------------------------------------------------------
(* Properties *)

\* Once the io_context is stopped no handler runs any more, not even those that
\* a cancelled receive or timer makes ready: whatever order stop and the daemon
\* of a start come in, and although a later start arms every timer again, as
\* io_context::run is called without a restart (node_controller.cpp:151, 165).
StopIsFinal == [][stopped => IsPrefix(queue, queue') /\ ~running']_allVars

\* "The interval at which the global address is acquired again"
\* (node_controller.hpp:52) is kept, however late handlers run and whatever is
\* cancelled meanwhile, if start is not called on a running node: the ticks of
\* two chains would cancel each other's waits and run without waiting.
TickInterval == Running("tick") => since = TickTime

\* The node's endpoint is the result of the latest request that had one: results
\* come in the order of the requests, as a request is decided or timed out
\* before the next tick makes another.
EndpointUpToDate == glob_self_ep # "outdated"

\* As long as the node runs, and its process with it, each of its three chains of timers comes to run
\* its handler again: none breaks off or is cancelled by another.
ChainsGoOn ==
    \A t \in {"tick", "refresh", "maintainer"} :
        running ~> (~running \/ \E i \in DOMAIN queue : queue[i].h \in
                        CASE t = "tick" -> {"tick"} [] t = "refresh" -> {"refresh_tick"}
                          [] t = "maintainer" -> {"maintainer_tick"})

\* A "stop" typed at the console of a running node ends the thread in
\* io_context::run, however many lines, datagrams and timers come before it,
\* unless one of them ends that thread first.
ConsoleStops ==
    (running /\ \E i \in DOMAIN queue : queue[i].h = "command" /\ queue[i].word = "stop")
        ~> ~running
=============================================================================

---------------------------- MODULE MessagePool ----------------------------
(***************************************************************************)
(* The message pool, its hub, and the application's peer objects.          *)
(*                                                                         *)
(* The io_context thread stores messages, hands them to the hub's handler  *)
(* and drops old ones.  Application threads obtain a peer                  *)
(* (node_controller::get_peer) and call receive on it.  Nothing locks      *)
(* _pool: a get_peer that runs while the io thread is inside the pool is a *)
(* data race.                                                              *)
(*                                                                         *)
(* A message is its number in the order of arrival; log says who sent it   *)
(* and how old it is.  Its id in the code is a random uuid.                *)
(***************************************************************************)
EXTENDS Integers, FiniteSets, SequencesExt

CONSTANTS
    Peer,       \* endpoints
    App,        \* application threads, each with a peer object of its own
    Timeouts,   \* the arguments of receive: Block, or units of time
    Lifetime,   \* DEFAULT_MESSAGE_LIFETIME_M (20 min), in units of time
    Period,     \* DEFAULT_MEMPOOL_REFRESH_TICK_TIME_S (200 s), in the same unit
    MaxMsg      \* bound: messages that arrive

Block == -1
Idle == -2
Off == -1

ASSUME PoolAssumption ==
    /\ Timeouts \subseteq Nat \cup {Block}
    /\ {Lifetime, Period} \subseteq Nat \ {0}
    /\ MaxMsg \in Nat

VARIABLES
    log,      \* every message that was stored: sender and age
    pool,     \* _pool: peer -> the messages of its entry, oldest first
    io,       \* where the io thread is: the step, and the peer or message
    hub,      \* _is_active of the message_hub
    timer,    \* _refresh_tick_timer: units left, or Off
    running,  \* _requires_refresh, and the io_context not stopped
    buf,      \* App -> peer and the buffer its peer object holds
    call,     \* App -> Idle, or what is left of the timeout of its receive
    got,      \* (history) App -> messages received through its peer object
    crashed   \* why the process died, or "no"

vars == <<log, pool, io, hub, timer, running, buf, call, got, crashed>>

Messages == 1 .. MaxMsg

IoIdle == [at |-> "idle"]

\* A peer object without a buffer: get_peer_message_buffer returned nullptr.
NoBuffer(p) == [peer |-> p, null |-> TRUE, q |-> <<>>]

\* A received_message: who sent it and when, the latter as its age.
Received == [from : Peer, age : 0 .. Lifetime]

\* Every variable has its type.  What the pool and the buffers hold are
\* messages that did arrive.
TypeOK ==
    /\ log \in Seq(Received)
    /\ DOMAIN pool \subseteq Peer
    /\ \A p \in DOMAIN pool : pool[p] \in Seq(DOMAIN log)
    /\ io \in [at : {"store"}, peer : Peer] \cup [at : {"deliver"}, msg : DOMAIN log]
                \cup [at : {"idle", "refresh"}]
    /\ timer \in {Off} \cup 0 .. Period
    /\ hub \in BOOLEAN /\ running \in BOOLEAN
    /\ buf \in [App -> [peer : Peer, null : BOOLEAN, q : Seq(DOMAIN log)]]
    /\ got \in [App -> Seq(DOMAIN log)]
    /\ call \in [App -> {Idle, Block} \cup Nat]
    /\ crashed \in {"no", "race", "no_buffer", "no_message"}

-----------------------------------------------------------------------------
(* The io thread *)

\* A packet of p that the ice_agent does not claim reaches message_pool::store
\* (kademlia packets too).
on_receive_packet(p) ==
    /\ crashed = "no" /\ running /\ io = IoIdle /\ Len(log) < MaxMsg
    /\ io' = [at |-> "store", peer |-> p]
    /\ UNCHANGED <<log, pool, hub, timer, running, buf, call, got, crashed>>

\* An entry of its own for a peer that has none.
allocate_new_entry(p) ==
    [x \in DOMAIN pool \cup {p} |-> IF x \in DOMAIN pool THEN pool[x] ELSE <<>>]

\* The entry is found or allocated, and the message put at its end.
push(p, m) ==
    LET entries == IF p \in DOMAIN pool THEN pool ELSE allocate_new_entry(p)
    IN  [entries EXCEPT ![p] = Append(@, m)]

\* The message is in the pool; is_active decides whether the hub hears of it.
store ==
    /\ crashed = "no" /\ io.at = "store"
    /\ log' = Append(log, [from |-> io.peer, age |-> 0])
    /\ pool' = push(io.peer, Len(log) + 1)
    /\ io' = IF hub THEN [at |-> "deliver", msg |-> Len(log) + 1] ELSE IoIdle
    /\ UNCHANGED <<hub, timer, running, buf, call, got, crashed>>

\* message_hub::on_receive_message.  The message is popped by its id and given
\* to the application's handler, but popped from temp_entry, a copy of the
\* pool's entry: the pool keeps it.
on_receive_message ==
    /\ crashed = "no" /\ io.at = "deliver"
    /\ io' = IoIdle
    /\ UNCHANGED <<log, pool, hub, timer, running, buf, call, got, crashed>>

\* The refresh timer has expired and its handler begins.
RefreshDue ==
    /\ crashed = "no" /\ running /\ io = IoIdle /\ timer = 0
    /\ timer' = Off
    /\ io' = [at |-> "refresh"]
    /\ UNCHANGED <<log, pool, hub, running, buf, call, got, crashed>>

expired_OffByOne(m) == log[m].age >= Lifetime - 1

\* time <= now - lifetime
expired(m) == log[m].age >= Lifetime

\* upper_bound on the time of arrival: how many messages at the front are not
\* younger than the lifetime.
upper_bound(q) == Cardinality({i \in DOMAIN q : \A j \in 1 .. i : expired(q[j])})

drop(q) == SubSeq(q, upper_bound(q) + 1, Len(q))

refresh_tick_Once ==
    /\ crashed = "no" /\ io.at = "refresh"
    /\ pool' = [p \in DOMAIN pool |-> drop(pool[p])]
    /\ io' = IoIdle
    /\ UNCHANGED <<log, hub, timer, running, buf, call, got, crashed>>

refresh_tick_WrongWait ==
    /\ crashed = "no" /\ io.at = "refresh"
    /\ pool' = [p \in DOMAIN pool |-> drop(pool[p])]
    /\ timer' = IF running THEN Lifetime ELSE timer
    /\ io' = IoIdle
    /\ UNCHANGED <<log, hub, running, buf, call, got, crashed>>

\* Entries stay, however empty; the timer is started again.
refresh_tick ==
    /\ crashed = "no" /\ io.at = "refresh"
    /\ pool' = [p \in DOMAIN pool |-> drop(pool[p])]
    /\ timer' = IF running THEN Period ELSE timer
    /\ io' = IoIdle
    /\ UNCHANGED <<log, hub, running, buf, call, got, crashed>>

-----------------------------------------------------------------------------
(* The application *)

hub_start ==
    /\ crashed = "no" /\ ~hub
    /\ hub' = TRUE
    /\ UNCHANGED <<log, pool, io, timer, running, buf, call, got, crashed>>

\* Does not wait for a handler that is running or about to run.
hub_stop ==
    /\ crashed = "no" /\ hub
    /\ hub' = FALSE
    /\ UNCHANGED <<log, pool, io, timer, running, buf, call, got, crashed>>

\* node_controller::stop
stop ==
    /\ crashed = "no" /\ running
    /\ running' = FALSE
    /\ UNCHANGED <<log, pool, io, hub, timer, buf, call, got, crashed>>

\* get_peer_message_buffer: a copy of the entry, with a queue, a mutex and a
\* condition variable of its own.
get_peer_message_buffer(p) ==
    IF p \in DOMAIN pool THEN [peer |-> p, null |-> FALSE, q |-> pool[p]]
                         ELSE NoBuffer(p)

get_peer(a, p) ==
    /\ crashed = "no" /\ call[a] = Idle
    /\ buf' = [buf EXCEPT ![a] = get_peer_message_buffer(p)]
    /\ got' = [got EXCEPT ![a] = <<>>]
    /\ UNCHANGED <<log, pool, io, hub, timer, running, call, crashed>>

\* The same while the io thread is changing the pool; it may as well go well.
get_peer_races(a) ==
    /\ crashed = "no" /\ call[a] = Idle /\ io.at \in {"store", "refresh"}
    /\ crashed' = "race"
    /\ UNCHANGED <<log, pool, io, hub, timer, running, buf, call, got>>

\* peer::receive is called; without a buffer it dereferences nullptr.
receive(a, timeout) ==
    /\ crashed = "no" /\ call[a] = Idle
    /\ \/ /\ buf[a].null
          /\ crashed' = "no_buffer"
          /\ UNCHANGED call
       \/ /\ ~buf[a].null
          /\ call' = [call EXCEPT ![a] = timeout]
          /\ UNCHANGED crashed
    /\ UNCHANGED <<log, pool, io, hub, timer, running, buf, got>>

pop_Back(q) == <<q[Len(q)], SubSeq(q, 1, Len(q) - 1)>>

\* pop( 0 ): the oldest message, and what is left.
pop(q) == <<Head(q), Tail(q)>>

\* At once, or in the predicate of the wait: a message is there, and received.
receive_returns(a) ==
    /\ crashed = "no" /\ call[a] # Idle /\ buf[a].q # <<>>
    /\ LET popped == pop(buf[a].q)
       IN  /\ got' = [got EXCEPT ![a] = Append(@, popped[1])]
           /\ buf' = [buf EXCEPT ![a].q = popped[2]]
    /\ call' = [call EXCEPT ![a] = Idle]
    /\ UNCHANGED <<log, pool, io, hub, timer, running, crashed>>

\* The time is over and there is no message: ss_message is constructed from a
\* null reference, which its constructor dereferences.
receive_gives_up(a) ==
    /\ crashed = "no" /\ call[a] = 0 /\ buf[a].q = <<>>
    /\ crashed' = "no_message"
    /\ UNCHANGED <<log, pool, io, hub, timer, running, buf, call, got>>

-----------------------------------------------------------------------------

TimePasses ==
    /\ crashed = "no"
    /\ log' = [m \in DOMAIN log |-> [log[m] EXCEPT !.age = Min({@ + 1, Lifetime})]]
    /\ timer' = IF timer > 0 THEN timer - 1 ELSE timer
    /\ call' = [a \in App |-> IF call[a] > 0 THEN call[a] - 1 ELSE call[a]]
    /\ UNCHANGED <<pool, io, hub, running, buf, got, crashed>>

\* node_controller::start has called requires_refresh( true ).
Init ==
    /\ log = <<>>
    /\ pool = [p \in {} |-> <<>>]
    /\ io = IoIdle
    /\ hub = FALSE
    /\ timer = Period /\ running = TRUE
    /\ buf \in [App -> {NoBuffer(p) : p \in Peer}]
    /\ call = [a \in App |-> Idle]
    /\ got = [a \in App |-> <<>>]
    /\ crashed = "no"

IoThread == store \/ on_receive_message \/ RefreshDue \/ refresh_tick

Waiting(a) == receive_returns(a) \/ receive_gives_up(a)

Application(a) ==
    \/ \E p \in Peer : get_peer(a, p)
    \/ get_peer_races(a)
    \/ \E t \in Timeouts : receive(a, t)
    \/ Waiting(a)

Next ==
    \/ \E p \in Peer : on_receive_packet(p)
    \/ IoThread \/ hub_start \/ hub_stop \/ stop
    \/ \E a \in App : Application(a)
    \/ TimePasses

Spec == Init /\ [][Next]_vars

\* The io thread runs the handlers that are ready, a thread in receive goes on
\* when it can, and time passes.  Nothing else need ever happen.
Fairness ==
    /\ WF_vars(IoThread) /\ WF_vars(TimePasses)
    /\ \A a \in App : WF_vars(Waiting(a))

FairSpec == Spec /\ Fairness

-----------------------------------------------------------------------------
(* Properties *)

\* The messages of p, in the order of their numbers.
SentBy(p) == {m \in DOMAIN log : log[m].from = p}

\* s runs through messages of S in order, each once, and leaves none out.
IsRun(s, S) ==
    /\ ToSet(s) \subseteq S
    /\ \A i, j \in DOMAIN s : i < j => s[i] < s[j]
    /\ \A i, j \in DOMAIN s : \A m \in S :
          s[i] <= m /\ m <= s[j] => m \in ToSet(s)

\* What an application has received through a peer object and will still
\* receive through it are consecutive messages of that peer, in the order of
\* arrival, each once, whatever was stored or dropped meanwhile
\* (peer_message_buffer::push, pop and the copy in get_peer_message_buffer).
ReceivedInOrder ==
    \A a \in App : IsRun(got[a] \o buf[a].q, SentBy(buf[a].peer))

\* The refresh leaves of an entry the messages that are younger than the
\* lifetime, all of them and no others, however late it runs: upper_bound cuts
\* at the first of them, which is the right place because an entry is in the
\* order of the ages (message_pool.cpp:264, and :130 where the reversed range is
\* erased).
SweepExact ==
    [][refresh_tick => \A p \in DOMAIN pool :
          ToSet(pool'[p]) = {m \in ToSet(pool[p]) : log[m].age < Lifetime}]_vars

\* A message older than the lifetime leaves the pool, unless the node is
\* stopped or dies: refresh_tick keeps itself going.
ExpiredDropped ==
    \A m \in Messages :
        (m \in DOMAIN log /\ expired(m)) ~>
            (~running \/ crashed # "no" \/ \A p \in DOMAIN pool : m \notin ToSet(pool[p]))

\* receive without a timeout returns when a message of its peer arrives while
\* it blocks: "-1: block until data arrives" (peer.hpp:80).
BlockedUntilArrival ==
    \A a \in App :
        (call[a] = Block /\ io.at = "store" /\ io.peer = buf[a].peer) ~>
            (call[a] # Block \/ crashed # "no")
=============================================================================

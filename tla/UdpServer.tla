----------------------------- MODULE UdpServer -----------------------------
(***************************************************************************)
(* udp_server: one asynchronous receive at a time into the members         *)
(* _recv_buff and _src_ep, and a handler posted for every datagram.        *)
(*                                                                         *)
(* The receive completes, and overwrites both members, whenever a datagram *)
(* is in the socket: at once in async_receive_from, or while other         *)
(* handlers wait.  A datagram is its number in the order of arrival.       *)
(***************************************************************************)
EXTENDS Integers, SequencesExt

CONSTANTS
    Peer,         \* endpoints that send datagrams
    NoPeer,       \* _src_ep before the first datagram
    MaxDatagrams, \* bound: datagrams that arrive
    MaxErrors     \* bound: receives that end with an error

ASSUME UdpAssumption == MaxDatagrams \in Nat /\ MaxErrors \in Nat /\ NoPeer \notin Peer

VARIABLES
    from,       \* the senders of the datagrams that arrived
    sock,       \* datagrams in the socket's buffer
    receiving,  \* how many async_receive_from are outstanding
    recv_buff,  \* _recv_buff: the datagram in it, 0 at first
    src_ep,     \* _src_ep
    queue,      \* ready handlers of the io_context, oldest first
    handled,    \* (history) what _recv_handler was called with
    errors,     \* receives that ended with an error
    running,    \* is a thread in io_context::run?
    thrown      \* the handler an exception of which ended the process, or Nothing

vars == <<from, sock, receiving, recv_buff, src_ep, queue, handled, errors, running, thrown>>

Nothing == [h |-> "none"]

\* Every variable has its type; what is handled are datagrams that arrived.
TypeOK ==
    /\ from \in Seq(Peer) /\ Len(from) <= MaxDatagrams
    /\ sock \in Seq(DOMAIN from)
    /\ receiving \in Nat /\ running \in BOOLEAN
    /\ recv_buff \in {0} \cup DOMAIN from
    /\ src_ep \in Peer \cup {NoPeer}
    /\ handled \in Seq([msg : DOMAIN from, src : Peer \cup {NoPeer}])
    /\ errors \in 0 .. MaxErrors

Arrives(p) ==
    /\ Len(from) < MaxDatagrams
    /\ from' = Append(from, p)
    /\ sock' = Append(sock, Len(from) + 1)
    /\ UNCHANGED <<receiving, recv_buff, src_ep, queue, handled, errors, running, thrown>>

\* async_receive_from completes.
ReceiveCompletes ==
    /\ running /\ receiving > 0 /\ sock # <<>>
    /\ recv_buff' = Head(sock)
    /\ src_ep' = from[Head(sock)]
    /\ sock' = Tail(sock)
    /\ receiving' = receiving - 1
    /\ queue' = Append(queue, [h |-> "received"])
    /\ UNCHANGED <<from, handled, errors, running, thrown>>

\* It fails, for instance because an earlier send was refused.
ReceiveFails ==
    /\ running /\ receiving > 0 /\ errors < MaxErrors
    /\ receiving' = receiving - 1
    /\ errors' = errors + 1
    /\ queue' = Append(queue, [h |-> "error"])
    /\ UNCHANGED <<from, sock, recv_buff, src_ep, handled, running, thrown>>

Running(h) == running /\ queue # <<>> /\ Head(queue).h = h

\* Receives again at once, before the handler it has just posted runs.
call_receiver == receiving' = receiving + 1

call_income_message_handler_NoCopy ==
    /\ Running("received")
    /\ queue' = Append(Tail(queue), [h |-> "recv_handler", raw_msg |-> 0])
    /\ call_receiver
    /\ UNCHANGED <<from, sock, recv_buff, src_ep, handled, errors, running, thrown>>

\* The datagram is copied for the posted handler, its sender is not.
call_income_message_handler ==
    /\ Running("received")
    /\ queue' = Append(Tail(queue), [h |-> "recv_handler", raw_msg |-> recv_buff])
    /\ call_receiver
    /\ UNCHANGED <<from, sock, recv_buff, src_ep, handled, errors, running, thrown>>

receive_error_GivesUp ==
    /\ Running("error")
    /\ queue' = Tail(queue)
    /\ UNCHANGED <<from, sock, receiving, recv_buff, src_ep, handled, errors, running, thrown>>

receive_error ==
    /\ Running("error")
    /\ queue' = Tail(queue)
    /\ call_receiver
    /\ UNCHANGED <<from, sock, recv_buff, src_ep, handled, errors, running, thrown>>

recv_handler_Late(posts) ==
    /\ Running("recv_handler")
    /\ handled' = Append(handled, [msg |-> recv_buff, src |-> src_ep])
    /\ queue' = Tail(queue) \o posts
    /\ UNCHANGED <<from, sock, receiving, recv_buff, src_ep, errors, running, thrown>>

\* The posted handler reads _src_ep when it runs.  posts: the handlers that
\* what it calls posts in its turn.
recv_handler(posts) ==
    /\ Running("recv_handler")
    /\ handled' = Append(handled, [msg |-> Head(queue).raw_msg, src |-> src_ep])
    /\ queue' = Tail(queue) \o posts
    /\ UNCHANGED <<from, sock, receiving, recv_buff, src_ep, errors, running, thrown>>

\* Between a handler and the daemon's io_context::run nothing catches an
\* exception: it ends the process, and with it whatever the other variables hold.
throws ==
    /\ running' = FALSE
    /\ thrown' = Head(queue)
    /\ UNCHANGED <<from, sock, receiving, recv_buff, src_ep, queue, handled, errors>>

\* message::decode does, of a datagram that is not BSON.
recv_handler_throws == Running("recv_handler") /\ throws

\* The handlers of the outstanding receives, which receive again on an error.
Cancelled == [i \in 1 .. receiving |-> [h |-> "error"]]

\* udp_server::stop.
cancel ==
    /\ receiving' = 0
    /\ queue' = queue \o Cancelled

\* node_controller::stop: the receive is cancelled, the io_context stopped.
stop ==
    /\ running
    /\ cancel
    /\ running' = FALSE
    /\ UNCHANGED <<from, sock, recv_buff, src_ep, handled, errors, thrown>>

\* udp_server::start has been called and the io_context runs.
Init ==
    /\ from = <<>> /\ sock = <<>>
    /\ receiving = 1
    /\ recv_buff = 0 /\ src_ep = NoPeer
    /\ queue = <<>> /\ handled = <<>>
    /\ errors = 0
    /\ running = TRUE /\ thrown = Nothing

IoThread ==
    \/ ReceiveCompletes
    \/ call_income_message_handler \/ receive_error
    \/ recv_handler(<<>>) \/ recv_handler_throws

Next == (\E p \in Peer : Arrives(p)) \/ IoThread \/ ReceiveFails \/ stop

\* The io thread completes receives and runs the handlers that are ready.
Spec == Init /\ [][Next]_vars /\ WF_vars(IoThread)

-----------------------------------------------------------------------------
(* Properties *)

Handled == [i \in DOMAIN handled |-> handled[i].msg]

\* Datagrams are handled in the order of arrival, each once and with its own
\* contents, although the next one may already be in _recv_buff.
HandledInOrder == IsPrefix(Handled, [i \in DOMAIN from |-> i])

\* Every datagram is handled, whatever errors the receives meet, unless the node
\* is stopped or its process ends with an exception.  One datagram that is not
\* BSON does end it, but no datagram goes unhandled for one that came after it.
EveryDatagramHandled ==
    \A i \in 1 .. MaxDatagrams :
        (i \in DOMAIN from)
            ~> \/ i \in ToSet(Handled)
               \/ ~running /\ (thrown.h = "recv_handler" => thrown.raw_msg <= i)

\* A datagram is handled with the endpoint it came from: "the address of the
\* node that sent it" is what a binding response reports (stun_server.cpp:82).
SourceIsSender ==
    \A i \in DOMAIN handled : handled[i].src = from[handled[i].msg]
=============================================================================

--------------------------- MODULE SignalingProofs ---------------------------
(***************************************************************************)
(* Proofs about signaling, for any number of nodes and calls, every shape  *)
(* of the routing tables, and any number of packets lost or duplicated.    *)
(***************************************************************************)
EXTENDS Signaling, FiniteSetTheorems, TLAPS

\* A node knows its own endpoint or none.
EndpointsInv == \A n \in Node : self_ep[n] \in {n, Unknown}

\* A call that was not made has left no trace; one that asks for its
\* destination is not for the node that makes it.
CallsInv ==
    \A r \in Request :
        /\ req[r] = Unused => r \notin answered \cup delivered /\ sending[r] = 0
        /\ req[r] # Unused /\ req[r].at # "direct" => req[r].dest # req[r].src

\* A packet is of a call that was made and for its destination; a payload was
\* released, and a response comes from a destination that was reached.
Packet(m) ==
    /\ m \in ice_message /\ req[m.req] # Unused /\ req[m.req].dest = m.dest
    /\ m.sub = "payload" => Released(m.req)
    /\ m.sub = "response" => m.req \in answered

PacketsInv == \A m \in net : Packet(m)

SignalingInv == TypeOK /\ EndpointsInv /\ CallsInv /\ PacketsInv

LEMMA InvInit == Init => SignalingInv
  BY SignalingAssumption
  DEF Init, SignalingInv, TypeOK, EndpointsInv, CallsInv, PacketsInv, Endpoint, Unused

-----------------------------------------------------------------------------
(* Packets *)

LEMMA Min2 ==
    ASSUME NEW a \in Int, NEW b \in Int
    PROVE  Min({a, b}) = IF a <= b THEN a ELSE b
  BY DEF Min

\* The nodes a message is passed on to are known ones.
LEMMA Collected ==
    ASSUME TypeOK, NEW n \in Node, NEW ignore, NEW eps \in collect_endpoint(n, ignore)
    PROVE  eps \subseteq Node
<1>1. table[n] \subseteq Node
  BY DEF TypeOK
<1> DEFINE known == table[n] \ ignore
<1>2. eps \subseteq known
  BY DEF collect_endpoint
<1> QED BY <1>1, <1>2

\* A new message.
LEMMA NewMessage ==
    ASSUME NEW sub \in {"request", "relay", "response", "payload"}, NEW r \in Request,
           NEW src \in Endpoint, NEW dest \in Node, NEW ep \in Node
    PROVE  /\ new_message(sub, r, src, dest, ep) \in ice_message
           /\ new_message(sub, r, src, dest, ep).sub = sub
           /\ new_message(sub, r, src, dest, ep).req = r
           /\ new_message(sub, r, src, dest, ep).dest = dest
  BY SignalingAssumption DEF new_message, ice_message

\* A message that is relayed stays the same but for its marks.
LEMMA Relayed ==
    ASSUME TypeOK, NEW m \in ice_message
    PROVE  /\ relayed(m) \in ice_message /\ relayed(m).sub = "relay"
           /\ relayed(m).req = m.req /\ relayed(m).dest = m.dest
<1>1. /\ m.hops \in 0 .. TTL + 1 /\ m.to \in Node /\ m.relay \subseteq Endpoint
      /\ self_ep[m.to] \in Endpoint /\ TTL \in Nat
  BY SignalingAssumption DEF TypeOK, ice_message
<1> DEFINE h == Min({m.hops + 1, TTL + 1})
           l == m.relay \cup {self_ep[m.to]}
<1>2. h \in 0 .. TTL + 1
  BY <1>1, Min2
<1>3. l \in SUBSET Endpoint
  BY <1>1
<1>4. relayed(m) = [m EXCEPT !.sub = "relay", !.relay = l, !.hops = h]
  BY DEF relayed
<1> HIDE DEF h, l
<1> QED BY <1>2, <1>3, <1>4 DEF ice_message

\* The copies that are passed on.
LEMMA Forwarded ==
    ASSUME TypeOK, NEW m \in ice_message, NEW eps, eps \subseteq Node,
           NEW o \in forwarded(m, eps)
    PROVE  o \in ice_message /\ o.sub = m.sub /\ o.req = m.req /\ o.dest = m.dest
<1>1. PICK ep \in eps : o = [m EXCEPT !.to = ep, !.relay = m.relay \cup eps]
  BY DEF forwarded
<1>2. ep \in Node /\ m.relay \cup eps \in SUBSET Endpoint
  BY DEF ice_message, Endpoint
<1> QED BY <1>1, <1>2 DEF ice_message

\* What a handler leaves in the network.
LEMMA Left ==
    ASSUME TypeOK, NEW m, NEW out, Becomes(m, out)
    PROVE  net' \subseteq net \cup out /\ faults' \in 0 .. MaxFaults
  BY SignalingAssumption DEF Becomes, TypeOK

\* The state of the calls only ever goes on.
CallsGoOn ==
    /\ req' \in [Request -> {Unused} \cup signaling_request]
    /\ answered \subseteq answered'
    /\ \A r \in Request : req[r] # Unused =>
          /\ req'[r] # Unused /\ req'[r].dest = req[r].dest
          /\ Released(r) => Released(r)'

\* Then the packets that are left stay what they are.
LEMMA PacketsStay ==
    ASSUME SignalingInv, CallsGoOn, NEW out, net' \subseteq net \cup out,
           \A o \in out : Packet(o)'
    PROVE  PacketsInv'
<1>1. ASSUME NEW m \in net PROVE Packet(m)'
  <2>1. Packet(m) /\ m.req \in Request
    BY DEF SignalingInv, PacketsInv, Packet, ice_message
  <2> QED BY <2>1 DEF Packet, CallsGoOn
<1> QED BY <1>1 DEF PacketsInv

LEMMA OnlyLeft ==
    ASSUME SignalingInv, CallsGoOn, net' \subseteq net
    PROVE  PacketsInv'
<1> DEFINE out == {}
<1>1. net' \subseteq net \cup out /\ \A o \in out : Packet(o)'
  OBVIOUS
<1> HIDE DEF out
<1> QED BY <1>1, PacketsStay

\* Handlers that leave the calls as they are, apart from answered and delivered.
LEMMA CallsLeft ==
    ASSUME TypeOK, UNCHANGED <<req, sending>>, answered \subseteq answered'
    PROVE  CallsGoOn
  BY DEF TypeOK, CallsGoOn, Released

LEMMA InvStep == SignalingInv /\ [Next]_vars => SignalingInv'
<1> SUFFICES ASSUME SignalingInv, [Next]_vars PROVE SignalingInv'
  OBVIOUS
<1>0. TypeOK /\ EndpointsInv /\ CallsInv /\ PacketsInv
  BY DEF SignalingInv
<1>1. ASSUME NEW r \in Request, NEW n \in Sources, NEW dest \in Node, NEW by \in Threads,
             send_direct(r, n, dest, by)
      PROVE  SignalingInv'
  <2> DEFINE call == [at |-> "direct", by |-> by, src |-> n,
                      dest |-> dest, done |-> FALSE, way |-> TRUE]
  <2>1. /\ req[r] = Unused /\ req' = [req EXCEPT ![r] = call] /\ net' = net \cup {Payload(r, dest)}
        /\ UNCHANGED <<table, self_ep, sending, faults, down, answered, delivered>>
    BY <1>1 DEF send_direct
  <2>2. call \in signaling_request /\ call # Unused /\ call.dest = dest /\ call.at = "direct"
    BY SignalingAssumption DEF signaling_request, Unused
  <2> HIDE DEF call
  <2>3. req' \in [Request -> {Unused} \cup signaling_request] /\ req'[r] = call
        /\ \A x \in Request : x # r => req'[x] = req[x]
    BY <1>0, <2>1, <2>2 DEF TypeOK
  <2>4. CallsGoOn
    BY <2>1, <2>3 DEF CallsGoOn, Released
  <2> DEFINE o == Payload(r, dest)
  <2>5. o \in ice_message /\ o.sub = "payload" /\ o.req = r /\ o.dest = dest
    BY NewMessage DEF Payload, Endpoint
  <2> HIDE DEF o
  <2>6. Packet(o)'
    BY <2>2, <2>3, <2>5 DEF Packet, Released
  <2>7. PacketsInv'
    <3> DEFINE out == {o}
    <3>1. net' \subseteq net \cup out /\ \A x \in out : Packet(x)'
      BY <2>1, <2>6 DEF o
    <3> HIDE DEF out
    <3> QED BY <2>4, <3>1, PacketsStay
  <2>8. CallsInv' /\ EndpointsInv'
    BY <1>0, <2>1, <2>2, <2>3 DEF CallsInv, EndpointsInv
  <2>9. TypeOK'
    BY <1>0, <2>1, <2>3, <2>7 DEF TypeOK, PacketsInv, Packet
  <2> QED BY <2>7, <2>8, <2>9 DEF SignalingInv
<1>2. ASSUME NEW r \in Request, NEW n \in Sources, NEW dest \in Node, NEW by \in Threads,
             signaling_request_init(r, n, dest, by)
      PROVE  SignalingInv'
  <2> DEFINE call == [at |-> IF by = "io" THEN "stored" ELSE "sent",
                      by |-> by, src |-> n, dest |-> dest,
                      done |-> FALSE, way |-> dest \in Within(n)]
  <2>1. /\ req[r] = Unused /\ req' = [req EXCEPT ![r] = call] /\ dest # n
        /\ UNCHANGED <<table, self_ep, sending, faults, down, answered, delivered>>
    BY <1>2 DEF signaling_request_init
  <2>2. PICK eps \in collect_endpoint(n, {}) :
           net' = net \cup {new_message("request", r, self_ep[n], dest, ep) : ep \in eps}
    BY <1>2 DEF signaling_request_init
  <2>3. n \in Node /\ self_ep[n] \in Endpoint /\ eps \subseteq Node
    BY <1>0, Collected, SignalingAssumption DEF TypeOK
  <2>4. (dest \in Within(n)) \in BOOLEAN
    OBVIOUS
  <2>5. /\ call \in signaling_request /\ call # Unused /\ call.dest = dest /\ call.src = n
    BY <2>3, <2>4 DEF signaling_request, Unused
  <2> HIDE DEF call
  <2>6. /\ req' \in [Request -> {Unused} \cup signaling_request] /\ req'[r] = call
        /\ \A x \in Request : x # r => req'[x] = req[x]
    BY <1>0, <2>1, <2>5 DEF TypeOK
  <2>7. CallsGoOn
    BY <2>1, <2>6 DEF CallsGoOn, Released
  <2> DEFINE out == {new_message("request", r, self_ep[n], dest, ep) : ep \in eps}
  <2>8. ASSUME NEW o \in out PROVE Packet(o)'
    <3>1. PICK ep \in eps : o = new_message("request", r, self_ep[n], dest, ep)
      OBVIOUS
    <3>2. o \in ice_message /\ o.sub = "request" /\ o.req = r /\ o.dest = dest
      BY <2>3, <3>1, NewMessage
    <3> HIDE DEF out
    <3> QED BY <2>5, <2>6, <3>2 DEF Packet
  <2>9. net' \subseteq net \cup out
    BY <2>2
  <2> HIDE DEF out
  <2>10. PacketsInv'
    BY <2>7, <2>8, <2>9, PacketsStay
  <2>11. CallsInv' /\ EndpointsInv'
    BY <1>0, <2>1, <2>5, <2>6 DEF CallsInv, EndpointsInv
  <2>12. TypeOK'
    BY <1>0, <2>1, <2>6, <2>10 DEF TypeOK, PacketsInv, Packet
  <2> QED BY <2>10, <2>11, <2>12 DEF SignalingInv
<1>3. ASSUME NEW r \in Request, add_observer(r) \/ refresh_tick(r) PROVE SignalingInv'
  <2>1. PICK at \in {"stored", "freed"} :
           /\ req[r].at \in {"sent", "stored"} /\ req' = [req EXCEPT ![r].at = at]
           /\ UNCHANGED <<table, self_ep, sending, net, faults, down, answered, delivered>>
    BY <1>3 DEF add_observer, refresh_tick
  <2>2. req[r] \in signaling_request
    BY <1>0, <2>1 DEF TypeOK, Unused
  <2>3. /\ req'[r] \in signaling_request /\ req'[r].dest = req[r].dest
        /\ req'[r].src = req[r].src /\ req'[r].done = req[r].done /\ req'[r].at = at
        /\ \A x \in Request : x # r => req'[x] = req[x]
        /\ req' \in [Request -> {Unused} \cup signaling_request]
    BY <1>0, <2>1, <2>2 DEF TypeOK, signaling_request
  <2>4. \A c \in signaling_request : c # Unused
    BY DEF signaling_request, Unused
  <2>5. CallsGoOn
    BY <2>1, <2>2, <2>3, <2>4 DEF CallsGoOn, Released
  <2>6. PacketsInv'
    BY <2>1, <2>5, OnlyLeft
  <2>7. CallsInv' /\ EndpointsInv'
    BY <1>0, <2>1, <2>2, <2>3, <2>4 DEF CallsInv, EndpointsInv
  <2>8. TypeOK'
    BY <1>0, <2>1, <2>3, <2>6 DEF TypeOK, PacketsInv, Packet
  <2> QED BY <2>6, <2>7, <2>8 DEF SignalingInv
<1>4. ASSUME NEW r \in Request, on_traversal_done(r) PROVE SignalingInv'
  <2>1. /\ sending[r] > 0 /\ sending' = [sending EXCEPT ![r] = sending[r] - 1]
        /\ req' = [req EXCEPT ![r].done = TRUE]
        /\ UNCHANGED <<table, self_ep, net, faults, down, answered, delivered>>
    BY <1>4 DEF on_traversal_done
  <2>2. req[r] \in signaling_request /\ sending[r] \in Nat
    BY <1>0, <2>1 DEF TypeOK, CallsInv
  <2>0. /\ \A x \in Request : x # r => sending'[x] = sending[x]
        /\ sending' \in [Request -> Nat]
    BY <1>0, <2>1, <2>2 DEF TypeOK
  <2>3. /\ req'[r] \in signaling_request /\ req'[r].dest = req[r].dest
        /\ req'[r].src = req[r].src /\ req'[r].done = TRUE /\ req'[r].at = req[r].at
        /\ \A x \in Request : x # r => req'[x] = req[x]
        /\ req' \in [Request -> {Unused} \cup signaling_request]
    BY <1>0, <2>1, <2>2 DEF TypeOK, signaling_request
  <2>4. \A c \in signaling_request : c # Unused
    BY DEF signaling_request, Unused
  <2>5. CallsGoOn
    BY <2>0, <2>1, <2>2, <2>3, <2>4 DEF CallsGoOn, Released
  <2>6. PacketsInv'
    BY <2>1, <2>5, OnlyLeft
  <2>7. CallsInv' /\ EndpointsInv'
    BY <1>0, <2>0, <2>1, <2>2, <2>3, <2>4 DEF CallsInv, EndpointsInv
  <2>8. TypeOK'
    BY <1>0, <2>0, <2>1, <2>3, <2>6 DEF TypeOK, PacketsInv, Packet
  <2> QED BY <2>6, <2>7, <2>8 DEF SignalingInv
<1>5. ASSUME NEW m \in net, income_observer(m) PROVE SignalingInv'
  <2> DEFINE r == m.req
             out == IF Releases(m) THEN {Payload(r, m.dest)} ELSE {}
             more == IF Releases(m) THEN 1 ELSE 0
  <2>1. /\ Becomes(m, out) /\ HasObserver(m) /\ sending' = [sending EXCEPT ![r] = sending[r] + more]
        /\ UNCHANGED <<table, self_ep, req, down, answered, delivered>>
    BY <1>5 DEF income_observer
  <2>2. Packet(m) /\ r \in Request /\ m.dest \in Node
    BY <1>0 DEF PacketsInv, Packet, ice_message
  <2>3. /\ sending' \in [Request -> Nat] /\ sending[r] \in Nat /\ more \in {0, 1}
        /\ sending'[r] = sending[r] + more
        /\ \A x \in Request : x # r => sending'[x] = sending[x]
    BY <1>0, <2>1, <2>2 DEF TypeOK
  <2>4. net' \subseteq net \cup out /\ faults' \in 0 .. MaxFaults
    BY <1>0, <2>1, Left
  <2>5. CallsGoOn
    <3> HIDE DEF more
    <3>1. \A x \in Request : sending[x] > 0 => sending'[x] > 0
      BY <2>3
    <3> QED BY <1>0, <2>1, <3>1 DEF TypeOK, CallsGoOn, Released
  <2>6. ASSUME NEW o \in out PROVE Packet(o)'
    <3>1. Releases(m) /\ o = Payload(r, m.dest)
      OBVIOUS
    <3>2. o \in ice_message /\ o.sub = "payload" /\ o.req = r /\ o.dest = m.dest
      BY <2>2, <3>1, NewMessage DEF Payload, Endpoint
    <3>3. sending'[r] > 0
      BY <2>3, <3>1
    <3> HIDE DEF out, r
    <3> QED BY <2>1, <2>2, <3>2, <3>3 DEF Packet, Released, r
  <2> HIDE DEF out
  <2>7. PacketsInv'
    BY <2>4, <2>5, <2>6, PacketsStay
  <2>8. CallsInv' /\ EndpointsInv'
    <3>1. req[r] # Unused
      BY <2>2 DEF Packet
    <3> HIDE DEF r, more
    <3> QED BY <1>0, <2>1, <2>3, <3>1 DEF CallsInv, EndpointsInv
  <2>9. TypeOK'
    BY <1>0, <2>1, <2>3, <2>4, <2>7 DEF TypeOK, PacketsInv, Packet
  <2> QED BY <2>7, <2>8, <2>9 DEF SignalingInv
<1>6. ASSUME NEW m \in net, income_response(m) PROVE SignalingInv'
  <2> DEFINE out == IF m.src \in Node
                    THEN {[m EXCEPT !.to = m.src, !.sub = "response"]} ELSE {}
  <2>1. /\ Becomes(m, out) /\ answered' = answered \cup {m.req}
        /\ UNCHANGED <<table, self_ep, req, sending, down, delivered>>
    BY <1>6 DEF income_response
  <2>2. Packet(m) /\ m.req \in Request /\ m \in ice_message
    BY <1>0 DEF PacketsInv, Packet, ice_message
  <2>3. net' \subseteq net \cup out /\ faults' \in 0 .. MaxFaults
    BY <1>0, <2>1, Left
  <2>4. CallsGoOn
    BY <1>0, <2>1, CallsLeft
  <2>5. ASSUME NEW o \in out PROVE Packet(o)'
    <3>1. m.src \in Node /\ o = [m EXCEPT !.to = m.src, !.sub = "response"]
      OBVIOUS
    <3> HIDE DEF out
    <3>2. o \in ice_message /\ o.sub = "response" /\ o.req = m.req /\ o.dest = m.dest
      BY <2>2, <3>1 DEF ice_message
    <3> QED BY <2>1, <2>2, <3>2 DEF Packet
  <2> HIDE DEF out
  <2>6. PacketsInv'
    BY <2>3, <2>4, <2>5, PacketsStay
  <2>7. CallsInv' /\ EndpointsInv'
    BY <1>0, <2>1, <2>2 DEF CallsInv, EndpointsInv, Packet
  <2>8. TypeOK'
    BY <1>0, <2>1, <2>2, <2>3, <2>6 DEF TypeOK, PacketsInv, Packet
  <2> QED BY <2>6, <2>7, <2>8 DEF SignalingInv
<1>7. ASSUME NEW m \in net, relay_direct(m) \/ income_relay(m) PROVE SignalingInv'
  <2>1. Packet(m) /\ m.req \in Request /\ m \in ice_message /\ m.dest \in Node /\ m.to \in Node
    BY <1>0 DEF PacketsInv, Packet, ice_message
  <2>2. /\ relayed(m) \in ice_message /\ relayed(m).sub = "relay"
        /\ relayed(m).req = m.req /\ relayed(m).dest = m.dest
    BY <1>0, <2>1, Relayed
  <2>3. UNCHANGED <<table, self_ep, req, sending, down, answered, delivered>>
    BY <1>7 DEF relay_direct, income_relay
  <2>4. PICK out : /\ Becomes(m, out)
                   /\ \A o \in out : /\ o \in ice_message /\ o.sub = "relay"
                                     /\ o.req = m.req /\ o.dest = m.dest
    <3>1. CASE relay_direct(m)
      <4> DEFINE o == [relayed(m) EXCEPT !.to = m.dest]
      <4>1. o \in ice_message /\ o.sub = "relay" /\ o.req = m.req /\ o.dest = m.dest
        BY <2>1, <2>2 DEF ice_message
      <4>2. Becomes(m, {o})
        BY <3>1 DEF relay_direct
      <4> HIDE DEF o
      <4> QED BY <4>1, <4>2
    <3>2. CASE income_relay(m)
      <4>1. PICK eps \in collect_endpoint(m.to, relayed(m).relay) :
               Becomes(m, IF m.ttl <= 0 THEN {} ELSE forwarded(relayed(m), eps))
        BY <3>2 DEF income_relay
      <4>2. eps \subseteq Node
        BY <1>0, <2>1, Collected
      <4>3. \A o \in forwarded(relayed(m), eps) :
               o \in ice_message /\ o.sub = "relay" /\ o.req = m.req /\ o.dest = m.dest
        BY <1>0, <2>2, <4>2, Forwarded
      <4>4. CASE m.ttl <= 0
        BY <4>1, <4>4
      <4>5. CASE ~(m.ttl <= 0)
        BY <4>1, <4>3, <4>5
      <4> QED BY <4>4, <4>5
    <3> QED BY <1>7, <3>1, <3>2
  <2>5. net' \subseteq net \cup out /\ faults' \in 0 .. MaxFaults
    BY <1>0, <2>4, Left
  <2>6. CallsGoOn
    BY <1>0, <2>3, CallsLeft
  <2>7. \A o \in out : Packet(o)'
    BY <2>1, <2>3, <2>4 DEF Packet
  <2>8. PacketsInv'
    BY <2>5, <2>6, <2>7, PacketsStay
  <2>9. CallsInv' /\ EndpointsInv'
    BY <1>0, <2>3 DEF CallsInv, EndpointsInv
  <2>10. TypeOK'
    BY <1>0, <2>3, <2>5, <2>8 DEF TypeOK, PacketsInv, Packet
  <2> QED BY <2>8, <2>9, <2>10 DEF SignalingInv
<1>8. ASSUME NEW m \in net, income_payload(m) PROVE SignalingInv'
  <2>1. /\ Becomes(m, {}) /\ delivered' = delivered \cup {m.req}
        /\ UNCHANGED <<table, self_ep, req, sending, down, answered>>
    BY <1>8 DEF income_payload
  <2>2. Packet(m) /\ m.req \in Request
    BY <1>0 DEF PacketsInv, Packet, ice_message
  <2>3. net' \subseteq net /\ faults' \in 0 .. MaxFaults
    BY <1>0, <2>1, Left
  <2>4. CallsGoOn
    BY <1>0, <2>1, CallsLeft
  <2>5. PacketsInv'
    BY <2>3, <2>4, OnlyLeft
  <2>6. CallsInv' /\ EndpointsInv'
    BY <1>0, <2>1, <2>2 DEF CallsInv, EndpointsInv, Packet
  <2>7. TypeOK'
    BY <1>0, <2>1, <2>2, <2>3, <2>5 DEF TypeOK, PacketsInv, Packet
  <2> QED BY <2>5, <2>6, <2>7 DEF SignalingInv
<1>9. ASSUME NEW m \in net, Lose(m) \/ Gone(m) PROVE SignalingInv'
  <2>1. net' \subseteq net /\ UNCHANGED <<table, self_ep, req, sending, down, answered, delivered>>
    BY <1>9 DEF Lose, Gone
  <2>2. faults' \in 0 .. MaxFaults
    BY <1>0, <1>9, SignalingAssumption DEF Lose, Gone, TypeOK
  <2>3. CallsGoOn
    BY <1>0, <2>1, CallsLeft
  <2>4. PacketsInv'
    BY <2>1, <2>3, OnlyLeft
  <2>5. EndpointsInv' /\ CallsInv'
    BY <1>0, <2>1 DEF EndpointsInv, CallsInv
  <2>6. TypeOK'
    BY <1>0, <2>1, <2>2 DEF TypeOK
  <2> QED BY <2>4, <2>5, <2>6 DEF SignalingInv
<1>10. ASSUME NEW n \in Node, update_global_self_endpoint(n) PROVE SignalingInv'
  BY <1>10 DEF update_global_self_endpoint, SignalingInv, TypeOK, EndpointsInv, CallsInv,
               PacketsInv, Packet, Released, Endpoint
<1>11. ASSUME NEW p \in Meetings, Meet(p[1], p[2]) PROVE SignalingInv'
  <2>1. p[1] \in Node /\ p[2] \in Node
    BY SignalingAssumption
  <2> QED
    BY <1>11, <2>1 DEF Meet, SignalingInv, TypeOK, EndpointsInv, CallsInv, PacketsInv, Packet,
                       Released
<1>12. ASSUME NEW r \in Request, DiesOnFreed(r) PROVE SignalingInv'
  <2>1. req[r] \in signaling_request
    BY <1>0, <1>12 DEF DiesOnFreed, TypeOK, Unused
  <2>2. req[r].src \in Node
    BY <2>1 DEF signaling_request
  <2> QED
    BY <1>12, <2>2 DEF DiesOnFreed, SignalingInv, TypeOK, EndpointsInv, CallsInv, PacketsInv,
                       Packet, Released
<1>13. CASE UNCHANGED vars
  BY <1>13 DEF vars, SignalingInv, TypeOK, EndpointsInv, CallsInv, PacketsInv, Packet, Released
<1> QED
  BY <1>1, <1>2, <1>3, <1>4, <1>5, <1>6, <1>7, <1>8, <1>9, <1>10, <1>11, <1>12, <1>13
  DEF Next, signaling_send, Observer, Network, income_message

\* Every variable has its type, and every packet belongs to a call that was made.
THEOREM SignalingTypeCorrect == Spec => []TypeOK
  BY InvInit, InvStep, PTL DEF Spec, SignalingInv

-----------------------------------------------------------------------------
(* The abstract protocol *)

Stages == [r \in Request |-> Stage(r)]
Closed == {r \in Request : req[r] # Unused /\ req[r].done}

\* A step of one call.
LEMMA OneCall ==
    ASSUME NEW r \in Request, NEW to,
           IF req'[r] = Unused THEN to = "idle"
           ELSE IF r \in delivered' THEN to = "delivered"
           ELSE IF Released(r)' THEN to = "released"
           ELSE IF r \in answered' THEN to = "reached" ELSE to = "asked",
           \A x \in Request : x # r =>
              /\ req'[x] = req[x] /\ sending'[x] = sending[x]
              /\ (x \in answered') = (x \in answered) /\ (x \in delivered') = (x \in delivered)
    PROVE  Stages' = [Stages EXCEPT ![r] = to]
<1>1. Stage(r)' = to
  BY DEF Stage
<1>2. ASSUME NEW x \in Request, x # r PROVE Stage(x)' = Stage(x)
  BY <1>2 DEF Stage, Released
<1> QED BY <1>1, <1>2 DEF Stages

\* A step that shows the abstract protocol nothing.
LEMMA Unseen ==
    ASSUME \A x \in Request :
              /\ (req'[x] = Unused) = (req[x] = Unused)
              /\ (req'[x].at = "direct") = (req[x].at = "direct")
              /\ req[x] # Unused => req'[x].done = req[x].done
              /\ req[x] = Unused => sending[x] = 0,
           UNCHANGED <<sending, answered, delivered>>
    PROVE  UNCHANGED <<Stages, sending, Closed>>
<1>1. ASSUME NEW x \in Request PROVE Stage(x)' = Stage(x)
  BY <1>1 DEF Stage, Released
<1>2. Stages' = Stages
  BY <1>1 DEF Stages
<1>3. Closed' = Closed
  BY DEF Closed
<1> QED BY <1>2, <1>3

AbstractNext == \E r \in Request : Abstract!Go(r) \/ Abstract!Release(r) \/ Abstract!Close(r)

\* A call moves on.
LEMMA MovesOn ==
    ASSUME NEW r \in Request, NEW next, Stages' = [Stages EXCEPT ![r] = next],
           \/ Stage(r) = "idle" /\ next \in {"released", "asked"}
           \/ Stage(r) = "asked" /\ next = "reached"
           \/ Stage(r) = "released" /\ next = "delivered",
           UNCHANGED <<sending, Closed>>
    PROVE  AbstractNext
<1>1. Stages[r] = Stage(r)
  BY DEF Stages
<1>2. Abstract!Moves(r, Stage(r), next)
  BY <1>1 DEF Abstract!Moves, Stages
<1>3. Abstract!Go(r)
  BY <1>2 DEF Abstract!Go, Closed
<1> QED BY <1>3 DEF AbstractNext

LEMMA RefinementStep ==
    ASSUME SignalingInv, SignalingInv', [Next]_vars
    PROVE  AbstractNext \/ UNCHANGED <<Stages, sending, Closed>>
<1>0. TypeOK /\ EndpointsInv /\ CallsInv /\ PacketsInv
  BY DEF SignalingInv
<1>a. \A x \in Request : req[x] = Unused => sending[x] = 0
  BY <1>0 DEF CallsInv
<1>b. \A c \in signaling_request : c # Unused
  BY DEF signaling_request, Unused
<1>1. ASSUME NEW r \in Request, NEW n \in Sources, NEW dest \in Node, NEW by \in Threads,
             signaling_send(r, n, dest, by)
      PROVE  AbstractNext
  <2>1. PICK call :
           /\ req[r] = Unused /\ req' = [req EXCEPT ![r] = call] /\ call # Unused
           /\ call.done = FALSE
           /\ UNCHANGED <<sending, answered, delivered>>
    <3>1. CASE send_direct(r, n, dest, by)
      <4> DEFINE call == [at |-> "direct", by |-> by, src |-> n,
                          dest |-> dest, done |-> FALSE, way |-> TRUE]
      <4>1. /\ req[r] = Unused /\ req' = [req EXCEPT ![r] = call]
            /\ UNCHANGED <<sending, answered, delivered>>
        BY <3>1 DEF send_direct
      <4>2. call # Unused /\ call.done = FALSE
        BY DEF Unused
      <4> HIDE DEF call
      <4> QED BY <4>1, <4>2
    <3>2. CASE signaling_request_init(r, n, dest, by)
      <4> DEFINE call == [at |-> IF by = "io" THEN "stored" ELSE "sent",
                          by |-> by, src |-> n, dest |-> dest,
                          done |-> FALSE, way |-> dest \in Within(n)]
      <4>1. /\ req[r] = Unused /\ req' = [req EXCEPT ![r] = call]
            /\ UNCHANGED <<sending, answered, delivered>>
        BY <3>2 DEF signaling_request_init
      <4>2. call # Unused /\ call.done = FALSE
        BY DEF Unused
      <4> HIDE DEF call
      <4> QED BY <4>1, <4>2
    <3> QED BY <1>1, <3>1, <3>2 DEF signaling_send
  <2>2. req'[r] = call /\ \A x \in Request : x # r => req'[x] = req[x]
    BY <1>0, <2>1 DEF TypeOK
  <2>3. Stage(r) = "idle" /\ sending[r] = 0 /\ r \notin answered /\ r \notin delivered
    BY <1>0, <2>1 DEF CallsInv, Stage
  <2>4. Closed' = Closed
    BY <2>1, <2>2 DEF Closed
  <2>5. CASE call.at = "direct"
    <3>1. Stages' = [Stages EXCEPT ![r] = "released"]
      BY <2>1, <2>2, <2>3, <2>5, OneCall DEF Released
    <3> QED BY <2>1, <2>3, <2>4, <3>1, MovesOn
  <2>6. CASE call.at # "direct"
    <3>1. Stages' = [Stages EXCEPT ![r] = "asked"]
      BY <2>1, <2>2, <2>3, <2>6, OneCall DEF Released
    <3> QED BY <2>1, <2>3, <2>4, <3>1, MovesOn
  <2> QED BY <2>5, <2>6
<1>2. ASSUME NEW r \in Request, add_observer(r) \/ refresh_tick(r)
      PROVE  UNCHANGED <<Stages, sending, Closed>>
  <2>1. PICK at \in {"stored", "freed"} :
           /\ req[r].at \in {"sent", "stored"} /\ req' = [req EXCEPT ![r].at = at]
           /\ UNCHANGED <<sending, answered, delivered>>
    BY <1>2 DEF add_observer, refresh_tick
  <2>2. req[r] \in signaling_request
    BY <1>0, <2>1 DEF TypeOK, Unused
  <2>3. /\ req'[r] \in signaling_request /\ req'[r].done = req[r].done
        /\ req'[r].at = at /\ \A x \in Request : x # r => req'[x] = req[x]
    BY <1>0, <2>1, <2>2 DEF TypeOK, signaling_request
  <2>4. \A x \in Request : /\ (req'[x] = Unused) = (req[x] = Unused)
                           /\ (req'[x].at = "direct") = (req[x].at = "direct")
                           /\ req[x] # Unused => req'[x].done = req[x].done
    BY <2>1, <2>2, <2>3, <1>b
  <2> QED BY <2>1, <2>4, <1>a, Unseen
<1>3. ASSUME NEW r \in Request, on_traversal_done(r) PROVE AbstractNext
  <2>1. /\ sending[r] > 0 /\ sending' = [sending EXCEPT ![r] = sending[r] - 1]
        /\ req' = [req EXCEPT ![r].done = TRUE] /\ UNCHANGED <<answered, delivered>>
    BY <1>3 DEF on_traversal_done
  <2>2. req[r] \in signaling_request
    BY <1>0, <2>1 DEF TypeOK, CallsInv
  <2>3. /\ req'[r] \in signaling_request /\ req'[r].done = TRUE /\ req'[r].at = req[r].at
        /\ \A x \in Request : x # r => req'[x] = req[x]
    BY <1>0, <2>1, <2>2 DEF TypeOK, signaling_request
  <2>4. \A x \in Request : x # r => sending'[x] = sending[x]
    BY <1>0, <2>1 DEF TypeOK
  <2>5. Stage(r)' = Stage(r)
    BY <2>1, <2>2, <2>3, <1>b DEF Stage, Released
  <2>6. \A x \in Request : x # r => Stage(x)' = Stage(x)
    BY <2>1, <2>3, <2>4 DEF Stage, Released
  <2>7. Stages' = Stages
    BY <2>5, <2>6 DEF Stages
  <2>8. Closed' = Closed \cup {r}
    BY <2>3, <1>b DEF Closed
  <2>9. Abstract!Close(r)
    BY <2>1, <2>7, <2>8 DEF Abstract!Close, Stages, Closed
  <2> QED BY <2>9 DEF AbstractNext
<1>4. ASSUME NEW m \in net, income_observer(m)
      PROVE  AbstractNext \/ UNCHANGED <<Stages, sending, Closed>>
  <2> DEFINE r == m.req
             more == IF Releases(m) THEN 1 ELSE 0
  <2>1. /\ HasObserver(m) /\ sending' = [sending EXCEPT ![r] = sending[r] + more]
        /\ UNCHANGED <<req, answered, delivered>>
    BY <1>4 DEF income_observer
  <2>2. Packet(m) /\ r \in Request /\ m.dest \in Node /\ m.to \in Node
    BY <1>0 DEF PacketsInv, Packet, ice_message
  <2>3. req[r] # Unused /\ req[r].at = "stored" /\ req[r].src = m.to /\ sending[r] \in Nat
    BY <1>0, <2>1, <2>2 DEF Packet, HasObserver, TypeOK
  <2>4. CASE ~Releases(m)
    <3>1. sending' = sending
      BY <1>0, <2>1, <2>2, <2>4 DEF TypeOK
    <3> HIDE DEF r, more
    <3> QED BY <2>1, <3>1, <1>a, Unseen
  <2>5. CASE Releases(m)
    <3>1. ~ForSelf(m)
      <4>1. m.dest # m.to
        BY <1>0, <2>2, <2>3 DEF Packet, CallsInv
      <4> QED BY <1>0, <2>2, <4>1, SignalingAssumption DEF ForSelf, EndpointsInv
    <3>2. ~req[r].done /\ r \in answered
      BY <2>2, <2>5, <3>1 DEF Releases, Packet
    <3>3. sending' = [sending EXCEPT ![r] = sending[r] + 1]
      BY <2>1, <2>5
    <3> HIDE DEF r, more
    <3>4. sending'[r] > 0 /\ \A x \in Request : x # r => sending'[x] = sending[x]
      BY <1>0, <2>2, <2>3, <3>3 DEF TypeOK
    <3> DEFINE to == IF r \in delivered THEN "delivered" ELSE "released"
    <3>5. Stages' = [Stages EXCEPT ![r] = to]
      BY <2>1, <2>2, <2>3, <3>4, OneCall DEF Released
    <3>6. /\ Stage(r) \in {"reached", "released", "delivered"}
          /\ to = IF Stage(r) = "reached" THEN "released" ELSE Stage(r)
      BY <2>2, <2>3, <3>2 DEF Stage
    <3>7. Stages[r] = Stage(r)
      BY <2>2 DEF Stages
    <3> HIDE DEF to
    <3>8. Stages' = [Stages EXCEPT ![r] = IF Stages[r] = "reached" THEN "released" ELSE Stages[r]]
      BY <3>5, <3>6, <3>7
    <3>9. r \notin Closed /\ Closed' = Closed
      BY <2>1, <3>2 DEF Closed
    <3>10. Abstract!Release(r)
      BY <3>3, <3>6, <3>7, <3>8, <3>9 DEF Abstract!Release, Stages, Closed
    <3> QED BY <2>2, <3>10 DEF AbstractNext
  <2> QED BY <2>4, <2>5
<1>5. ASSUME NEW m \in net, income_response(m)
      PROVE  AbstractNext \/ UNCHANGED <<Stages, sending, Closed>>
  <2> DEFINE r == m.req
  <2>1. answered' = answered \cup {r} /\ UNCHANGED <<req, sending, delivered>>
    BY <1>5 DEF income_response
  <2>2. r \in Request /\ req[r] # Unused
    BY <1>0 DEF PacketsInv, Packet, ice_message
  <2>3. Closed' = Closed
    BY <2>1 DEF Closed
  <2> HIDE DEF r
  <2>4. CASE Stage(r) = "asked"
    <3>1. r \notin delivered /\ ~Released(r)
      BY <2>2, <2>4 DEF Stage
    <3>2. Stages' = [Stages EXCEPT ![r] = "reached"]
      <4>1. \A x \in Request : x # r => (x \in answered') = (x \in answered)
        BY <2>1
      <4> QED BY <2>1, <2>2, <3>1, <4>1, OneCall DEF Released
    <3> QED BY <2>1, <2>2, <2>3, <2>4, <3>2, MovesOn
  <2>5. CASE Stage(r) # "asked"
    <3>1. \A x \in Request : Stage(x)' = Stage(x)
      BY <2>1, <2>2, <2>5 DEF Stage, Released
    <3>2. Stages' = Stages
      BY <3>1 DEF Stages
    <3> QED BY <2>1, <2>3, <3>2
  <2> QED BY <2>4, <2>5
<1>6. ASSUME NEW m \in net, income_payload(m)
      PROVE  AbstractNext \/ UNCHANGED <<Stages, sending, Closed>>
  <2> DEFINE r == m.req
  <2>1. /\ delivered' = delivered \cup {r} /\ UNCHANGED <<req, sending, answered>>
        /\ m.sub = "payload"
    BY <1>6 DEF income_payload
  <2>2. r \in Request /\ req[r] # Unused /\ Released(r)
    BY <1>0, <2>1 DEF PacketsInv, Packet, ice_message
  <2>3. Closed' = Closed
    BY <2>1 DEF Closed
  <2> HIDE DEF r
  <2>4. CASE r \notin delivered
    <3>1. Stage(r) = "released"
      BY <2>2, <2>4 DEF Stage
    <3>2. Stages' = [Stages EXCEPT ![r] = "delivered"]
      <4>1. \A x \in Request : x # r => (x \in delivered') = (x \in delivered)
        BY <2>1
      <4> QED BY <2>1, <2>2, <4>1, OneCall
    <3> QED BY <2>1, <2>2, <2>3, <3>1, <3>2, MovesOn
  <2>5. CASE r \in delivered
    <3>1. delivered' = delivered
      BY <2>1, <2>5
    <3> QED BY <2>1, <3>1, <1>a, Unseen
  <2> QED BY <2>4, <2>5
<1>7. CASE UNCHANGED <<req, sending, answered, delivered>>
  BY <1>7, <1>a, Unseen
<1> QED
  BY <1>1, <1>2, <1>3, <1>4, <1>5, <1>6, <1>7
  DEF Next, Observer, Network, income_message, vars, DiesOnFreed, relay_direct, income_relay,
      Lose, Gone, update_global_self_endpoint, Meet

\* Over any network of relays, whatever is lost, doubled or overtaken, a payload
\* is sent only after its destination was reached, and none is once a send of it
\* is known to have gone out.
THEOREM SignalingImplementsRendezvous == Spec => ImplementsRendezvous
<1>1. Init => Abstract!Init
  <2> SUFFICES ASSUME Init PROVE Abstract!Init
    OBVIOUS
  <2>1. \A r \in Request : req[r] = Unused
    BY DEF Init
  <2>2. [r \in Request |-> Stage(r)] = [r \in Request |-> "idle"]
    BY <2>1 DEF Stage
  <2>3. sending = [r \in Request |-> 0] /\ {r \in Request : req[r] # Unused /\ req[r].done} = {}
    BY <2>1 DEF Init
  <2> QED BY <2>2, <2>3 DEF Abstract!Init
<1>2. SignalingInv /\ SignalingInv' /\ [Next]_vars =>
         [\E r \in Request : Abstract!Go(r) \/ Abstract!Release(r) \/ Abstract!Close(r)]_
            <<[r \in Request |-> Stage(r)], sending,
              {r \in Request : req[r] # Unused /\ req[r].done}>>
  BY RefinementStep DEF AbstractNext, Stages, Closed
<1> QED
  BY <1>1, <1>2, InvInit, InvStep, PTL DEF Spec, ImplementsRendezvous, Abstract!Spec, Abstract!vars
=============================================================================

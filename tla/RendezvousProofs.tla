--------------------------- MODULE RendezvousProofs ---------------------------
(***************************************************************************)
(* The rendezvous server for any number of connections, devices and        *)
(* shards, and any interleaving of the session tasks.                      *)
(***************************************************************************)
EXTENDS Rendezvous, FiniteSetTheorems, TLAPS

USE RendezvousAssumption, NoneAssumption

\* What the types rest on: a handler in "send" has something to send, and
\* the ids a connection asks for and holds are ones its client registers.
HandlerInv ==
  /\ \A c \in Conns : pc[c] = "send" => sends[c] # <<>>
  /\ \A c \in Conns : pc[c] \in {"capacity", "insert"} => reg_id[c] \in MayRegister[c]
  /\ \A c \in Conns : my_id[c] # None => my_id[c] \in MayRegister[c]

\* The messages of the handlers are messages.
LEMMA MessageTypes ==
  ASSUME NEW c \in Conns, NEW h \in Conns, NEW t \in Tokens
  PROVE  /\ <<[to |-> c, msg |-> Error]>> \in Seq(Send)
         /\ <<[to |-> c, msg |-> [type |-> "RegisterAck"]]>> \in Seq(Send)
         /\ ConnectSends(c, h, t) \in Seq(Send) /\ ConnectSends(c, h, t) # <<>>
<1>1. /\ [to |-> c, msg |-> Error] \in Send
      /\ [to |-> c, msg |-> [type |-> "RegisterAck"]] \in Send
      /\ [to |-> c, msg |-> [type |-> "ConnectAck"]] \in Send
      /\ [to |-> c, msg |-> Relay(t)] \in Send
      /\ [to |-> h, msg |-> Relay(t)] \in Send
  BY DEF Send, Msg, Error, Relay
<1> QED BY <1>1 DEF ConnectSends

\* Handing ms to the sends of a handler keeps the types.
LEMMA AnswerKeeps ==
  ASSUME TypeOK, HandlerInv, NEW c \in Conns, NEW ms \in Seq(Send), ms # <<>>, Answer(c, ms)
  PROVE  /\ pc' \in [Conns -> {"unopened", "select", "capacity", "insert", "send", "cleanup", "gone"}]
         /\ sends' \in [Conns -> Seq(Send)]
         /\ \A x \in Conns : pc'[x] = "send" => sends'[x] # <<>>
         /\ \A x \in Conns : pc'[x] \in {"capacity", "insert"} => pc[x] = pc'[x] /\ x # c
  BY DEF Answer, TypeOK, HandlerInv

\* The answer of a refused request is one send.
LEMMA ErrorSend ==
  ASSUME NEW c \in Conns
  PROVE  <<[to |-> c, msg |-> Error]>> \in Seq(Send) /\ <<[to |-> c, msg |-> Error]>> # <<>>
<1>1. [to |-> c, msg |-> Error] \in Send
  BY DEF Send, Msg, Error
<1> QED BY <1>1

\* A refused request.
LEMMA ErrorKeeps ==
  ASSUME TypeOK, HandlerInv, NEW c \in Conns, Answer(c, <<[to |-> c, msg |-> Error]>>),
         requests' \in [Conns -> Nat],
         UNCHANGED <<link, out, reg_id, my_id, guard, registry, acked, relay_sessions, offers>>
  PROVE  (TypeOK /\ HandlerInv)'
<1> DEFINE ms == <<[to |-> c, msg |-> Error]>>
<1>1. ms \in Seq(Send) /\ ms # <<>> /\ Answer(c, ms)
  BY ErrorSend
<1> HIDE DEF ms
<1>2. /\ pc' \in [Conns -> {"unopened", "select", "capacity", "insert", "send", "cleanup", "gone"}]
      /\ sends' \in [Conns -> Seq(Send)]
      /\ \A x \in Conns : pc'[x] = "send" => sends'[x] # <<>>
      /\ \A x \in Conns : pc'[x] \in {"capacity", "insert"} => pc[x] = pc'[x] /\ x # c
  BY <1>1, AnswerKeeps
<1> QED BY <1>2 DEF TypeOK, HandlerInv

\* A server without connections is well typed.
LEMMA TypeInit == Init => TypeOK /\ HandlerInv
  BY DEF Init, TypeOK, HandlerInv

\* Each variable stays in its range, and a handler that sends has something to send.
LEMMA TypeNext == TypeOK /\ HandlerInv /\ [Next]_vars => (TypeOK /\ HandlerInv)'
<1> SUFFICES ASSUME TypeOK, HandlerInv, [Next]_vars PROVE (TypeOK /\ HandlerInv)'
  OBVIOUS
<1> USE DEF TypeOK, HandlerInv
<1>1. ASSUME NEW c \in Conns, Open(c) PROVE (TypeOK /\ HandlerInv)'
  BY <1>1 DEF Open
<1>2. ASSUME NEW c \in Conns, GoDown(c) PROVE (TypeOK /\ HandlerInv)'
  BY <1>2 DEF GoDown
<1>3. ASSUME NEW c \in Conns, Forward(c) PROVE (TypeOK /\ HandlerInv)'
  <2>1. Tail(out[c]) \in Seq(Msg) /\ Len(Tail(out[c])) <= QUEUE
    BY <1>3 DEF Forward
  <2>2. /\ out' = [out EXCEPT ![c] = Tail(out[c])] /\ acked' \subseteq Conns
        /\ UNCHANGED <<pc, link, requests, sends, reg_id, my_id, guard, registry,
                       relay_sessions, offers>>
    BY <1>3 DEF Forward
  <2> QED BY <2>1, <2>2
<1>4. ASSUME NEW c \in Conns, Break(c) PROVE (TypeOK /\ HandlerInv)'
  BY <1>4 DEF Break
<1>5. ASSUME NEW c \in Conns, Refuse(c) PROVE (TypeOK /\ HandlerInv)'
  <2>1. requests' \in [Conns -> Nat]
    BY <1>5 DEF Refuse, Receive
  <2> QED BY <1>5, <2>1, ErrorKeeps DEF Refuse
<1>6. ASSUME NEW c \in Conns, NEW d \in MayRegister[c], RegisterCheck(c, d)
      PROVE  (TypeOK /\ HandlerInv)'
  <2>1. d \in Devices /\ requests' \in [Conns -> Nat]
    BY <1>6 DEF RegisterCheck, Receive
  <2>2. UNCHANGED <<link, out, my_id, guard, registry, acked, relay_sessions, offers>>
    BY <1>6 DEF RegisterCheck
  <2>3. CASE Answer(c, <<[to |-> c, msg |-> Error]>>) /\ reg_id' = reg_id
    BY <2>1, <2>2, <2>3, ErrorKeeps
  <2>4. CASE /\ pc' = [pc EXCEPT ![c] = "capacity"]
             /\ reg_id' = [reg_id EXCEPT ![c] = d]
             /\ sends' = sends
    BY <2>1, <2>2, <2>4
  <2> QED BY <1>6, <2>3, <2>4 DEF RegisterCheck
<1>7. ASSUME NEW c \in Conns, RegisterCapacity(c) PROVE (TypeOK /\ HandlerInv)'
  <2>1. /\ pc[c] = "capacity" /\ requests' = requests
        /\ UNCHANGED <<link, out, reg_id, my_id, guard, registry, acked, relay_sessions, offers>>
    BY <1>7 DEF RegisterCapacity
  <2>2. CASE Answer(c, <<[to |-> c, msg |-> Error]>>)
    BY <2>1, <2>2, ErrorKeeps
  <2>3. CASE pc' = [pc EXCEPT ![c] = "insert"] /\ sends' = sends
    BY <2>1, <2>3
  <2> QED BY <1>7, <2>2, <2>3 DEF RegisterCapacity
<1>8. ASSUME NEW c \in Conns, RegisterInsert(c) PROVE (TypeOK /\ HandlerInv)'
  <2>1. [to |-> c, msg |-> [type |-> "RegisterAck"]] \in Send
    BY DEF Send, Msg
  <2>2. [tx |-> c, locked_pubkey |-> KeyOf[c]] \in Entry
    BY DEF Entry
  <2>3. reg_id[c] \in MayRegister[c] /\ reg_id[c] \in Devices
    BY <1>8 DEF RegisterInsert
  <2>4. /\ my_id' = [my_id EXCEPT ![c] = reg_id[c]]
        /\ registry' = [registry EXCEPT ![reg_id[c]] = [tx |-> c, locked_pubkey |-> KeyOf[c]]]
        /\ pc' = [pc EXCEPT ![c] = "send"]
        /\ sends' = [sends EXCEPT ![c] = <<[to |-> c, msg |-> [type |-> "RegisterAck"]]>>]
        /\ UNCHANGED <<link, requests, out, reg_id, guard, acked, relay_sessions, offers>>
    BY <1>8 DEF RegisterInsert, Answer
  <2> QED BY <2>1, <2>2, <2>3, <2>4
<1>9. ASSUME NEW c \in Conns, NEW d \in Devices, Connect(c, d) PROVE (TypeOK /\ HandlerInv)'
  <2>1. CASE registry[d] = None
    <3>1. requests' \in [Conns -> Nat]
      BY <1>9 DEF Connect, Receive
    <3> QED BY <1>9, <2>1, <3>1, ErrorKeeps DEF Connect
  <2>2. CASE registry[d] # None
    <3> DEFINE t == Len(offers) + 1
               h == registry[d].tx
    <3>1. h \in Conns
      BY <2>2 DEF Entry
    <3>2. /\ t \in Tokens
          /\ requests' = [requests EXCEPT ![c] = @ + 1]
          /\ guard' = [guard EXCEPT ![c] = d]
          /\ relay_sessions' = relay_sessions \cup {t}
          /\ offers' = Append(offers, [device |-> d, host |-> h, viewer |-> c])
          /\ pc' = [pc EXCEPT ![c] = "send"]
          /\ sends' = [sends EXCEPT ![c] = ConnectSends(c, h, t)]
          /\ UNCHANGED <<link, out, reg_id, my_id, registry, acked>>
      BY <1>9, <2>2 DEF Connect, Receive, Answer
    <3>3. ConnectSends(c, h, t) \in Seq(Send) /\ ConnectSends(c, h, t) # <<>>
      BY <3>1, <3>2, MessageTypes
    <3>4. offers' \in Seq(Offer)
      <4>1. [device |-> d, host |-> h, viewer |-> c] \in Offer
        BY <3>1 DEF Offer
      <4> QED BY <3>2, <4>1
    <3> DEFINE ms == ConnectSends(c, h, t)
    <3>5. Answer(c, ms)
      BY <1>9, <2>2 DEF Connect
    <3> HIDE DEF t, h, ms
    <3>6. /\ pc' \in [Conns -> {"unopened", "select", "capacity", "insert", "send", "cleanup", "gone"}]
          /\ sends' \in [Conns -> Seq(Send)]
          /\ \A x \in Conns : pc'[x] = "send" => sends'[x] # <<>>
          /\ \A x \in Conns : pc'[x] \in {"capacity", "insert"} => pc[x] = pc'[x] /\ x # c
      <4>1. ms \in Seq(Send) /\ ms # <<>>
        BY <3>3 DEF ms
      <4> QED BY <3>5, <4>1, AnswerKeeps
    <3>7. requests' \in [Conns -> Nat] /\ guard' \in [Conns -> Devices \cup {None}]
      BY <3>2
    <3>8. relay_sessions' \subseteq Tokens /\ UNCHANGED <<link, out, reg_id, my_id, registry, acked>>
      BY <3>2
    <3>9. TypeOK'
      BY <3>4, <3>6, <3>7, <3>8
    <3>10. HandlerInv'
      BY <3>6, <3>8
    <3> QED BY <3>9, <3>10
  <2> QED BY <2>1, <2>2
<1>10. ASSUME NEW c \in Conns, DeliverNext(c) PROVE (TypeOK /\ HandlerInv)'
  <2> DEFINE h == Head(sends[c]).to
             m == Head(sends[c]).msg
  <2>0. sends[c] \in Seq(Send) /\ sends[c] # <<>>
    BY <1>10 DEF DeliverNext
  <2>1. h \in Conns /\ m \in Msg
    <3>1. Head(sends[c]) \in Send
      BY <2>0
    <3> QED BY <3>1 DEF Send
  <2>2. /\ out' \in [Conns -> Seq(Msg)]
        /\ \A x \in Conns : Len(out'[x]) <= QUEUE
    <3>1. CASE out' = out
      BY <3>1
    <3>2. CASE Len(out[h]) < QUEUE /\ out' = [out EXCEPT ![h] = Append(out[h], m)]
      <4>1. Append(out[h], m) \in Seq(Msg) /\ Len(Append(out[h], m)) <= QUEUE
        <5>1. out[h] \in Seq(Msg) /\ Len(out[h]) \in Nat
          BY SMTT(30), <2>1
        <5> HIDE DEF h, m
        <5> QED BY <2>1, <3>2, <5>1
      <4> HIDE DEF h, m
      <4> QED BY <2>1, <3>2, <4>1
    <3> QED BY <1>10, <3>1, <3>2 DEF DeliverNext
  <2>3. /\ pc[c] = "send"
        /\ sends' = [sends EXCEPT ![c] = Tail(sends[c])]
        /\ UNCHANGED <<link, requests, reg_id, my_id, registry, acked, relay_sessions, offers>>
        /\ \/ Len(sends[c]) = 1 /\ pc' = [pc EXCEPT ![c] = "select"]
              /\ guard' = [guard EXCEPT ![c] = None]
           \/ Len(sends[c]) # 1 /\ pc' = pc /\ guard' = guard
    BY <1>10 DEF DeliverNext
  <2>4. Tail(sends[c]) \in Seq(Send) /\ (Len(sends[c]) # 1 => Tail(sends[c]) # <<>>)
    <3> DEFINE q == sends[c]
    <3>1. q \in Seq(Send) /\ q # <<>>
      BY <2>0
    <3> HIDE DEF q
    <3>2. Tail(q) \in Seq(Send) /\ Len(Tail(q)) = Len(q) - 1 /\ Len(q) \in Nat
      BY ONLY <3>1
    <3>0. Len(<<>>) = 0
      OBVIOUS
    <3>3. Tail(q) = <<>> => Len(Tail(q)) = 0
      BY ONLY <3>0, Zenon
    <3>4. Len(q) # 1 => Tail(q) # <<>>
      BY ONLY <3>2, <3>3
    <3> QED BY <3>2, <3>4 DEF q
  <2> HIDE DEF h, m
  <2> QED BY ZenonT(60), <2>2, <2>3, <2>4
<1>11. ASSUME NEW c \in Conns, Cleanup(c) PROVE (TypeOK /\ HandlerInv)'
  <2>1. <<>> \in Seq(Msg) /\ Len(<<>>) <= QUEUE
    OBVIOUS
  <2> QED BY <1>11, <2>1 DEF Cleanup
<1>12. ASSUME NEW t \in Tokens, Reap(t) PROVE (TypeOK /\ HandlerInv)'
  BY <1>12 DEF Reap
<1>13. CASE UNCHANGED vars
  BY <1>13 DEF vars
<1> QED BY <1>1, <1>2, <1>3, <1>4, <1>5, <1>6, <1>7, <1>8, <1>9, <1>10, <1>11, <1>12, <1>13
        DEF Next

\* So they are at every moment.
LEMMA TypesHold == Spec => [](TypeOK /\ HandlerInv)
  BY TypeInit, TypeNext, PTL DEF Spec

\* The types, and with them the capacity of every connection's channel, are
\* kept by all handlers of the session tasks.
THEOREM RendezvousTypeCorrect == Spec => []TypeOK
  BY TypesHold, PTL

-----------------------------------------------------------------------------
\* The steps that write the registry.
LEMMA RegistryWriters ==
  ASSUME Next, registry' # registry
  PROVE  \E c \in Conns : RegisterInsert(c) \/ Cleanup(c)
  BY DEF Next, Open, GoDown, Forward, Break, Refuse, RegisterCheck, RegisterCapacity, Connect,
         DeliverNext, Reap

\* A handler that still has to tell a peer holds the reference.
OfferInv == \A t \in 1 .. Len(offers) : Pending(t) => guard[offers[t].viewer] = offers[t].device

\* An offer names a connection and a device.
LEMMA OfferType ==
  ASSUME TypeOK, NEW t \in 1 .. Len(offers)
  PROVE  offers[t].viewer \in Conns /\ offers[t].device \in Devices
<1>1. offers \in Seq(Offer)
  BY DEF TypeOK
<1>2. offers[t] \in Offer
  BY <1>1
<1> QED BY <1>2 DEF Offer

\* Nobody is told of a token by a handler that answers without one.
LEMMA AnswersWithoutOffer ==
  ASSUME TypeOK, OfferInv, NEW c \in Conns, NEW m \in Msg, m.type # "Relay",
         sends' = [sends EXCEPT ![c] = <<[to |-> c, msg |-> m]>>], UNCHANGED <<guard, offers>>
  PROVE  OfferInv'
<1> SUFFICES ASSUME NEW t \in 1 .. Len(offers), Pending(t)'
             PROVE  guard[offers[t].viewer] = offers[t].device
  BY DEF OfferInv
<1> DEFINE v == offers[t].viewer
<1>1. v \in Conns
  BY OfferType
<1>2. CASE v = c
  <2>1. sends'[v] = <<[to |-> c, msg |-> m]>>
    BY <1>1, <1>2 DEF TypeOK
  <2>2. PICK i \in 1 .. Len(sends'[v]) : sends'[v][i].msg = Relay(t)
    BY DEF Pending
  <2>3. i = 1 /\ m = Relay(t)
    BY <2>1, <2>2
  <2> QED BY <2>3 DEF Relay
<1>3. CASE v # c
  <2>1. sends'[v] = sends[v]
    BY <1>1, <1>3 DEF TypeOK
  <2>2. Pending(t)
    BY <2>1 DEF Pending
  <2> QED BY <2>2 DEF OfferInv
<1> QED BY <1>2, <1>3

\* A handler lets go of its reference only after the last send of its offer.
LEMMA OfferStep == TypeOK /\ HandlerInv /\ OfferInv /\ [Next]_vars => OfferInv'
<1> SUFFICES ASSUME TypeOK, HandlerInv, OfferInv, [Next]_vars PROVE OfferInv'
  OBVIOUS
<1>1. CASE UNCHANGED <<sends, guard, offers>>
  BY <1>1 DEF OfferInv, Pending
<1>2. ASSUME NEW c \in Conns, Answer(c, <<[to |-> c, msg |-> Error]>>), UNCHANGED <<guard, offers>>
      PROVE  OfferInv'
  <2>1. Error \in Msg /\ Error.type # "Relay"
    BY DEF Error, Msg
  <2> QED BY <1>2, <2>1, AnswersWithoutOffer DEF Answer
<1>3. ASSUME NEW c \in Conns, RegisterInsert(c) PROVE OfferInv'
  <2> DEFINE m == [type |-> "RegisterAck"]
  <2>1. m \in Msg /\ m.type # "Relay"
    BY DEF Msg
  <2>2. sends' = [sends EXCEPT ![c] = <<[to |-> c, msg |-> m]>>] /\ UNCHANGED <<guard, offers>>
    BY <1>3 DEF RegisterInsert, Answer
  <2> HIDE DEF m
  <2> QED BY <2>1, <2>2, AnswersWithoutOffer
<1>4. ASSUME NEW c \in Conns, NEW d \in Devices, Connect(c, d), registry[d] # None PROVE OfferInv'
  <2> DEFINE n == Len(offers) + 1
             h == registry[d].tx
  <2>1. /\ guard' = [guard EXCEPT ![c] = d]
        /\ offers' = Append(offers, [device |-> d, host |-> h, viewer |-> c])
        /\ sends' = [sends EXCEPT ![c] = ConnectSends(c, h, n)]
    BY <1>4 DEF Connect, Answer
  <2>2. /\ Len(offers) \in Nat /\ Len(offers') = n
        /\ \A t \in 1 .. Len(offers) : offers'[t] = offers[t]
        /\ offers'[n] = [device |-> d, host |-> h, viewer |-> c]
    BY <2>1 DEF TypeOK
  <2> SUFFICES ASSUME NEW t \in 1 .. n, Pending(t)'
               PROVE  guard'[offers'[t].viewer] = offers'[t].device
    BY <2>2 DEF OfferInv
  <2>3. CASE t = n
    BY <2>1, <2>2, <2>3 DEF TypeOK
  <2>4. CASE t \in 1 .. Len(offers)
    <3> DEFINE v == offers[t].viewer
    <3>1. v \in Conns /\ offers'[t] = offers[t]
      BY <2>2, <2>4, OfferType
    <3>2. v # c
      <4> SUFFICES ASSUME v = c PROVE FALSE
        OBVIOUS
      <4>1. sends'[v] = ConnectSends(c, h, n)
        BY <2>1, <3>1 DEF TypeOK
      <4>2. PICK i \in 1 .. Len(sends'[v]) : sends'[v][i].msg = Relay(t)
        BY <3>1 DEF Pending
      <4>3. Relay(t) \in {Relay(n), [type |-> "ConnectAck"]}
        BY <4>1, <4>2 DEF ConnectSends
      <4>4. Relay(t).type = "Relay" /\ Relay(t).token = t /\ Relay(n).token = n
        BY DEF Relay
      <4>5. t # n
        BY <2>2, <2>4
      <4>6. Relay(t) # [type |-> "ConnectAck"]
        BY <4>4
      <4> QED BY <4>3, <4>4, <4>5, <4>6
    <3>3. sends'[v] = sends[v] /\ guard'[v] = guard[v]
      BY <2>1, <3>1, <3>2 DEF TypeOK
    <3>4. Pending(t)
      BY <3>1, <3>3 DEF Pending
    <3> QED BY <2>4, <3>1, <3>3, <3>4 DEF OfferInv
  <2> QED BY <2>2, <2>3, <2>4
<1>5. ASSUME NEW c \in Conns, DeliverNext(c) PROVE OfferInv'
  <2>1. /\ sends' = [sends EXCEPT ![c] = Tail(sends[c])] /\ offers' = offers
        /\ \/ Len(sends[c]) = 1 /\ guard' = [guard EXCEPT ![c] = None]
           \/ guard' = guard
        /\ sends[c] \in Seq(Send) /\ sends[c] # <<>>
    BY <1>5 DEF DeliverNext, TypeOK, HandlerInv
  <2>2. /\ Len(sends[c]) \in Nat \ {0} /\ Len(Tail(sends[c])) = Len(sends[c]) - 1
        /\ \A i \in 1 .. Len(Tail(sends[c])) : Tail(sends[c])[i] = sends[c][i + 1]
    BY <2>1
  <2> SUFFICES ASSUME NEW t \in 1 .. Len(offers), Pending(t)'
               PROVE  guard'[offers[t].viewer] = offers[t].device
    BY <2>1 DEF OfferInv
  <2> DEFINE v == offers[t].viewer
  <2>3. v \in Conns
    BY OfferType
  <2>4. PICK i \in 1 .. Len(sends'[v]) : sends'[v][i].msg = Relay(t)
    BY <2>1 DEF Pending
  <2>5. CASE v # c
    <3>1. sends'[v] = sends[v] /\ guard'[v] = guard[v]
      BY <2>1, <2>3, <2>5 DEF TypeOK
    <3>2. Pending(t)
      BY <2>4, <3>1 DEF Pending
    <3> QED BY <3>1, <3>2 DEF OfferInv
  <2>6. CASE v = c
    <3>1. sends'[v] = Tail(sends[c])
      BY <2>1, <2>6 DEF TypeOK
    <3>2. i + 1 \in 1 .. Len(sends[c]) /\ sends[c][i + 1].msg = Relay(t) /\ Len(sends[c]) # 1
      BY <2>2, <2>4, <3>1
    <3>3. Pending(t) /\ guard' = guard
      BY <2>1, <2>6, <3>2 DEF Pending
    <3> QED BY <3>3 DEF OfferInv
  <2> QED BY <2>5, <2>6
<1>6. ASSUME NEW c \in Conns, NEW d \in Devices, Connect(c, d), registry[d] = None PROVE OfferInv'
  BY <1>2, <1>6 DEF Connect
<1>7. ASSUME NEW c \in Conns, NEW d \in MayRegister[c], RegisterCheck(c, d) PROVE OfferInv'
  BY <1>1, <1>2, <1>7 DEF RegisterCheck
<1>8. ASSUME NEW c \in Conns, RegisterCapacity(c) \/ Refuse(c) PROVE OfferInv'
  BY <1>1, <1>2, <1>8 DEF RegisterCapacity, Refuse
<1>9. ASSUME NEW c \in Conns, Open(c) \/ GoDown(c) \/ Forward(c) \/ Break(c) \/ Cleanup(c)
      PROVE  OfferInv'
  BY <1>1, <1>9 DEF Open, GoDown, Forward, Break, Cleanup
<1>10. ASSUME NEW t \in Tokens, Reap(t) PROVE OfferInv'
  BY <1>1, <1>10 DEF Reap
<1>11. CASE UNCHANGED vars
  BY <1>1, <1>11 DEF vars
<1> QED BY <1>3, <1>4, <1>5, <1>6, <1>7, <1>8, <1>9, <1>10, <1>11 DEF Next

\* There is no offer at first.
LEMMA OfferInit == Init => OfferInv
  BY DEF Init, OfferInv

\* The reference Connect holds keeps every writer of that entry out, so host
\* and viewer are told about one and the same registration.
THEOREM OffersStable == Spec => OfferedEntryStable
<1>1. TypeOK /\ HandlerInv /\ OfferInv /\ [Next]_vars =>
        [\A t \in 1 .. Len(offers) : (Pending(t) /\ Pending(t)')
            => registry'[offers[t].device] = registry[offers[t].device]]_vars
  <2> SUFFICES ASSUME TypeOK, HandlerInv, OfferInv, Next, registry' # registry,
                      NEW t \in 1 .. Len(offers), Pending(t)
               PROVE  registry'[offers[t].device] = registry[offers[t].device]
    OBVIOUS
  <2> DEFINE c == offers[t].viewer
             d == offers[t].device
  <2>0. c \in Conns /\ d \in Devices /\ guard[c] = d /\ d # None
    BY OfferType DEF OfferInv
  <2> HIDE DEF c, d
  <2>1. PICK o \in Conns : RegisterInsert(o) \/ Cleanup(o)
    BY RegistryWriters
  <2>2. CASE RegisterInsert(o)
    <3>1. /\ ShardOf[d] # ShardOf[reg_id[o]]
          /\ registry' = [registry EXCEPT ![reg_id[o]] = [tx |-> o, locked_pubkey |-> KeyOf[o]]]
      BY <2>0, <2>2 DEF RegisterInsert, ShardFree
    <3>2. d # reg_id[o]
      BY <3>1
    <3>3. registry'[d] = registry[d]
      BY <2>0, <3>1, <3>2 DEF TypeOK
    <3> QED BY <3>3 DEF d
  <2>3. CASE Cleanup(o)
    <3>1. /\ my_id[o] # None
          /\ ShardOf[d] # ShardOf[my_id[o]]
          /\ registry' = [registry EXCEPT ![my_id[o]] = None]
      BY <2>0, <2>3 DEF Cleanup, ShardFree
    <3>2. d # my_id[o]
      BY <3>1
    <3>3. registry'[d] = registry[d]
      BY <2>0, <3>1, <3>2 DEF TypeOK
    <3> QED BY <3>3 DEF d
  <2> QED BY <2>1, <2>2, <2>3
<1> QED BY <1>1, TypesHold, OfferInit, OfferStep, PTL DEF Spec, OfferedEntryStable

-----------------------------------------------------------------------------
\* Tasks between the check of the cap and their insert.
Inserting == {c \in Conns : pc[c] = "insert"}

\* What makes the overshoot inductive: each insert that is still to come has
\* its place in the bound.
RoomInv ==
  /\ IsFiniteSet(Registered)
  /\ Cardinality(Registered) + Cardinality(Inserting) <= max_devices + Cardinality(Conns) - 1

\* No more inserts are pending than there are connections.
LEMMA InsertingFinite ==
  /\ IsFiniteSet(Inserting) /\ Cardinality(Inserting) \in Nat
  /\ Cardinality(Inserting) <= Cardinality(Conns)
  /\ Cardinality(Conns) \in Nat \ {0}
<1>1. Inserting \subseteq Conns
  BY DEF Inserting
<1> QED BY <1>1, FS_Subset, FS_CardinalityType, FS_EmptySet

\* The same after a step.
LEMMA InsertingFinitePrimed ==
  /\ IsFiniteSet(Inserting') /\ Cardinality(Inserting') \in Nat
  /\ Cardinality(Inserting') <= Cardinality(Conns)
<1>1. Inserting' \subseteq Conns
  BY DEF Inserting
<1> QED BY <1>1, FS_Subset, FS_CardinalityType

\* A step that adds no entry and no pending insert.
LEMMA RoomKept ==
  ASSUME RoomInv, Registered' \subseteq Registered, Inserting' \subseteq Inserting
  PROVE  RoomInv'
<1>1. /\ IsFiniteSet(Registered')
      /\ Cardinality(Registered') <= Cardinality(Registered)
      /\ Cardinality(Registered') \in Nat /\ Cardinality(Registered) \in Nat
  BY FS_Subset, FS_CardinalityType DEF RoomInv
<1>2. Cardinality(Inserting') <= Cardinality(Inserting)
  BY InsertingFinite, FS_Subset
<1> QED BY <1>1, <1>2, InsertingFinite, InsertingFinitePrimed DEF RoomInv

\* One element more adds one at most.
LEMMA OneMore ==
  ASSUME NEW S, NEW x, IsFiniteSet(S)
  PROVE  /\ IsFiniteSet(S \cup {x})
         /\ Cardinality(S \cup {x}) <= Cardinality(S) + 1
         /\ Cardinality(S) \in Nat
<1>1. Cardinality(S) \in Nat
  BY FS_CardinalityType
<1>2. /\ IsFiniteSet(S \cup {x})
      /\ Cardinality(S \cup {x}) = IF x \in S THEN Cardinality(S) ELSE Cardinality(S) + 1
  BY FS_AddElement
<1> QED BY <1>1, <1>2

\* How far concurrent registrations can overshoot max_devices: the cap is
\* checked before the insert, so every connection may be between the two.
Overshoot == Cardinality(Registered) <= max_devices + Cardinality(Conns) - 1

\* max_devices is exceeded by at most one device per other connection, however
\* the checks and inserts of concurrent registrations interleave.
THEOREM OvershootBounded == Spec => []Overshoot
<1>1. Init => RoomInv
  <2> SUFFICES ASSUME Init PROVE RoomInv
    OBVIOUS
  <2>1. Registered = {} /\ Inserting = {}
    BY DEF Init, Registered, Inserting
  <2>2. Cardinality(Registered) = 0 /\ Cardinality(Inserting) = 0 /\ IsFiniteSet(Registered)
    BY <2>1, FS_EmptySet
  <2> QED BY <2>2, InsertingFinite DEF RoomInv
<1>2. TypeOK /\ HandlerInv /\ RoomInv /\ [Next]_vars => RoomInv'
  <2> SUFFICES ASSUME TypeOK, HandlerInv, RoomInv, [Next]_vars PROVE RoomInv'
    OBVIOUS
  <2>1. ASSUME NEW c \in Conns, RegisterCapacity(c) PROVE RoomInv'
    <3>1. Registered' = Registered
      BY <2>1 DEF RegisterCapacity, Registered
    <3>2. CASE Cardinality(Registered) >= max_devices
      <4>1. Inserting' \subseteq Inserting
        BY <2>1, <3>2 DEF RegisterCapacity, Answer, Inserting, TypeOK
      <4> QED BY <3>1, <4>1, RoomKept
    <3>3. CASE ~(Cardinality(Registered) >= max_devices)
      <4>1. Cardinality(Registered) \in Nat
        BY FS_CardinalityType DEF RoomInv
      <4> QED BY <3>1, <3>3, <4>1, InsertingFinite, InsertingFinitePrimed DEF RoomInv
    <3> QED BY <3>2, <3>3
  <2>2. ASSUME NEW c \in Conns, RegisterInsert(c) PROVE RoomInv'
    <3>1. /\ pc[c] = "insert" /\ pc' = [pc EXCEPT ![c] = "send"]
          /\ registry' = [registry EXCEPT ![reg_id[c]] = [tx |-> c, locked_pubkey |-> KeyOf[c]]]
          /\ reg_id[c] \in Devices
      BY <2>2 DEF RegisterInsert, Answer, HandlerInv
    <3>2. Registered' \subseteq Registered \cup {reg_id[c]}
      BY <3>1 DEF Registered, TypeOK
    <3>3. /\ IsFiniteSet(Registered \cup {reg_id[c]})
          /\ Cardinality(Registered \cup {reg_id[c]}) <= Cardinality(Registered) + 1
          /\ Cardinality(Registered) \in Nat
      BY OneMore DEF RoomInv
    <3>4. /\ IsFiniteSet(Registered')
          /\ Cardinality(Registered') <= Cardinality(Registered) + 1
          /\ Cardinality(Registered') \in Nat
      <4>1. /\ IsFiniteSet(Registered')
            /\ Cardinality(Registered') <= Cardinality(Registered \cup {reg_id[c]})
        BY <3>2, <3>3, FS_Subset
      <4>2. Cardinality(Registered') \in Nat /\ Cardinality(Registered \cup {reg_id[c]}) \in Nat
        BY <3>3, <4>1, FS_CardinalityType
      <4> QED BY <3>3, <4>1, <4>2
    <3>5. Inserting' = Inserting \ {c} /\ c \in Inserting
      BY <3>1 DEF Inserting, TypeOK
    <3>6. Cardinality(Inserting') = Cardinality(Inserting) - 1
      BY <3>5, InsertingFinite, FS_RemoveElement
    <3> QED BY <3>3, <3>4, <3>6, InsertingFinite DEF RoomInv
  <2>3. ASSUME NEW c \in Conns, Cleanup(c) PROVE RoomInv'
    <3>1. Registered' \subseteq Registered
      BY <2>3 DEF Cleanup, Registered, TypeOK
    <3>2. Inserting' \subseteq Inserting
      BY <2>3 DEF Cleanup, Inserting, TypeOK
    <3> QED BY <3>1, <3>2, RoomKept
  <2>4. ASSUME registry' = registry,
               \A c \in Conns : pc'[c] = "insert" => pc[c] = "insert"
        PROVE  RoomInv'
    <3>1. Registered' \subseteq Registered /\ Inserting' \subseteq Inserting
      BY <2>4 DEF Registered, Inserting
    <3> QED BY <3>1, RoomKept
  <2>5. ASSUME NEW c \in Conns,
               Open(c) \/ GoDown(c) \/ Forward(c) \/ Break(c) \/ Refuse(c) \/ DeliverNext(c)
        PROVE  RoomInv'
    BY <2>4, <2>5 DEF Open, GoDown, Forward, Break, Refuse, Answer, DeliverNext, TypeOK
  <2>6. ASSUME NEW c \in Conns, NEW d \in MayRegister[c], RegisterCheck(c, d) PROVE RoomInv'
    BY <2>4, <2>6 DEF RegisterCheck, Answer, TypeOK
  <2>7. ASSUME NEW c \in Conns, NEW d \in Devices, Connect(c, d) PROVE RoomInv'
    BY <2>4, <2>7 DEF Connect, Answer, TypeOK
  <2>8. ASSUME NEW t \in Tokens, Reap(t) PROVE RoomInv'
    BY <2>4, <2>8 DEF Reap
  <2>9. CASE UNCHANGED vars
    BY <2>4, <2>9 DEF vars
  <2> QED BY <2>1, <2>2, <2>3, <2>5, <2>6, <2>7, <2>8, <2>9 DEF Next
<1>3. RoomInv => Overshoot
  <2> SUFFICES ASSUME RoomInv PROVE Overshoot
    OBVIOUS
  <2>1. Cardinality(Registered) \in Nat
    BY FS_CardinalityType DEF RoomInv
  <2> QED BY <2>1, InsertingFinite DEF RoomInv, Overshoot
<1> QED BY <1>1, <1>2, <1>3, TypesHold, PTL DEF Spec

-----------------------------------------------------------------------------
\* Every client registers a single id, as SignalClient does.
OneId == \A c \in Conns : \A d, e \in MayRegister[c] : d = e

\* What makes the cleanup sufficient: an entry is the one its connection
\* remembers in my_id.
EntryInv ==
  /\ \A d \in Devices : registry[d] # None =>
       my_id[registry[d].tx] = d /\ pc[registry[d].tx] # "gone"
  /\ SoleRegistrationStays

\* Registration and cleanup keep an entry the one its connection remembers.
LEMMA EntryNext ==
  OneId /\ TypeOK /\ HandlerInv /\ EntryInv /\ [Next]_vars => EntryInv'
<1> SUFFICES ASSUME OneId, TypeOK, HandlerInv, EntryInv, [Next]_vars PROVE EntryInv'
  OBVIOUS
<1>0. ASSUME NEW d \in Devices, registry[d] # None PROVE registry[d] \in Entry /\ registry[d].tx \in Conns
  BY <1>0 DEF TypeOK, Entry
<1>1. ASSUME registry' = registry, my_id' = my_id,
             \A c \in Conns : pc'[c] = "gone" <=> pc[c] = "gone"
      PROVE  EntryInv'
  BY <1>0, <1>1 DEF EntryInv, SoleRegistrationStays
<1>2. ASSUME NEW c \in Conns, RegisterInsert(c) PROVE EntryInv'
  <2> DEFINE d == reg_id[c]
             e == [tx |-> c, locked_pubkey |-> KeyOf[c]]
  <2>1. /\ pc[c] = "insert" /\ pc' = [pc EXCEPT ![c] = "send"]
        /\ my_id' = [my_id EXCEPT ![c] = d]
        /\ registry' = [registry EXCEPT ![d] = e]
        /\ d \in MayRegister[c] /\ d \in Devices
    BY <1>2 DEF RegisterInsert, Answer, HandlerInv
  <2>2. e # None /\ e.tx = c
    BY DEF Entry
  <2>3. my_id[c] \in {None, d}
    BY <2>1 DEF HandlerInv, OneId
  <2>4. registry'[d] = e /\ \A x \in Devices \ {d} : registry'[x] = registry[x]
    BY <2>1 DEF TypeOK
  <2>5. my_id'[c] = d /\ \A x \in Conns \ {c} : my_id'[x] = my_id[x] /\ pc'[x] = pc[x]
    BY <2>1 DEF TypeOK
  <2>6. pc'[c] = "send"
    BY <2>1 DEF TypeOK
  <2> HIDE DEF d, e
  <2>7. ASSUME NEW x \in Devices, registry'[x] # None
        PROVE  my_id'[registry'[x].tx] = x /\ pc'[registry'[x].tx] # "gone"
    <3>1. CASE x = d
      BY <2>2, <2>4, <2>5, <2>6, <3>1
    <3>2. CASE x # d
      <4>1. registry[x] # None /\ my_id[registry[x].tx] = x /\ pc[registry[x].tx] # "gone"
        BY <2>4, <2>7, <3>2 DEF EntryInv
      <4>2. registry[x].tx \in Conns \ {c}
        BY <1>0, <2>3, <3>2, <4>1
      <4> QED BY <2>4, <2>5, <3>2, <4>1, <4>2
    <3> QED BY <3>1, <3>2
  <2>8. ASSUME NEW x \in Conns, my_id'[x] # None, pc'[x] # "gone",
               \A o \in Conns \ {x} : my_id'[o] # my_id'[x]
        PROVE  registry'[my_id'[x]] # None /\ registry'[my_id'[x]].tx = x
    <3>1. CASE x = c
      BY <2>2, <2>4, <2>5, <3>1
    <3>2. CASE x # c
      <4>1. my_id'[x] = my_id[x] /\ pc'[x] = pc[x] /\ my_id[x] # d /\ my_id[x] \in Devices
        BY <2>5, <2>8, <3>2 DEF TypeOK
      <4>2. \A o \in Conns \ {x} : my_id[o] # my_id[x]
        BY <2>3, <2>5, <2>8, <4>1
      <4>3. registry[my_id[x]] # None /\ registry[my_id[x]].tx = x
        BY <2>8, <4>1, <4>2 DEF EntryInv, SoleRegistrationStays
      <4> QED BY <2>4, <4>1, <4>3
    <3> QED BY <3>1, <3>2
  <2> QED BY <2>7, <2>8 DEF EntryInv, SoleRegistrationStays
<1>3. ASSUME NEW c \in Conns, Cleanup(c) PROVE EntryInv'
  <2>1. /\ my_id' = my_id /\ pc' = [pc EXCEPT ![c] = "gone"]
        /\ registry' = IF my_id[c] = None THEN registry ELSE [registry EXCEPT ![my_id[c]] = None]
    BY <1>3 DEF Cleanup
  <2>2. \A x \in Devices : registry'[x] = IF x = my_id[c] THEN None ELSE registry[x]
    BY <2>1 DEF TypeOK
  <2>3. ASSUME NEW x \in Devices, registry'[x] # None
        PROVE  my_id'[registry'[x].tx] = x /\ pc'[registry'[x].tx] # "gone"
    <3>1. x # my_id[c] /\ registry'[x] = registry[x]
      BY <2>2, <2>3
    <3>2. my_id[registry[x].tx] = x /\ pc[registry[x].tx] # "gone" /\ registry[x].tx \in Conns
      BY <1>0, <2>3, <3>1 DEF EntryInv
    <3> QED BY <2>1, <3>1, <3>2 DEF TypeOK
  <2>4. ASSUME NEW x \in Conns, my_id'[x] # None, pc'[x] # "gone",
               \A o \in Conns \ {x} : my_id'[o] # my_id'[x]
        PROVE  registry'[my_id'[x]] # None /\ registry'[my_id'[x]].tx = x
    <3>1. x # c /\ pc[x] # "gone" /\ my_id[x] \in Devices /\ my_id[c] # my_id[x]
      BY <2>1, <2>4 DEF TypeOK
    <3>2. registry[my_id[x]] # None /\ registry[my_id[x]].tx = x
      BY <2>1, <2>4, <3>1 DEF EntryInv, SoleRegistrationStays
    <3> QED BY <2>1, <2>2, <3>1, <3>2
  <2> QED BY <2>3, <2>4 DEF EntryInv, SoleRegistrationStays
<1>4. ASSUME NEW c \in Conns,
             Open(c) \/ GoDown(c) \/ Forward(c) \/ Break(c) \/ Refuse(c) \/ RegisterCapacity(c)
               \/ DeliverNext(c)
      PROVE  EntryInv'
  BY SMTT(30), <1>1, <1>4 DEF Open, GoDown, Forward, Break, Refuse, Receive, RegisterCapacity, Answer,
     DeliverNext, TypeOK
<1>5. ASSUME NEW c \in Conns, NEW d \in MayRegister[c], RegisterCheck(c, d) PROVE EntryInv'
  BY <1>1, <1>5 DEF RegisterCheck, Receive, Answer, TypeOK
<1>6. ASSUME NEW c \in Conns, NEW d \in Devices, Connect(c, d) PROVE EntryInv'
  BY <1>1, <1>6 DEF Connect, Receive, Answer, TypeOK
<1>7. ASSUME NEW t \in Tokens, Reap(t) PROVE EntryInv'
  BY <1>1, <1>7 DEF Reap
<1>8. CASE UNCHANGED vars
  BY <1>1, <1>8 DEF vars
<1> QED BY <1>2, <1>3, <1>4, <1>5, <1>6, <1>7, <1>8 DEF Next

\* So it is at every moment.
LEMMA EntryHolds == OneId /\ Spec => []EntryInv
<1>1. Init => EntryInv
  BY DEF Init, EntryInv, SoleRegistrationStays
<1>2. CASE OneId
  <2>1. TypeOK /\ HandlerInv /\ EntryInv /\ [Next]_vars => EntryInv'
    BY <1>2, EntryNext
  <2> QED BY <1>1, <2>1, TypesHold, PTL DEF Spec
<1> QED BY <1>2

\* With clients that register one id each, no task that has returned leaves
\* an entry behind, in whatever order old and new connections of a device
\* register and clean up.
THEOREM NothingDangles == OneId /\ Spec => []NoDanglingEntry
<1>1. EntryInv => NoDanglingEntry
  BY DEF EntryInv, NoDanglingEntry, Registered
<1> QED BY <1>1, EntryHolds, PTL

\* With clients that register one id each, a device that only one connection
\* ever registered is reachable there until that connection is cleaned up.
THEOREM SoleRegistrationKept == OneId /\ Spec => []SoleRegistrationStays
<1>1. EntryInv => SoleRegistrationStays
  BY DEF EntryInv
<1> QED BY <1>1, EntryHolds, PTL
=============================================================================

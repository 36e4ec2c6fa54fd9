------------------------------ MODULE Rendezvous ------------------------------
(***************************************************************************)
(* The rendezvous half of the signal server                                *)
(* (crates/miru-signal/src/main.rs): one task per WebSocket connection, a  *)
(* registry of devices in a sharded concurrent map, and a bounded channel  *)
(* per connection through which any task sends it messages.                *)
(*                                                                         *)
(* Tasks run on several threads, so a handler is interleaved with the      *)
(* others at every await and between any two uses of the shared map.  A    *)
(* message send waits while the channel is full; a map write waits while a *)
(* task holds a reference into the same shard.                             *)
(***************************************************************************)
EXTENDS Integers, Sequences, FiniteSets

CONSTANTS
  Conns,             \* WebSocket connections, in the order nobody controls
  Devices,           \* device ids
  Keys,              \* identity public keys
  None,              \* "no device", "no key", "no entry"
  MayRegister,       \* MayRegister[c]: the device ids the client on c registers
  KeyOf,             \* KeyOf[c]: the key it signs with, None for a legacy client
  ShardOf,           \* ShardOf[d]: the map shard device d falls into
  QUEUE,             \* capacity of a connection's channel (32)
  max_devices,
  require_signed_register,
  MaxRequests,       \* bound: MaxRequests[c], the requests c's client sends
  MaxTokens          \* bound: relay tokens issued

ASSUME RendezvousAssumption ==
  /\ IsFiniteSet(Conns) /\ Conns # {}
  /\ MayRegister \in [Conns -> SUBSET Devices]
  /\ KeyOf \in [Conns -> Keys \cup {None}]
  /\ QUEUE \in Nat \ {0} /\ max_devices \in Nat /\ MaxTokens \in Nat
  /\ MaxRequests \in [Conns -> Nat]
  /\ require_signed_register \in BOOLEAN
  /\ None \notin Devices /\ None \notin Keys

VARIABLES
  pc,              \* where the task of a connection is
  link,            \* "up", or "down": closed, wedged or lost
  requests,        \* requests handled so far on a connection
  out,             \* the connection's channel
  sends,           \* the sends the running handler still has to make
  reg_id,          \* the id of the Register being handled
  my_id,           \* the id this connection registered
  guard,           \* the device whose entry the handler holds a reference to
  registry,        \* device -> its DeviceEntry or None
  acked,           \* connections whose client received a RegisterAck
  relay_sessions,  \* tokens with a relay slot
  offers           \* offers[t]: the device, host and viewer token t was made for

vars == <<pc, link, requests, out, sends, reg_id, my_id, guard, registry, acked,
          relay_sessions, offers>>

Tokens == 1..MaxTokens
Entry == [tx : Conns, locked_pubkey : Keys \cup {None}]
Msg == [type : {"Error", "RegisterAck", "ConnectAck"}] \cup [type : {"Relay"}, token : Tokens]
Send == [to : Conns, msg : Msg]
Offer == [device : Devices, host : Conns, viewer : Conns]

ASSUME NoneAssumption == None \notin Entry

Error == [type |-> "Error"]
Relay(t) == [type |-> "Relay", token |-> t]

Registered == {d \in Devices : registry[d] # None}

\* A writer of device d's shard waits for every reference into that shard.
ShardFree(d) == \A c \in Conns : guard[c] # None => ShardOf[guard[c]] # ShardOf[d]

-----------------------------------------------------------------------------
Init ==
  /\ pc = [c \in Conns |-> "unopened"]
  /\ link = [c \in Conns |-> "up"]
  /\ requests = [c \in Conns |-> 0]
  /\ out = [c \in Conns |-> <<>>]
  /\ sends = [c \in Conns |-> <<>>]
  /\ reg_id = [c \in Conns |-> None]
  /\ my_id = [c \in Conns |-> None]
  /\ guard = [c \in Conns |-> None]
  /\ registry = [d \in Devices |-> None]
  /\ acked = {}
  /\ relay_sessions = {}
  /\ offers = <<>>

\* rendezvous_session starts.
Open(c) ==
  /\ pc[c] = "unopened"
  /\ pc' = [pc EXCEPT ![c] = "select"]
  /\ UNCHANGED <<link, requests, out, sends, reg_id, my_id, guard, registry, acked,
                 relay_sessions, offers>>

\* The client closes, stops reading or loses its network.
GoDown(c) ==
  /\ pc[c] # "unopened" /\ link[c] = "up"
  /\ link' = [link EXCEPT ![c] = "down"]
  /\ UNCHANGED <<pc, requests, out, sends, reg_id, my_id, guard, registry, acked,
                 relay_sessions, offers>>

\* select!: a message of the channel is written to the socket.  A socket that
\* is down may still buffer it.
Forward(c) ==
  /\ pc[c] = "select" /\ out[c] # <<>>
  /\ out' = [out EXCEPT ![c] = Tail(@)]
  /\ acked' = IF link[c] = "up" /\ Head(out[c]).type = "RegisterAck"
                THEN acked \cup {c} ELSE acked
  /\ UNCHANGED <<pc, link, requests, sends, reg_id, my_id, guard, registry,
                 relay_sessions, offers>>

\* Mutant: a registered client that stops answering is not found out.
BreakUnregistered(c) ==
  /\ pc[c] = "select" /\ link[c] = "down" /\ my_id[c] = None
  /\ pc' = [pc EXCEPT ![c] = "cleanup"]
  /\ UNCHANGED <<link, requests, out, sends, reg_id, my_id, guard, registry, acked,
                 relay_sessions, offers>>

\* select!: the receive fails, or a write or keepalive ping is not done within
\* SEND_TIMEOUT; the loop breaks.
Break(c) ==
  /\ pc[c] = "select" /\ link[c] = "down"
  /\ pc' = [pc EXCEPT ![c] = "cleanup"]
  /\ UNCHANGED <<link, requests, out, sends, reg_id, my_id, guard, registry, acked,
                 relay_sessions, offers>>

\* select!: a request is read and its handler starts.
Receive(c) ==
  /\ pc[c] = "select" /\ requests[c] < MaxRequests[c]
  /\ requests' = [requests EXCEPT ![c] = @ + 1]

\* The handler's remaining work is to send ms and to return.
Answer(c, ms) ==
  /\ pc' = [pc EXCEPT ![c] = "send"]
  /\ sends' = [sends EXCEPT ![c] = ms]

\* A Register or Connect over the rate limit, with an oversized field or with
\* a bad signature.
Refuse(c) ==
  /\ Receive(c)
  /\ Answer(c, <<[to |-> c, msg |-> Error]>>)
  /\ UNCHANGED <<link, out, reg_id, my_id, guard, registry, acked, relay_sessions, offers>>

\* May c overwrite what is registered for device d now?
LockAdmits(c, d) ==
  registry[d] # None =>
    (registry[d].locked_pubkey # None => KeyOf[c] = registry[d].locked_pubkey)

\* Register of d, up to the end of the identity-lock check.
RegisterCheck(c, d) ==
  /\ Receive(c)
  /\ IF (require_signed_register /\ KeyOf[c] = None) \/ ~LockAdmits(c, d)
       THEN /\ Answer(c, <<[to |-> c, msg |-> Error]>>)
            /\ UNCHANGED reg_id
       ELSE /\ pc' = [pc EXCEPT ![c] = "capacity"]
            /\ reg_id' = [reg_id EXCEPT ![c] = d]
            /\ UNCHANGED sends
  /\ UNCHANGED <<link, out, my_id, guard, registry, acked, relay_sessions, offers>>

\* Register: the registry cap, for new and for known devices alike.
RegisterCapacity(c) ==
  /\ pc[c] = "capacity"
  /\ IF Cardinality(Registered) >= max_devices
       THEN Answer(c, <<[to |-> c, msg |-> Error]>>)
       ELSE pc' = [pc EXCEPT ![c] = "insert"] /\ UNCHANGED sends
  /\ UNCHANGED <<link, requests, out, reg_id, my_id, guard, registry, acked,
                 relay_sessions, offers>>

\* Register: the id is taken over and the entry inserted.
RegisterInsert(c) ==
  /\ pc[c] = "insert" /\ ShardFree(reg_id[c])
  /\ my_id' = [my_id EXCEPT ![c] = reg_id[c]]
  /\ registry' = [registry EXCEPT ![reg_id[c]] = [tx |-> c, locked_pubkey |-> KeyOf[c]]]
  /\ Answer(c, <<[to |-> c, msg |-> [type |-> "RegisterAck"]]>>)
  /\ UNCHANGED <<link, requests, out, reg_id, guard, acked, relay_sessions, offers>>

\* The host is told of the new token before the viewer is.
ConnectSends(c, host, t) ==
  << [to |-> host, msg |-> Relay(t)],
     [to |-> c, msg |-> [type |-> "ConnectAck"]],
     [to |-> c, msg |-> Relay(t)] >>

\* Mutant: the reference is dropped before the peers are told.
ConnectDropsRef(c, d) ==
  /\ Receive(c)
  /\ IF registry[d] = None
       THEN /\ Answer(c, <<[to |-> c, msg |-> Error]>>)
            /\ UNCHANGED <<relay_sessions, offers>>
       ELSE LET t == Len(offers) + 1
            IN  /\ t \in Tokens
                /\ relay_sessions' = relay_sessions \cup {t}
                /\ offers' = Append(offers, [device |-> d, host |-> registry[d].tx, viewer |-> c])
                /\ Answer(c, ConnectSends(c, registry[d].tx, t))
  /\ UNCHANGED <<link, out, reg_id, my_id, guard, registry, acked>>

\* Connect to d: an unknown device is an error; otherwise a token and its slot
\* are made, and the reference to d's entry is held until the handler returns.
Connect(c, d) ==
  /\ Receive(c)
  /\ IF registry[d] = None
       THEN /\ Answer(c, <<[to |-> c, msg |-> Error]>>)
            /\ UNCHANGED <<guard, relay_sessions, offers>>
       ELSE LET t == Len(offers) + 1
            IN  /\ t \in Tokens
                /\ guard' = [guard EXCEPT ![c] = d]
                /\ relay_sessions' = relay_sessions \cup {t}
                /\ offers' = Append(offers, [device |-> d, host |-> registry[d].tx, viewer |-> c])
                /\ Answer(c, ConnectSends(c, registry[d].tx, t))
  /\ UNCHANGED <<link, out, reg_id, my_id, registry, acked>>

\* tx.send().await: waits for room in the channel, or finds it closed because
\* the receiving task has returned.  The handler returns after its last send.
DeliverNext(c) ==
  /\ pc[c] = "send"
  /\ LET h == Head(sends[c]).to
     IN  \/ pc[h] = "gone" /\ UNCHANGED out
         \/ /\ pc[h] # "gone" /\ Len(out[h]) < QUEUE
            /\ out' = [out EXCEPT ![h] = Append(@, Head(sends[c]).msg)]
  /\ sends' = [sends EXCEPT ![c] = Tail(@)]
  /\ IF Len(sends[c]) = 1
       THEN pc' = [pc EXCEPT ![c] = "select"] /\ guard' = [guard EXCEPT ![c] = None]
       ELSE UNCHANGED <<pc, guard>>
  /\ UNCHANGED <<link, requests, reg_id, my_id, registry, acked, relay_sessions, offers>>

\* Mutant: the id asked for last is removed, registered or not.
CleanupRequestedId(c) ==
  /\ pc[c] = "cleanup"
  /\ reg_id[c] # None => ShardFree(reg_id[c])
  /\ registry' = IF reg_id[c] = None THEN registry ELSE [registry EXCEPT ![reg_id[c]] = None]
  /\ pc' = [pc EXCEPT ![c] = "gone"]
  /\ out' = [out EXCEPT ![c] = <<>>]
  /\ UNCHANGED <<link, requests, sends, reg_id, my_id, guard, acked, relay_sessions, offers>>

\* After the loop: whatever is registered under my_id is removed, and the
\* task returns, which closes its channel.
Cleanup(c) ==
  /\ pc[c] = "cleanup"
  /\ my_id[c] # None => ShardFree(my_id[c])
  /\ registry' = IF my_id[c] = None THEN registry ELSE [registry EXCEPT ![my_id[c]] = None]
  /\ pc' = [pc EXCEPT ![c] = "gone"]
  /\ out' = [out EXCEPT ![c] = <<>>]
  /\ UNCHANGED <<link, requests, sends, reg_id, my_id, guard, acked, relay_sessions, offers>>

\* The reaper of an unclaimed slot, UNCLAIMED_SLOT_TTL after it was made.
Reap(t) ==
  /\ t \in relay_sessions
  /\ relay_sessions' = relay_sessions \ {t}
  /\ UNCHANGED <<pc, link, requests, out, sends, reg_id, my_id, guard, registry, acked, offers>>

-----------------------------------------------------------------------------
Next ==
  \/ \E c \in Conns : \/ Open(c) \/ GoDown(c)
                      \/ Forward(c) \/ Break(c) \/ RegisterCapacity(c)
                      \/ RegisterInsert(c) \/ DeliverNext(c) \/ Cleanup(c)
                      \/ Refuse(c)
                      \/ \E d \in MayRegister[c] : RegisterCheck(c, d)
                      \/ \E d \in Devices : Connect(c, d)
  \/ \E t \in Tokens : Reap(t)

Spec == Init /\ [][Next]_vars

\* The runtime polls every ready task: a receive failure, a free channel slot
\* or a free lock is eventually acted upon.  Clients owe nothing.
FairSpec ==
  /\ Spec
  /\ \A c \in Conns : /\ WF_vars(Forward(c)) /\ WF_vars(Break(c))
                      /\ WF_vars(RegisterCapacity(c)) /\ WF_vars(RegisterInsert(c))
                      /\ WF_vars(DeliverNext(c)) /\ WF_vars(Cleanup(c))

-----------------------------------------------------------------------------
\* The ranges of the variables; a channel never holds more than its capacity.
TypeOK ==
  /\ pc \in [Conns -> {"unopened", "select", "capacity", "insert", "send", "cleanup", "gone"}]
  /\ link \in [Conns -> {"up", "down"}]
  /\ requests \in [Conns -> Nat]
  /\ out \in [Conns -> Seq(Msg)] /\ \A c \in Conns : Len(out[c]) <= QUEUE
  /\ sends \in [Conns -> Seq(Send)]
  /\ reg_id \in [Conns -> Devices \cup {None}]
  /\ my_id \in [Conns -> Devices \cup {None}]
  /\ guard \in [Conns -> Devices \cup {None}]
  /\ registry \in [Devices -> Entry \cup {None}]
  /\ acked \subseteq Conns
  /\ relay_sessions \subseteq Tokens
  /\ offers \in Seq(Offer)

\* A device whose connection task has returned is never left in the registry,
\* whatever the order of registrations and cleanups: a Connect is not sent to
\* a dead channel for ever.
NoDanglingEntry == \A d \in Registered : pc[registry[d].tx] # "gone"

\* A device that is registered from one connection only stays reachable there
\* until that connection is cleaned up, also across refused and repeated
\* registrations.
SoleRegistrationStays ==
  \A c \in Conns :
    (/\ my_id[c] # None /\ pc[c] # "gone"
     /\ \A o \in Conns \ {c} : my_id[o] # my_id[c])
    => registry[my_id[c]] # None /\ registry[my_id[c]].tx = c

\* The Connect handler of token t still has to tell one of the two peers.
Pending(t) ==
  LET ms == sends[offers[t].viewer] IN \E i \in 1..Len(ms) : ms[i].msg = Relay(t)

\* The registration Connect looked up stays as it was until both peers were
\* told about the token: the host that is told is the one that is registered.
OfferedEntryStable ==
  [][\A t \in 1..Len(offers) : (Pending(t) /\ Pending(t)')
        => registry'[offers[t].device] = registry[offers[t].device]]_vars

\* The tasks that have to move before c's can: the reader of the full channel
\* it sends to, which may be itself, or the holders of references into the map
\* shard it writes to.
WaitsOn(c) ==
  CASE pc[c] = "send" ->
         {h \in {Head(sends[c]).to} : pc[h] # "gone" /\ Len(out[h]) = QUEUE}
    [] pc[c] = "insert" ->
         {o \in Conns : guard[o] # None /\ ShardOf[guard[o]] = ShardOf[reg_id[c]]}
    [] pc[c] = "cleanup" /\ my_id[c] # None ->
         {o \in Conns : guard[o] # None /\ ShardOf[guard[o]] = ShardOf[my_id[c]]}
    [] OTHER -> {}

\* c's task is one of a set in which everyone waits for a member of the set:
\* none of them moves again, as no wait has a timeout.
Deadlocked(c) ==
  \E D \in SUBSET Conns : c \in D /\ \A x \in D : WaitsOn(x) \cap D # {}

\* The task of a connection that is down ends and removes its entry, although
\* it needs a map shard that handlers hold across their awaits.  The one thing
\* that prevents it is a deadlock on a full channel: SEND_TIMEOUT covers the
\* socket writes and neither the channel sends nor the map.
DownEndsOrDeadlocks ==
  \A c \in Conns : (link[c] = "down") ~> (pc[c] = "gone" \/ Deadlocked(c))

-----------------------------------------------------------------------------
(* What the code and its documents say and the interleavings refute.       *)

\* "Without this [SEND_TIMEOUT], a client that fills its receive buffer and
\* never drains it can stall a session task - and its registry/relay-slot
\* cleanup - indefinitely": so with it, no such client can.
CleanupNeverStalls == \A c \in Conns : (link[c] = "down") ~> (pc[c] = "gone")

\* The host "stays alive through transient signal-server outages"
\* (CHANGELOG): a client that was told it is registered and is still
\* connected can be reached under its id.
AckedIsReachable ==
  \A c \in acked : (link[c] = "up" /\ pc[c] = "select") => registry[my_id[c]] # None
=============================================================================

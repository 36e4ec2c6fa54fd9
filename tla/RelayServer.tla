----------------------------- MODULE RelayServer -----------------------------
(***************************************************************************)
(* The relay half of the signal server (relay_session in                   *)
(* crates/miru-signal/src/main.rs): a host and a viewer that hold the same *)
(* token each open a WebSocket; the first waits for the second in the      *)
(* token's slot, then each task copies its socket into the other's bounded *)
(* channel and its own channel into its socket.                            *)
(*                                                                         *)
(* A client numbers the binary frames it sends 1, 2, 3, ...                *)
(***************************************************************************)
EXTENDS Integers, Sequences, FiniteSets

CONSTANTS
  Conns,               \* relay WebSocket connections
  Tokens,              \* relay tokens
  TokenOf, RoleOf,     \* the query each connection was opened with
  None,
  FWD,                 \* capacity of a forwarding channel (256)
  max_relay_sessions,
  MaxFrames            \* bound: MaxFrames[c], the frames client c sends

ASSUME RelayAssumption ==
  /\ IsFiniteSet(Conns)
  /\ TokenOf \in [Conns -> Tokens]
  /\ RoleOf \in [Conns -> {"host", "viewer"}]
  /\ FWD \in Nat \ {0} /\ max_relay_sessions \in Nat
  /\ MaxFrames \in [Conns -> Nat]
  /\ None \notin Conns

VARIABLES
  pc,        \* where the task of a connection is
  link,      \* "open", or "closed" by its client
  sent,      \* frames its client has sent
  read,      \* frames the task has taken from the socket
  waited,    \* connections that found no peer when they joined
  peer_tx,   \* the connection whose channel the task forwards into
  fwd_rx,       \* the task's channel: frames on their way to its client
  got,       \* frames its client received
  relay_sessions,  \* token -> RelaySlot, or None
  issued     \* tokens that were made

relayServerVars == <<pc, link, sent, read, waited, peer_tx, fwd_rx, got, relay_sessions, issued>>
clients == <<link, sent, got>>

Roles == {"host", "viewer"}

\* Mutant: a side is paired with whoever is entered under its own role.
OtherRoleSame(r) == r

\* The side a role is paired with.
OtherRole(r) == IF r = "host" THEN "viewer" ELSE "host"
RelayFrame == [from : Conns, n : Nat]
Slot == [Roles -> Conns \cup {None}]

SlotOf(c) == relay_sessions[TokenOf[c]]
Open(t) == relay_sessions[t] # None

-----------------------------------------------------------------------------
RelayInit ==
  /\ pc = [c \in Conns |-> "unopened"]
  /\ link = [c \in Conns |-> "open"]
  /\ sent = [c \in Conns |-> 0]
  /\ read = [c \in Conns |-> 0]
  /\ waited = {}
  /\ peer_tx = [c \in Conns |-> None]
  /\ fwd_rx = [c \in Conns |-> <<>>]
  /\ got = [c \in Conns |-> <<>>]
  /\ relay_sessions = [t \in Tokens |-> None]
  /\ issued = {}

\* Connect on the rendezvous side makes a slot under a new random token; it
\* does not look at max_relay_sessions.
Issue(t) ==
  /\ t \notin issued
  /\ issued' = issued \cup {t}
  /\ relay_sessions' = [relay_sessions EXCEPT ![t] = [r \in Roles |-> None]]
  /\ UNCHANGED <<pc, clients, read, waited, peer_tx, fwd_rx>>

\* A slot whose token nobody used.
Unclaimed(t) == Open(t) /\ \A r \in Roles : relay_sessions[t][r] = None

\* The reaper, UNCLAIMED_SLOT_TTL after the slot was made.
Reap(t) ==
  /\ Unclaimed(t)
  /\ relay_sessions' = [relay_sessions EXCEPT ![t] = None]
  /\ UNCHANGED <<pc, clients, read, waited, peer_tx, fwd_rx, issued>>

\* The client sends a frame, or closes its socket.
ClientSend(c) ==
  /\ pc[c] \notin {"unopened", "done"} /\ link[c] = "open" /\ sent[c] < MaxFrames[c]
  /\ sent' = [sent EXCEPT ![c] = @ + 1]
  /\ UNCHANGED <<pc, link, read, waited, peer_tx, fwd_rx, got, relay_sessions, issued>>

ClientClose(c) ==
  /\ pc[c] # "unopened" /\ link[c] = "open"
  /\ link' = [link EXCEPT ![c] = "closed"]
  /\ UNCHANGED <<pc, sent, read, waited, peer_tx, fwd_rx, got, relay_sessions, issued>>

-----------------------------------------------------------------------------
\* relay_session, first look at the map: an unknown token is turned away when
\* the relay is at capacity.  Clients only come with tokens they were given.
Arrive(c) ==
  /\ pc[c] = "unopened" /\ TokenOf[c] \in issued
  /\ pc' = [pc EXCEPT ![c] =
       IF SlotOf(c) = None /\ Cardinality({t \in Tokens : Open(t)}) >= max_relay_sessions
         THEN "done" ELSE "joining"]
  /\ UNCHANGED <<clients, read, waited, peer_tx, fwd_rx, relay_sessions, issued>>

\* get_mut: the token is unknown by now, or this side is entered in the slot
\* and the other side, if it is there, becomes the peer.
JoinSlot(c) ==
  /\ pc[c] = "joining"
  /\ IF SlotOf(c) = None
       THEN /\ pc' = [pc EXCEPT ![c] = "done"]
            /\ UNCHANGED <<waited, peer_tx, relay_sessions>>
       ELSE LET p == SlotOf(c)[OtherRole(RoleOf[c])]
            IN  /\ relay_sessions' = [relay_sessions EXCEPT ![TokenOf[c]][RoleOf[c]] = c]
                /\ peer_tx' = [peer_tx EXCEPT ![c] = p]
                /\ waited' = IF p = None THEN waited \cup {c} ELSE waited
                /\ pc' = [pc EXCEPT ![c] = IF p = None THEN "wait" ELSE "forward"]
  /\ UNCHANGED <<clients, read, fwd_rx, issued>>

\* Mutant: the slot is left behind.
ReturnLeavesSlot(c) ==
  /\ pc' = [pc EXCEPT ![c] = "done"]
  /\ fwd_rx' = [fwd_rx EXCEPT ![c] = <<>>]
  /\ UNCHANGED <<clients, waited, peer_tx, relay_sessions, issued>>

\* The task removes its slot, whatever is in it, and returns; its channel is
\* closed and its socket dropped.
Return(c) ==
  /\ relay_sessions' = [relay_sessions EXCEPT ![TokenOf[c]] = None]
  /\ pc' = [pc EXCEPT ![c] = "done"]
  /\ fwd_rx' = [fwd_rx EXCEPT ![c] = <<>>]
  /\ UNCHANGED <<clients, waited, peer_tx, issued>>

\* Waiting: the 30 s deadline.
WaitDeadline(c) ==
  /\ pc[c] = "wait"
  /\ Return(c)
  /\ UNCHANGED read

\* Waiting: the socket ends.
WaitClosed(c) ==
  /\ pc[c] = "wait" /\ link[c] = "closed" /\ read[c] = sent[c]
  /\ Return(c)
  /\ UNCHANGED read

\* Waiting: "Ignore any data frames during the wait phase".
WaitFrame(c) ==
  /\ pc[c] = "wait" /\ read[c] < sent[c]
  /\ read' = [read EXCEPT ![c] = @ + 1]
  /\ UNCHANGED <<pc, clients, waited, peer_tx, fwd_rx, relay_sessions, issued>>

\* Waiting: the 100 ms poll finds the other side in the slot.
WaitPoll(c) ==
  /\ pc[c] = "wait" /\ SlotOf(c) # None
  /\ SlotOf(c)[OtherRole(RoleOf[c])] # None
  /\ peer_tx' = [peer_tx EXCEPT ![c] = SlotOf(c)[OtherRole(RoleOf[c])]]
  /\ pc' = [pc EXCEPT ![c] = "forward"]
  /\ UNCHANGED <<clients, read, waited, fwd_rx, relay_sessions, issued>>

-----------------------------------------------------------------------------
\* Forwarding: the task takes the next frame of its socket, and from then on
\* only waits for room in the peer's channel.
ForwardRead(c) ==
  /\ pc[c] = "forward" /\ read[c] < sent[c]
  /\ read' = [read EXCEPT ![c] = @ + 1]
  /\ pc' = [pc EXCEPT ![c] = "sending"]
  /\ UNCHANGED <<clients, waited, peer_tx, fwd_rx, relay_sessions, issued>>

\* Mutant: a frame that cannot be sent is dropped and the loop goes on.
SendBreaksIgnored(c) ==
  /\ pc[c] = "sending"
  /\ pc' = [pc EXCEPT ![c] = "forward"]
  /\ UNCHANGED <<clients, read, waited, peer_tx, fwd_rx, relay_sessions, issued>>

\* The frame goes into the peer's channel.
ForwardSend(c) ==
  /\ pc[c] = "sending"
  /\ pc[peer_tx[c]] # "done" /\ Len(fwd_rx[peer_tx[c]]) < FWD
  /\ fwd_rx' = [fwd_rx EXCEPT ![peer_tx[c]] = Append(@, [from |-> c, n |-> read[c]])]
  /\ pc' = [pc EXCEPT ![c] = "forward"]
  /\ UNCHANGED <<clients, read, waited, peer_tx, relay_sessions, issued>>

\* The peer's channel is closed, it stays full for SEND_TIMEOUT, or the frame
\* is oversized: the loop breaks.
SendBreaks(c) ==
  /\ pc[c] = "sending"
  /\ Return(c)
  /\ UNCHANGED read

\* Forwarding: the socket ends.
ForwardClosed(c) ==
  /\ pc[c] = "forward" /\ link[c] = "closed" /\ read[c] = sent[c]
  /\ Return(c)
  /\ UNCHANGED read

\* Forwarding: a frame of the task's channel is written to its socket.
Write(c) ==
  /\ pc[c] = "forward" /\ fwd_rx[c] # <<>> /\ link[c] = "open"
  /\ got' = [got EXCEPT ![c] = Append(@, Head(fwd_rx[c]))]
  /\ fwd_rx' = [fwd_rx EXCEPT ![c] = Tail(@)]
  /\ UNCHANGED <<pc, link, sent, read, waited, peer_tx, relay_sessions, issued>>

\* Forwarding: the write fails or takes longer than SEND_TIMEOUT.
WriteBreaks(c) ==
  /\ pc[c] = "forward" /\ fwd_rx[c] # <<>>
  /\ Return(c)
  /\ UNCHANGED read

\* The arm for a closed channel (`None => break`) cannot be taken: the task
\* itself keeps a sender of its channel until it returns.

RelayNext ==
  \/ \E t \in Tokens : Issue(t) \/ Reap(t)
  \/ \E c \in Conns :
       \/ ClientSend(c) \/ ClientClose(c) \/ Arrive(c) \/ JoinSlot(c)
       \/ WaitDeadline(c) \/ WaitClosed(c) \/ WaitFrame(c) \/ WaitPoll(c)
       \/ ForwardRead(c) \/ ForwardSend(c) \/ SendBreaks(c)
       \/ ForwardClosed(c) \/ Write(c) \/ WriteBreaks(c)

RelaySpec == RelayInit /\ [][RelayNext]_relayServerVars

\* What the runtime owes: timers fire, ready tasks are polled, a send is done
\* or given up within SEND_TIMEOUT.  Clients owe nothing.
RelayFairSpec ==
  /\ RelaySpec
  /\ \A t \in Tokens : WF_relayServerVars(Reap(t))
  /\ \A c \in Conns :
       /\ WF_relayServerVars(JoinSlot(c)) /\ WF_relayServerVars(WaitDeadline(c)) /\ WF_relayServerVars(WaitClosed(c))
       /\ WF_relayServerVars(WaitFrame(c)) /\ WF_relayServerVars(WaitPoll(c))
       /\ WF_relayServerVars(ForwardRead(c)) /\ WF_relayServerVars(ForwardClosed(c)) /\ WF_relayServerVars(Write(c))
       /\ WF_relayServerVars(ForwardSend(c) \/ SendBreaks(c))
       /\ WF_relayServerVars(link[c] = "closed" /\ WriteBreaks(c))

-----------------------------------------------------------------------------
\* The ranges of the variables; a channel never exceeds its capacity.
RelayTypeOK ==
  /\ pc \in [Conns -> {"unopened", "joining", "wait", "forward", "sending", "done"}]
  /\ link \in [Conns -> {"open", "closed"}]
  /\ sent \in [Conns -> Nat] /\ read \in [Conns -> Nat]
  /\ waited \subseteq Conns
  /\ peer_tx \in [Conns -> Conns \cup {None}]
  /\ fwd_rx \in [Conns -> Seq(RelayFrame)] /\ \A c \in Conns : Len(fwd_rx[c]) <= FWD
  /\ got \in [Conns -> Seq(RelayFrame)]
  /\ relay_sessions \in [Tokens -> Slot \cup {None}]
  /\ issued \subseteq Tokens

\* A client only receives frames of the opposite role under its own token.
PairedByToken ==
  \A c \in Conns : \A i \in 1..Len(got[c]) :
    LET p == got[c][i].from IN TokenOf[p] = TokenOf[c] /\ RoleOf[p] # RoleOf[c]

\* Once frames flow they flow without a gap: what a client receives from a
\* peer is a run of consecutive frames, and it starts with the very first one
\* if that peer found the other side waiting when it joined.  A relay that
\* cannot forward a frame must end the session instead of skipping the frame.
NoGaps ==
  \A c \in Conns : \A i \in 1..Len(got[c]) :
    /\ i > 1 => got[c][i].n = got[c][i-1].n + 1
    /\ i = 1 /\ got[c][1].from \notin waited => got[c][1].n = 1

\* A slot never holds the channel of a task that has returned: every exit
\* path of relay_session removes the slot.
NoStaleSlot ==
  \A t \in Tokens : Open(t) =>
    \A r \in Roles : relay_sessions[t][r] # None => pc[relay_sessions[t][r]] # "done"

\* No slot leaks: one whose clients are all gone, or never came, is removed.
SlotsAreFreed ==
  \A t \in Tokens :
    (t \in issued /\ \A c \in Conns : TokenOf[c] = t => link[c] = "closed" \/ pc[c] = "unopened")
      ~> (~Open(t) \/ \E c \in Conns : TokenOf[c] = t /\ link[c] = "open" /\ pc[c] # "unopened")

=============================================================================

----------------------------- MODULE SessionLink -----------------------------
(***************************************************************************)
(* One session from end to end: the host's and the viewer's tasks, their    *)
(* transports and the relay's two tasks between them.  Every hop is a       *)
(* bounded queue, every send waits for room in it, and a task that waits    *)
(* does nothing else: the model is about who waits for whom, and about the  *)
(* moment at which each end starts to seal what it sends.                   *)
(*                                                                          *)
(* An end's frames go to its out queue (RelayTransport's channel and the    *)
(* socket), to the relay's task of that end, to the queue of the other      *)
(* end's task, to that task, and to the other end's in queue.               *)
(***************************************************************************)
EXTENDS Naturals, Sequences

CONSTANTS
    Cap,    \* room in each queue (128, 256 and 128 frames in the code)
    Cmds    \* room in the viewer's command channel (64)

ASSUME LinkAssumption == Cap \in Nat \ {0} /\ Cmds \in Nat \ {0}

VARIABLES
    host,      \* where handle_viewer is
    viewer,    \* where the viewer's run is
    cmds,      \* commands waiting in the viewer's channel
    cancel,    \* the user asked to disconnect
    sealing,   \* the ends that have installed their ciphers
    out,       \* out[e]: frames end e has handed to its transport
    in,        \* in[e]: frames waiting for recv_msg of e
    relay,     \* relay[e]: where the relay's task for e is
    carried,   \* carried[e]: the frame that task is holding
    fwd        \* fwd[e]: frames the other task has queued for that task

linkVars == <<host, viewer, cmds, cancel, sealing, out, in, relay, carried, fwd>>
endVars == <<host, viewer, cmds, cancel, sealing>>
relayVars == <<relay, carried, fwd>>

Ends == {"host", "viewer"}
Other(e) == IF e = "host" THEN "viewer" ELSE "host"
HostPlaces == {"idle", "handshake", "admission", "serving", "media", "ping", "ended"}
ViewerPlaces == {"idle", "handshake", "prompt", "serving", "sending", "pong", "closing", "ended"}
RelayPlaces == {"none", "waiting", "ready", "to_peer", "to_socket", "gone"}

\* The messages of a session, by what each end does with them: Media stands for frames, sound,
\* lists and the clipboard, Input for all a viewer sends in a session; Nothing for no message.
Kinds == {"Hello", "HelloAck", "Error", "Media", "Ping", "Input", "Close", "Nothing"}
\* On the wire: a message, in the clear (JSON) or sealed.
Frames == [kind : Kinds, sealed : BOOLEAN]
NoFrame == [kind |-> "Nothing", sealed |-> FALSE]

LinkInit ==
    /\ host = "idle" /\ viewer = "idle"
    /\ cmds = 0 /\ cancel = FALSE
    /\ sealing = {}
    /\ out = [e \in Ends |-> <<>>] /\ in = [e \in Ends |-> <<>>]
    /\ relay = [e \in Ends |-> "none"]
    /\ carried = [e \in Ends |-> NoFrame]
    /\ fwd = [e \in Ends |-> <<>>]

Ended(e) == (IF e = "host" THEN host ELSE viewer) = "ended"

-----------------------------------------------------------------------------
(* RelayTransport *)

\* send_msg: sealed once the cipher is installed; it waits while the queue is full.
Frame(e, kind) == [kind |-> kind, sealed |-> e \in sealing]
Room(e) == Len(out[e]) < Cap
Send(e, kind) == out' = [out EXCEPT ![e] = Append(@, Frame(e, kind))]

\* The socket is closed: a send is lost in the queue or fails, and recv_msg ends once what had
\* come in is read.
Closed(e) == relay[e] = "gone"
Arrived(e) == in[e] # <<>>
AtEnd(e) == Closed(e) /\ in[e] = <<>>
Read(e) == in' = [in EXCEPT ![e] = Tail(@)]

\* The transport of an end that returned is dropped: nothing is read any more, what was queued
\* is still written.
Dropped(e) == in' = [in EXCEPT ![e] = <<>>]

-----------------------------------------------------------------------------
(* The relay's task for one end *)

\* The end connects.  It finds its peer in the slot, waits for it, or finds no slot.
Join(e) ==
    /\ relay[e] = "none"
    /\ (IF e = "host" THEN host ELSE viewer) = "handshake"
    /\ relay' = [relay EXCEPT ![e] =
         CASE relay[Other(e)] = "gone" -> "gone"
           [] relay[Other(e)] = "none" -> "waiting"
           [] OTHER -> "ready"]
    /\ UNCHANGED <<endVars, out, in, carried, fwd>>

\* The poll of the slot finds the peer.
FindPeer(e) ==
    /\ relay[e] = "waiting"
    /\ relay[Other(e)] \notin {"none", "gone"}
    /\ relay' = [relay EXCEPT ![e] = "ready"]
    /\ UNCHANGED <<endVars, out, in, carried, fwd>>

\* Data frames during the wait are ignored.
DropEarly(e) ==
    /\ relay[e] = "waiting"
    /\ out[e] # <<>>
    /\ out' = [out EXCEPT ![e] = Tail(@)]
    /\ UNCHANGED <<endVars, relayVars, in>>

\* 30 s without a peer, or the waiting end is gone.
WaitOver(e) ==
    /\ relay[e] = "waiting"
    /\ relay[Other(e)] \in {"none", "gone"} \/ Ended(e)
    /\ relay' = [relay EXCEPT ![e] = "gone"]
    /\ UNCHANGED <<endVars, out, in, carried, fwd>>

\* One select: a frame of the end, for the peer's queue ...
TakeFromEnd(e) ==
    /\ relay[e] = "ready"
    /\ out[e] # <<>>
    /\ out' = [out EXCEPT ![e] = Tail(@)]
    /\ carried' = [carried EXCEPT ![e] = Head(out[e])]
    /\ relay' = [relay EXCEPT ![e] = "to_peer"]
    /\ UNCHANGED <<endVars, in, fwd>>

\* ... or a frame of the peer, for the end's socket.
TakeFromPeer(e) ==
    /\ relay[e] = "ready"
    /\ fwd[e] # <<>>
    /\ fwd' = [fwd EXCEPT ![e] = Tail(@)]
    /\ carried' = [carried EXCEPT ![e] = Head(fwd[e])]
    /\ relay' = [relay EXCEPT ![e] = "to_socket"]
    /\ UNCHANGED <<endVars, out, in>>

Delivered(e) ==
    /\ \/ /\ relay[e] = "to_peer" /\ ~Closed(Other(e)) /\ Len(fwd[Other(e)]) < Cap
          /\ fwd' = [fwd EXCEPT ![Other(e)] = Append(@, carried[e])]
          /\ UNCHANGED in
       \/ /\ relay[e] = "to_socket" /\ ~Ended(e) /\ Len(in[e]) < Cap
          /\ in' = [in EXCEPT ![e] = Append(@, carried[e])]
          /\ UNCHANGED fwd
    /\ carried' = [carried EXCEPT ![e] = NoFrame]
    /\ relay' = [relay EXCEPT ![e] = "ready"]
    /\ UNCHANGED <<endVars, out>>

\* Mutant: a send waits for room as long as it takes.
SendGivesUpNever(e) ==
    \/ relay[e] = "to_peer" /\ Closed(Other(e))
    \/ relay[e] = "to_socket" /\ Ended(e)
\* send_timed: no room for SEND_TIMEOUT, or nobody there.
SendGivesUp(e) ==
    \/ relay[e] = "to_peer" /\ (Closed(Other(e)) \/ Len(fwd[Other(e)]) >= Cap)
    \/ relay[e] = "to_socket" /\ (Ended(e) \/ Len(in[e]) >= Cap)

\* The task ends: after a send that failed, or when the end has closed its socket.  The slot and
\* the task's queue go with it.
TaskEnds(e) ==
    /\ \/ SendGivesUp(e)
       \/ relay[e] = "ready" /\ Ended(e) /\ out[e] = <<>>
    /\ relay' = [relay EXCEPT ![e] = "gone"]
    /\ carried' = [carried EXCEPT ![e] = NoFrame]
    /\ fwd' = [fwd EXCEPT ![e] = <<>>]
    /\ out' = [out EXCEPT ![e] = <<>>]
    /\ UNCHANGED <<endVars, in>>

-----------------------------------------------------------------------------
(* The host's handle_viewer *)

\* Leaves handle_viewer, by the end of the loop or by an error.
HostLeaves == host' = "ended" /\ Dropped("host")
HostGoesTo(place) == host' = place

HostConnects ==
    /\ host = "idle"
    /\ HostGoesTo("handshake")
    /\ UNCHANGED <<viewer, cmds, cancel, sealing, out, in, relayVars>>

\* Mutant: the ciphers are installed as soon as the keys are derived.
HostAnswersSealed ==
    /\ host = "handshake" /\ Arrived("host")
    /\ Head(in["host"]).kind = "Hello" /\ Room("host")
    /\ Read("host") /\ out' = [out EXCEPT !["host"] = Append(@, [kind |-> "HelloAck", sealed |-> TRUE])]
    /\ HostGoesTo("admission")
    /\ UNCHANGED <<viewer, cmds, cancel, sealing, relayVars>>

\* host_handshake gets its Hello and answers, in the clear.
HostAnswers ==
    /\ host = "handshake" /\ Arrived("host")
    /\ Head(in["host"]).kind = "Hello" /\ Room("host")
    /\ Read("host") /\ Send("host", "HelloAck")
    /\ HostGoesTo("admission")
    /\ UNCHANGED <<viewer, cmds, cancel, sealing, relayVars>>

\* Another protocol version is told so; a bad signature, no common codec or another message is not.
HostRejects ==
    /\ host = "handshake" /\ Arrived("host")
    /\ host' = "ended" /\ Dropped("host")
    /\ \/ Head(in["host"]).kind = "Hello" /\ Room("host") /\ Send("host", "Error")
       \/ UNCHANGED out
    /\ UNCHANGED <<viewer, cmds, cancel, sealing, relayVars>>

\* 15 s pass, or the connection fails or is closed.
HostHandshakeOver ==
    /\ host = "handshake" /\ ~Arrived("host")
    /\ HostLeaves
    /\ UNCHANGED <<viewer, cmds, cancel, sealing, out, relayVars>>

\* check_or_pair and the agent gate let the peer in: ciphers, then the list of displays, whether
\* it can be sent or not.
HostAdmits ==
    /\ host = "admission"
    /\ sealing' = sealing \union {"host"}
    /\ \/ /\ Room("host")
          /\ out' = [out EXCEPT !["host"] = Append(@, [kind |-> "Media", sealed |-> TRUE])]
       \/ Closed("host") /\ UNCHANGED out
    /\ HostGoesTo("serving")
    /\ UNCHANGED <<viewer, cmds, cancel, in, relayVars>>

\* They do not, or the first capture fails.
HostRefuses ==
    /\ host = "admission"
    /\ HostLeaves
    /\ UNCHANGED <<viewer, cmds, cancel, sealing, out, relayVars>>

\* An arm of the loop has something to send: a frame, the ping of the second, a clipboard.
HostHasMedia ==
    /\ host = "serving"
    /\ HostGoesTo("media")
    /\ UNCHANGED <<viewer, cmds, cancel, sealing, out, in, relayVars>>
\* audio_loop's thread has encoded sound; a frame that found its channel of eight full is gone.
HostHasAudio ==
    /\ host = "serving"
    /\ HostGoesTo("media")
    /\ UNCHANGED <<viewer, cmds, cancel, sealing, out, in, relayVars>>
HostTicks ==
    /\ host = "serving"
    /\ HostGoesTo("ping")
    /\ UNCHANGED <<viewer, cmds, cancel, sealing, out, in, relayVars>>
HostSends ==
    /\ host \in {"media", "ping"}
    /\ Room("host")
    /\ Send("host", IF host = "ping" THEN "Ping" ELSE "Media")
    /\ HostGoesTo("serving")
    /\ UNCHANGED <<viewer, cmds, cancel, sealing, in, relayVars>>

\* A frame that cannot be sent ends the session; a ping or a clipboard is only dropped.
HostSendFails ==
    /\ host \in {"media", "ping"}
    /\ Closed("host")
    /\ IF host = "media" THEN HostLeaves ELSE HostGoesTo("serving") /\ UNCHANGED in
    /\ UNCHANGED <<viewer, cmds, cancel, sealing, out, relayVars>>

HostReads ==
    /\ host = "serving" /\ Arrived("host")
    /\ IF Head(in["host"]).kind = "Close" THEN HostLeaves ELSE Read("host") /\ UNCHANGED host
    /\ UNCHANGED <<viewer, cmds, cancel, sealing, out, relayVars>>

\* Mutant: the end of the stream is taken for a message of no interest.
HostIgnoresEnd ==
    /\ host = "serving" /\ AtEnd("host")
    /\ UNCHANGED linkVars
HostSeesEnd ==
    /\ host = "serving" /\ AtEnd("host")
    /\ HostLeaves
    /\ UNCHANGED <<viewer, cmds, cancel, sealing, out, relayVars>>

-----------------------------------------------------------------------------
(* The viewer's run *)

ViewerLeaves == viewer' = "ended" /\ cmds' = 0 /\ Dropped("viewer")

\* Connects and says Hello at once.
ViewerConnects ==
    /\ viewer = "idle"
    /\ viewer' = "handshake"
    /\ Send("viewer", "Hello")
    /\ UNCHANGED <<host, cmds, cancel, sealing, in, relayVars>>

\* The HelloAck is good.  A known key goes on, an unknown one is shown to the user first.
ViewerAnswered ==
    /\ viewer = "handshake" /\ Arrived("viewer")
    /\ Head(in["viewer"]).kind = "HelloAck"
    /\ Read("viewer")
    /\ \/ viewer' = "serving" /\ sealing' = sealing \union {"viewer"}
       \/ viewer' = "prompt" /\ UNCHANGED sealing
    /\ UNCHANGED <<host, cmds, cancel, out, relayVars>>

\* An Error, a bad signature, a changed key; or 15 s without an answer, or a closed connection.
ViewerTurnedAway ==
    /\ viewer = "handshake"
    /\ ViewerLeaves
    /\ UNCHANGED <<host, cancel, sealing, out, relayVars>>

PromptAccepted ==
    /\ viewer = "prompt"
    /\ viewer' = "serving" /\ sealing' = sealing \union {"viewer"}
    /\ UNCHANGED <<host, cmds, cancel, out, in, relayVars>>

\* Refused, 120 s without an answer, or cancelled.
PromptOver ==
    /\ viewer = "prompt"
    /\ ViewerLeaves
    /\ UNCHANGED <<host, cancel, sealing, out, relayVars>>

\* Mutant: the select is not biased.
CancelNotFirst == TRUE
\* The arms after the first are taken when it is not ready.
CancelFirst == ~cancel

ViewerCancelled ==
    /\ viewer = "serving" /\ cancel
    /\ viewer' = "closing"
    /\ UNCHANGED <<host, cmds, cancel, sealing, out, in, relayVars>>

ViewerTakesCommand ==
    /\ viewer = "serving" /\ CancelFirst /\ cmds > 0
    /\ cmds' = cmds - 1
    /\ viewer' = "sending"
    /\ UNCHANGED <<host, cancel, sealing, out, in, relayVars>>

\* Only when no command waits.
ViewerReads ==
    /\ viewer = "serving" /\ CancelFirst /\ cmds = 0 /\ Arrived("viewer")
    /\ Read("viewer")
    /\ viewer' = IF Head(in["viewer"]).kind = "Ping" THEN "pong" ELSE "serving"
    /\ UNCHANGED <<host, cmds, cancel, sealing, out, relayVars>>

ViewerSeesEnd ==
    /\ viewer = "serving" /\ CancelFirst /\ cmds = 0 /\ AtEnd("viewer")
    /\ ViewerLeaves
    /\ UNCHANGED <<host, cancel, sealing, out, relayVars>>

ViewerSends ==
    /\ viewer \in {"sending", "pong", "closing"}
    /\ Room("viewer")
    /\ Send("viewer", IF viewer = "closing" THEN "Close" ELSE "Input")
    /\ IF viewer = "closing" THEN ViewerLeaves ELSE viewer' = "serving" /\ UNCHANGED <<cmds, in>>
    /\ UNCHANGED <<host, cancel, sealing, relayVars>>

\* A command that cannot be sent ends the session, a pong is only dropped.
ViewerSendFails ==
    /\ viewer \in {"sending", "pong", "closing"}
    /\ Closed("viewer")
    /\ IF viewer = "pong" THEN viewer' = "serving" /\ UNCHANGED <<cmds, in>> ELSE ViewerLeaves
    /\ UNCHANGED <<host, cancel, sealing, out, relayVars>>

\* The user: input, files and the clipboard; the disconnect button.
UserCommands ==
    /\ viewer \notin {"idle", "ended"} /\ cmds < Cmds
    /\ cmds' = cmds + 1
    /\ UNCHANGED <<host, viewer, cancel, sealing, out, in, relayVars>>
UserCancels ==
    /\ viewer \notin {"idle", "ended"} /\ ~cancel
    /\ cancel' = TRUE
    /\ UNCHANGED <<host, viewer, cmds, sealing, out, in, relayVars>>

-----------------------------------------------------------------------------
RelayStep(e) ==
    \/ FindPeer(e) \/ DropEarly(e) \/ WaitOver(e)
    \/ TakeFromEnd(e) \/ TakeFromPeer(e) \/ Delivered(e) \/ TaskEnds(e)
HostStep ==
    \/ HostAnswers \/ HostRejects \/ HostHandshakeOver \/ HostAdmits \/ HostRefuses
    \/ HostHasMedia \/ HostHasAudio \/ HostTicks \/ HostSends \/ HostSendFails \/ HostReads \/ HostSeesEnd
ViewerStep ==
    \/ ViewerAnswered \/ ViewerTurnedAway \/ PromptOver
    \/ ViewerCancelled \/ ViewerTakesCommand \/ ViewerReads \/ ViewerSeesEnd
    \/ ViewerSends \/ ViewerSendFails
LinkNext ==
    \/ \E e \in Ends : Join(e) \/ RelayStep(e)
    \/ HostConnects \/ HostStep
    \/ ViewerConnects \/ PromptAccepted \/ ViewerStep
    \/ UserCommands \/ UserCancels

\* Every task that can go on does; the branches of the host's select are chosen at random.
LinkSpec ==
    /\ LinkInit /\ [][LinkNext]_linkVars
    /\ \A e \in Ends : WF_linkVars(Join(e)) /\ WF_linkVars(RelayStep(e))
    /\ WF_linkVars(HostStep) /\ WF_linkVars(ViewerStep)
    /\ SF_linkVars(HostReads) /\ SF_linkVars(HostSeesEnd)

-----------------------------------------------------------------------------
(* Properties *)

\* Each variable has its type.
LinkTypeOK ==
    /\ host \in HostPlaces /\ viewer \in ViewerPlaces
    /\ cmds \in 0..Cmds /\ cancel \in BOOLEAN /\ sealing \subseteq Ends
    /\ out \in [Ends -> Seq(Frames)] /\ in \in [Ends -> Seq(Frames)] /\ fwd \in [Ends -> Seq(Frames)]
    /\ relay \in [Ends -> RelayPlaces] /\ carried \in [Ends -> Frames]

\* No queue holds more than it has room for, the one into which the viewer puts its Hello without
\* a look included.
QueuesFit == \A e \in Ends : Len(out[e]) <= Cap /\ Len(in[e]) <= Cap /\ Len(fwd[e]) <= Cap

\* What an end is about to read was sealed exactly if that end opens what it reads: the two
\* install their ciphers at different times, around a prompt that may last two minutes, and
\* frames of both kinds are on their way at once (install_ciphers, send_msg, recv_msg).
ReadInItsCipher ==
    /\ host = "handshake" /\ Arrived("host") => ~Head(in["host"]).sealed
    /\ host = "serving" /\ Arrived("host") => Head(in["host"]).sealed
    /\ viewer = "handshake" /\ Arrived("viewer") => ~Head(in["viewer"]).sealed
    /\ viewer = "serving" /\ Arrived("viewer") => Head(in["viewer"]).sealed

\* The host notices that its viewer has left, whatever is still queued and wherever the relay's
\* tasks are: its session ends (host loop's arms, the relay's sends).
ViewerGoneIsNoticed == (viewer = "ended" /\ host # "idle") ~> (host = "ended")

\* Both ends may stop reading while they wait to send, the viewer because commands come first:
\* all queues full, each waits for the other.  The relay's send timeout breaks the circle, so
\* that nobody waits to send for ever (send_timed).
NobodyWaitsForEver ==
    /\ []<>(host \notin {"media", "ping"})
    /\ []<>(viewer \notin {"sending", "pong", "closing"})

\* The disconnect button works however many commands and frames are queued (biased select).
CancelIsHeard == cancel ~> (viewer = "ended")
=============================================================================

------------------------------ MODULE CaptureLoop ------------------------------
(***************************************************************************)
(* Video on the host: capture threads (capture_loop.rs) that encode frames *)
(* into a bounded channel, the session loop (handle_viewer in session.rs)  *)
(* that puts them on the wire, and the FrameController both share          *)
(* (backpressure.rs).  A display switch starts a new thread with a new     *)
(* channel and drops the receiver of the old one.  The viewer is a human:  *)
(* an agent without ScreenRead is sent no frames.                          *)
(*                                                                         *)
(* A frame is decodable by a viewer if it is a keyframe, or if the viewer  *)
(* has the frame the same encoder produced just before it.                 *)
(***************************************************************************)
EXTENDS Integers, Sequences

CONSTANTS
  QUEUE,           \* capacity of the frame channel (8)
  MAX_IN_FLIGHT,   \* 3
  MaxThreads,      \* bound: capture threads started in the session
  MaxSeq,          \* bound: frames one thread encodes
  HostCodecs, ViewerCodecs,   \* the lists of codecs the two ends may announce, as sets
  None

\* The codecs, the preferred one first.
CODEC_PRIORITY == [Av1 |-> 1, Vp9 |-> 2, Vp8 |-> 3, H265 |-> 4, H264 |-> 5, Jpeg |-> 6]

\* The best codec both ends have; none, if there is no such codec, and then there is no session.
negotiate(host, viewer) ==
  {c \in host \cap viewer : \A d \in host \cap viewer : CODEC_PRIORITY[c] <= CODEC_PRIORITY[d]}

ASSUME CaptureAssumption ==
  /\ QUEUE \in Nat \ {0}
  /\ MAX_IN_FLIGHT \in Nat \ {0}
  /\ MaxThreads \in Nat \ {0}
  /\ MaxSeq \in Nat
  /\ None \notin 1..MaxThreads
  /\ \A host \in HostCodecs : host \subseteq DOMAIN CODEC_PRIORITY

Threads == 1..MaxThreads

VARIABLES
  codec,           \* the session's codec
  started,         \* capture threads started so far
  cap_rx,          \* the thread whose receiver the session holds
  at,              \* where a thread is: not started, "top" of its loop, "mid", exited
  force_keyframe, seq,    \* a thread's local variables
  queue,           \* the channel of cap_rx
  in_flight,       \* FrameController.in_flight
  last             \* the last frame the viewer was sent

thread == <<at, force_keyframe, seq>>
vars == <<codec, started, cap_rx, at, force_keyframe, seq, queue, in_flight, last>>

Frame == [thread : Threads, n : Nat, key : BOOLEAN]

ASSUME NoneAssumption == None \notin Frame

-----------------------------------------------------------------------------
\* handle_viewer starts the first thread.
Init ==
  /\ \E host \in HostCodecs, viewer \in ViewerCodecs : codec \in negotiate(host, viewer)
  /\ started = 1 /\ cap_rx = 1
  /\ at = [t \in Threads |-> IF t = 1 THEN "top" ELSE "unstarted"]
  /\ force_keyframe = [t \in Threads |-> TRUE]
  /\ seq = [t \in Threads |-> 0]
  /\ queue = <<>>
  /\ in_flight = 0
  /\ last = None

\* Mutant: the limit is not looked at.
ShouldCaptureAlways == TRUE

\* FrameController::should_capture; a refused frame is a turn of the loop
\* without effect.
ShouldCapture == in_flight < MAX_IN_FLIGHT

\* A turn of the loop that goes on to capture a frame.
Capture(t) ==
  /\ at[t] = "top" /\ seq[t] < MaxSeq
  /\ ShouldCapture
  /\ at' = [at EXCEPT ![t] = "mid"]
  /\ UNCHANGED <<codec, started, cap_rx, force_keyframe, seq, queue, in_flight, last>>

\* The turn ends without a frame to hand over.
TurnOver(t) ==
  /\ at[t] = "mid"
  /\ at' = [at EXCEPT ![t] = "top"]
  /\ UNCHANGED <<codec, started, cap_rx, force_keyframe, seq, queue, in_flight, last>>

\* next_frame has no frame, because nothing changed on the screen or the
\* duplication was lost, or it fails.
NoFrame(t) == TurnOver(t)
\* The encoder cannot be made, fails, or only buffers the frame.
NoPacket(t) == TurnOver(t)

\* Mutant: a dropped frame does not ask for a keyframe.
SentDropForgotten(t, key) ==
  /\ queue' = IF Len(queue) < QUEUE THEN Append(queue, [thread |-> t, n |-> seq[t] + 1, key |-> key])
                                    ELSE queue
  /\ force_keyframe' = [force_keyframe EXCEPT ![t] = FALSE]

\* tx.try_send on an open channel: the frame is queued, or dropped because
\* the channel is full, and then the next one must be a keyframe.
TrySend(t, key) ==
  IF Len(queue) < QUEUE
    THEN /\ queue' = Append(queue, [thread |-> t, n |-> seq[t] + 1, key |-> key])
         /\ force_keyframe' = [force_keyframe EXCEPT ![t] = FALSE]
    ELSE /\ force_keyframe' = [force_keyframe EXCEPT ![t] = TRUE]
         /\ UNCHANGED queue

\* VpxEncoder::encode: a keyframe if one is forced or if its own spacing of keyframes says so.
VpxEncode(t, key) == force_keyframe[t] => key
\* JpegEncoder::encode: every frame stands alone.
JpegEncode(key) == key
\* What the encoder of the session's codec makes of a frame; the hardware encoders are like vpx.
Encode(t, key) == IF codec = "Jpeg" THEN JpegEncode(key) ELSE VpxEncode(t, key)

\* Mutant: a closed channel is treated like a full one.
PacketNeverExits(t, key) ==
  /\ at[t] = "mid"
  /\ Encode(t, key)
  /\ seq' = [seq EXCEPT ![t] = @ + 1]
  /\ at' = [at EXCEPT ![t] = "top"]
  /\ IF t = cap_rx THEN TrySend(t, key)
     ELSE force_keyframe' = [force_keyframe EXCEPT ![t] = TRUE] /\ UNCHANGED queue
  /\ UNCHANGED <<codec, started, cap_rx, in_flight, last>>

\* The encoder returns a packet.
Packet(t, key) ==
  /\ at[t] = "mid"
  /\ Encode(t, key)
  /\ seq' = [seq EXCEPT ![t] = @ + 1]
  /\ \/ /\ t = cap_rx
        /\ TrySend(t, key)
        /\ at' = [at EXCEPT ![t] = "top"]
     \/ /\ t # cap_rx                       \* Disconnected
        /\ force_keyframe' = [force_keyframe EXCEPT ![t] = FALSE]
        /\ at' = [at EXCEPT ![t] = "exited"]
        /\ UNCHANGED queue
  /\ UNCHANGED <<codec, started, cap_rx, in_flight, last>>

\* The session loop takes a frame, counts it and puts it on the wire.
Send ==
  /\ cap_rx # None /\ queue # <<>>
  /\ last' = Head(queue)
  /\ queue' = Tail(queue)
  /\ in_flight' = in_flight + 1
  /\ UNCHANGED <<codec, started, cap_rx, thread>>

\* FrameController::on_pong: "a Pong resets the window".
OnPong == 0

\* A Pong of the viewer arrives.
Pong ==
  /\ cap_rx # None
  /\ in_flight' = OnPong
  /\ UNCHANGED <<codec, started, cap_rx, thread, queue, last>>

\* SelectDisplay: a new thread with a new channel; the old receiver is dropped.
SelectDisplay ==
  /\ cap_rx # None /\ started < MaxThreads
  /\ started' = started + 1
  /\ cap_rx' = started + 1
  /\ at' = [at EXCEPT ![started + 1] = "top"]
  /\ queue' = <<>>
  /\ UNCHANGED <<codec, force_keyframe, seq, in_flight, last>>

\* handle_viewer returns: Close, a failed send or receive.
End ==
  /\ cap_rx # None
  /\ cap_rx' = None
  /\ queue' = <<>>
  /\ UNCHANGED <<codec, started, thread, in_flight, last>>

Next ==
  \/ \E t \in Threads : Capture(t) \/ NoFrame(t) \/ NoPacket(t) \/ \E key \in BOOLEAN : Packet(t, key)
  \/ Send \/ Pong \/ SelectDisplay \/ End

Spec == Init /\ [][Next]_vars

\* What the host's own scheduling gives: a thread goes on with its loop, and
\* the session loop sends what is queued.  That a capture gives a packet is up
\* to the screen, and that the window opens is up to the viewer.
FairSpec ==
  /\ Spec
  /\ \A t \in Threads : /\ WF_vars(Capture(t))
                        /\ WF_vars(NoFrame(t) \/ NoPacket(t) \/ \E key \in BOOLEAN : Packet(t, key))
  /\ WF_vars(Send)

-----------------------------------------------------------------------------
\* The ranges of the variables; the channel never exceeds its capacity.
\* "Negative is impossible" for the in-flight count.
TypeOK ==
  /\ codec \in DOMAIN CODEC_PRIORITY
  /\ started \in Threads
  /\ cap_rx \in Threads \cup {None}
  /\ at \in [Threads -> {"unstarted", "top", "mid", "exited"}]
  /\ force_keyframe \in [Threads -> BOOLEAN]
  /\ seq \in [Threads -> Nat]
  /\ queue \in Seq(Frame) /\ Len(queue) <= QUEUE
  /\ in_flight \in Nat
  /\ last \in Frame \cup {None}

\* How far the frames in flight can run past MAX_IN_FLIGHT: the limit is
\* checked when a frame is captured and the count moves only when it is sent,
\* so a full channel can still follow.
InFlightBounded == in_flight <= MAX_IN_FLIGHT + QUEUE

\* The viewer can decode every frame it is sent: a frame the host drops for
\* backpressure or a display switch never leaves a delta frame without the
\* frame it refers to.
DecodableStream ==
  [][last' # last =>
       \/ last'.key
       \/ last # None /\ last'.thread = last.thread /\ last'.n = last.n + 1]_vars

\* The display of thread t goes on changing: its captures do not come back
\* without a frame for ever, as they do on an unchanged screen.
ScreenChanges(t) == SF_vars(\E key \in BOOLEAN : Packet(t, key))

\* Thread t does not find the window closed at every turn while it opens and
\* closes, and the viewer answers the pings, which is what opens it.
WindowOpens(t) == SF_vars(Capture(t)) /\ WF_vars(Pong)

\* A thread the session turned away from at a display switch ("capture thread
\* sees send fail and exits") does exit while the session goes on, although
\* the new thread competes with it for the window, provided its display goes
\* on changing and the window opens: on an unchanged screen or with a viewer
\* that does not answer it never tries to send, and stays.  It is a thread
\* that has not yet used up the frames the bound gives it.
ReplacedThreadExits ==
  \A t \in Threads :
    (ScreenChanges(t) /\ WindowOpens(t)) =>
      ((at[t] \in {"top", "mid"} /\ t # cap_rx /\ seq[t] < MaxSeq)
         ~> (at[t] = "exited" \/ cap_rx = None))

-----------------------------------------------------------------------------
(* What the documents say and the code does not do.                        *)

\* CHANGELOG: the capture thread exits "rather than running forever after
\* session teardown".  It does not when the session ends with the window
\* closed, whatever the screen does: no Pong opens it again.
ThreadExitsAfterTeardown ==
  \A t \in Threads :
    (ScreenChanges(t) /\ WindowOpens(t)) =>
      ((cap_rx = None /\ at[t] \in {"top", "mid"} /\ seq[t] < MaxSeq) ~> (at[t] = "exited"))
=============================================================================

--------------------------- MODULE CaptureLoopProofs ---------------------------
(***************************************************************************)
(* For any number of capture threads and any limits: the types, the bound  *)
(* on the frames in flight and the decodability of the stream the viewer   *)
(* is sent.                                                                *)
(***************************************************************************)
EXTENDS CaptureLoop, TLAPS

USE CaptureAssumption, NoneAssumption

\* What a packet does to everything but the channel.
LEMMA PacketFrame ==
  ASSUME NEW t \in Threads, NEW key \in BOOLEAN, Packet(t, key)
  PROVE  /\ seq' = [seq EXCEPT ![t] = @ + 1]
         /\ at' = [at EXCEPT ![t] = IF t = cap_rx THEN "top" ELSE "exited"]
         /\ UNCHANGED <<codec, started, cap_rx, in_flight, last>>
         /\ at[t] = "mid"
  BY DEF Packet

\* try_send with room in the channel.
LEMMA PacketQueued ==
  ASSUME NEW t \in Threads, NEW key \in BOOLEAN, Packet(t, key),
         t = cap_rx, Len(queue) < QUEUE
  PROVE  /\ queue' = Append(queue, [thread |-> t, n |-> seq[t] + 1, key |-> key])
         /\ force_keyframe' = [force_keyframe EXCEPT ![t] = FALSE]
  BY DEF Packet, TrySend

\* try_send on a full channel.
LEMMA PacketDropped ==
  ASSUME NEW t \in Threads, NEW key \in BOOLEAN, Packet(t, key),
         t = cap_rx, ~(Len(queue) < QUEUE)
  PROVE  /\ queue' = queue
         /\ force_keyframe' = [force_keyframe EXCEPT ![t] = TRUE]
  BY DEF Packet, TrySend

\* try_send on a closed channel.
LEMMA PacketDisconnected ==
  ASSUME NEW t \in Threads, NEW key \in BOOLEAN, Packet(t, key), t # cap_rx
  PROVE  /\ queue' = queue
         /\ force_keyframe' = [force_keyframe EXCEPT ![t] = FALSE]
  BY DEF Packet

\* The types of the variables, and the capacity of the channel, are kept by
\* every step of the capture threads and of handle_viewer.
THEOREM CaptureTypeCorrect == Spec => []TypeOK
<1>1. Init => TypeOK
  <2> SUFFICES ASSUME Init PROVE TypeOK
    OBVIOUS
  <2>1. codec \in DOMAIN CODEC_PRIORITY
    BY DEF Init, negotiate
  <2> QED BY <2>1, SMT DEF Init, TypeOK, Threads, Frame
<1>2. TypeOK /\ [Next]_vars => TypeOK'
  <2> SUFFICES ASSUME TypeOK, [Next]_vars PROVE TypeOK'
    OBVIOUS
  <2> USE DEF TypeOK, thread
  <2>1. ASSUME NEW t \in Threads, Capture(t) PROVE TypeOK'
    BY <2>1 DEF Capture
  <2>2. ASSUME NEW t \in Threads, NoFrame(t) \/ NoPacket(t) PROVE TypeOK'
    BY <2>2 DEF NoFrame, NoPacket, TurnOver
  <2>3. ASSUME NEW t \in Threads, NEW key \in BOOLEAN, Packet(t, key) PROVE TypeOK'
    <3>1. [thread |-> t, n |-> seq[t] + 1, key |-> key] \in Frame
      BY DEF Frame
    <3>2. /\ codec' \in DOMAIN CODEC_PRIORITY /\ started' \in Threads /\ cap_rx' \in Threads \cup {None}
          /\ at' \in [Threads -> {"unstarted", "top", "mid", "exited"}]
          /\ seq' \in [Threads -> Nat]
          /\ in_flight' \in Nat /\ last' \in Frame \cup {None}
      <4>1. /\ seq' = [seq EXCEPT ![t] = @ + 1]
            /\ at' = [at EXCEPT ![t] = IF t = cap_rx THEN "top" ELSE "exited"]
            /\ UNCHANGED <<codec, started, cap_rx, in_flight, last>>
        BY <2>3, PacketFrame, Zenon
      <4> QED BY <4>1
    <3>4. CASE t = cap_rx /\ Len(queue) < QUEUE
      <4>1. queue' \in Seq(Frame) /\ Len(queue') <= QUEUE
        <5>1. queue' = Append(queue, [thread |-> t, n |-> seq[t] + 1, key |-> key])
          BY <2>3, <3>4, PacketQueued, Zenon
        <5> QED BY <3>1, <3>4, <5>1
      <4>2. force_keyframe' \in [Threads -> BOOLEAN]
        BY <2>3, <3>4, PacketQueued
      <4> QED BY <3>2, <4>1, <4>2
    <3>5. CASE t = cap_rx /\ ~(Len(queue) < QUEUE)
      <4>1. force_keyframe' \in [Threads -> BOOLEAN]
        BY <2>3, <3>5, PacketDropped
      <4> QED BY <2>3, <3>2, <3>5, <4>1, PacketDropped
    <3>3. CASE t # cap_rx
      <4>1. force_keyframe' \in [Threads -> BOOLEAN]
        BY <2>3, <3>3, PacketDisconnected
      <4> QED BY <2>3, <3>2, <3>3, <4>1, PacketDisconnected
    <3> QED BY <3>3, <3>4, <3>5
  <2>4. CASE Send
    BY <2>4 DEF Send
  <2>5. CASE Pong
    BY <2>5 DEF Pong, OnPong
  <2>6. CASE SelectDisplay
    BY <2>6 DEF SelectDisplay, Threads
  <2>7. CASE End
    BY <2>7 DEF End
  <2>8. CASE UNCHANGED vars
    BY <2>8 DEF vars
  <2> QED BY <2>1, <2>2, <2>3, <2>4, <2>5, <2>6, <2>7, <2>8 DEF Next
<1> QED BY <1>1, <1>2, PTL DEF Spec

-----------------------------------------------------------------------------
\* 1 while the thread the session listens to is between the check of the
\* limit and its try_send.
Pending == IF cap_rx # None /\ at[cap_rx] = "mid" THEN 1 ELSE 0

\* What makes the bound inductive: frames that will be counted later are the
\* ones in the channel and at most one that is being encoded.
Window == in_flight + Len(queue) + Pending <= MAX_IN_FLIGHT + QUEUE

\* Frames in flight never exceed MAX_IN_FLIGHT by more than the capacity of
\* the channel: the overrun of the check in should_capture is bounded.
THEOREM FramesInFlightBounded == Spec => []InFlightBounded
<1>1. Init => Window
  BY DEF Init, Window, Pending, Threads
<1>2. TypeOK /\ Window /\ [Next]_vars => Window'
  <2> SUFFICES ASSUME TypeOK, Window, [Next]_vars PROVE Window'
    OBVIOUS
  <2> USE DEF TypeOK, Window, Pending, thread
  <2>1. ASSUME NEW t \in Threads, Capture(t) PROVE Window'
    BY <2>1 DEF Capture, ShouldCapture
  <2>2. ASSUME NEW t \in Threads, NoFrame(t) \/ NoPacket(t) PROVE Window'
    BY <2>2 DEF NoFrame, NoPacket, TurnOver
  <2>3. ASSUME NEW t \in Threads, NEW key \in BOOLEAN, Packet(t, key) PROVE Window'
    <3>1. CASE t = cap_rx /\ Len(queue) < QUEUE
      <4>1. queue' = Append(queue, [thread |-> t, n |-> seq[t] + 1, key |-> key])
        BY <2>3, <3>1, PacketQueued, Zenon
      <4>2. Len(queue') = Len(queue) + 1
        BY <4>1
      <4>3. /\ at' = [at EXCEPT ![t] = IF t = cap_rx THEN "top" ELSE "exited"]
            /\ UNCHANGED <<cap_rx, in_flight>>
            /\ at[t] = "mid"
        BY <2>3, PacketFrame, Zenon
      <4> QED BY <3>1, <4>2, <4>3 DEF Threads
    <3>2. CASE t = cap_rx /\ ~(Len(queue) < QUEUE)
      <4>1. queue' = queue
        BY <2>3, <3>2, PacketDropped
      <4> QED BY <2>3, <3>2, <4>1, PacketFrame
    <3>3. CASE t # cap_rx
      BY <2>3, <3>3 DEF Packet
    <3> QED BY <3>1, <3>2, <3>3
  <2>4. CASE Send
    <3>1. Len(queue') = Len(queue) - 1
      BY <2>4 DEF Send
    <3> QED BY <2>4, <3>1 DEF Send
  <2>5. CASE Pong
    BY <2>5 DEF Pong, OnPong
  <2>6. CASE SelectDisplay
    BY <2>6 DEF SelectDisplay, Threads
  <2>7. CASE End
    BY <2>7 DEF End
  <2>8. CASE UNCHANGED vars
    BY <2>8 DEF vars
  <2> QED BY <2>1, <2>2, <2>3, <2>4, <2>5, <2>6, <2>7, <2>8 DEF Next
<1>3. TypeOK /\ Window => InFlightBounded
  BY DEF TypeOK, Window, Pending, InFlightBounded
<1> QED BY <1>1, <1>2, <1>3, CaptureTypeCorrect, PTL DEF Spec

-----------------------------------------------------------------------------
\* A viewer that has frame f can decode frame g.
Follows(f, g) ==
  g.key \/ (f # None /\ g.thread = f.thread /\ g.n = f.n + 1)

\* The frame the encoder's next delta frame refers to, if the viewer gets it.
Newest == IF queue = <<>> THEN last ELSE queue[Len(queue)]

\* What makes decodability inductive: the frames on their way form a chain
\* from the last one sent, and a thread that need not force a keyframe is the
\* one that made the end of it.
Unbroken ==
  /\ queue # <<>> => Follows(last, queue[1])
  /\ \A i \in 1 .. Len(queue) - 1 : Follows(queue[i], queue[i + 1])
  /\ (cap_rx # None /\ ~force_keyframe[cap_rx]) =>
       /\ Newest # None
       /\ Newest.thread = cap_rx
       /\ Newest.n = seq[cap_rx]
  /\ \A t \in Threads : t > started => at[t] = "unstarted"
  /\ \A t \in Threads : at[t] = "unstarted" => force_keyframe[t]

\* Before the first frame nothing is out of order.
LEMMA UnbrokenInit == Init => Unbroken
  BY DEF Init, Unbroken, Threads

\* Capture, hand-over, sends and display switches keep the channel decodable.
LEMMA UnbrokenNext == TypeOK /\ Unbroken /\ [Next]_vars => Unbroken'
<1> SUFFICES ASSUME TypeOK, Unbroken, [Next]_vars PROVE Unbroken'
  OBVIOUS
<1> USE DEF TypeOK, Unbroken, Newest, thread
<1>1. ASSUME NEW t \in Threads, Capture(t) \/ NoFrame(t) \/ NoPacket(t) PROVE Unbroken'
  <2>1. /\ UNCHANGED <<queue, last, cap_rx, force_keyframe, seq, started>>
        /\ at[t] # "unstarted" /\ at'[t] # "unstarted"
        /\ \A u \in Threads : u # t => at'[u] = at[u]
    BY <1>1 DEF Capture, NoFrame, NoPacket, TurnOver
  <2>2. \A u \in Threads : at'[u] = "unstarted" <=> at[u] = "unstarted"
    BY <2>1
  <2> QED BY <2>1, <2>2 DEF Follows
<1>3. ASSUME NEW t \in Threads, NEW key \in BOOLEAN, Packet(t, key) PROVE Unbroken'
  <2> DEFINE f == [thread |-> t, n |-> seq[t] + 1, key |-> key]
  <2>0. f \in Frame
    BY DEF Frame
  <2>4. /\ seq' = [seq EXCEPT ![t] = @ + 1]
        /\ UNCHANGED <<codec, started, cap_rx, in_flight, last>>
        /\ \A u \in Threads : u > started => at'[u] = "unstarted"
        /\ \A u \in Threads : at'[u] = "unstarted" => at[u] = "unstarted" /\ u # t
    <3>1. /\ seq' = [seq EXCEPT ![t] = @ + 1]
          /\ at' = [at EXCEPT ![t] = IF t = cap_rx THEN "top" ELSE "exited"]
          /\ UNCHANGED <<codec, started, cap_rx, in_flight, last>>
          /\ at[t] = "mid"
      BY ONLY <1>3, PacketFrame, t \in Threads, key \in BOOLEAN, Zenon
    <3> QED BY <3>1
  <2>1. CASE t = cap_rx /\ Len(queue) < QUEUE
    <3>1. queue' = Append(queue, f) /\ last' = last
      BY <1>3, <2>1 DEF Packet, TrySend
    <3>2. Follows(Newest, f)
      <4>1. CASE force_keyframe[t]
        <5>1. key
          BY <1>3, <4>1, Zenon DEF Packet, Encode, VpxEncode, JpegEncode
        <5> QED BY <5>1 DEF Follows
      <4>2. CASE ~force_keyframe[t]
        BY <2>1, <4>2 DEF Follows, Threads
      <4> QED BY <4>1, <4>2
    <3>3. queue' # <<>> => Follows(last', queue'[1])
      BY <2>0, <3>1, <3>2 DEF Follows
    <3>4. ASSUME NEW i \in 1 .. Len(queue') - 1 PROVE Follows(queue'[i], queue'[i + 1])
      <4>1. CASE i < Len(queue)
        <5>1. queue'[i] = queue[i] /\ queue'[i + 1] = queue[i + 1] /\ i \in 1 .. Len(queue) - 1
          BY <3>1, <3>4, <4>1
        <5> QED BY <5>1
      <4>2. CASE i = Len(queue)
        BY <2>0, <3>1, <3>2, <3>4, <4>2
      <4>3. Len(queue') = Len(queue) + 1
        BY <2>0, <3>1
      <4> QED BY <3>4, <4>1, <4>2, <4>3
    <3>5. Newest' = f /\ f # None => Newest'.thread = cap_rx' /\ Newest'.n = seq'[cap_rx']
      BY <1>3, <2>1 DEF Packet
    <3>6. Newest' = f
      BY <2>0, <3>1
    <3>7. /\ \A u \in Threads : u > started' => at'[u] = "unstarted"
          /\ \A u \in Threads : at'[u] = "unstarted" => at[u] = "unstarted" /\ u # t
      BY <2>4
    <3>8. \A u \in Threads : at'[u] = "unstarted" => force_keyframe'[u]
      <4>1. force_keyframe' = [force_keyframe EXCEPT ![t] = FALSE]
        BY <1>3, <2>1, PacketQueued, Zenon
      <4> QED BY <3>7, <4>1
    <3>9. f # None
      BY <2>0
    <3> QED BY <3>3, <3>4, <3>5, <3>6, <3>7, <3>8, <3>9
  <2>2. CASE t = cap_rx /\ ~(Len(queue) < QUEUE)
    <3>1. queue' = queue /\ force_keyframe' = [force_keyframe EXCEPT ![t] = TRUE]
      BY <1>3, <2>2, PacketDropped, Zenon
    <3> QED BY <2>2, <2>4, <3>1
  <2>3. CASE t # cap_rx
    <3>1. queue' = queue /\ force_keyframe' = [force_keyframe EXCEPT ![t] = FALSE]
      BY <1>3, <2>3, PacketDisconnected, Zenon
    <3>2. cap_rx # None => force_keyframe'[cap_rx] = force_keyframe[cap_rx]
      BY <2>3, <3>1
    <3>3. \A u \in Threads : u # t => force_keyframe'[u] = force_keyframe[u]
      BY <3>1
    <3> QED BY <2>3, <2>4, <3>1, <3>2, <3>3
  <2> QED BY <2>1, <2>2, <2>3
<1>4. CASE Send
  <2>1. /\ queue # <<>> /\ last' = queue[1] /\ queue' = Tail(queue)
        /\ UNCHANGED <<started, cap_rx, thread>>
    BY <1>4 DEF Send
  <2>2. Len(queue') = Len(queue) - 1 /\ \A i \in 1 .. Len(queue') : queue'[i] = queue[i + 1]
    BY <2>1
  <2>3. Newest' = Newest
    <3>0. Len(queue) \in Nat
      OBVIOUS
    <3>1. CASE Len(queue) = 1
      BY <2>1, <2>2, <3>1
    <3>2. CASE Len(queue) > 1
      <4>1. queue' # <<>> /\ Len(queue') \in 1 .. Len(queue')
        <5>1. Len(queue') > 0 /\ Len(queue') \in Nat
          BY <2>2, <3>2, <3>0
        <5>2. queue' # <<>>
          BY <5>1
        <5> QED BY <5>1, <5>2
      <4> QED BY <2>1, <2>2, <4>1
    <3>3. Len(queue) # 0
      BY <2>1
    <3>4. \A k \in Nat : k = 0 \/ k = 1 \/ k > 1
      BY ONLY TRUE
    <3>5. Len(queue) = 0 \/ Len(queue) = 1 \/ Len(queue) > 1
      BY ONLY <3>0, <3>4, Zenon
    <3> QED BY ONLY <3>1, <3>2, <3>3, <3>5, Zenon
  <2>4. queue' # <<>> => Follows(last', queue'[1])
    <3> SUFFICES ASSUME queue' # <<>> PROVE Follows(queue[1], queue'[1])
      BY <2>1
    <3>1. Len(queue') > 0
      BY <2>1
    <3>2. queue'[1] = queue[1 + 1] /\ 1 \in 1 .. Len(queue) - 1
      BY <2>2, <3>1
    <3> QED BY <3>2
  <2>5. \A i \in 1 .. Len(queue') - 1 : Follows(queue'[i], queue'[i + 1])
    BY <2>1, <2>2
  <2> QED BY <2>1, <2>3, <2>4, <2>5
<1>5. CASE Pong
  BY <1>5 DEF Pong, Follows
<1>6. CASE SelectDisplay
  <2>0. started + 1 \in Threads
    <3>1. started < MaxThreads
      BY <1>6, Zenon DEF SelectDisplay
    <3> QED BY <3>1 DEF Threads
  <2>1. at[started + 1] = "unstarted" /\ force_keyframe[started + 1]
    BY SMTT(30), <2>0 DEF Threads
  <2>2. /\ started' = started + 1 /\ cap_rx' = started + 1
        /\ at' = [at EXCEPT ![started + 1] = "top"]
        /\ queue' = <<>>
        /\ UNCHANGED <<force_keyframe, seq, last>>
    BY <1>6 DEF SelectDisplay
  <2>3. /\ \A t \in Threads : t > started' => at'[t] = "unstarted"
        /\ \A t \in Threads : at'[t] = "unstarted" => at[t] = "unstarted"
    BY <2>0, <2>1, <2>2 DEF Threads
  <2>4. \A i \in 1 .. Len(queue') - 1 : FALSE
    BY <2>2
  <2> QED BY <2>1, <2>2, <2>3, <2>4
<1>7. CASE End
  BY <1>7 DEF End
<1>8. CASE UNCHANGED vars
  BY <1>8 DEF vars, Follows
<1> QED BY <1>1, <1>3, <1>4, <1>5, <1>6, <1>7, <1>8 DEF Next

\* Every frame the viewer is sent is a keyframe or directly follows the frame
\* sent before it, whatever the channel drops and however often the display is
\* switched.
THEOREM StreamDecodable == Spec => DecodableStream
<1>1. TypeOK /\ Unbroken /\ [Next]_vars =>
        [last' # last => \/ last'.key
                         \/ last # None /\ last'.thread = last.thread /\ last'.n = last.n + 1]_vars
  <2> SUFFICES ASSUME TypeOK, Unbroken, Next, last' # last PROVE Follows(last, last')
    BY DEF Follows
  <2>1. CASE Send
    BY <2>1 DEF Send, Unbroken, TypeOK
  <2>2. CASE ~Send
    BY <2>2 DEF Next, Capture, NoFrame, NoPacket, TurnOver, Packet, Pong, SelectDisplay, End
  <2> QED BY <2>1, <2>2
<1> QED BY <1>1, UnbrokenInit, UnbrokenNext, CaptureTypeCorrect, PTL DEF Spec, DecodableStream
=============================================================================

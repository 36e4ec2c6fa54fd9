----------------------------- MODULE ViewerProofs -----------------------------
(***************************************************************************)
(* The viewer's screen: what ViewerInput and ViewerVideo claim holds for    *)
(* every value of their constants.                                         *)
(***************************************************************************)
EXTENDS ViewerInput, ViewerVideo, WellFoundedInduction, TLAPS

\* A bounded set of numbers that is not empty has a largest one: the distances to the bound have a
\* least one.
LEMMA LargestExists ==
  ASSUME NEW S \in SUBSET Nat, S # {}, NEW b \in Nat, \A x \in S : x <= b
  PROVE  \E m \in S : \A y \in S : m >= y
<1> DEFINE R == OpToRel(<, Nat)
           T == {b - x : x \in S}
<1>1. T \subseteq Nat /\ T # {}
  <2>1. PICK x \in S : TRUE
    OBVIOUS
  <2>2. b - x \in T
    OBVIOUS
  <2> QED
    BY <2>2
<1>2. IsWellFoundedOn(R, Nat)
  BY NatLessThanWellFounded
<1>3. \A x, y \in Nat : x < y => <<x, y>> \in R
  BY DEF OpToRel
<1> HIDE DEF R, T
<1>4. PICK m \in T : \A y \in T : ~(<<y, m>> \in R)
  BY <1>1, <1>2, WFMin
<1>5. PICK x \in S : m = b - x
  BY <1>4 DEF T
<1>6. ASSUME NEW y \in S
      PROVE  x >= y
  <2>1. b - y \in T
    BY DEF T
  <2>2. ~(b - y < m)
    BY <1>1, <1>3, <1>4, <2>1
  <2> QED
    BY <1>5, <2>2
<1> QED
  BY <1>5, <1>6

\* Max finds it.
LEMMA LargestIs ==
  ASSUME NEW S \in SUBSET Nat, S # {}, NEW b \in Nat, \A x \in S : x <= b
  PROVE  Max(S) \in S /\ \A y \in S : Max(S) >= y
BY LargestExists DEF Max

-----------------------------------------------------------------------------
(***************************************************************************)
(* Input, for any keys, blocked letters, clicks on the chord button and    *)
(* positions.                                                              *)
(***************************************************************************)

Messages == [kind : {"mouse_move", "button"}, at : Nat]

\* Only the first message of a step is a move, and it takes the pointer where it is now: a move
\* waits only as long as nothing else has moved the pointer.
OutInv ==
  /\ out \in Seq(Messages)
  /\ newest <= position /\ pending \in {0, position} /\ pressPos <= position
  /\ \A i \in DOMAIN out : out[i].at <= position /\ (out[i].kind = "mouse_move" => i = 1 /\ out[i].at >= newest)

\* No key is down at a host that is not told of it any more, a chord runs only once the session was
\* reported, a window without the focus holds no key, and a key that is held and not down physically
\* is a letter of a blocked chord.
KeysInv ==
  /\ ~inputReady \/ session = "over" => sent_down = {}
  /\ \A c \in Chords : chord[c] # "unused" => inputReady \/ session = "over"
  /\ window # "focused" => held = {}
  /\ held \subseteq phys \union BLOCKED_LETTERS
  /\ PressIsAccounted

\* While the session runs, the host of a screen that was told of it is told of releases too.
TouchInv == (touch_down /\ session # "over" => inputReady) /\ TouchPressIsOwned

InputInv == InputTypeOK /\ OutInv /\ KeysInv /\ TouchInv

\* A message has a place.
LEMMA MessageOf ==
  ASSUME NEW s \in Seq(Messages), NEW i \in DOMAIN s
  PROVE  s[i].at \in Nat
<1>1. s[i] \in Messages
  OBVIOUS
<1> QED
  BY <1>1 DEF Messages

\* What was sent before this step was sent at a place the pointer has been to.
LEMMA NewestFacts ==
  ASSUME InputTypeOK, OutInv
  PROVE  LET m == Max({newest} \union {out[i].at : i \in DOMAIN out}) IN m \in Nat /\ m <= position
<1> DEFINE S == {newest} \union {out[i].at : i \in DOMAIN out}
<1>1. position \in Nat /\ newest \in Nat
  BY InputAssumption DEF InputTypeOK
<1>2. \A i \in DOMAIN out : out[i].at \in Nat /\ out[i].at <= position
  BY MessageOf DEF OutInv
<1>3. S \in SUBSET Nat /\ S # {} /\ \A x \in S : x <= position
  BY <1>1, <1>2 DEF OutInv
<1> HIDE DEF S
<1>4. Max(S) \in S
  BY <1>1, <1>3, LargestIs
<1>5. Max(S) \in Nat /\ Max(S) <= position
  BY <1>3, <1>4
<1> QED
  BY <1>5 DEF S

\* What the two messages say.
LEMMA MessageFacts ==
  ASSUME NEW q \in Nat
  PROVE  /\ Move(q) \in Messages /\ Move(q).kind = "mouse_move" /\ Move(q).at = q
         /\ Button(q) \in Messages /\ Button(q).kind = "button" /\ Button(q).at = q
BY DEF Move, Button, Messages

\* A step that sends only what is allowed now.
LEMMA SendsKeeps ==
  ASSUME InputTypeOK, OutInv, NEW msgs \in Seq(Messages), Sends(msgs) \/ Silent,
         position' \in Nat, position <= position', pending' \in {0, position'}, pressPos' <= position',
         \A i \in DOMAIN msgs : /\ msgs[i].at <= position'
                                /\ msgs[i].kind = "mouse_move" => i = 1 /\ msgs[i].at >= position
  PROVE  OutInv' /\ newest' \in Nat /\ newest' <= position'
<1>1. position \in Nat
  BY InputAssumption DEF InputTypeOK
<1>2. newest' \in Nat /\ newest' <= position
  BY NewestFacts DEF Sends, Silent
<1>3. newest' <= position'
  BY <1>1, <1>2
<1>4. out' = msgs \/ out' = <<>>
  BY DEF Sends, Silent
<1>5. CASE out' = msgs
  <2>1. \A i \in DOMAIN msgs : msgs[i].at \in Nat
    BY MessageOf
  <2> QED
    BY <1>1, <1>2, <1>3, <1>5, <2>1 DEF OutInv
<1>6. CASE out' = <<>>
  BY <1>2, <1>3, <1>6 DEF OutInv
<1> QED
  BY <1>4, <1>5, <1>6

\* Where the elements of two joined sequences are.
LEMMA ConcatFacts ==
  ASSUME NEW S, NEW s \in Seq(S), NEW u \in Seq(S)
  PROVE  /\ s \o u \in Seq(S) /\ DOMAIN (s \o u) = 1..(Len(s) + Len(u))
         /\ \A i \in 1..Len(s) : (s \o u)[i] = s[i]
         /\ \A i \in 1..Len(u) : (s \o u)[Len(s) + i] = u[i]
OBVIOUS

\* The pending move, if there is one, comes before the buttons.
FlushThen(s, u) ==
  \A i \in DOMAIN s : \/ \E j \in DOMAIN u : s[i] = u[j]
                      \/ i = 1 /\ pending # 0 /\ s[i] = Move(pending)

\* That is what a handler sends.
LEMMA FlushedFacts ==
  ASSUME pending \in Nat, NEW u \in Seq(Messages)
  PROVE  Flushed \o u \in Seq(Messages) /\ FlushThen(Flushed \o u, u)
<1>1. /\ Flushed \in Seq(Messages) /\ Len(Flushed) \in {0, 1}
      /\ Len(Flushed) = 1 => pending # 0 /\ Flushed[1] = Move(pending)
  BY MessageFacts DEF Flushed
<1> DEFINE s == Flushed \o u
<1>2. /\ s \in Seq(Messages) /\ DOMAIN s = 1..(Len(Flushed) + Len(u))
      /\ \A i \in 1..Len(Flushed) : s[i] = Flushed[i]
      /\ \A i \in 1..Len(u) : s[Len(Flushed) + i] = u[i]
  BY <1>1, ConcatFacts
<1>3. Len(u) \in Nat /\ DOMAIN u = 1..Len(u)
  OBVIOUS
<1> HIDE DEF s
<1>4. ASSUME NEW i \in DOMAIN s
      PROVE  (\E j \in DOMAIN u : s[i] = u[j]) \/ (i = 1 /\ pending # 0 /\ s[i] = Move(pending))
  <2>1. CASE i <= Len(Flushed)
    BY <1>1, <1>2, <1>3, <2>1
  <2>2. CASE i > Len(Flushed)
    <3>1. i - Len(Flushed) \in DOMAIN u /\ Len(Flushed) + (i - Len(Flushed)) = i
      BY <1>1, <1>2, <1>3, <2>2
    <3> QED
      BY <1>2, <1>3, <3>1
  <2> QED
    BY <1>1, <1>2, <1>3, <2>1, <2>2
<1>5. FlushThen(s, u)
  BY <1>4 DEF FlushThen
<1> QED
  BY <1>2, <1>5 DEF s

\* Every step of the pointer leaves the keys alone, and every other step the pointer.
LEMMA Groups ==
  /\ PointerNext => UNCHANGED <<keyVars, linkVars, chordVars>>
  /\ KeyNext => UNCHANGED <<pointerVars, linkVars, chordVars>> /\ Silent
  /\ LinkNext => UNCHANGED <<phys, position, fingers, pressPos, selected>>
BY DEF PointerNext, KeyNext, LinkNext, KeyPressed, KeyReleased, MouseMoved, OnFrame, MouseActed, FirstFinger, SecondFinger,
       FingerMoved, FingersPinched, FingerLifted, TouchCancelled, Leave, Return, Unmount, SessionUp, StatusConnected,
       SessionOver, StatusLost, ChordClicked, ChordSends, ChordSendFails, pointerVars, linkVars, chordVars, keyVars

\* Keys, focus, session and chords.
LEMMA KeysStep == InputTypeOK /\ KeysInv /\ [InputNext]_inputVars => KeysInv'
<1> SUFFICES ASSUME InputTypeOK, KeysInv, [InputNext]_inputVars
             PROVE  KeysInv'
  OBVIOUS
<1>1. CASE PointerNext \/ UNCHANGED inputVars
  <2>1. UNCHANGED <<phys, held, sent_down, window, inputReady, session, chord, selected>>
    BY <1>1, Groups DEF inputVars, keyVars, linkVars, chordVars
  <2>2. \A c \in Chords : ChordHolds(c)' = ChordHolds(c)
    BY <2>1 DEF ChordHolds
  <2> QED
    BY <2>1, <2>2 DEF KeysInv, PressIsAccounted
<1>2. ASSUME NEW k \in Keys, KeyPressed(k) \/ KeyReleased(k)
      PROVE  KeysInv'
  <2>1. UNCHANGED <<window, inputReady, session, chord, selected>>
    BY <1>2 DEF KeyPressed, KeyReleased, linkVars, chordVars
  <2>2. \A c \in Chords : ChordHolds(c)' = ChordHolds(c)
    BY <2>1 DEF ChordHolds
  <2>3. \/ UNCHANGED <<held, sent_down>> /\ phys' = phys \union {k}
        \/ UNCHANGED <<held, sent_down>> /\ phys' = phys \ {k} /\ (k \in BLOCKED_LETTERS \/ k \notin held)
        \/ /\ held' = held \union {k} /\ phys' = phys \union {k} /\ window = "focused"
           /\ sent_down' = IF Ready /\ Accepted THEN sent_down \union {k} ELSE sent_down
        \/ /\ held' = held \ {k} /\ phys' = phys \ {k}
           /\ sent_down' = IF Ready /\ Accepted THEN sent_down \ {k} ELSE sent_down
    BY <1>2 DEF KeyPressed, KeyReleased, KeyDownSent, KeyUpSent, isBlockedChord, KeysInv
  <2>4. PressIsAccounted'
    BY <2>1, <2>2, <2>3 DEF KeysInv, PressIsAccounted, Ready, Accepted
  <2> QED
    BY <2>1, <2>3, <2>4 DEF KeysInv, Ready, Accepted
<1>3. CASE Leave \/ Unmount
  <2>1. UNCHANGED <<phys, inputReady, session, chord, selected>> /\ releaseAll
    BY <1>3 DEF Leave, Unmount, chordVars
  <2>2. \A c \in Chords : ChordHolds(c)' = ChordHolds(c)
    BY <2>1 DEF ChordHolds
  <2>3. PressIsAccounted'
    BY <2>1, <2>2 DEF KeysInv, PressIsAccounted, Ready, Accepted, releaseAll, KeyUpSent, InputTypeOK
  <2> QED
    BY <2>1, <2>3 DEF KeysInv, releaseAll, KeyUpSent
<1>4. CASE Return \/ SessionUp \/ StatusConnected \/ SessionOver \/ StatusLost
  <2>1. /\ UNCHANGED <<phys, held, chord, selected>> /\ (sent_down' = sent_down \/ (session' = "over" /\ sent_down' = {}))
        /\ (inputReady => inputReady' \/ session' = "over") /\ (session = "over" => session' = "over")
        /\ (inputReady' => inputReady \/ sent_down' = sent_down)
        /\ (window' # "focused" => window # "focused")
        /\ (~inputReady' \/ session' = "over" => ~inputReady \/ session = "over" \/ sent_down' = {})
    BY <1>4 DEF Return, SessionUp, StatusConnected, SessionOver, StatusLost, keyVars, chordVars, InputTypeOK
  <2>2. \A c \in Chords : ChordHolds(c)' = ChordHolds(c)
    BY <2>1 DEF ChordHolds
  <2>3. PressIsAccounted'
    BY <2>1, <2>2 DEF KeysInv, PressIsAccounted
  <2> QED
    BY <2>1, <2>3 DEF KeysInv
<1>5. ASSUME NEW c \in Chords, ChordClicked(c) \/ ChordSendFails(c) \/ ChordSends(c)
      PROVE  KeysInv'
  <2>1. /\ phys' = phys /\ held' = held /\ window' = window /\ inputReady' = inputReady /\ session' = session
        /\ selected' = selected
    BY <1>5 DEF ChordClicked, ChordSends, ChordSendFails, keyVars, linkVars
  <2>2. (inputReady \/ session = "over") /\ \A d \in Chords \ {c} : chord'[d] = chord[d]
    BY <1>5 DEF ChordClicked, ChordSends, ChordSendFails, KeysInv, InputTypeOK, Accepted
  <2>3. \A d \in Chords \ {c} : ChordHolds(d)' = ChordHolds(d)
    BY <2>1, <2>2 DEF ChordHolds
  <2>4. \/ sent_down' = {}
        \/ sent_down' \ ChordHolds(c)' \subseteq sent_down \ ChordHolds(c)
    <3>1. CASE ChordClicked(c)
      BY <3>1 DEF ChordClicked, ChordHolds, InputTypeOK, keyVars
    <3>2. CASE ~Accepted
      <4>1. sent_down' = sent_down /\ session = "over"
        BY <1>5, <3>2 DEF ChordClicked, ChordSends, ChordSendFails, Accepted, keyVars
      <4> QED
        BY <4>1 DEF KeysInv
    <3>3. CASE ChordSends(c) /\ Accepted
      <4>1. chord[c] \in {"ctrl_down", "letter_down", "letter_up", "ctrl_up"} /\ chord'[c] = AfterChord(chord[c])
        BY <3>3 DEF ChordSends, InputTypeOK, ChordSteps
      <4>2. CASE chord[c] = "ctrl_down"
        BY <2>1, <3>3, <4>1, <4>2 DEF ChordSends, ChordHolds, AfterChord
      <4>3. CASE chord[c] = "letter_down"
        BY <2>1, <3>3, <4>1, <4>3 DEF ChordSends, ChordHolds, AfterChord
      <4>4. CASE chord[c] = "letter_up"
        BY <2>1, <3>3, <4>1, <4>4 DEF ChordSends, ChordHolds, AfterChord
      <4>5. CASE chord[c] = "ctrl_up"
        BY <2>1, <3>3, <4>1, <4>5 DEF ChordSends, ChordHolds, AfterChord
      <4> QED
        BY <4>1, <4>2, <4>3, <4>4, <4>5
    <3> QED
      BY <1>5, <3>1, <3>2, <3>3 DEF ChordSendFails
  <2>5. PressIsAccounted'
    <3> SUFFICES ASSUME NEW k \in sent_down', k \notin held
                 PROVE  \E d \in Chords : k \in ChordHolds(d)'
      BY <2>1 DEF PressIsAccounted
    <3>1. CASE k \in ChordHolds(c)'
      BY <3>1
    <3>2. CASE k \notin ChordHolds(c)'
      <4>1. k \in sent_down /\ k \notin ChordHolds(c)
        BY <2>4, <3>2
      <4>2. PICK d \in Chords : k \in ChordHolds(d)
        BY <4>1 DEF KeysInv, PressIsAccounted
      <4>3. d # c
        BY <4>1, <4>2
      <4> QED
        BY <2>3, <4>2, <4>3
    <3> QED
      BY <3>1, <3>2
  <2>6. session = "over" => sent_down' = {}
    <3>1. session = "over" => sent_down' = sent_down
      BY <1>5 DEF ChordClicked, ChordSends, ChordSendFails, keyVars, Accepted
    <3> QED
      BY <3>1 DEF KeysInv
  <2>7. \A d \in Chords : chord'[d] # "unused" => inputReady' \/ session' = "over"
    BY <2>1, <2>2
  <2>8. ~inputReady' \/ session' = "over" => sent_down' = {}
    BY <2>1, <2>2, <2>6
  <2>9. (window' # "focused" => held' = {}) /\ held' \subseteq phys' \union BLOCKED_LETTERS
    BY <2>1 DEF KeysInv
  <2> QED
    BY <2>5, <2>7, <2>8, <2>9 DEF KeysInv
<1> QED
  BY <1>1, <1>2, <1>3, <1>4, <1>5 DEF InputNext, KeyNext, LinkNext

\* What a press or release of a touch does at the host.
LEMMA TouchSentFacts ==
  ASSUME touch_down \in BOOLEAN
  PROVE  /\ TouchSent(FALSE) => touch_down' \in BOOLEAN /\ (touch_down' => touch_down /\ ~(Ready /\ Accepted))
         /\ TouchSent(TRUE) => touch_down' \in BOOLEAN /\ (touch_down' => touch_down \/ (Ready /\ Accepted))
         /\ NothingTouched => touch_down' \in BOOLEAN /\ (touch_down' => touch_down)
<1>1. ASSUME TouchSent(FALSE)
      PROVE  touch_down' \in BOOLEAN /\ (touch_down' => touch_down /\ ~(Ready /\ Accepted))
  <2>1. CASE Ready /\ Accepted
    <3>1. touch_down' = FALSE
      BY <1>1, <2>1, Zenon DEF TouchSent
    <3> QED
      BY <3>1, Zenon
  <2>2. CASE ~(Ready /\ Accepted)
    <3>1. touch_down' = touch_down
      BY <1>1, <2>2, Zenon DEF TouchSent
    <3> QED
      BY <3>1, <2>2, Zenon
  <2> QED
    BY <2>1, <2>2
<1>2. ASSUME TouchSent(TRUE)
      PROVE  touch_down' \in BOOLEAN /\ (touch_down' => touch_down \/ (Ready /\ Accepted))
  <2>1. CASE Ready /\ Accepted
    <3>1. touch_down' = TRUE
      BY <1>2, <2>1, Zenon DEF TouchSent
    <3> QED
      BY <3>1, <2>1, Zenon
  <2>2. CASE ~(Ready /\ Accepted)
    <3>1. touch_down' = touch_down
      BY <1>2, <2>2, Zenon DEF TouchSent
    <3> QED
      BY <3>1, Zenon
  <2> QED
    BY <2>1, <2>2
<1>3. ASSUME NothingTouched
      PROVE  touch_down' \in BOOLEAN /\ (touch_down' => touch_down)
  <2>1. touch_down' = touch_down
    BY <1>3 DEF NothingTouched
  <2> QED
    BY <2>1, Zenon
<1> QED
  BY <1>1, <1>2, <1>3

\* Where the pointer may be after a step, and what may be waiting.
Places ==
  /\ position' \in 0..MaxPosition /\ position <= position' /\ pending' \in {0, position'}
  /\ pressPos' \in Nat /\ pressPos' <= position'
  /\ fingers' \in 0..2 /\ gesture' \in {"none", "pending", "leftDown"}

\* The pointer only goes to later places, and a move that waits is of the newest one.
LEMMA PlacesStep ==
  ASSUME InputTypeOK, OutInv, [InputNext]_inputVars
  PROVE  Places
<1>1. /\ MaxPosition \in Nat /\ position \in 0..MaxPosition /\ pending \in {0, position}
      /\ pressPos \in Nat /\ pressPos <= position
      /\ fingers \in 0..2 /\ gesture \in {"none", "pending", "leftDown"}
  BY InputAssumption DEF InputTypeOK, OutInv
<1> USE DEF Places
<1>2. CASE UNCHANGED <<position, pending, pressPos, fingers, gesture>>
  BY <1>1, <1>2
<1>3. CASE MouseMoved
  <2>1. /\ position < MaxPosition /\ position' = position + 1 /\ pending' = position'
        /\ pressPos' = pressPos /\ fingers' = fingers /\ gesture' = gesture
    BY <1>3 DEF MouseMoved
  <2> QED
    BY <1>1, <2>1
<1>4. CASE OnFrame
  <2>1. position' = position /\ pending' = 0 /\ pressPos' = pressPos /\ fingers' = fingers /\ gesture' = gesture
    BY <1>4 DEF OnFrame
  <2> QED
    BY <1>1, <2>1
<1>5. CASE MouseActed
  <2>1. PICK p \in {position, position + 1} :
           p <= MaxPosition /\ position' = p /\ pending' = IF Flushed = <<>> THEN pending ELSE 0
    BY <1>5 DEF MouseActed
  <2>2. pending' = 0
    BY <2>1 DEF Flushed
  <2>3. pressPos' = pressPos /\ fingers' = fingers /\ gesture' = gesture
    BY <1>5 DEF MouseActed
  <2> QED
    BY <1>1, <2>1, <2>2, <2>3
<1>6. CASE FirstFinger
  <2>1. /\ position < MaxPosition /\ position' = position + 1 /\ pressPos' = position' /\ fingers' = 1
        /\ gesture' = "pending" /\ pending' \in {0, position'}
    BY <1>6, Zenon DEF FirstFinger
  <2> QED
    BY <1>1, <2>1
<1>7. CASE SecondFinger
  <2>1. /\ fingers' = 2 /\ gesture' = "none" /\ position' = position /\ pressPos' = pressPos
        /\ pending' \in {0, pending}
    BY <1>7, Zenon DEF SecondFinger
  <2> QED
    BY <1>1, <2>1
<1>8. CASE FingerMoved
  <2>1. /\ position < MaxPosition /\ position' = position + 1 /\ pending' = position' /\ fingers' = fingers
        /\ pressPos' \in {position', pressPos} /\ gesture' \in {"leftDown", gesture}
    BY <1>8, Zenon DEF FingerMoved
  <2> QED
    BY <1>1, <2>1
<1>9. CASE FingersPinched
  <2>1. /\ position < MaxPosition /\ position' = position + 1 /\ pending' = 0
        /\ pressPos' = pressPos /\ fingers' = fingers /\ gesture' = gesture
    BY <1>9 DEF FingersPinched
  <2> QED
    BY <1>1, <2>1
<1>10. CASE FingerLifted
  <2>1. /\ fingers > 0 /\ fingers' = fingers - 1 /\ gesture' = "none" /\ position' = position /\ pressPos' = pressPos
        /\ pending' \in {0, pending}
    BY <1>10, Zenon DEF FingerLifted
  <2> QED
    BY <1>1, <2>1
<1>11. CASE TouchCancelled
  <2>1. fingers' = 0 /\ UNCHANGED <<position, pending, pressPos, gesture>>
    BY <1>11 DEF TouchCancelled
  <2> QED
    BY <1>1, <2>1
<1>12. CASE Unmount
  <2>1. UNCHANGED <<position, fingers, pressPos>> /\ gesture' = "none" /\ pending' = 0
    BY <1>12 DEF Unmount
  <2> QED
    BY <1>1, <2>1
<1>13. CASE LinkNext /\ ~Unmount
  <2>1. UNCHANGED <<position, pending, pressPos, fingers, gesture>>
    BY <1>13 DEF LinkNext, Leave, Return, SessionUp, StatusConnected, SessionOver, StatusLost, ChordClicked, ChordSends,
        ChordSendFails, pointerVars
  <2> QED
    BY <1>2, <2>1
<1>14. CASE KeyNext \/ UNCHANGED inputVars
  BY <1>2, <1>14, Groups DEF pointerVars, inputVars
<1> HIDE DEF Places
<1> QED
  BY <1>3, <1>4, <1>5, <1>6, <1>7, <1>8, <1>9, <1>10, <1>11, <1>12, <1>13, <1>14 DEF InputNext, PointerNext

\* The moves and clicks of a step.
LEMMA OutStep ==
  ASSUME InputTypeOK, OutInv, [InputNext]_inputVars
  PROVE  OutInv' /\ newest' \in Nat /\ newest' <= position'
<1>1. /\ position \in Nat /\ pending \in Nat /\ pressPos \in Nat /\ newest \in Nat
      /\ pending \in {0, position} /\ pressPos <= position
  BY InputAssumption DEF InputTypeOK, OutInv
<1>2. Places
  BY PlacesStep
<1>3. position' \in Nat /\ position <= position' /\ pending' \in {0, position'} /\ pressPos' <= position'
  BY <1>2, InputAssumption DEF Places
<1>4. ASSUME Silent
      PROVE  OutInv' /\ newest' \in Nat /\ newest' <= position'
  <2>1. <<>> \in Seq(Messages) /\ DOMAIN <<>> = {}
    OBVIOUS
  <2> HIDE DEF OutInv
  <2> QED
    BY <1>3, <1>4, <2>1, SendsKeeps
\* What a handler sends is the pending move and then buttons.
<1>5. ASSUME NEW u \in Seq(Messages), Sends(Flushed \o u),
             \A j \in DOMAIN u : u[j].kind = "button" /\ u[j].at <= position'
      PROVE  OutInv' /\ newest' \in Nat /\ newest' <= position'
  <2> DEFINE s == Flushed \o u
  <2>1. s \in Seq(Messages) /\ FlushThen(s, u)
    BY <1>1, FlushedFacts
  <2>2. Sends(s)
    BY <1>5
  <2> HIDE DEF s
  <2>3. ASSUME NEW i \in DOMAIN s
        PROVE  s[i].at <= position' /\ (s[i].kind = "mouse_move" => i = 1 /\ s[i].at >= position)
    <3>1. CASE \E j \in DOMAIN u : s[i] = u[j]
      BY <1>5, <3>1
    <3>2. CASE i = 1 /\ pending # 0 /\ s[i] = Move(pending)
      BY <1>1, <1>3, <3>2, MessageFacts
    <3> QED
      BY <2>1, <3>1, <3>2 DEF FlushThen
  <2> QED
    BY <1>3, <2>1, <2>2, <2>3, SendsKeeps
<1>6. ASSUME NEW q \in Nat, q <= position'
      PROVE  /\ <<Button(q)>> \in Seq(Messages) /\ <<Button(q), Button(q)>> \in Seq(Messages)
             /\ \A j \in DOMAIN <<Button(q)>> : <<Button(q)>>[j].kind = "button" /\ <<Button(q)>>[j].at <= position'
             /\ \A j \in DOMAIN <<Button(q), Button(q)>> :
                   /\ <<Button(q), Button(q)>>[j].kind = "button"
                   /\ <<Button(q), Button(q)>>[j].at <= position'
  <2> DEFINE m == Button(q)
  <2>1. m \in Messages /\ m.kind = "button" /\ m.at <= position'
    BY <1>6, MessageFacts
  <2> HIDE DEF m
  <2>2. /\ <<m>> \in Seq(Messages) /\ <<m, m>> \in Seq(Messages)
        /\ \A j \in DOMAIN <<m>> : <<m>>[j] = m
        /\ \A j \in DOMAIN <<m, m>> : <<m, m>>[j] = m
    BY <2>1
  <2>3. /\ <<m>> \in Seq(Messages) /\ <<m, m>> \in Seq(Messages)
        /\ \A j \in DOMAIN <<m>> : <<m>>[j].kind = "button" /\ <<m>>[j].at <= position'
        /\ \A j \in DOMAIN <<m, m>> : <<m, m>>[j].kind = "button" /\ <<m, m>>[j].at <= position'
    BY <2>1, <2>2, Zenon
  <2> QED
    BY <2>3 DEF m
<1>7. ASSUME NEW q \in Nat, q <= position', Sends(Flushed \o <<Button(q)>>)
      PROVE  OutInv' /\ newest' \in Nat /\ newest' <= position'
  BY <1>5, <1>6, <1>7
<1>8. ASSUME NEW q \in Nat, q <= position', Sends(Flushed \o <<Button(q), Button(q)>>)
      PROVE  OutInv' /\ newest' \in Nat /\ newest' <= position'
  BY <1>5, <1>6, <1>8
<1>9. pressPos <= position'
  BY <1>1, <1>3
<1>10. CASE KeyNext
  BY <1>4, <1>10, Groups
<1>11. CASE UNCHANGED inputVars
  <2>1. UNCHANGED <<out, newest, position, pending, pressPos>>
    BY <1>11 DEF inputVars, pointerVars
  <2> QED
    BY <1>1, <2>1 DEF OutInv
<1>12. CASE MouseMoved \/ TouchCancelled
  BY <1>4, <1>12 DEF MouseMoved, TouchCancelled
<1>13. CASE OnFrame
  <2>1. Sends(<<Move(pending)>>) /\ pending # 0
    BY <1>13 DEF OnFrame
  <2> DEFINE m == Move(pending)
             s == <<m>>
  <2>2. m \in Messages /\ m.at = pending
    BY <1>1, MessageFacts
  <2>3. s \in Seq(Messages) /\ \A i \in DOMAIN s : i = 1 /\ s[i] = m
    BY <2>2
  <2>4. pending <= position' /\ pending >= position
    BY <1>1, <1>3, <2>1
  <2>5. Sends(s)
    BY <2>1
  <2> HIDE DEF s, m
  <2>6. \A i \in DOMAIN s : s[i].at <= position' /\ (s[i].kind = "mouse_move" => i = 1 /\ s[i].at >= position)
    BY <2>2, <2>3, <2>4, Zenon
  <2> QED
    BY <1>3, <2>3, <2>5, <2>6, SendsKeeps
<1>14. CASE MouseActed
  <2>1. PICK p \in {position, position + 1} : position' = p /\ Sends(Flushed \o <<Button(p)>>)
    BY <1>14 DEF MouseActed
  <2>2. p \in Nat /\ p <= position'
    BY <1>1, <2>1
  <2> QED
    BY <1>7, <2>1, <2>2
<1>15. CASE FirstFinger
  <2>1. \/ Silent
        \/ Sends(<<Move(position'), Button(pressPos)>>)
    BY <1>15, Zenon DEF FirstFinger
  <2>2. CASE Sends(<<Move(position'), Button(pressPos)>>)
    <3> DEFINE m == Move(position')
               b == Button(pressPos)
               s == <<m, b>>
    <3>1. /\ m \in Messages /\ m.at = position'
          /\ b \in Messages /\ b.at = pressPos /\ b.kind = "button"
      BY <1>1, <1>3, MessageFacts
    <3>2. s \in Seq(Messages) /\ \A i \in DOMAIN s : (i = 1 /\ s[i] = m) \/ s[i] = b
      BY <3>1
    <3>3. Sends(s)
      BY <2>2
    <3> HIDE DEF s, m, b
    <3>4. ASSUME NEW i \in DOMAIN s
          PROVE  s[i].at <= position' /\ (s[i].kind = "mouse_move" => i = 1 /\ s[i].at >= position)
      <4>1. CASE i = 1 /\ s[i] = m
        BY <1>3, <3>1, <4>1
      <4>2. CASE s[i] = b
        BY <1>9, <3>1, <4>2
      <4> QED
        BY <3>2, <4>1, <4>2
    <3> QED
      BY <1>3, <3>2, <3>3, <3>4, SendsKeeps
  <2> QED
    BY <1>4, <2>1, <2>2
<1>16. CASE SecondFinger \/ FingerMoved \/ Unmount
  <2>1. Silent \/ Sends(Flushed \o <<Button(pressPos)>>)
    BY <1>16, Zenon DEF SecondFinger, FingerMoved, Unmount
  <2> QED
    BY <1>1, <1>4, <1>7, <1>9, <2>1
<1>17. CASE FingersPinched
  <2>1. Sends(Flushed \o <<Button(position')>>)
    BY <1>17 DEF FingersPinched
  <2> QED
    BY <1>3, <1>7, <2>1
<1>18. CASE FingerLifted
  <2>1. gesture \in {"none", "pending", "leftDown"}
    BY DEF InputTypeOK
  <2>2. \/ Silent
        \/ Sends(Flushed \o <<Button(pressPos)>>)
        \/ Sends(Flushed \o <<Button(pressPos), Button(pressPos)>>)
    BY <1>18, <2>1 DEF FingerLifted
  <2> QED
    BY <1>1, <1>4, <1>7, <1>8, <1>9, <2>2
<1>19. CASE LinkNext /\ ~Unmount
  <2>1. Silent
    BY <1>19 DEF LinkNext, Leave, Return, SessionUp, StatusConnected, SessionOver, StatusLost, ChordClicked, ChordSends,
        ChordSendFails
  <2> QED
    BY <1>4, <2>1
<1> QED
  BY <1>10, <1>11, <1>12, <1>13, <1>14, <1>15, <1>16, <1>17, <1>18, <1>19 DEF InputNext, PointerNext

\* Every step keeps the types.
LEMMA InputTypeStep == InputTypeOK /\ OutInv /\ [InputNext]_inputVars => InputTypeOK'
<1> SUFFICES ASSUME InputTypeOK, OutInv, [InputNext]_inputVars
             PROVE  InputTypeOK'
  OBVIOUS
<1>a. MaxPosition \in Nat /\ Ctrl \in Keys /\ BLOCKED_LETTERS \subseteq Keys
  BY InputAssumption
<1>1. phys' \subseteq Keys /\ held' \subseteq Keys
  BY Groups DEF InputTypeOK, InputNext, KeyNext, LinkNext, KeyPressed, KeyReleased, Leave, Return, Unmount, SessionUp,
        StatusConnected, SessionOver, StatusLost, ChordClicked, ChordSends, ChordSendFails, keyVars, inputVars, releaseAll
<1>2. sent_down' \subseteq Keys
  <2>1. CASE PointerNext \/ UNCHANGED inputVars
    BY <2>1, Groups DEF keyVars, InputTypeOK, inputVars
  <2>2. CASE KeyNext
    BY <2>2 DEF KeyNext, KeyPressed, KeyReleased, KeyDownSent, KeyUpSent, InputTypeOK
  <2>3. ASSUME NEW c \in Chords, ChordSends(c)
        PROVE  sent_down' \subseteq Keys
    <3>1. selected[c] \in Keys
      BY <1>a DEF InputTypeOK
    <3> QED
      BY <1>a, <2>3, <3>1 DEF ChordSends, InputTypeOK
  <2>4. CASE LinkNext /\ ~\E c \in Chords : ChordSends(c)
    BY <2>4 DEF LinkNext, Leave, Return, Unmount, SessionUp, StatusConnected, SessionOver, StatusLost, ChordClicked,
        ChordSendFails, keyVars, InputTypeOK, releaseAll, KeyUpSent
  <2> QED
    BY <2>1, <2>2, <2>3, <2>4 DEF InputNext
<1>3. /\ window' \in {"focused", "away", "gone"} /\ inputReady' \in BOOLEAN /\ session' \in {"setup", "up", "over"}
      /\ inputReady' => session' # "setup"
  <2>0. /\ window \in {"focused", "away", "gone"} /\ inputReady \in BOOLEAN /\ session \in {"setup", "up", "over"}
        /\ inputReady => session # "setup"
    BY Zenon DEF InputTypeOK
  <2>1. CASE UNCHANGED <<window, inputReady, session>>
    BY <2>0, <2>1, Zenon
  <2>2. CASE Leave \/ Return \/ Unmount
    <3>1. window' \in {"focused", "away", "gone"} /\ inputReady' = inputReady /\ session' = session
      BY <2>2 DEF Leave, Return, Unmount
    <3> QED
      BY <2>0, <3>1, Zenon
  <2>3. CASE SessionUp \/ SessionOver
    <3>1. window' = window /\ inputReady' = inputReady /\ session' \in {"up", "over"}
      BY <2>3, Zenon DEF SessionUp, SessionOver
    <3>2. session' # "setup" /\ session' \in {"setup", "up", "over"}
      BY <3>1
    <3> QED
      BY <2>0, <3>1, <3>2, Zenon
  <2>4. CASE StatusConnected
    <3>1. window' = window /\ inputReady' = TRUE /\ session' = session /\ session = "up"
      BY <2>4, Zenon DEF StatusConnected
    <3>2. session # "setup"
      BY <3>1
    <3> QED
      BY <2>0, <3>1, <3>2, Zenon
  <2>5. CASE StatusLost
    <3>1. window' = window /\ inputReady' = FALSE /\ session' = session
      BY <2>5, Zenon DEF StatusLost
    <3> QED
      BY <2>0, <3>1, Zenon
  <2>6. ASSUME NEW c \in Chords, ChordClicked(c) \/ ChordSends(c) \/ ChordSendFails(c)
        PROVE  UNCHANGED <<window, inputReady, session>>
    BY <2>6, Zenon DEF ChordClicked, ChordSends, ChordSendFails, linkVars
  <2>7. CASE KeyNext \/ PointerNext \/ UNCHANGED inputVars
    <3>1. UNCHANGED <<window, inputReady, session>>
      BY <2>7, Groups, Zenon DEF linkVars, inputVars
    <3> QED
      BY <2>1, <3>1
  <2> QED
    BY <2>1, <2>2, <2>3, <2>4, <2>5, <2>6, <2>7 DEF InputNext, LinkNext
<1>4. chord' \in [Chords -> ChordSteps] /\ selected' \in [Chords -> BLOCKED_LETTERS]
  <2>1. selected' = selected
    BY Groups DEF InputNext, chordVars, inputVars
  <2>2. \A step : AfterChord(step) \in ChordSteps
    BY DEF AfterChord, ChordSteps
  <2>3. "ctrl_down" \in ChordSteps /\ "ctrl_up" \in ChordSteps
    BY DEF ChordSteps
  <2>4. chord' \in [Chords -> ChordSteps]
    BY ZenonT(60), <2>2, <2>3, Groups DEF InputTypeOK, InputNext, LinkNext, Leave, Return, Unmount, SessionUp,
        StatusConnected, SessionOver, StatusLost, ChordClicked, ChordSends, ChordSendFails, chordVars, inputVars
  <2> QED
    BY <2>1, <2>4 DEF InputTypeOK
<1>5. /\ position' \in 0..MaxPosition /\ pending' \in 0..MaxPosition /\ pressPos' \in 0..MaxPosition
      /\ newest' \in 0..MaxPosition /\ fingers' \in 0..2 /\ gesture' \in {"none", "pending", "leftDown"}
  <2>1. Places
    BY PlacesStep
  <2>2. newest' \in Nat /\ newest' <= position'
    BY OutStep
  <2> QED
    BY <1>a, <2>1, <2>2 DEF Places
<1>6. touch_down' \in BOOLEAN
  <2>1. TouchSent(FALSE) \/ TouchSent(TRUE) \/ NothingTouched \/ touch_down' = FALSE
    <3>1. CASE KeyNext \/ UNCHANGED inputVars
      BY <3>1, Groups DEF NothingTouched, pointerVars, inputVars
    <3>2. CASE PointerNext
      BY <3>2 DEF PointerNext, MouseMoved, OnFrame, MouseActed, FirstFinger, SecondFinger, FingerMoved, FingersPinched,
          FingerLifted, TouchCancelled, NothingTouched
    <3>3. CASE LinkNext
      BY <3>3 DEF LinkNext, Leave, Return, Unmount, SessionUp, StatusConnected, SessionOver, StatusLost, ChordClicked,
          ChordSends, ChordSendFails, pointerVars, NothingTouched
    <3> QED
      BY <3>1, <3>2, <3>3 DEF InputNext
  <2> QED
    BY <2>1, TouchSentFacts DEF InputTypeOK
<1>7. cancelled' \in BOOLEAN
  <2>1. cancelled' = cancelled \/ cancelled' = TRUE \/ cancelled' = FALSE
    <3>1. CASE KeyNext \/ UNCHANGED inputVars
      BY <3>1, Groups, Zenon DEF pointerVars, inputVars
    <3>2. CASE PointerNext
      BY <3>2, Zenon DEF PointerNext, MouseMoved, OnFrame, MouseActed, FirstFinger, SecondFinger, FingerMoved,
          FingersPinched, FingerLifted, TouchCancelled
    <3>3. CASE LinkNext
      BY <3>3, Zenon DEF LinkNext, Leave, Return, Unmount, SessionUp, StatusConnected, SessionOver, StatusLost,
          ChordClicked, ChordSends, ChordSendFails, pointerVars
    <3> QED
      BY <3>1, <3>2, <3>3, Zenon DEF InputNext
  <2>2. cancelled \in BOOLEAN
    BY DEF InputTypeOK
  <2> QED
    BY <2>1, <2>2, Zenon
<1> QED
  BY <1>1, <1>2, <1>3, <1>4, <1>5, <1>6, <1>7, Zenon DEF InputTypeOK

\* Every step keeps a press owned.
LEMMA TouchStep == InputTypeOK /\ TouchInv /\ [InputNext]_inputVars => TouchInv'
<1> SUFFICES ASSUME InputTypeOK, TouchInv, [InputNext]_inputVars
             PROVE  TouchInv'
  OBVIOUS
<1> USE DEF TouchInv, TouchPressIsOwned, Mounted
<1>1. CASE KeyNext \/ UNCHANGED inputVars
  BY <1>1, Groups DEF pointerVars, linkVars, inputVars
<1>2. CASE PointerNext
  <2>1. window' = window /\ inputReady' = inputReady /\ session' = session
    BY <1>2, Groups DEF linkVars
  <2>2. CASE MouseMoved \/ OnFrame \/ MouseActed \/ FingersPinched \/ TouchCancelled
    BY <2>1, <2>2 DEF MouseMoved, OnFrame, MouseActed, FingersPinched, TouchCancelled
  <2>3. CASE FirstFinger
    BY <2>1, <2>3, TouchSentFacts DEF FirstFinger, Ready, Accepted, InputTypeOK
  <2>4. CASE SecondFinger
    BY <2>1, <2>4, TouchSentFacts DEF SecondFinger, Ready, Accepted, InputTypeOK
  <2>5. CASE FingerMoved
    BY <2>1, <2>5, TouchSentFacts DEF FingerMoved, Ready, Accepted, InputTypeOK
  <2>6. CASE FingerLifted
    <3>1. gesture \in {"none", "pending", "leftDown"}
      BY DEF InputTypeOK
    <3>2. \/ touch_down' = touch_down /\ gesture # "leftDown"
          \/ touch_down' = IF Ready /\ Accepted THEN FALSE ELSE touch_down
      BY <2>6, <3>1 DEF FingerLifted, TouchSent, NothingTouched
    <3>3. CASE session = "over"
      BY <2>1, <3>3
    <3>4. CASE session # "over" /\ touch_down
      <4>1. Ready /\ Accepted /\ gesture = "leftDown"
        BY <3>4 DEF Ready, Accepted
      <4>2. touch_down' = FALSE
        BY <3>2, <4>1, Zenon
      <4> QED
        BY <4>2
    <3>5. CASE ~touch_down
      <4>1. touch_down' = FALSE
        BY <3>2, <3>5, Zenon DEF InputTypeOK
      <4> QED
        BY <4>1
    <3> QED
      BY <3>3, <3>4, <3>5
  <2> QED
    BY <1>2, <2>2, <2>3, <2>4, <2>5, <2>6 DEF PointerNext
<1>3. CASE Unmount
  BY <1>3 DEF Unmount, TouchSent, NothingTouched, Ready, Accepted
<1>4. CASE LinkNext /\ ~Unmount
  BY <1>4 DEF LinkNext, Leave, Return, SessionUp, StatusConnected, SessionOver, StatusLost, ChordClicked, ChordSends,
      ChordSendFails, pointerVars, linkVars, InputTypeOK
<1> QED
  BY <1>1, <1>2, <1>3, <1>4 DEF InputNext

\* Nothing is down, waiting or sent when the screen opens.
LEMMA InputInitially == InputInit => InputInv
<1> SUFFICES ASSUME InputInit
             PROVE  InputInv
  OBVIOUS
<1>1. InputTypeOK
  <2>1. inputReady = FALSE /\ touch_down = FALSE /\ cancelled = FALSE
    BY DEF InputInit
  <2>2. inputReady \in BOOLEAN /\ touch_down \in BOOLEAN /\ cancelled \in BOOLEAN /\ (inputReady => session # "setup")
    BY <2>1, Zenon
  <2> QED
    BY <2>2, InputAssumption DEF InputInit, InputTypeOK, ChordSteps
<1>2. OutInv
  BY DEF InputInit, OutInv
<1>3. KeysInv
  BY DEF InputInit, KeysInv, PressIsAccounted
<1>4. TouchInv
  <2>1. touch_down = FALSE
    BY DEF InputInit
  <2> QED
    BY <2>1, Zenon DEF TouchInv, TouchPressIsOwned
<1> QED
  BY <1>1, <1>2, <1>3, <1>4 DEF InputInv

\* The invariant holds throughout.
LEMMA InputInvariant == InputSpec => []InputInv
<1>1. InputInv /\ [InputNext]_inputVars => InputInv'
  BY InputTypeStep, OutStep, KeysStep, TouchStep DEF InputInv
<1> QED
  BY InputInitially, <1>1, PTL DEF InputSpec

\* Each variable of the input model has its type, and no screen believes in a session that is still
\* being set up.
THEOREM InputTypeCorrect == InputSpec => []InputTypeOK
<1>1. InputInv => InputTypeOK
  BY DEF InputInv
<1> QED
  BY InputInvariant, <1>1, PTL

\* A coalesced move never takes the pointer back to an older place, for any number of positions and
\* any order of moves, clicks, scrolls, gestures and frames (MoveCoalescer).
THEOREM MovesGoForward == InputSpec => []MovesNeverGoBack
<1>1. OutInv => MovesNeverGoBack
  <2> SUFFICES ASSUME OutInv, NEW i \in DOMAIN out, out[i].kind = "mouse_move"
               PROVE  out[i].at >= newest /\ \A j \in 1..(i - 1) : out[i].at >= out[j].at
    BY DEF MovesNeverGoBack
  <2>1. i = 1 /\ out[i].at >= newest
    BY DEF OutInv
  <2> QED
    BY <2>1
<1>2. InputInv => OutInv
  BY DEF InputInv
<1> QED
  BY InputInvariant, <1>1, <1>2, PTL

\* Whatever the host was told is down is remembered by the tracker or by a running chord, for any
\* set of keys and any number of chords at once (KeyTracker, sendCtrlChord).
THEOREM PressesAreAccounted == InputSpec => []PressIsAccounted
<1>1. InputInv => PressIsAccounted
  BY DEF InputInv, KeysInv
<1> QED
  BY InputInvariant, <1>1, PTL

\* A key that stays down at the host after the user let go of it is a letter of a blocked chord
\* (KeyTracker.handleKey, isBlockedChord).
THEOREM OnlyBlockedLinger == InputSpec => []LingeringIsBlocked
<1>1. InputInv => LingeringIsBlocked
  BY DEF InputInv, KeysInv, PressIsAccounted, LingeringIsBlocked
<1> QED
  BY InputInvariant, <1>1, PTL

\* While a session runs, the left button is down at its host for a touch only while a drag of a
\* mounted screen owns the press, with its finger on the canvas unless the browser cancelled the
\* touch (TouchGestures).
THEOREM TouchPressesAreOwned == InputSpec => []TouchPressIsOwned
<1>1. InputInv => TouchPressIsOwned
  BY DEF InputInv, TouchInv
<1> QED
  BY InputInvariant, <1>1, PTL

-----------------------------------------------------------------------------
(***************************************************************************)
(* Video, for any number of events in flight, frames and clicks.           *)
(***************************************************************************)

Renderers == [exists : BOOLEAN, configured : BOOLEAN, gotKey : BOOLEAN, first : {"none", "key"}, intact : BOOLEAN]

\* A decoder that believes it has a key frame was given one first.
RendererOK(r) == r \in Renderers /\ (r.gotKey = TRUE => r.first = "key")

Recordings ==
  [active : BOOLEAN, data : Seq(BOOLEAN), index : Seq(Nat), torn : BOOLEAN, count : Nat, writing : BOOLEAN]

\* An entry points at a chunk that was written whole, and the chunk that waits for its entry is whole.
RecordingOK(r) ==
  /\ r \in Recordings /\ r.count = Len(r.index)
  /\ \A i \in 1..Len(r.index) : r.index[i] \in 1..Len(r.data) /\ r.data[r.index[i]] = TRUE
  /\ r.writing = TRUE => Len(r.data) > 0 /\ r.data[Len(r.data)] = TRUE

\* Closing, configuring and skipping keep a renderer sound.
LEMMA RendererFacts ==
  ASSUME NEW r, RendererOK(r)
  PROVE  /\ RendererOK(NoRenderer) /\ RendererOK([NoRenderer EXCEPT !.exists = TRUE])
         /\ RendererOK(Closed(r)) /\ RendererOK(Ensured(r)) /\ RendererOK([r EXCEPT !.intact = FALSE])
<1>1. \A x \in BOOLEAN : RendererOK([NoRenderer EXCEPT !.exists = x])
  BY DEF RendererOK, Renderers, NoRenderer
<1>2. RendererOK(NoRenderer)
  BY DEF RendererOK, Renderers, NoRenderer
<1>3. r.exists \in BOOLEAN
  BY DEF RendererOK, Renderers
<1>4. RendererOK(Closed(r))
  BY <1>1, <1>3 DEF Closed
<1>5. RendererOK([Closed(r) EXCEPT !.configured = TRUE])
  BY <1>4 DEF RendererOK, Renderers
<1>6. RendererOK(Ensured(r))
  BY <1>5 DEF Ensured
<1>7. RendererOK([r EXCEPT !.intact = FALSE])
  BY DEF RendererOK, Renderers
<1> QED
  BY <1>1, <1>2, <1>4, <1>6, <1>7

\* So does giving it what shouldDecode lets through.
LEMMA FedFacts ==
  ASSUME NEW r, RendererOK(r), NEW key \in BOOLEAN, NEW full \in BOOLEAN, shouldDecode(key, r.gotKey, full)
  PROVE  RendererOK(Fed(r, key))
<1>1. r \in Renderers /\ r.gotKey \in BOOLEAN /\ r.intact \in BOOLEAN /\ r.first \in {"none", "key"}
  BY DEF RendererOK, Renderers
<1>2. CASE key = TRUE
  <2>1. /\ (r.gotKey \/ key) = TRUE /\ (r.intact \/ key) = TRUE
    BY <1>2
  <2>2. (IF r.first = "none" THEN (IF key THEN "key" ELSE "delta") ELSE r.first) = "key"
    BY <1>1, <1>2
  <2>3. Fed(r, key) = [r EXCEPT !.gotKey = TRUE, !.first = "key", !.intact = TRUE]
    BY <2>1, <2>2, Zenon DEF Fed
  <2>4. RendererOK([r EXCEPT !.gotKey = TRUE, !.first = "key", !.intact = TRUE])
    BY <1>1 DEF RendererOK, Renderers
  <2> QED
    BY <2>3, <2>4
<1>3. CASE key = FALSE
  <2>1. r.gotKey = TRUE /\ r.first = "key"
    BY <1>1, <1>3 DEF shouldDecode, RendererOK
  <2>2. (r.gotKey \/ key) = TRUE /\ (r.intact \/ key) = r.intact
    BY <1>1, <1>3, <2>1
  <2>3. (IF r.first = "none" THEN (IF key THEN "key" ELSE "delta") ELSE r.first) = "key"
    BY <2>1
  <2>4. Fed(r, key) = [r EXCEPT !.gotKey = TRUE, !.first = "key", !.intact = r.intact]
    BY <2>2, <2>3, Zenon DEF Fed
  <2>5. RendererOK([r EXCEPT !.gotKey = TRUE, !.first = "key", !.intact = r.intact])
    BY <1>1 DEF RendererOK, Renderers
  <2> QED
    BY <2>4, <2>5
<1> QED
  BY <1>2, <1>3

\* A new recording is sound, and one that drops its waiting chunk stays so.
LEMMA RecordingFacts ==
  ASSUME NEW r, RecordingOK(r)
  PROVE  /\ RecordingOK(NoRecording) /\ RecordingOK([NoRecording EXCEPT !.active = TRUE])
         /\ RecordingOK([r EXCEPT !.writing = FALSE]) /\ RecordingOK([r EXCEPT !.writing = FALSE, !.torn = TRUE])
<1>0. <<>> \in Seq(BOOLEAN) /\ <<>> \in Seq(Nat)
  OBVIOUS
<1>1. NoRecording \in Recordings /\ [NoRecording EXCEPT !.active = TRUE] \in Recordings
  BY <1>0 DEF NoRecording, Recordings
<1>2. RecordingOK(NoRecording) /\ RecordingOK([NoRecording EXCEPT !.active = TRUE])
  BY <1>1 DEF NoRecording, RecordingOK
<1>3. r \in Recordings
  BY DEF RecordingOK
<1>4. [r EXCEPT !.writing = FALSE] \in Recordings /\ [r EXCEPT !.writing = FALSE, !.torn = TRUE] \in Recordings
  BY <1>3 DEF Recordings
<1>5. ASSUME NEW q \in Recordings, q.index = r.index, q.data = r.data, q.count = r.count, q.writing = FALSE
      PROVE  RecordingOK(q)
  BY <1>5 DEF RecordingOK
<1>6. \A q \in {[r EXCEPT !.writing = FALSE], [r EXCEPT !.writing = FALSE, !.torn = TRUE]} :
         q.index = r.index /\ q.data = r.data /\ q.count = r.count /\ q.writing = FALSE
  BY <1>3 DEF Recordings
<1> QED
  BY <1>2, <1>4, <1>5, <1>6

\* A chunk, whole or not, disturbs no entry.
LEMMA DataWrittenFacts ==
  ASSUME NEW r, RecordingOK(r), r.writing = FALSE, NEW all \in BOOLEAN
  PROVE  RecordingOK(DataWritten(r, all))
<1> DEFINE q == DataWritten(r, all)
<1>1. /\ r \in Recordings /\ r.data \in Seq(BOOLEAN) /\ r.index \in Seq(Nat) /\ r.count = Len(r.index)
      /\ \A i \in 1..Len(r.index) : r.index[i] \in 1..Len(r.data) /\ r.data[r.index[i]] = TRUE
  BY DEF RecordingOK, Recordings
<1> DEFINE d == Append(r.data, all)
<1>2. /\ d \in Seq(BOOLEAN) /\ Len(d) = Len(r.data) + 1 /\ Len(r.data) \in Nat
      /\ \A j \in 1..Len(r.data) : d[j] = r.data[j]
      /\ d[Len(r.data) + 1] = all
  BY <1>1
<1>3. q.data = d /\ q.index = r.index /\ q.count = r.count /\ q.writing = all
  BY <1>1 DEF DataWritten, Recordings
<1> HIDE DEF d
<1>4. q \in Recordings
  BY <1>1, <1>2 DEF DataWritten, Recordings, d
<1> HIDE DEF q
<1>5. \A i \in 1..Len(r.index) : r.index[i] \in 1..Len(d) /\ d[r.index[i]] = TRUE
  BY SMTT(30), <1>1, <1>2
<1>6. Len(d) > 0 /\ (all = TRUE => d[Len(d)] = TRUE)
  BY <1>2
<1>7. RecordingOK(q)
  BY <1>1, <1>3, <1>4, <1>5, <1>6 DEF RecordingOK
<1> QED
  BY <1>7 DEF q

\* An entry for the last chunk leads to a whole one, like those before it.
LEMMA EntryAppended ==
  ASSUME NEW d \in Seq(BOOLEAN), NEW x \in Seq(Nat), Len(d) > 0, d[Len(d)] = TRUE,
         \A i \in 1..Len(x) : x[i] \in 1..Len(d) /\ d[x[i]] = TRUE
  PROVE  LET y == Append(x, Len(d)) IN
           /\ y \in Seq(Nat) /\ Len(y) = Len(x) + 1
           /\ \A i \in 1..Len(y) : y[i] \in 1..Len(d) /\ d[y[i]] = TRUE
<1> DEFINE y == Append(x, Len(d))
<1>1. Len(x) \in Nat /\ Len(d) \in Nat /\ Len(d) \in 1..Len(d)
  OBVIOUS
<1>2. /\ y \in Seq(Nat) /\ Len(y) = Len(x) + 1
      /\ \A j \in 1..Len(x) : y[j] = x[j]
      /\ y[Len(x) + 1] = Len(d)
  BY <1>1
<1> HIDE DEF y
<1>3. ASSUME NEW i \in 1..Len(y)
      PROVE  y[i] \in 1..Len(d) /\ d[y[i]] = TRUE
  <2>1. CASE i \in 1..Len(x)
    BY <1>2, <2>1
  <2>2. CASE i = Len(x) + 1
    BY <1>1, <1>2, <2>2
  <2>3. i \in 1..Len(x) \/ i = Len(x) + 1
    BY <1>1, <1>2
  <2> QED
    BY <2>1, <2>2, <2>3
<1> QED
  BY <1>2, <1>3 DEF y

\* Writing the entry keeps a recording sound.
LEMMA EntryWrittenFacts ==
  ASSUME NEW r, RecordingOK(r), r.writing = TRUE
  PROVE  RecordingOK(EntryWritten(r))
<1> DEFINE q == EntryWritten(r)
           x == Append(r.index, Len(r.data))
<1>1. /\ r \in Recordings /\ r.data \in Seq(BOOLEAN) /\ r.index \in Seq(Nat) /\ r.count = Len(r.index) /\ r.count \in Nat
      /\ \A i \in 1..Len(r.index) : r.index[i] \in 1..Len(r.data) /\ r.data[r.index[i]] = TRUE
      /\ Len(r.data) > 0 /\ r.data[Len(r.data)] = TRUE
  BY DEF RecordingOK, Recordings
<1>2. /\ x \in Seq(Nat) /\ Len(x) = Len(r.index) + 1
      /\ \A i \in 1..Len(x) : x[i] \in 1..Len(r.data) /\ r.data[x[i]] = TRUE
  BY <1>1, EntryAppended
<1>3. q = [r EXCEPT !.index = x, !.count = r.count + 1, !.writing = FALSE]
  BY Zenon DEF EntryWritten
<1> HIDE DEF x
<1> HIDE DEF q
<1>a. \A y \in Seq(Nat), n \in Nat : LET z == [r EXCEPT !.index = y, !.count = n, !.writing = FALSE] IN
         z \in Recordings /\ z.data = r.data /\ z.index = y /\ z.count = n /\ z.writing = FALSE
  BY <1>1 DEF Recordings
<1>b. x \in Seq(Nat) /\ r.count + 1 \in Nat
  BY <1>1, <1>2
<1>4. /\ q \in Recordings
      /\ q.data = r.data /\ q.index = x /\ q.count = r.count + 1 /\ q.writing = FALSE
  BY <1>3, <1>a, <1>b, Zenon
<1>5. RecordingOK(q)
  BY <1>1, <1>2, <1>4 DEF RecordingOK
<1> QED
  BY <1>5 DEF q

Events == [kind : {"packet", "frame"}, key : BOOLEAN, good : BOOLEAN]

VideoInv == RendererOK(renderer) /\ RecordingOK(rec) /\ events \in Seq(Events)

\* A frame comes, on either path.
LEMMA FrameFacts ==
  ASSUME VideoInv, NEW key \in BOOLEAN, FrameComes(key)
  PROVE  VideoInv'
<1>1. renderer' = renderer /\ rec.writing = FALSE /\ rec \in Recordings
  BY DEF FrameComes, screenVars, VideoInv, RecordingOK, Recordings
<1>2. CASE Forward(key)
  <2>1. rec' = rec /\ Emit([kind |-> "packet", key |-> key, good |-> TRUE])
    BY <1>2 DEF Forward
  <2>2. [kind |-> "packet", key |-> key, good |-> TRUE] \in Events
    BY DEF Events
  <2>3. events' \in Seq(Events)
    BY <2>1, <2>2 DEF Emit, VideoInv
  <2> QED
    BY <1>1, <2>1, <2>3 DEF VideoInv
<1>3. CASE Decode(key)
  <2> DEFINE e == [kind |-> "frame", key |-> FALSE, good |-> Whole(key)]
  <2>1. Whole(key) \in BOOLEAN
    BY Zenon DEF Whole
  <2>2. e \in Events
    BY <2>1 DEF Events
  <2>3. \/ UNCHANGED <<events, rec>>
        \/ Emit(e) /\ (rec' = rec \/ \E all \in BOOLEAN : rec' = DataWritten(rec, all))
    BY <1>3, Zenon DEF Decode
  <2> HIDE DEF e
  <2>4. events' \in Seq(Events)
    BY <2>2, <2>3 DEF Emit, VideoInv
  <2>5. RecordingOK(rec')
    BY <1>1, <2>3, DataWrittenFacts DEF VideoInv
  <2> QED
    BY <1>1, <2>4, <2>5 DEF VideoInv
<1> QED
  BY <1>2, <1>3 DEF FrameComes

\* The path changes.
LEMMA SyncFacts ==
  ASSUME VideoInv, NEW isRecording \in BOOLEAN, NEW r, RendererOK(r), SyncDecodeMode(isRecording, r)
  PROVE  RendererOK(renderer')
BY RendererFacts DEF SyncDecodeMode

\* A packet reaches the web view.
LEMMA PacketFacts ==
  ASSUME VideoInv, PacketArrives
  PROVE  VideoInv'
<1>1. rec' = rec /\ events # <<>> /\ events' = Tail(events)
  BY DEF PacketArrives
<1>2. events \in Seq(Events) /\ RendererOK(renderer)
  BY DEF VideoInv
<1>3. events' \in Seq(Events) /\ Head(events) \in Events
  BY <1>1, <1>2
<1>4. Head(events).key \in BOOLEAN
  BY <1>3 DEF Events
<1> DEFINE key == Head(events).key
           r == Ensured(renderer)
<1>5. RendererOK(r)
  BY <1>2, RendererFacts
<1>6. \/ renderer' = renderer
      \/ \E full \in BOOLEAN : shouldDecode(key, r.gotKey, full) /\ renderer' = Fed(r, key)
      \/ renderer' = [r EXCEPT !.intact = FALSE]
  BY Zenon DEF PacketArrives
<1>7. key \in BOOLEAN
  BY <1>4
<1> HIDE DEF key, r
<1>8. RendererOK(renderer')
  BY <1>2, <1>5, <1>6, <1>7, FedFacts, RendererFacts
<1> QED
  BY <1>1, <1>3, <1>8 DEF VideoInv

\* Every step keeps the invariant.
LEMMA VideoStep == VideoInv /\ [VideoNext]_videoVars => VideoInv'
<1> SUFFICES ASSUME VideoInv, [VideoNext]_videoVars
             PROVE  VideoInv'
  OBVIOUS
<1>0. RendererOK(renderer) /\ RecordingOK(rec) /\ events \in Seq(Events)
  BY DEF VideoInv
<1>1. ASSUME UNCHANGED <<renderer, rec, events>>
      PROVE  VideoInv'
  BY <1>0, <1>1 DEF VideoInv
<1>2. CASE SessionStarts \/ SessionEnds \/ Mount \/ Draw \/ UNCHANGED videoVars
  BY <1>1, <1>2 DEF SessionStarts, SessionEnds, Mount, Draw, screenVars, videoVars
<1>3. ASSUME NEW key \in BOOLEAN, FrameComes(key)
      PROVE  VideoInv'
  BY <1>3, FrameFacts
<1>4. CASE IndexWrite
  <2>1. rec.writing = TRUE
    BY <1>0, <1>4 DEF IndexWrite, RecordingOK, Recordings
  <2>2. RecordingOK(rec')
    BY <1>0, <1>4, <2>1, RecordingFacts, EntryWrittenFacts DEF IndexWrite
  <2>3. UNCHANGED <<renderer, events>>
    BY <1>4 DEF IndexWrite, screenVars
  <2> QED
    BY <1>0, <2>2, <2>3 DEF VideoInv
<1>5. CASE ScreenUnmounts
  <2>1. renderer' = NoRenderer /\ events' = <<>> /\ rec' = rec
    BY <1>5 DEF ScreenUnmounts
  <2>2. <<>> \in Seq(Events)
    OBVIOUS
  <2>3. RendererOK(renderer') /\ RecordingOK(rec') /\ events' \in Seq(Events)
    BY <1>0, <2>1, <2>2, RendererFacts
  <2> QED
    BY <2>3 DEF VideoInv
<1>6. ASSUME events' = events, rec' = rec, RendererOK(renderer')
      PROVE  VideoInv'
  BY <1>0, <1>6 DEF VideoInv
<1>7. CASE ProbeAnswers
  <2>1. \/ SyncDecodeMode(FALSE, [NoRenderer EXCEPT !.exists = TRUE])
        \/ renderer' = renderer
    BY <1>7 DEF ProbeAnswers
  <2>2. RendererOK(renderer')
    BY <1>0, <2>1, RendererFacts, SyncFacts
  <2> QED
    BY <1>6, <1>7, <2>2 DEF ProbeAnswers
<1>8. CASE PacketArrives
  BY <1>8, PacketFacts
<1>9. CASE DecoderFails
  <2>1. renderer' = Closed(renderer) /\ events' = events /\ rec' = rec
    BY <1>9 DEF DecoderFails, FallBack
  <2> QED
    BY <1>0, <1>6, <2>1, RendererFacts
<1>10. CASE FrameArrives
  <2>1. events # <<>> /\ events' = Tail(events) /\ renderer' = renderer /\ rec' = rec
    BY <1>10 DEF FrameArrives
  <2>2. events' \in Seq(Events)
    BY <1>0, <2>1
  <2> QED
    BY <1>0, <2>1, <2>2 DEF VideoInv
<1>11. CASE ClickRecord
  <2>1. SyncDecodeMode(TRUE, renderer) \/ renderer' = renderer
    BY <1>11 DEF ClickRecord
  <2>2. RendererOK(renderer')
    BY <1>0, <2>1, SyncFacts
  <2> QED
    BY <1>6, <1>11, <2>2 DEF ClickRecord
<1>12. CASE RecordingStarts \/ RecordingStops
  <2>1. SyncDecodeMode(FALSE, renderer) \/ renderer' = renderer
    BY <1>12 DEF RecordingStarts, RecordingStops
  <2>2. RendererOK(renderer')
    BY <1>0, <2>1, SyncFacts
  <2>3. events' = events /\ (rec' \in {rec, NoRecording, [NoRecording EXCEPT !.active = TRUE]})
    BY <1>12 DEF RecordingStarts, RecordingStops
  <2>4. RecordingOK(rec')
    BY <1>0, <2>3, RecordingFacts
  <2> QED
    BY <1>0, <2>2, <2>3, <2>4 DEF VideoInv
<1> QED
  BY <1>2, <1>3, <1>4, <1>5, <1>7, <1>8, <1>9, <1>10, <1>11, <1>12 DEF VideoNext

\* The invariant holds throughout.
LEMMA VideoInvariant == VideoSpec => []VideoInv
<1>1. VideoInit => VideoInv
  <2> SUFFICES ASSUME VideoInit
               PROVE  VideoInv
    OBVIOUS
  <2>1. renderer = NoRenderer /\ rec = NoRecording /\ events = <<>>
    BY DEF VideoInit
  <2>2. RendererOK(NoRenderer)
    BY DEF RendererOK, Renderers, NoRenderer
  <2>3. NoRecording \in Recordings
    BY DEF Recordings, NoRecording
  <2>4. RecordingOK(NoRecording)
    BY <2>3 DEF RecordingOK, NoRecording
  <2> QED
    BY <2>1, <2>2, <2>4 DEF VideoInv
<1> QED
  BY <1>1, VideoStep, PTL DEF VideoSpec

\* The web view's decoder is never started on a frame that needs one it has not seen, through any
\* number of resets, new screens and late packets (WebCodecsRenderer.push, reset, ensureDecoder).
THEOREM DecoderStartsOnKey == VideoSpec => []FirstIsKey
<1>1. VideoInv => FirstIsKey
  BY DEF VideoInv, RendererOK, Renderers, FirstIsKey
<1> QED
  BY VideoInvariant, <1>1, PTL

\* Every entry of the index of a recording leads to a whole frame, and the count is exact, for
\* recordings of any length with any failed writes (write_recording_frame).
THEOREM RecordingsAreExact == VideoSpec => []IndexIsExact
<1>1. VideoInv => IndexIsExact
  <2> SUFFICES ASSUME RecordingOK(rec)
               PROVE  rec.count = Len(rec.index) /\ \A i \in 1..rec.count : get_recording_frame(rec, i)
    BY DEF VideoInv, IndexIsExact
  <2> QED
    BY DEF RecordingOK, get_recording_frame
<1> QED
  BY VideoInvariant, <1>1, PTL

=============================================================================

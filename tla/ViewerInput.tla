----------------------------- MODULE ViewerInput -----------------------------
(***************************************************************************)
(* What the viewer's session screen makes of its user's input: the key      *)
(* tracker, the move coalescer, the touch gestures and the toolbar's chord  *)
(* buttons, in front of the gated sender and the session's channel.         *)
(*                                                                          *)
(* A pointer position is the number of positions the user has shown so far, *)
(* so a larger number is a later place.  Everything a handler sends goes    *)
(* out in the order of the calls; the handlers run one at a time (one       *)
(* JavaScript thread), a chord continues between them after each await.     *)
(***************************************************************************)
EXTENDS Naturals, Sequences, FiniteSetsExt

CONSTANTS
    Keys,              \* the physical keys the user touches
    Ctrl,              \* the key that makes ctrlKey true
    BLOCKED_LETTERS,   \* the letters of BLOCKED_CHORDS
    Chords,            \* clicks on the toolbar's chord button, each one run of sendCtrlChord
    MaxPosition        \* bound: positions the pointer or a finger visits

ASSUME InputAssumption ==
    /\ Ctrl \in Keys \ BLOCKED_LETTERS
    /\ BLOCKED_LETTERS \subseteq Keys
    /\ BLOCKED_LETTERS # {}
    /\ MaxPosition \in Nat

VARIABLES
    phys,        \* the keys that are physically down
    held,        \* KeyTracker.held
    window,      \* "focused" | "away" (blurred or hidden) | "gone" (unmounted)
    inputReady,  \* inputReadyRef.current
    session,     \* "setup" | "up" | "over": the session behind the channel
    position,    \* the newest position of the pointer
    pending,     \* MoveCoalescer.pending, 0 when null; a frame is scheduled while it is not
    fingers,     \* touches on the canvas
    gesture,     \* TouchGestures: "none" | "pending" | "leftDown"
    pressPos,    \* TouchGestures.pressPos
    cancelled,   \* the browser took the last touch away, and no finger has landed since
    chord,       \* what each chord's run sends next
    selected,    \* the letter of the chord that is selected when it is clicked
    sent_down,   \* the keys whose last message to this session's host was key_down
    touch_down,  \* whether the last touch message to the host pressed the left button
    out,         \* the pointer messages of the last step
    newest       \* the newest position of the pointer messages before it

keyVars == <<phys, held, sent_down>>
pointerVars == <<position, pending, fingers, gesture, pressPos, cancelled, touch_down>>
chordVars == <<chord, selected>>
linkVars == <<window, inputReady, session>>
inputVars == <<keyVars, pointerVars, linkVars, chordVars, out, newest>>

ChordSteps == {"unused", "ctrl_down", "letter_down", "letter_up", "ctrl_up", "done"}

InputInit ==
    /\ phys = {} /\ held = {} /\ sent_down = {}
    /\ window = "focused" /\ inputReady = FALSE /\ session = "setup"
    /\ position = 0 /\ pending = 0
    /\ fingers = 0 /\ gesture = "none" /\ pressPos = 0 /\ cancelled = FALSE /\ touch_down = FALSE
    /\ chord = [c \in Chords |-> "unused"] /\ selected \in [Chords -> BLOCKED_LETTERS]
    /\ out = <<>> /\ newest = 0

\* makeInputSender lets a message through, and send_input finds the channel open.
Ready == inputReady
Accepted == session # "over"

-----------------------------------------------------------------------------
(* Keys *)

\* Whether the viewer keeps the event of key k for its own window, given the keys down after it.
isBlockedChord(k, down) == k \in BLOCKED_LETTERS /\ Ctrl \in down

\* The tracker sends key_down or key_up.
KeyDownSent(ks) == sent_down' = IF Ready /\ Accepted THEN sent_down \union ks ELSE sent_down
KeyUpSent(ks) == sent_down' = IF Ready /\ Accepted THEN sent_down \ ks ELSE sent_down

\* Steps that send no pointer message.
Silent == out' = <<>> /\ newest' = Max({newest} \union {out[i].at : i \in DOMAIN out})

\* keydown, auto-repeat included.
KeyPressed(k) ==
    /\ phys' = phys \union {k}
    /\ IF window # "focused" \/ isBlockedChord(k, phys')
       THEN UNCHANGED <<held, sent_down>>
       ELSE held' = held \union {k} /\ KeyDownSent({k})
    /\ Silent /\ UNCHANGED <<pointerVars, linkVars, chordVars>>

KeyReleased(k) ==
    /\ k \in phys
    /\ phys' = phys \ {k}
    /\ IF window # "focused" \/ isBlockedChord(k, phys') \/ k \notin held
       THEN UNCHANGED <<held, sent_down>>
       ELSE held' = held \ {k} /\ KeyUpSent({k})
    /\ Silent /\ UNCHANGED <<pointerVars, linkVars, chordVars>>

\* Mutant: the map is cleared and nothing is sent.
releaseAllForgotten == held' = {} /\ sent_down' = sent_down
\* Mutant: losing the focus releases nothing.
releaseAllSkipped == UNCHANGED <<held, sent_down>>
releaseAll == held' = {} /\ KeyUpSent(held)

-----------------------------------------------------------------------------
(* Pointer *)

Move(p) == [kind |-> "mouse_move", at |-> p]
Button(p) == [kind |-> "button", at |-> p]

Sends(msgs) ==
    /\ out' = IF Ready THEN msgs ELSE <<>>
    /\ newest' = Max({newest} \union {out[i].at : i \in DOMAIN out})

\* Mutant: the pending move stays where it is.
FlushedLater == <<>>
\* The message that flush sends.
Flushed == IF pending = 0 THEN <<>> ELSE <<Move(pending)>>

Mounted == window # "gone"

\* mousemove: push.
MouseMoved ==
    /\ Mounted
    /\ position < MaxPosition
    /\ position' = position + 1 /\ pending' = position'
    /\ Silent /\ UNCHANGED <<keyVars, linkVars, chordVars, fingers, gesture, pressPos, cancelled, touch_down>>

OnFrame ==
    /\ pending # 0
    /\ pending' = 0
    /\ Sends(<<Move(pending)>>)
    /\ UNCHANGED <<keyVars, linkVars, chordVars, position, fingers, gesture, pressPos, cancelled, touch_down>>

\* mousedown, mouseup and wheel, at the last position or at a new one.
MouseActed ==
    /\ Mounted
    /\ \E p \in {position, position + 1} :
         /\ p <= MaxPosition
         /\ position' = p
         /\ pending' = IF Flushed = <<>> THEN pending ELSE 0
         /\ Sends(Flushed \o <<Button(p)>>)
    /\ UNCHANGED <<keyVars, linkVars, chordVars, fingers, gesture, pressPos, cancelled, touch_down>>

\* applyTouch of one press or release, after the flush.
TouchSent(down) == touch_down' = IF Ready /\ Accepted THEN down ELSE touch_down
NothingTouched == UNCHANGED touch_down

\* The first finger lands: an undecided press; a press left over from a cancelled touch is released.
FirstFinger ==
    /\ Mounted /\ fingers = 0
    /\ position < MaxPosition
    /\ fingers' = 1 /\ position' = position + 1
    /\ gesture' = "pending" /\ pressPos' = position' /\ cancelled' = FALSE
    /\ IF gesture = "leftDown"
       THEN /\ pending' = 0 /\ TouchSent(FALSE)
            /\ Sends(<<Move(position'), Button(pressPos)>>)
       ELSE pending' = position' /\ NothingTouched /\ Silent
    /\ UNCHANGED <<keyVars, linkVars, chordVars>>

\* Mutant: a second finger ends the gesture without releasing a committed press.
SecondFingerHolds ==
    /\ Mounted /\ fingers = 1
    /\ fingers' = 2 /\ gesture' = "none"
    /\ UNCHANGED <<pending, touch_down, pressPos, cancelled, position>>
    /\ Silent /\ UNCHANGED <<keyVars, linkVars, chordVars>>
\* A second finger means a scroll.
SecondFinger ==
    /\ Mounted /\ fingers = 1
    /\ fingers' = 2 /\ gesture' = "none"
    /\ IF gesture = "leftDown"
       THEN pending' = 0 /\ TouchSent(FALSE) /\ Sends(Flushed \o <<Button(pressPos)>>)
       ELSE UNCHANGED pending /\ NothingTouched /\ Silent
    /\ UNCHANGED <<keyVars, linkVars, chordVars, position, pressPos, cancelled>>

\* One finger moves; beyond MOVE_SLOP an undecided press becomes a drag from where it began.
FingerMoved ==
    /\ Mounted /\ fingers = 1
    /\ position < MaxPosition
    /\ position' = position + 1 /\ pending' = position'
    /\ \/ /\ gesture = "pending"                 \* beyond the slop
          /\ gesture' = "leftDown" /\ pressPos' = position'
          /\ TouchSent(TRUE) /\ Sends(Flushed \o <<Button(pressPos)>>)
       \/ /\ gesture = "pending"                 \* within it
          /\ UNCHANGED <<gesture, pressPos>> /\ NothingTouched /\ Silent
       \/ /\ gesture = "leftDown"
          /\ pressPos' = position'
          /\ UNCHANGED gesture /\ NothingTouched /\ Silent
       \/ /\ gesture = "none"
          /\ UNCHANGED <<gesture, pressPos>> /\ NothingTouched /\ Silent
    /\ UNCHANGED <<keyVars, linkVars, chordVars, fingers, cancelled>>

\* Two fingers scroll.
FingersPinched ==
    /\ Mounted /\ fingers = 2
    /\ position < MaxPosition
    /\ position' = position + 1 /\ pending' = 0
    /\ Sends(Flushed \o <<Button(position')>>)
    /\ UNCHANGED <<keyVars, linkVars, chordVars, fingers, gesture, pressPos, cancelled, touch_down>>

\* touchend: a click, left or right, the end of a drag, or nothing.
FingerLifted ==
    /\ Mounted /\ fingers > 0
    /\ fingers' = fingers - 1 /\ gesture' = "none"
    /\ IF gesture = "none" THEN UNCHANGED pending ELSE pending' = 0
    /\ CASE gesture = "pending" ->
              NothingTouched /\ Sends(Flushed \o <<Button(pressPos), Button(pressPos)>>)
         [] gesture = "leftDown" ->
              TouchSent(FALSE) /\ Sends(Flushed \o <<Button(pressPos)>>)
         [] OTHER -> NothingTouched /\ Silent
    /\ UNCHANGED <<keyVars, linkVars, chordVars, position, pressPos, cancelled>>

\* The browser takes the touch away; nothing listens to touchcancel, and the gesture goes on
\* without a finger.
TouchCancelled ==
    /\ Mounted /\ fingers > 0
    /\ fingers' = 0 /\ cancelled' = TRUE
    /\ Silent
    /\ UNCHANGED <<keyVars, linkVars, chordVars, position, pending, gesture, pressPos, touch_down>>

-----------------------------------------------------------------------------
(* The window, the session, the chords *)

\* blur or visibilitychange.
Leave ==
    /\ window = "focused"
    /\ window' = "away"
    /\ releaseAll
    /\ Silent /\ UNCHANGED <<phys, pointerVars, inputReady, session, chordVars>>

Return ==
    /\ window = "away"
    /\ window' = "focused"
    /\ Silent /\ UNCHANGED <<keyVars, pointerVars, inputReady, session, chordVars>>

\* The screen unmounts: a drag's press is released, queued moves go, every held key is released.
Unmount ==
    /\ Mounted
    /\ window' = "gone"
    /\ gesture' = "none" /\ pending' = 0 /\ cancelled' = FALSE
    /\ releaseAll
    /\ IF gesture = "leftDown"
       THEN TouchSent(FALSE) /\ Sends(Flushed \o <<Button(pressPos)>>)
       ELSE NothingTouched /\ Silent
    /\ UNCHANGED <<phys, inputReady, session, chordVars, position, fingers, pressPos>>

\* The session runs; later the screen hears of it.
SessionUp ==
    /\ session = "setup"
    /\ session' = "up"
    /\ Silent /\ UNCHANGED <<keyVars, pointerVars, window, inputReady, chordVars>>
StatusConnected ==
    /\ Mounted /\ session = "up" /\ ~inputReady
    /\ inputReady' = TRUE
    /\ Silent /\ UNCHANGED <<keyVars, pointerVars, window, session, chordVars>>

\* The session ends.  Its host lifts the keys it remembers; a button is not among them and stays
\* down.  Later the screen hears of it.
SessionOver ==
    /\ session = "up"
    /\ session' = "over"
    /\ sent_down' = {}
    /\ Silent /\ UNCHANGED <<phys, held, window, inputReady, chordVars, pointerVars>>
StatusLost ==
    /\ Mounted /\ session = "over" /\ inputReady
    /\ inputReady' = FALSE
    /\ Silent /\ UNCHANGED <<keyVars, pointerVars, window, session, chordVars>>

\* The button is enabled while the status is connected.
ChordClicked(c) ==
    /\ Mounted /\ inputReady
    /\ chord[c] = "unused"
    /\ chord' = [chord EXCEPT ![c] = "ctrl_down"]
    /\ Silent /\ UNCHANGED <<keyVars, pointerVars, linkVars, selected>>

AfterChord(step) ==
    CASE step = "ctrl_down" -> "letter_down"
      [] step = "letter_down" -> "letter_up"
      [] step = "letter_up" -> "ctrl_up"
      [] OTHER -> "done"

\* One awaited send of a chord, past the gate and straight into the channel.  A send to a slot
\* already cleared is ignored.
ChordSends(c) ==
    /\ chord[c] \notin {"unused", "done"}
    /\ chord' = [chord EXCEPT ![c] = AfterChord(@)]
    /\ sent_down' = IF ~Accepted THEN sent_down ELSE
         CASE chord[c] = "ctrl_down" -> sent_down \union {Ctrl}
           [] chord[c] = "letter_down" -> sent_down \union {selected[c]}
           [] chord[c] = "letter_up" -> sent_down \ {selected[c]}
           [] OTHER -> sent_down \ {Ctrl}
    /\ Silent /\ UNCHANGED <<phys, held, pointerVars, linkVars, selected>>

\* The channel is closed: the finally lifts Ctrl all the same.
ChordSendFails(c) ==
    /\ ~Accepted
    /\ chord[c] \in {"ctrl_down", "letter_down", "letter_up"}
    /\ chord' = [chord EXCEPT ![c] = "ctrl_up"]
    /\ Silent /\ UNCHANGED <<keyVars, pointerVars, linkVars, selected>>

-----------------------------------------------------------------------------
KeyNext == \E k \in Keys : KeyPressed(k) \/ KeyReleased(k)
PointerNext ==
    \/ MouseMoved \/ OnFrame \/ MouseActed
    \/ FirstFinger \/ SecondFinger \/ FingerMoved \/ FingersPinched \/ FingerLifted \/ TouchCancelled
LinkNext ==
    \/ Leave \/ Return \/ Unmount
    \/ SessionUp \/ StatusConnected \/ SessionOver \/ StatusLost
    \/ \E c \in Chords : ChordClicked(c) \/ ChordSends(c) \/ ChordSendFails(c)
InputNext == KeyNext \/ PointerNext \/ LinkNext

InputSpec == InputInit /\ [][InputNext]_inputVars

-----------------------------------------------------------------------------
(* Properties *)

\* Each variable has its type; a session that is set up has not been reported yet.
InputTypeOK ==
    /\ phys \subseteq Keys /\ held \subseteq Keys /\ sent_down \subseteq Keys
    /\ window \in {"focused", "away", "gone"} /\ inputReady \in BOOLEAN
    /\ session \in {"setup", "up", "over"}
    /\ position \in 0..MaxPosition /\ pending \in 0..MaxPosition /\ newest \in 0..MaxPosition
    /\ fingers \in 0..2 /\ gesture \in {"none", "pending", "leftDown"} /\ pressPos \in 0..MaxPosition
    /\ cancelled \in BOOLEAN /\ touch_down \in BOOLEAN
    /\ chord \in [Chords -> ChordSteps] /\ selected \in [Chords -> BLOCKED_LETTERS]
    /\ inputReady => session # "setup"

\* Movement is sent late, at most once a frame, and clicks at once: a move never takes the
\* pointer back to a place older than where a click, a scroll or another move already took it
\* (MoveCoalescer.flush before every button, SessionScreen's handlers).
MovesNeverGoBack ==
    \A i \in DOMAIN out :
        out[i].kind = "mouse_move" =>
            /\ out[i].at >= newest
            /\ \A j \in 1..(i - 1) : out[i].at >= out[j].at

\* The keys a chord of the toolbar has down.
ChordHolds(c) ==
    CASE chord[c] = "letter_down" -> {Ctrl}
      [] chord[c] = "letter_up" -> {Ctrl, selected[c]}
      [] chord[c] = "ctrl_up" -> {Ctrl}
      [] OTHER -> {}

\* Every key the host was told is down is one the tracker will release, at blur, at unmount or
\* at its keyup, or one a running chord will: no order of focus changes, blocked chords, toolbar
\* chords and status changes leaves a key down that nobody remembers (KeyTracker.handleKey,
\* releaseAll, sendCtrlChord).
PressIsAccounted == sent_down \subseteq held \union UNION {ChordHolds(c) : c \in Chords}

\* A key that the host still has down although the user has let go of it is a letter of a
\* blocked chord, whose keyup handleKey swallows while Ctrl is down.
LingeringIsBlocked ==
    sent_down \subseteq phys \union BLOCKED_LETTERS \union UNION {ChordHolds(c) : c \in Chords}

\* While a session runs, its host has the left button down for a touch only as long as a drag of
\* the mounted screen owns the press and its finger is on the canvas: a second finger, a lifted
\* finger and the unmount release it (TouchGestures.start, end, cancel).  A touch that the browser
\* cancels is the only way for the press to outlive the finger, until the next finger lands or the
\* screen goes.  A session that ends in the middle of a drag leaves the button down at its host.
TouchPressIsOwned ==
    touch_down =>
        \/ session = "over"
        \/ Mounted /\ gesture = "leftDown" /\ (fingers = 1 \/ cancelled)
=============================================================================

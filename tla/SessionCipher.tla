---------------------------- MODULE SessionCipher ----------------------------
(***************************************************************************)
(* One direction of a session: the sending SessionCipher (an atomic u64    *)
(* counter that numbers the packets) and the receiving one (a sliding      *)
(* 128-bit replay window), from crates/miru-common/src/crypto.rs.          *)
(*                                                                         *)
(* The two ciphers hold the same directional key, so a sealed packet is    *)
(* its sequence number.  The transport between them may lose, duplicate,   *)
(* reorder and damage packets.                                             *)
(***************************************************************************)
EXTENDS Naturals

CONSTANTS
  U64_MAX,        \* largest value of the u64 counter
  REPLAY_WINDOW,  \* 128 in the code: the bits of the receive bitmap
  MaxCalls        \* encrypt() calls the session makes in its lifetime

ASSUME CipherAssumption ==
  /\ U64_MAX \in Nat \ {0}
  /\ REPLAY_WINDOW \in Nat \ {0}
  /\ MaxCalls \in Nat

VARIABLES
  send_nonce,   \* the sender's counter
  calls,        \* encrypt() calls so far
  sealed,       \* sealed[n]: packets sealed under nonce n
  refused,      \* calls that bailed out with "send counter exhausted"
  initialised, highest, bitmap,   \* the receiver's ReplayWindow
  opened,       \* opened[n]: packets numbered n decrypted to plaintext
  seen          \* every number check_and_record_seq has let through

sender == <<send_nonce, calls, sealed, refused>>
window == <<initialised, highest, bitmap>>
vars == <<send_nonce, calls, sealed, refused, initialised, highest, bitmap, opened, seen>>

U64 == 0..U64_MAX

\* The bitmap is the set of its one-bits: bit i is "highest - i was let through".
Bits == 0..(REPLAY_WINDOW - 1)

-----------------------------------------------------------------------------
Init ==
  /\ send_nonce = 0 /\ calls = 0 /\ refused = 0
  /\ sealed = [n \in U64 |-> 0]
  /\ initialised = FALSE /\ highest = 0 /\ bitmap = {}
  /\ opened = [n \in U64 |-> 0]
  /\ seen = {}

\* fetch_add(1): returns the old value and wraps like every atomic add.
FetchAdd(n) == (n + 1) % (U64_MAX + 1)

\* Mutant: the guard that encrypt() had first, one value later.
ExhaustedAtMax(seq) == seq = U64_MAX

\* `seq >= u64::MAX - 1`: the counter may not be used any more.
Exhausted(seq) == seq >= U64_MAX - 1

\* encrypt(): the counter moves in every call, also in one that bails out,
\* and the sessions go on calling after an error (`let _ = relay.send_msg`).
Encrypt ==
  /\ calls < MaxCalls
  /\ calls' = calls + 1
  /\ send_nonce' = FetchAdd(send_nonce)
  /\ IF Exhausted(send_nonce)
       THEN refused' = refused + 1 /\ UNCHANGED sealed
       ELSE sealed' = [sealed EXCEPT ![send_nonce] = @ + 1] /\ UNCHANGED refused
  /\ UNCHANGED <<window, opened, seen>>

-----------------------------------------------------------------------------
\* Mutants: any jump clears the window; a late number moves the window back.
SlideForgets(delta) == {0}
RecordRewinds(seq) ==
  /\ initialised' = TRUE
  /\ seen' = seen \cup {seq}
  /\ highest' = seq
  /\ bitmap' = IF initialised /\ seq < highest THEN bitmap ELSE {0}

(***************************************************************************)
(* check_and_record_seq: Fresh says whether seq is let through, Record     *)
(* what the window is afterwards.                                          *)
(***************************************************************************)
Fresh(seq) ==
  \/ ~initialised
  \/ seq > highest
  \/ seq < highest /\ highest - seq < REPLAY_WINDOW /\ (highest - seq) \notin bitmap

\* (bitmap << delta) | 1, where a shift by the window size or more leaves 1.
Slide(delta) ==
  IF delta >= REPLAY_WINDOW
    THEN {0}
    ELSE {b \in Bits : b >= delta /\ (b - delta) \in bitmap} \cup {0}

Record(seq) ==
  /\ initialised' = TRUE
  /\ seen' = seen \cup {seq}
  /\ IF ~initialised
       THEN highest' = seq /\ bitmap' = {0}
       ELSE IF seq > highest
         THEN highest' = seq /\ bitmap' = Slide(seq - highest)
         ELSE highest' = highest /\ bitmap' = bitmap \cup {highest - seq}

\* decrypt() of a sealed packet: the number is checked and recorded, then the
\* tag verifies and the plaintext is returned.
DecryptSealed(seq) ==
  /\ sealed[seq] > 0
  /\ Fresh(seq)
  /\ Record(seq)
  /\ opened' = [opened EXCEPT ![seq] = @ + 1]
  /\ UNCHANGED sender

\* decrypt() of a damaged packet carrying number seq: the number is recorded
\* before the tag is verified, and the tag check then fails.
DecryptDamaged(seq) ==
  /\ Fresh(seq)
  /\ Record(seq)
  /\ UNCHANGED <<sender, opened>>

\* decrypt() returns "replay: ..." and changes nothing.
DecryptRejected(seq) ==
  /\ ~Fresh(seq)
  /\ UNCHANGED vars

Next ==
  \/ Encrypt
  \/ \E seq \in U64 : DecryptSealed(seq) \/ DecryptDamaged(seq) \/ DecryptRejected(seq)

Spec == Init /\ [][Next]_vars

-----------------------------------------------------------------------------
\* The ranges of the variables.  The window of a receiver that has seen
\* nothing is the default one.
TypeOK ==
  /\ send_nonce \in U64
  /\ calls \in 0..MaxCalls
  /\ sealed \in [U64 -> Nat]
  /\ refused \in Nat
  /\ initialised \in BOOLEAN
  /\ highest \in U64
  /\ bitmap \subseteq Bits
  /\ opened \in [U64 -> Nat]
  /\ seen \subseteq U64

\* encrypt() at the end of the counter's range: a nonce seals a second packet
\* only after two calls were refused, a third only after four, and so on.  The
\* counter does wrap to 0 when the caller ignores both errors, so "the same
\* nonce is never reused for the lifetime" holds up to the second refusal and
\* not beyond it; with the guard one value later a single refusal is enough.
ReuseTakesTwoRefusals == \A n \in U64 : 2 * sealed[n] <= refused + 2

\* decrypt() never returns the plaintext of a packet number twice, however
\* the transport duplicates, delays or damages packets.
OpenedOnce == \A n \in U64 : opened[n] <= 1

\* The 128-bit bitmap and the slide of check_and_record_seq decide exactly
\* what a receiver with unbounded memory would decide: a number is let
\* through iff it was never let through before and no number a window or
\* more above it was.
FreshIsExact ==
  \A seq \in U64 :
    Fresh(seq) <=> (seq \notin seen /\ \A h \in seen : h < seq + REPLAY_WINDOW)

\* The two ciphers implement the at-most-once channel: what is on the wire is
\* what was sealed, what is received is what was opened.
Channel == INSTANCE OnceChannel WITH
  Nonces <- U64, onWire <- sealed, refusals <- refused, received <- opened

\* Refinement of encrypt() and decrypt(): every step seals a nonce the channel
\* may use, refuses a packet, hands over a sealed packet for the first time,
\* or changes nothing.
ImplementsOnceChannel == Channel!Spec
=============================================================================

------------------------------ MODULE LinkProofs ------------------------------
(***************************************************************************)
(* What carries a session: the cipher of its packets, the relay between    *)
(* its two ends, and the ends themselves.                                  *)
(*                                                                         *)
(* The cipher, for every counter width, window size and number of calls: a *)
(* packet number is opened at most once, the bounded window decides exactly*)
(* like an unbounded one, a nonce is used again only for every two refused *)
(* calls, and the two ciphers implement the channel OnceChannel.           *)
(***************************************************************************)
EXTENDS SessionCipher, SessionLink, RelayServer, TLAPS

\* The window describes `seen`: highest is its maximum, and every bit within
\* the range of u64 tells whether the number it stands for is in it.
WindowInv ==
  /\ ~initialised => seen = {}
  /\ initialised =>
       /\ highest \in seen
       /\ \A h \in seen : h <= highest
       /\ \A b \in Bits : b <= highest => (b \in bitmap <=> (highest - b) \in seen)

\* What was opened was let through by the window and had been sealed.
OpenInv ==
  \A n \in U64 : /\ opened[n] <= 1
                 /\ opened[n] > 0 => n \in seen /\ sealed[n] > 0

\* The refusals of a round the counter has already had: one, at its last value.
Owed == IF send_nonce = U64_MAX THEN 1 ELSE 0

\* Numbers the counter has passed in this round may be one use ahead of the
\* refusals of the earlier rounds, the others may not, and the last two
\* numbers are never used.
SendInv ==
  \A n \in U64 :
    /\ n < send_nonce => 2 * sealed[n] + Owed <= refused + 2
    /\ n >= send_nonce => 2 * sealed[n] <= refused
    /\ n >= U64_MAX - 1 => sealed[n] = 0

\* The window and the opened packets need no bound on the calls.
RecvInv == TypeOK /\ WindowInv /\ OpenInv

\* The window decides like the set of everything let through so far.
LEMMA WindowIsExact ==
  ASSUME TypeOK, WindowInv
  PROVE  FreshIsExact
<1> SUFFICES ASSUME NEW seq \in U64
             PROVE  Fresh(seq) <=> (seq \notin seen /\ \A h \in seen : h < seq + REPLAY_WINDOW)
  BY DEF FreshIsExact
<1> USE CipherAssumption DEF U64, Bits, TypeOK
<1>1. CASE ~initialised
  BY <1>1 DEF Fresh, WindowInv
<1>2. CASE initialised
  <2>1. /\ highest \in seen /\ highest \in Nat /\ seq \in Nat
        /\ \A h \in seen : h <= highest /\ h \in Nat
    BY <1>2 DEF WindowInv
  <2>2. CASE seq > highest
    BY <1>2, <2>1, <2>2 DEF Fresh
  <2>3. CASE seq = highest
    BY <1>2, <2>1, <2>3 DEF Fresh
  <2>4. CASE seq < highest /\ highest - seq >= REPLAY_WINDOW
    BY <1>2, <2>1, <2>4 DEF Fresh
  <2>5. CASE seq < highest /\ highest - seq < REPLAY_WINDOW
    <3>1. highest - seq \in Bits /\ highest - seq <= highest /\ highest - (highest - seq) = seq
      BY <2>1, <2>5
    <3>2. (highest - seq) \in bitmap <=> seq \in seen
      BY <1>2, <3>1 DEF WindowInv
    <3>3. \A h \in seen : h < seq + REPLAY_WINDOW
      BY <2>1, <2>5
    <3> QED BY <1>2, <2>1, <2>5, <3>2, <3>3 DEF Fresh
  <2> QED BY <2>1, <2>2, <2>3, <2>4, <2>5
<1> QED BY <1>1, <1>2

\* Recording a fresh number keeps the window exact.
LEMMA RecordKeepsWindow ==
  ASSUME TypeOK, WindowInv, NEW seq \in U64, Fresh(seq), Record(seq)
  PROVE  /\ WindowInv' /\ seq \notin seen /\ seen' = seen \cup {seq}
         /\ highest' \in U64 /\ bitmap' \subseteq Bits /\ initialised' \in BOOLEAN
<1> USE CipherAssumption DEF U64, Bits, TypeOK
<1>0. FreshIsExact
  BY WindowIsExact
<1>1. seq \notin seen /\ seen' = seen \cup {seq} /\ initialised'
  BY <1>0 DEF FreshIsExact, Record
<1>2. CASE ~initialised
  <2>1. highest' = seq /\ bitmap' = {0} /\ seen' = {seq}
    BY <1>1, <1>2 DEF Record, WindowInv
  <2> QED BY <1>1, <2>1 DEF WindowInv
<1>3. CASE initialised /\ seq > highest
  <2>1. highest' = seq /\ bitmap' = Slide(seq - highest)
    BY <1>3 DEF Record
  <2>2. bitmap' \subseteq Bits
    BY <2>1 DEF Slide
  <2>3. \A h \in seen' : h <= highest'
    BY <1>1, <1>3, <2>1 DEF WindowInv
  <2>4. ASSUME NEW b \in Bits, b <= highest'
        PROVE  b \in bitmap' <=> (highest' - b) \in seen'
    <3>1. CASE b = 0
      BY <1>1, <2>1, <3>1 DEF Slide
    <3>2. CASE b # 0 /\ b < seq - highest
      <4>1. seq - b > highest /\ seq - b # seq
        BY <1>3, <2>1, <2>4, <3>2
      <4>2. (seq - b) \notin seen'
        BY <1>1, <1>3, <4>1 DEF WindowInv
      <4>3. b \notin bitmap'
        BY <1>3, <2>1, <3>2 DEF Slide
      <4> QED BY <2>1, <4>2, <4>3
    <3>3. CASE b # 0 /\ b >= seq - highest
      <4> DEFINE c == b - (seq - highest)
      <4>1. c \in Bits /\ c <= highest /\ highest - c = seq - b /\ seq - b # seq
        BY <1>3, <2>1, <2>4, <3>3
      <4>2. c \in bitmap <=> (seq - b) \in seen
        BY <1>3, <4>1 DEF WindowInv
      <4>3. seq - highest < REPLAY_WINDOW
        BY <1>3, <2>4, <3>3
      <4>4. b \in bitmap' <=> c \in bitmap
        BY <1>3, <2>1, <3>3, <4>3 DEF Slide
      <4> QED BY <1>1, <2>1, <4>1, <4>2, <4>4
    <3> QED BY <1>3, <3>1, <3>2, <3>3
  <2> QED BY <1>1, <1>3, <2>1, <2>2, <2>3, <2>4 DEF WindowInv
<1>4. CASE initialised /\ seq <= highest
  <2>1. highest' = highest /\ bitmap' = bitmap \cup {highest - seq}
    BY <1>4 DEF Record
  <2>2. highest - seq \in Bits /\ highest - seq <= highest
    BY <1>4 DEF Fresh
  <2>3. \A b \in Bits : b <= highest => (b \in bitmap' <=> (highest - b) \in seen')
    BY <1>1, <1>4, <2>1, <2>2 DEF WindowInv
  <2> QED BY <1>1, <1>4, <2>1, <2>2, <2>3 DEF WindowInv
<1> QED BY <1>1, <1>2, <1>3, <1>4

\* The receiving invariant holds initially and is kept by every step.
LEMMA RecvInvInductive ==
  /\ Init => RecvInv
  /\ RecvInv /\ [Next]_vars => RecvInv'
<1>1. Init => RecvInv
  <2> SUFFICES ASSUME Init PROVE RecvInv
    OBVIOUS
  <2>1. TypeOK
    <3>1. initialised \in BOOLEAN
      BY Zenon DEF Init
    <3>2. 0 \in U64 /\ 0 \in 0..MaxCalls /\ 0 \in Nat
      BY CipherAssumption DEF U64
    <3> QED BY <3>1, <3>2, Zenon DEF Init, TypeOK
  <2>2. WindowInv
    <3>1. seen = {} /\ ~initialised
      BY DEF Init
    <3> QED BY <3>1, Zenon DEF WindowInv
  <2>3. OpenInv
    BY DEF Init, OpenInv, U64
  <2> QED BY <2>1, <2>2, <2>3 DEF RecvInv
<1>2. ASSUME RecvInv, [Next]_vars PROVE RecvInv'
  <2> USE <1>2 DEF RecvInv
  <2>1. CASE UNCHANGED vars
    BY <2>1 DEF vars, TypeOK, WindowInv, OpenInv
  <2>2. CASE Encrypt
    <3>1. send_nonce' \in U64 /\ calls' \in 0..MaxCalls
      BY <2>2, CipherAssumption DEF Encrypt, FetchAdd, TypeOK, U64
    <3>2. /\ sealed' \in [U64 -> Nat] /\ \A n \in U64 : sealed[n] > 0 => sealed'[n] > 0
          /\ refused' \in Nat
      BY <2>2 DEF Encrypt, TypeOK
    <3>3. UNCHANGED <<initialised, highest, bitmap, opened, seen>>
      BY <2>2 DEF Encrypt, window
    <3> QED BY <3>1, <3>2, <3>3 DEF TypeOK, WindowInv, OpenInv
  <2>3. ASSUME NEW seq \in U64, DecryptSealed(seq) PROVE RecvInv'
    <3>1. Fresh(seq) /\ Record(seq) /\ sealed[seq] > 0 /\ UNCHANGED sender
          /\ opened' = [opened EXCEPT ![seq] = @ + 1]
      BY <2>3 DEF DecryptSealed
    <3>2. WindowInv' /\ seq \notin seen /\ seen' = seen \cup {seq}
          /\ highest' \in U64 /\ bitmap' \subseteq Bits /\ initialised' \in BOOLEAN
      BY <3>1, RecordKeepsWindow
    <3>3. opened[seq] = 0
      BY <3>2 DEF OpenInv, TypeOK
    <3>4. TypeOK'
      BY <3>1, <3>2 DEF TypeOK, sender
    <3>5. OpenInv'
      BY <3>1, <3>2, <3>3 DEF OpenInv, TypeOK, sender
    <3> QED BY <3>2, <3>4, <3>5
  <2>4. ASSUME NEW seq \in U64, DecryptDamaged(seq) PROVE RecvInv'
    <3>1. Fresh(seq) /\ Record(seq) /\ UNCHANGED sender /\ UNCHANGED opened
      BY <2>4 DEF DecryptDamaged
    <3>2. WindowInv' /\ seq \notin seen /\ seen' = seen \cup {seq}
          /\ highest' \in U64 /\ bitmap' \subseteq Bits /\ initialised' \in BOOLEAN
      BY <3>1, RecordKeepsWindow
    <3> QED BY <3>1, <3>2 DEF TypeOK, OpenInv, sender
  <2>5. ASSUME NEW seq \in U64, DecryptRejected(seq) PROVE RecvInv'
    BY <2>1, <2>5 DEF DecryptRejected
  <2> QED BY <1>2, <2>1, <2>2, <2>3, <2>4, <2>5 DEF Next
<1> QED BY <1>1, <1>2

\* The variables keep their ranges: the counter its width and the bitmap its
\* number of bits, through every wrap and slide.
THEOREM CipherTypeCorrect == Spec => []TypeOK
<1>1. RecvInv => TypeOK
  BY DEF RecvInv
<1> QED BY <1>1, RecvInvInductive, PTL DEF Spec

\* decrypt() hands out the plaintext of a packet number at most once, for
\* every window size and whatever the transport does.
THEOREM PacketsOpenedOnce == Spec => []OpenedOnce
<1>1. RecvInv => OpenedOnce
  BY DEF RecvInv, OpenInv, OpenedOnce
<1> QED BY <1>1, RecvInvInductive, PTL DEF Spec

\* The bounded bitmap of check_and_record_seq decides like a receiver that
\* remembers every number.
THEOREM WindowDecidesExactly == Spec => []FreshIsExact
<1>1. RecvInv => FreshIsExact
  BY WindowIsExact DEF RecvInv
<1> QED BY <1>1, RecvInvInductive, PTL DEF Spec

-----------------------------------------------------------------------------
\* A number below the modulus is its own remainder.
LEMMA SmallModulo ==
  ASSUME NEW k \in Nat, NEW m \in Nat, k < m
  PROVE  k % m = k
OBVIOUS

\* One encrypt() call keeps the account of refusals, and seals only under a
\* number the refusals so far allow.
LEMMA EncryptIsAllowed ==
  ASSUME TypeOK, SendInv, Encrypt
  PROVE  /\ SendInv'
         /\ \/ refused' = refused + 1 /\ sealed' = sealed
            \/ /\ 2 * sealed[send_nonce] <= refused /\ refused' = refused
               /\ sealed' = [sealed EXCEPT ![send_nonce] = @ + 1]
<1>1. /\ U64_MAX \in Nat \ {0} /\ refused \in Nat /\ sealed \in [U64 -> Nat]
      /\ send_nonce \in Nat /\ send_nonce <= U64_MAX /\ send_nonce \in U64
  BY CipherAssumption DEF TypeOK, U64
<1>2. send_nonce' = (send_nonce + 1) % (U64_MAX + 1)
  BY DEF Encrypt, FetchAdd
<1>3. CASE send_nonce < U64_MAX - 1
  <2>1. send_nonce' = send_nonce + 1
    BY <1>1, <1>2, <1>3, SmallModulo
  <2>2. refused' = refused /\ sealed' = [sealed EXCEPT ![send_nonce] = @ + 1]
    BY <1>1, <1>3 DEF Encrypt, Exhausted
  <2>3. 2 * sealed[send_nonce] <= refused
    BY <1>1 DEF SendInv
  <2>4. SendInv'
    BY SMTT(40), <1>1, <1>3, <2>1, <2>2, <2>3 DEF SendInv, U64, Owed
  <2> QED BY <2>2, <2>3, <2>4
<1>4. CASE send_nonce = U64_MAX - 1
  <2>1. send_nonce' = U64_MAX
    BY <1>1, <1>2, <1>4, SmallModulo
  <2>2. refused' = refused + 1 /\ sealed' = sealed
    BY <1>1, <1>4 DEF Encrypt, Exhausted
  <2>3. SendInv'
    BY SMTT(40), <1>1, <1>4, <2>1, <2>2 DEF SendInv, U64, Owed
  <2> QED BY <2>2, <2>3
<1>5. CASE send_nonce = U64_MAX
  <2>1. send_nonce' = 0
    BY <1>1, <1>2, <1>5
  <2>2. refused' = refused + 1 /\ sealed' = sealed
    BY <1>1, <1>5 DEF Encrypt, Exhausted
  <2>3. SendInv'
    BY SMTT(40), <1>1, <1>5, <2>1, <2>2 DEF SendInv, U64, Owed
  <2> QED BY <2>2, <2>3
<1> QED BY <1>1, <1>3, <1>4, <1>5

\* The sending invariant, for any number of calls.
LEMMA SendInvInductive ==
  /\ Init => SendInv
  /\ TypeOK /\ SendInv /\ [Next]_vars => SendInv'
<1>1. Init => SendInv
  BY CipherAssumption DEF Init, SendInv, U64, Owed
<1>2. ASSUME TypeOK, SendInv, [Next]_vars PROVE SendInv'
  <2>1. CASE Encrypt
    BY <1>2, <2>1, EncryptIsAllowed
  <2>2. CASE UNCHANGED sender
    BY <1>2, <2>2 DEF SendInv, sender, Owed
  <2>3. ASSUME NEW seq \in U64, DecryptSealed(seq) \/ DecryptDamaged(seq) \/ DecryptRejected(seq)
        PROVE  UNCHANGED sender
    BY <2>3 DEF DecryptSealed, DecryptDamaged, DecryptRejected, vars, sender
  <2> QED BY <1>2, <2>1, <2>2, <2>3 DEF Next, vars, sender
<1> QED BY <1>1, <1>2

\* encrypt(), for every counter width and any number of calls, ignored errors
\* included: a nonce is used once more only for every two refused calls.
THEOREM ReuseAlwaysTakesTwoRefusals == Spec => []ReuseTakesTwoRefusals
<1>1. ASSUME TypeOK, SendInv PROVE ReuseTakesTwoRefusals
  <2> SUFFICES ASSUME NEW n \in U64 PROVE 2 * sealed[n] <= refused + 2
    BY DEF ReuseTakesTwoRefusals
  <2>1. /\ n < send_nonce => 2 * sealed[n] + Owed <= refused + 2
        /\ n >= send_nonce => 2 * sealed[n] <= refused
    BY <1>1 DEF SendInv
  <2>2. n \in Nat /\ send_nonce \in Nat /\ sealed[n] \in Nat /\ refused \in Nat /\ Owed \in {0, 1}
    BY <1>1, CipherAssumption DEF TypeOK, U64, Owed
  <2> QED BY <2>1, <2>2
<1> QED BY <1>1, SendInvInductive, CipherTypeCorrect, PTL DEF Spec

\* The two ciphers implement the channel: every step seals a number the
\* refusals allow, refuses, hands over a sealed number for the first time, or
\* stutters.
THEOREM CipherImplementsChannel == Spec => ImplementsOnceChannel
<1>1. Init => Channel!Init
  BY DEF Init, Channel!Init
<1>2. ASSUME RecvInv, SendInv, [Next]_vars
      PROVE  [Channel!Next]_(Channel!vars)
  <2> USE <1>2 DEF RecvInv
  <2>1. CASE UNCHANGED vars
    BY <2>1 DEF vars, Channel!vars
  <2>2. CASE Encrypt
    <3>1. opened' = opened
      BY <2>2 DEF Encrypt
    <3>2. CASE refused' = refused + 1 /\ sealed' = sealed
      BY <3>1, <3>2 DEF Channel!Refuse, Channel!Next
    <3>3. CASE /\ 2 * sealed[send_nonce] <= refused /\ refused' = refused
               /\ sealed' = [sealed EXCEPT ![send_nonce] = @ + 1]
      <4>1. PICK k \in U64 : k = send_nonce
        BY DEF TypeOK
      <4>2. Channel!Transmit(k)
        BY <3>1, <3>3, <4>1 DEF Channel!Transmit
      <4> QED BY <4>2 DEF Channel!Next
    <3> QED BY <2>2, <3>2, <3>3, EncryptIsAllowed
  <2>3. ASSUME NEW seq \in U64, DecryptSealed(seq) PROVE Channel!Next
    <3>1. /\ sealed[seq] > 0 /\ sealed' = sealed /\ refused' = refused
          /\ opened' = [opened EXCEPT ![seq] = @ + 1]
      BY <2>3 DEF DecryptSealed, sender
    <3>2. seq \notin seen
      BY <2>3, RecordKeepsWindow DEF DecryptSealed
    <3>3. opened[seq] = 0
      BY <3>2 DEF OpenInv, TypeOK
    <3>4. Channel!Receive(seq)
      BY <3>1, <3>3 DEF Channel!Receive
    <3> QED BY <3>4 DEF Channel!Next
  <2>4. ASSUME NEW seq \in U64, DecryptDamaged(seq) \/ DecryptRejected(seq)
        PROVE  UNCHANGED Channel!vars
    BY <2>4 DEF DecryptDamaged, DecryptRejected, vars, sender, Channel!vars
  <2> QED BY <1>2, <2>1, <2>2, <2>3, <2>4 DEF Next
<1> QED BY <1>1, <1>2, RecvInvInductive, SendInvInductive, CipherTypeCorrect, PTL
       DEF Spec, ImplementsOnceChannel, Channel!Spec, RecvInv
-----------------------------------------------------------------------------
(* Queues *)

\* Tail drops the first of at least one element.
LEMMA TailFacts ==
  ASSUME NEW S, NEW s \in Seq(S), s # <<>>
  PROVE  /\ Tail(s) \in Seq(S) /\ Len(s) \in Nat \ {0} /\ Len(Tail(s)) = Len(s) - 1
         /\ \A i \in 1..(Len(s) - 1) : Tail(s)[i] = s[i + 1]
         /\ Head(s) = s[1] /\ Head(s) \in S
OBVIOUS

\* A sequence is empty when its length is zero.
LEMMA EmptyFacts == \A S : \A s \in Seq(S) : Len(s) \in Nat /\ (s = <<>> <=> Len(s) = 0)
OBVIOUS

\* Append adds one element at the end.
LEMMA AppendFacts ==
  ASSUME NEW S, NEW s \in Seq(S), NEW x \in S
  PROVE  /\ Append(s, x) \in Seq(S) /\ Len(s) \in Nat /\ Len(Append(s, x)) = Len(s) + 1
         /\ \A i \in 1..Len(s) : Append(s, x)[i] = s[i]
         /\ Append(s, x)[Len(s) + 1] = x /\ Append(s, x) # <<>>
OBVIOUS

-----------------------------------------------------------------------------
(***************************************************************************)
(* The relay, for any connections, tokens and capacities.                  *)
(***************************************************************************)

\* A slot holds tasks of its own token, each under its role, and none that
\* has returned.
SlotInv ==
  \A t \in Tokens : Open(t) =>
    /\ t \in issued
    /\ \A r \in Roles : relay_sessions[t][r] # None =>
         LET c == relay_sessions[t][r]
         IN  TokenOf[c] = t /\ RoleOf[c] = r /\ pc[c] \in {"wait", "forward", "sending"}

Paired(p, c) == TokenOf[p] = TokenOf[c] /\ RoleOf[p] # RoleOf[c]

\* A task that forwards has a peer; the peer and the source of every frame
\* that is queued or received is of the opposite role under the same token.
PeerInv ==
  \A c \in Conns :
    /\ pc[c] \in {"forward", "sending"} => peer_tx[c] # None
    /\ peer_tx[c] # None => Paired(peer_tx[c], c)
    /\ \A i \in 1..Len(fwd_rx[c]) : Paired(fwd_rx[c][i].from, c)
    /\ \A i \in 1..Len(got[c]) : Paired(got[c][i].from, c)

RelayInv == RelayTypeOK /\ SlotInv /\ PeerInv

\* A relay without connections has no slot and no pair.
LEMMA RelayInitInv == RelayInit => RelayInv
BY RelayAssumption DEF RelayInit, RelayInv, RelayTypeOK, SlotInv, PeerInv, Open, Slot, Roles, RelayFrame

\* Each variable stays in its range.
LEMMA RelayTypeStep == RelayTypeOK /\ SlotInv /\ PeerInv /\ [RelayNext]_relayServerVars => RelayTypeOK'
<1> SUFFICES ASSUME RelayTypeOK, SlotInv, PeerInv, [RelayNext]_relayServerVars
             PROVE  RelayTypeOK'
  OBVIOUS
<1> USE RelayAssumption DEF RelayTypeOK, clients
<1>1. ASSUME NEW t \in Tokens, Issue(t) \/ Reap(t)
      PROVE  RelayTypeOK'
  <2>1. [r \in Roles |-> None] \in Slot
    BY DEF Slot
  <2>2. CASE Issue(t)
    BY <2>1, <2>2 DEF Issue
  <2>3. CASE Reap(t)
    BY <2>3 DEF Reap
  <2> QED
    BY <1>1, <2>2, <2>3
<1>2. ASSUME NEW c \in Conns, ClientSend(c) \/ ClientClose(c) \/ Arrive(c)
      PROVE  RelayTypeOK'
  <2>1. CASE ClientSend(c)
    BY <2>1 DEF ClientSend
  <2>2. CASE ClientClose(c)
    BY <2>2 DEF ClientClose
  <2>3. CASE Arrive(c)
    BY <2>3 DEF Arrive
  <2> QED
    BY <1>2, <2>1, <2>2, <2>3
<1>3. ASSUME NEW c \in Conns, JoinSlot(c)
      PROVE  RelayTypeOK'
  <2>1. CASE SlotOf(c) = None
    BY <1>3, <2>1 DEF JoinSlot
  <2>2. CASE SlotOf(c) # None
    <3>1. SlotOf(c) \in [Roles -> Conns \cup {None}] /\ TokenOf[c] \in Tokens /\ RoleOf[c] \in Roles
      BY <2>2 DEF SlotOf, Slot, Roles
    <3>2. SlotOf(c)[OtherRole(RoleOf[c])] \in Conns \cup {None}
      BY <3>1 DEF OtherRole, Roles
    <3>3. relay_sessions' = [relay_sessions EXCEPT ![TokenOf[c]][RoleOf[c]] = c]
      BY <1>3, <2>2 DEF JoinSlot
    <3>4. relay_sessions' \in [Tokens -> Slot \cup {None}]
      BY <3>1, <3>3, <2>2 DEF SlotOf, Slot
    <3> DEFINE p == SlotOf(c)[OtherRole(RoleOf[c])]
    <3> HIDE DEF p
    <3>5. /\ pc' = [pc EXCEPT ![c] = IF p = None THEN "wait" ELSE "forward"]
          /\ waited' = IF p = None THEN waited \cup {c} ELSE waited
          /\ peer_tx' = [peer_tx EXCEPT ![c] = p]
          /\ p \in Conns \cup {None}
      BY <1>3, <2>2, <3>2 DEF JoinSlot, p
    <3>6. UNCHANGED <<link, sent, got, read, fwd_rx, issued>>
      BY <1>3 DEF JoinSlot
    <3> QED
      BY <3>4, <3>5, <3>6
  <2> QED
    BY <2>1, <2>2
<1>4. ASSUME NEW c \in Conns, WaitDeadline(c) \/ WaitClosed(c) \/ SendBreaks(c) \/ ForwardClosed(c) \/ WriteBreaks(c)
      PROVE  RelayTypeOK'
  <2> UNCHANGED <<read, clients, waited, peer_tx, issued>> /\ Return(c)
    BY <1>4 DEF WaitDeadline, WaitClosed, SendBreaks, ForwardClosed, WriteBreaks, Return
  <2> QED
    BY DEF Return
<1>5. ASSUME NEW c \in Conns, WaitFrame(c) \/ ForwardRead(c)
      PROVE  RelayTypeOK'
  <2>1. CASE WaitFrame(c)
    BY <2>1 DEF WaitFrame
  <2>2. CASE ForwardRead(c)
    BY <2>2 DEF ForwardRead
  <2> QED
    BY <1>5, <2>1, <2>2
<1>6. ASSUME NEW c \in Conns, WaitPoll(c)
      PROVE  RelayTypeOK'
  <2>1. SlotOf(c) \in [Roles -> Conns \cup {None}] /\ RoleOf[c] \in Roles
    BY <1>6 DEF SlotOf, WaitPoll, Slot, Roles
  <2>2. SlotOf(c)[OtherRole(RoleOf[c])] \in Conns \cup {None}
    BY <2>1 DEF OtherRole, Roles
  <2> QED
    BY <1>6, <2>2 DEF WaitPoll
<1>7. ASSUME NEW c \in Conns, ForwardSend(c)
      PROVE  RelayTypeOK'
  <2>1. peer_tx[c] \in Conns
    BY <1>7 DEF ForwardSend, PeerInv
  <2>2. [from |-> c, n |-> read[c]] \in RelayFrame
    BY DEF RelayFrame
  <2>3. Append(fwd_rx[peer_tx[c]], [from |-> c, n |-> read[c]]) \in Seq(RelayFrame)
    BY <2>1, <2>2
  <2>4. Len(Append(fwd_rx[peer_tx[c]], [from |-> c, n |-> read[c]])) <= FWD
    BY <1>7, <2>1 DEF ForwardSend
  <2> QED
    BY <1>7, <2>1, <2>3, <2>4 DEF ForwardSend
<1>8. ASSUME NEW c \in Conns, Write(c)
      PROVE  RelayTypeOK'
  <2>1. Head(fwd_rx[c]) \in RelayFrame /\ Tail(fwd_rx[c]) \in Seq(RelayFrame) /\ Len(Tail(fwd_rx[c])) <= FWD
    BY <1>8 DEF Write
  <2> QED
    BY <1>8, <2>1 DEF Write
<1>9. CASE UNCHANGED relayServerVars
  BY <1>9 DEF relayServerVars
<1> QED
  BY <1>1, <1>2, <1>3, <1>4, <1>5, <1>6, <1>7, <1>8, <1>9 DEF RelayNext

\* Slots belong to the connections that wait in them.
LEMMA SlotStep == RelayTypeOK /\ SlotInv /\ RelayTypeOK' /\ [RelayNext]_relayServerVars => SlotInv'
<1> SUFFICES ASSUME RelayTypeOK, SlotInv, RelayTypeOK', [RelayNext]_relayServerVars
             PROVE  SlotInv'
  OBVIOUS
<1> USE RelayAssumption DEF SlotInv, Open, clients
<1> DEFINE Active == {"wait", "forward", "sending"}
<1>0. ASSUME UNCHANGED <<relay_sessions, issued>>, \A d \in Conns : pc[d] \in Active => pc'[d] \in Active
      PROVE  SlotInv'
  BY <1>0 DEF RelayTypeOK, Slot
<1>1. ASSUME NEW t \in Tokens, Issue(t) \/ Reap(t)
      PROVE  SlotInv'
  <2>1. CASE Issue(t)
    BY <2>1 DEF Issue, RelayTypeOK
  <2>2. CASE Reap(t)
    BY <2>2 DEF Reap, RelayTypeOK
  <2> QED
    BY <1>1, <2>1, <2>2
<1>2. ASSUME NEW c \in Conns, ClientSend(c) \/ ClientClose(c) \/ Arrive(c)
      PROVE  SlotInv'
  <2>1. UNCHANGED <<relay_sessions, issued>> /\ \A d \in Conns : pc[d] \in Active => pc'[d] \in Active
    BY <1>2 DEF ClientSend, ClientClose, Arrive, RelayTypeOK
  <2> QED
    BY <2>1, <1>0
<1>3. ASSUME NEW c \in Conns, JoinSlot(c)
      PROVE  SlotInv'
  <2>1. CASE SlotOf(c) = None
    <3>1. UNCHANGED <<relay_sessions, issued>> /\ \A d \in Conns : pc[d] \in Active => pc'[d] \in Active
      BY <1>3, <2>1 DEF JoinSlot, RelayTypeOK
    <3> QED
      BY <3>1, <1>0
  <2>2. CASE SlotOf(c) # None
    <3>1. /\ pc' \in {[pc EXCEPT ![c] = "wait"], [pc EXCEPT ![c] = "forward"]}
          /\ issued' = issued /\ Open(TokenOf[c])
          /\ relay_sessions' = [relay_sessions EXCEPT ![TokenOf[c]][RoleOf[c]] = c]
      BY <1>3, <2>2 DEF JoinSlot, SlotOf
    <3>2. \A d \in Conns : pc[d] \in Active => pc'[d] \in Active
      BY SMTT(30), <3>1 DEF RelayTypeOK
    <3>3. pc'[c] \in Active
      BY <3>1 DEF RelayTypeOK
    <3>4. \A t \in Tokens \ {TokenOf[c]} : relay_sessions'[t] = relay_sessions[t]
      BY <3>1 DEF RelayTypeOK
    <3>5. \A r \in Roles : relay_sessions'[TokenOf[c]][r] = IF r = RoleOf[c] THEN c ELSE relay_sessions[TokenOf[c]][r]
      BY <3>1 DEF RelayTypeOK, Slot
    <3>6. TokenOf[c] \in Tokens /\ TokenOf[c] \in issued
      BY <3>1
    <3> QED
      BY <3>1, <3>2, <3>3, <3>4, <3>5, <3>6 DEF RelayTypeOK, Slot
  <2> QED
    BY <2>1, <2>2
<1>4. ASSUME NEW c \in Conns, WaitDeadline(c) \/ WaitClosed(c) \/ SendBreaks(c) \/ ForwardClosed(c) \/ WriteBreaks(c)
      PROVE  SlotInv'
  <2>1. Return(c)
    BY <1>4 DEF WaitDeadline, WaitClosed, SendBreaks, ForwardClosed, WriteBreaks
  <2>2. /\ relay_sessions'[TokenOf[c]] = None /\ issued' = issued
        /\ \A t \in Tokens \ {TokenOf[c]} : relay_sessions'[t] = relay_sessions[t]
        /\ \A d \in Conns \ {c} : pc'[d] = pc[d]
    BY <2>1 DEF Return, RelayTypeOK
  <2> SUFFICES ASSUME NEW t \in Tokens, Open(t)',
                      NEW r \in Roles, relay_sessions'[t][r] # None
               PROVE  /\ t \in issued'
                      /\ LET d == relay_sessions'[t][r]
                         IN  TokenOf[d] = t /\ RoleOf[d] = r /\ pc'[d] \in Active
    BY <2>2
  <2>3. t # TokenOf[c] /\ relay_sessions'[t] = relay_sessions[t]
    BY <2>2
  <2>4. relay_sessions[t][r] \in Conns \ {c}
    BY <2>3 DEF RelayTypeOK, Slot
  <2> QED
    BY <2>2, <2>3, <2>4
<1>5. ASSUME NEW c \in Conns, WaitFrame(c) \/ ForwardRead(c) \/ WaitPoll(c) \/ ForwardSend(c) \/ Write(c)
      PROVE  SlotInv'
  <2>1. UNCHANGED <<relay_sessions, issued>> /\ \A d \in Conns : pc[d] \in Active => pc'[d] \in Active
    <3>1. UNCHANGED <<relay_sessions, issued>>
      BY <1>5 DEF WaitFrame, ForwardRead, WaitPoll, ForwardSend, Write
    <3>2. pc' \in {pc, [pc EXCEPT ![c] = "forward"], [pc EXCEPT ![c] = "sending"]}
      BY <1>5 DEF WaitFrame, ForwardRead, WaitPoll, ForwardSend, Write
    <3>3. \A d \in Conns : pc'[d] = pc[d] \/ pc'[d] \in {"forward", "sending"}
      BY SMTT(30), <3>2 DEF RelayTypeOK
    <3> QED
      BY <3>1, <3>3
  <2> QED
    BY <2>1, <1>0
<1>6. CASE UNCHANGED relayServerVars
  BY <1>6, <1>0 DEF relayServerVars
<1> QED
  BY <1>1, <1>2, <1>3, <1>4, <1>5, <1>6 DEF RelayNext

\* Pairs are of one token and of both roles.
LEMMA PeerStep == RelayTypeOK /\ SlotInv /\ PeerInv /\ RelayTypeOK' /\ [RelayNext]_relayServerVars => PeerInv'
<1> SUFFICES ASSUME RelayTypeOK, SlotInv, PeerInv, RelayTypeOK', [RelayNext]_relayServerVars
             PROVE  PeerInv'
  OBVIOUS
<1> USE RelayAssumption DEF PeerInv, clients
<1> DEFINE Forwarding == {"forward", "sending"}
<1>0. ASSUME UNCHANGED <<peer_tx, fwd_rx, got>>, \A d \in Conns : pc'[d] \in Forwarding => pc[d] \in Forwarding
      PROVE  PeerInv'
  BY <1>0 DEF Paired
\* What a slot holds under the other role is a peer.
<1>a. ASSUME NEW c \in Conns, SlotOf(c) # None, SlotOf(c)[OtherRole(RoleOf[c])] # None
      PROVE  Paired(SlotOf(c)[OtherRole(RoleOf[c])], c)
  BY <1>a DEF SlotInv, SlotOf, Open, OtherRole, Roles, Paired
<1>1. ASSUME NEW t \in Tokens, Issue(t) \/ Reap(t)
      PROVE  PeerInv'
  BY <1>1, <1>0 DEF Issue, Reap
<1>2. ASSUME NEW c \in Conns, ClientSend(c) \/ ClientClose(c) \/ Arrive(c)
      PROVE  PeerInv'
  <2>1. UNCHANGED <<peer_tx, fwd_rx, got>> /\ \A d \in Conns : pc'[d] \in Forwarding => pc[d] \in Forwarding
    BY SMTT(30), <1>2 DEF ClientSend, ClientClose, Arrive, RelayTypeOK
  <2> QED
    BY <2>1, <1>0
<1>3. ASSUME NEW c \in Conns, JoinSlot(c)
      PROVE  PeerInv'
  <2>1. CASE SlotOf(c) = None
    <3>1. UNCHANGED <<peer_tx, fwd_rx, got>> /\ \A d \in Conns : pc'[d] \in Forwarding => pc[d] \in Forwarding
      BY <1>3, <2>1 DEF JoinSlot, RelayTypeOK
    <3> QED
      BY <3>1, <1>0
  <2>2. CASE SlotOf(c) # None
    <3> DEFINE p == SlotOf(c)[OtherRole(RoleOf[c])]
    <3>1. p # None => Paired(p, c)
      BY <1>a, <2>2
    <3>2. /\ pc' = [pc EXCEPT ![c] = IF p = None THEN "wait" ELSE "forward"]
          /\ peer_tx' = [peer_tx EXCEPT ![c] = p]
          /\ UNCHANGED <<fwd_rx, got>>
      BY <1>3, <2>2 DEF JoinSlot
    <3> HIDE DEF p
    <3>3. /\ peer_tx'[c] = p /\ (pc'[c] \in Forwarding => p # None)
          /\ \A d \in Conns \ {c} : peer_tx'[d] = peer_tx[d] /\ pc'[d] = pc[d]
      BY <3>2 DEF RelayTypeOK
    <3> QED
      BY <3>1, <3>2, <3>3 DEF Paired
  <2> QED
    BY <2>1, <2>2
<1>4. ASSUME NEW c \in Conns, WaitDeadline(c) \/ WaitClosed(c) \/ SendBreaks(c) \/ ForwardClosed(c) \/ WriteBreaks(c)
      PROVE  PeerInv'
  <2>1. Return(c)
    BY <1>4 DEF WaitDeadline, WaitClosed, SendBreaks, ForwardClosed, WriteBreaks
  <2>2. /\ UNCHANGED <<peer_tx, got>>
        /\ \A d \in Conns : pc'[d] \in Forwarding => pc[d] \in Forwarding
        /\ \A d \in Conns : fwd_rx'[d] = <<>> \/ fwd_rx'[d] = fwd_rx[d]
    BY <2>1 DEF Return, RelayTypeOK
  <2>3. \A d \in Conns : \A i \in 1..Len(fwd_rx'[d]) : fwd_rx'[d] = fwd_rx[d]
    BY <2>2
  <2>4. \A d \in Conns : \A i \in 1..Len(fwd_rx'[d]) : Paired(fwd_rx'[d][i].from, d)
    BY <2>3
  <2> QED
    BY <2>2, <2>4 DEF Paired
<1>5. ASSUME NEW c \in Conns, WaitFrame(c) \/ ForwardRead(c)
      PROVE  PeerInv'
  <2>1. UNCHANGED <<peer_tx, fwd_rx, got>> /\ \A d \in Conns : pc'[d] \in Forwarding => pc[d] \in Forwarding
    BY <1>5 DEF WaitFrame, ForwardRead, RelayTypeOK
  <2> QED
    BY <2>1, <1>0
<1>6. ASSUME NEW c \in Conns, WaitPoll(c)
      PROVE  PeerInv'
  <2> DEFINE p == SlotOf(c)[OtherRole(RoleOf[c])]
  <2>1. p # None /\ Paired(p, c)
    BY <1>6, <1>a DEF WaitPoll
  <2>2. /\ pc' = [pc EXCEPT ![c] = "forward"]
        /\ peer_tx' = [peer_tx EXCEPT ![c] = p]
        /\ UNCHANGED <<fwd_rx, got>>
    BY <1>6 DEF WaitPoll
  <2> HIDE DEF p
  <2>3. /\ peer_tx'[c] = p
        /\ \A d \in Conns \ {c} : peer_tx'[d] = peer_tx[d] /\ pc'[d] = pc[d]
    BY <2>2 DEF RelayTypeOK
  <2> QED
    BY <2>1, <2>2, <2>3 DEF Paired
<1>7. ASSUME NEW c \in Conns, ForwardSend(c)
      PROVE  PeerInv'
  <2> DEFINE q == peer_tx[c]
             f == [from |-> c, n |-> read[c]]
  <2>1. q \in Conns /\ Paired(q, c)
    BY <1>7 DEF ForwardSend, RelayTypeOK
  <2>a. fwd_rx[q] \in Seq(RelayFrame)
    BY <2>1 DEF RelayTypeOK
  <2>2. /\ pc' = [pc EXCEPT ![c] = "forward"] /\ pc[c] = "sending"
        /\ fwd_rx' = [fwd_rx EXCEPT ![q] = Append(@, f)]
        /\ UNCHANGED <<peer_tx, got>>
    BY <1>7 DEF ForwardSend
  <2>3. f.from = c
    OBVIOUS
  <2>4. Paired(f.from, q)
    BY <2>1, <2>3 DEF Paired
  <2> HIDE DEF f, q
  <2>5. fwd_rx'[q] = Append(fwd_rx[q], f) /\ \A d \in Conns \ {q} : fwd_rx'[d] = fwd_rx[d]
    BY <2>1, <2>2 DEF RelayTypeOK
  <2>6. \A i \in 1..Len(fwd_rx'[q]) : Paired(fwd_rx'[q][i].from, q)
    <3> SUFFICES ASSUME NEW i \in 1..Len(fwd_rx'[q])
                 PROVE  Paired(fwd_rx'[q][i].from, q)
      OBVIOUS
    <3>1. Len(fwd_rx'[q]) = Len(fwd_rx[q]) + 1
      BY <2>a, <2>5
    <3>2. CASE i = Len(fwd_rx[q]) + 1
      BY <2>a, <2>4, <2>5, <3>2
    <3>3. CASE i \in 1..Len(fwd_rx[q])
      BY <2>1, <2>a, <2>5, <3>3
    <3> QED
      BY <2>a, <3>1, <3>2, <3>3
  <2>7. \A d \in Conns : pc'[d] \in Forwarding => pc[d] \in Forwarding
    BY <2>2 DEF RelayTypeOK
  <2> QED
    BY <2>2, <2>5, <2>6, <2>7 DEF Paired
<1>8. ASSUME NEW c \in Conns, Write(c)
      PROVE  PeerInv'
  <2>1. /\ fwd_rx' = [fwd_rx EXCEPT ![c] = Tail(@)] /\ fwd_rx[c] # <<>>
        /\ got' = [got EXCEPT ![c] = Append(@, Head(fwd_rx[c]))]
        /\ UNCHANGED <<pc, peer_tx>>
    BY <1>8 DEF Write
  <2>a. fwd_rx[c] \in Seq(RelayFrame) /\ got[c] \in Seq(RelayFrame)
    BY DEF RelayTypeOK
  <2>b. /\ fwd_rx'[c] = Tail(fwd_rx[c]) /\ got'[c] = Append(got[c], Head(fwd_rx[c]))
        /\ \A d \in Conns \ {c} : fwd_rx'[d] = fwd_rx[d] /\ got'[d] = got[d]
    BY <2>1 DEF RelayTypeOK
  <2>2. \A i \in 1..Len(got'[c]) : Paired(got'[c][i].from, c)
    <3> SUFFICES ASSUME NEW i \in 1..Len(got'[c])
                 PROVE  Paired(got'[c][i].from, c)
      OBVIOUS
    <3>1. Len(got'[c]) = Len(got[c]) + 1 /\ 1 \in 1..Len(fwd_rx[c])
      BY <2>1, <2>a, <2>b
    <3>2. CASE i = Len(got[c]) + 1
      BY <2>a, <2>b, <3>1, <3>2
    <3>3. CASE i \in 1..Len(got[c])
      BY <2>a, <2>b, <3>3
    <3> QED
      BY <2>a, <3>1, <3>2, <3>3
  <2>3. \A i \in 1..Len(fwd_rx'[c]) : fwd_rx'[c][i] = fwd_rx[c][i + 1] /\ i + 1 \in 1..Len(fwd_rx[c])
    <3>1. /\ Len(fwd_rx[c]) \in Nat \ {0} /\ Len(Tail(fwd_rx[c])) = Len(fwd_rx[c]) - 1
          /\ \A i \in 1..(Len(fwd_rx[c]) - 1) : Tail(fwd_rx[c])[i] = fwd_rx[c][i + 1]
      BY <2>1, <2>a, TailFacts
    <3> QED
      BY <2>b, <3>1
  <2>4. \A i \in 1..Len(fwd_rx'[c]) : Paired(fwd_rx'[c][i].from, c)
    BY <2>3
  <2> QED
    BY SMTT(30), <2>1, <2>b, <2>2, <2>4 DEF Paired
<1>9. CASE UNCHANGED relayServerVars
  BY <1>9, <1>0 DEF relayServerVars
<1> QED
  BY <1>1, <1>2, <1>3, <1>4, <1>5, <1>6, <1>7, <1>8, <1>9 DEF RelayNext

\* The invariant of the relay holds throughout.
LEMMA RelayInvariant == RelaySpec => []RelayInv
<1>1. RelayInv /\ [RelayNext]_relayServerVars => RelayInv'
  BY RelayTypeStep, SlotStep, PeerStep DEF RelayInv
<1> QED
  BY <1>1, RelayInitInv, PTL DEF RelaySpec

\* The relay's tables and queues stay in their ranges, and no channel exceeds its capacity.
THEOREM RelayTypeCorrect == RelaySpec => []RelayTypeOK
BY RelayInvariant, PTL DEF RelayInv

\* What relay_session writes to a socket comes from the opposite role under the same token, for
\* any number of connections, also several per token and role.
THEOREM PairedOnly == RelaySpec => []PairedByToken
<1>1. RelayInv => PairedByToken
  BY DEF RelayInv, PeerInv, Paired, PairedByToken
<1> QED
  BY <1>1, RelayInvariant, PTL

\* Every way out of relay_session removes the slot: no slot holds the channel of a task that has
\* returned.
THEOREM SlotsNotStale == RelaySpec => []NoStaleSlot
<1>1. RelayInv => NoStaleSlot
  BY DEF RelayInv, SlotInv, NoStaleSlot
<1> QED
  BY <1>1, RelayInvariant, PTL

\* No two connections come with one token and one role: both clients of this repository open one
\* relay connection per offer (RelayTransport::connect), and each offer is sent to one of each.
OneEach == \A c, d \in Conns : TokenOf[c] = TokenOf[d] /\ RoleOf[c] = RoleOf[d] => c = d

Silent(p) == pc[p] \in {"unopened", "joining", "wait"}

\* The frames of p that were dropped or have been put into a channel.
Taken(p) == IF pc[p] = "sending" THEN read[p] - 1 ELSE read[p]

RunsOn(s) == \A i \in 1..Len(s) : i > 1 => s[i].n = s[i - 1].n + 1
StartOK(s) == s # <<>> /\ s[1].from \notin waited => s[1].n = 1

\* What a client has received and what is queued for it is one run of numbers.
FlowInv ==
  \A c \in Conns :
    /\ RunsOn(got[c]) /\ RunsOn(fwd_rx[c])
    /\ got[c] # <<>> /\ fwd_rx[c] # <<>> => fwd_rx[c][1].n = got[c][Len(got[c])].n + 1
    /\ StartOK(got[c])
    /\ got[c] = <<>> => StartOK(fwd_rx[c])

\* Only a task that waits reads without forwarding.
ReadInv ==
  \A p \in Conns :
    /\ pc[p] \in {"unopened", "joining"} => read[p] = 0
    /\ pc[p] = "wait" => p \in waited
    /\ pc[p] = "sending" => read[p] > 0

\* The run ends with the last frame its source has put into the channel.
SourceInv ==
  \A p, c \in Conns : Paired(p, c) =>
    /\ Silent(p) => got[c] = <<>> /\ fwd_rx[c] = <<>>
    /\ pc[p] \in {"forward", "sending"} /\ pc[c] # "done" =>
         /\ fwd_rx[c] # <<>> => fwd_rx[c][Len(fwd_rx[c])].n = Taken(p)
         /\ fwd_rx[c] = <<>> /\ got[c] # <<>> => got[c][Len(got[c])].n = Taken(p)
         /\ fwd_rx[c] = <<>> /\ got[c] = <<>> /\ p \notin waited => Taken(p) = 0

\* A connection that has not been paired has read nothing it could pass on.
LEMMA ReadStep == RelayTypeOK /\ ReadInv /\ [RelayNext]_relayServerVars => ReadInv'
<1> SUFFICES ASSUME RelayTypeOK, ReadInv, [RelayNext]_relayServerVars, NEW p \in Conns
             PROVE  /\ pc'[p] \in {"unopened", "joining"} => read'[p] = 0
                    /\ pc'[p] = "wait" => p \in waited'
                    /\ pc'[p] = "sending" => read'[p] > 0
  BY DEF ReadInv
<1> USE DEF ReadInv, clients
<1>0. /\ pc \in [Conns -> {"unopened", "joining", "wait", "forward", "sending", "done"}]
      /\ read \in [Conns -> Nat] /\ waited \subseteq Conns
  BY DEF RelayTypeOK
<1>1. ASSUME NEW t \in Tokens, Issue(t) \/ Reap(t)
      PROVE  UNCHANGED <<pc, read, waited>>
  BY <1>1 DEF Issue, Reap
<1>2. ASSUME NEW c \in Conns, ClientSend(c) \/ ClientClose(c) \/ Write(c)
      PROVE  UNCHANGED <<pc, read, waited>>
  BY <1>2 DEF ClientSend, ClientClose, Write
<1>3. ASSUME NEW c \in Conns, Arrive(c)
      PROVE  UNCHANGED <<read, waited>> /\ pc[c] = "unopened" /\ pc' \in {[pc EXCEPT ![c] = "done"], [pc EXCEPT ![c] = "joining"]}
  BY <1>3 DEF Arrive
<1>4. ASSUME NEW c \in Conns, JoinSlot(c)
      PROVE  UNCHANGED read /\ \/ pc' = [pc EXCEPT ![c] = "wait"] /\ waited' = waited \cup {c}
                               \/ pc' \in {[pc EXCEPT ![c] = "done"], [pc EXCEPT ![c] = "forward"]} /\ waited' = waited
  BY <1>4 DEF JoinSlot
<1>5. ASSUME NEW c \in Conns, WaitDeadline(c) \/ WaitClosed(c) \/ SendBreaks(c) \/ ForwardClosed(c) \/ WriteBreaks(c)
      PROVE  UNCHANGED <<read, waited>> /\ pc' = [pc EXCEPT ![c] = "done"]
  BY <1>5 DEF WaitDeadline, WaitClosed, SendBreaks, ForwardClosed, WriteBreaks, Return
<1>6. ASSUME NEW c \in Conns, WaitPoll(c) \/ ForwardSend(c)
      PROVE  UNCHANGED <<read, waited>> /\ pc' = [pc EXCEPT ![c] = "forward"]
  BY <1>6 DEF WaitPoll, ForwardSend
<1>7. ASSUME NEW c \in Conns, WaitFrame(c) \/ ForwardRead(c)
      PROVE  /\ UNCHANGED waited /\ read' = [read EXCEPT ![c] = @ + 1] /\ pc[c] \in {"wait", "forward"}
             /\ pc' \in {pc, [pc EXCEPT ![c] = "sending"]}
  BY <1>7 DEF WaitFrame, ForwardRead
<1>8. CASE UNCHANGED relayServerVars
  BY <1>8, <1>0 DEF relayServerVars
<1>9. ASSUME UNCHANGED <<pc, read, waited>>
      PROVE  /\ pc'[p] \in {"unopened", "joining"} => read'[p] = 0
             /\ pc'[p] = "wait" => p \in waited'
             /\ pc'[p] = "sending" => read'[p] > 0
  BY <1>0, <1>9
<1>10. CASE \E c \in Conns : Arrive(c)
  BY <1>0, <1>3, <1>10
<1>11. CASE \E c \in Conns : JoinSlot(c)
  BY <1>0, <1>4, <1>11
<1>12. CASE \E c \in Conns : WaitDeadline(c) \/ WaitClosed(c) \/ SendBreaks(c) \/ ForwardClosed(c) \/ WriteBreaks(c)
  BY <1>0, <1>5, <1>12
<1>13. CASE \E c \in Conns : WaitPoll(c) \/ ForwardSend(c)
  BY <1>0, <1>6, <1>13
<1>14. CASE \E c \in Conns : WaitFrame(c) \/ ForwardRead(c)
  BY <1>0, <1>7, <1>14
<1> QED
  BY <1>1, <1>2, <1>8, <1>9, <1>10, <1>11, <1>12, <1>13, <1>14 DEF RelayNext

\* Steps that move no frame.
LEMMA FlowFrame ==
  ASSUME FlowInv, SourceInv, UNCHANGED <<got, fwd_rx>>, waited \subseteq waited',
         \A p \in Conns :
           /\ Silent(p)' => Silent(p)
           /\ pc'[p] \in {"forward", "sending"} => pc[p] \in {"forward", "sending"} /\ Taken(p)' = Taken(p)
           /\ pc'[p] # "done" => pc[p] # "done"
  PROVE  FlowInv' /\ SourceInv'
<1>1. FlowInv'
  BY DEF FlowInv, StartOK, RunsOn
<1>2. SourceInv'
  <2> SUFFICES ASSUME NEW p \in Conns, NEW c \in Conns, Paired(p, c)
               PROVE  /\ Silent(p)' => got'[c] = <<>> /\ fwd_rx'[c] = <<>>
                      /\ pc'[p] \in {"forward", "sending"} /\ pc'[c] # "done" =>
                           /\ fwd_rx'[c] # <<>> => fwd_rx'[c][Len(fwd_rx'[c])].n = Taken(p)'
                           /\ fwd_rx'[c] = <<>> /\ got'[c] # <<>> => got'[c][Len(got'[c])].n = Taken(p)'
                           /\ fwd_rx'[c] = <<>> /\ got'[c] = <<>> /\ p \notin waited' => Taken(p)' = 0
    BY DEF SourceInv, Paired
  <2> QED
    BY DEF SourceInv
<1> QED
  BY <1>1, <1>2

\* A task finds its peer and begins to forward.
LEMMA FlowStarts ==
  ASSUME RelayTypeOK, FlowInv, SourceInv, ReadInv, UNCHANGED <<got, fwd_rx, waited, read>>,
         NEW c \in Conns, pc[c] \in {"joining", "wait"}, pc' = [pc EXCEPT ![c] = "forward"]
  PROVE  FlowInv' /\ SourceInv'
<1>1. FlowInv'
  BY DEF FlowInv, StartOK, RunsOn
<1>2. /\ pc'[c] = "forward" /\ \A d \in Conns \ {c} : pc'[d] = pc[d]
  BY DEF RelayTypeOK
<1>3. \A p \in Conns \ {c} : Silent(p)' = Silent(p) /\ Taken(p)' = Taken(p)
  BY <1>2 DEF Silent, Taken
<1>4. Silent(c) /\ ~Silent(c)' /\ Taken(c)' = read[c] /\ (c \notin waited => read[c] = 0)
  BY <1>2 DEF Silent, Taken, ReadInv
<1>5. \A d \in Conns : pc'[d] # "done" => pc[d] # "done"
  BY <1>2
<1>6. SourceInv'
  <2> SUFFICES ASSUME NEW p \in Conns, NEW d \in Conns, Paired(p, d)
               PROVE  /\ Silent(p)' => got'[d] = <<>> /\ fwd_rx'[d] = <<>>
                      /\ pc'[p] \in {"forward", "sending"} /\ pc'[d] # "done" =>
                           /\ fwd_rx'[d] # <<>> => fwd_rx'[d][Len(fwd_rx'[d])].n = Taken(p)'
                           /\ fwd_rx'[d] = <<>> /\ got'[d] # <<>> => got'[d][Len(got'[d])].n = Taken(p)'
                           /\ fwd_rx'[d] = <<>> /\ got'[d] = <<>> /\ p \notin waited' => Taken(p)' = 0
    BY DEF SourceInv, Paired
  <2>1. CASE p = c
    BY <1>4, <2>1 DEF SourceInv
  <2>2. CASE p # c
    BY <1>2, <1>3, <1>5, <2>2 DEF SourceInv
  <2> QED
    BY <2>1, <2>2
<1> QED
  BY <1>1, <1>6

\* A task returns, and what was queued for its client is lost.
LEMMA FlowReturns ==
  ASSUME RelayTypeOK, FlowInv, SourceInv, UNCHANGED <<got, waited, read>>, NEW c \in Conns,
         pc' = [pc EXCEPT ![c] = "done"], fwd_rx' = [fwd_rx EXCEPT ![c] = <<>>]
  PROVE  FlowInv' /\ SourceInv'
<1>1. /\ pc'[c] = "done" /\ \A d \in Conns \ {c} : pc'[d] = pc[d]
      /\ fwd_rx'[c] = <<>> /\ \A d \in Conns \ {c} : fwd_rx'[d] = fwd_rx[d]
  BY DEF RelayTypeOK
<1>2. FlowInv'
  BY <1>1 DEF FlowInv, StartOK, RunsOn
<1>3. \A p \in Conns \ {c} : Silent(p)' = Silent(p) /\ Taken(p)' = Taken(p)
  BY <1>1 DEF Silent, Taken
<1>4. ~Silent(c)'
  BY <1>1 DEF Silent
<1>5. SourceInv'
  <2> SUFFICES ASSUME NEW p \in Conns, NEW d \in Conns, Paired(p, d)
               PROVE  /\ Silent(p)' => got'[d] = <<>> /\ fwd_rx'[d] = <<>>
                      /\ pc'[p] \in {"forward", "sending"} /\ pc'[d] # "done" =>
                           /\ fwd_rx'[d] # <<>> => fwd_rx'[d][Len(fwd_rx'[d])].n = Taken(p)'
                           /\ fwd_rx'[d] = <<>> /\ got'[d] # <<>> => got'[d][Len(got'[d])].n = Taken(p)'
                           /\ fwd_rx'[d] = <<>> /\ got'[d] = <<>> /\ p \notin waited' => Taken(p)' = 0
    BY DEF SourceInv, Paired
  <2>1. CASE p = c
    BY <1>1, <1>4, <2>1
  <2>2. CASE p # c /\ d = c
    BY <1>1, <1>3, <2>2 DEF SourceInv
  <2>3. CASE p # c /\ d # c
    BY <1>1, <1>3, <2>3 DEF SourceInv
  <2> QED
    BY <2>1, <2>2, <2>3
<1> QED
  BY <1>2, <1>5

\* A frame goes from the channel to the client.
LEMMA FlowWrites ==
  ASSUME RelayTypeOK, FlowInv, SourceInv, NEW c \in Conns, Write(c)
  PROVE  FlowInv' /\ SourceInv'
<1> DEFINE x == Head(fwd_rx[c])
<1>1. fwd_rx[c] \in Seq(RelayFrame) /\ got[c] \in Seq(RelayFrame) /\ fwd_rx[c] # <<>>
  BY DEF RelayTypeOK, Write
<1>2. /\ fwd_rx'[c] = Tail(fwd_rx[c]) /\ got'[c] = Append(got[c], x)
      /\ \A d \in Conns \ {c} : fwd_rx'[d] = fwd_rx[d] /\ got'[d] = got[d]
      /\ UNCHANGED <<pc, read, waited>>
  BY DEF RelayTypeOK, Write
<1>3. /\ Len(fwd_rx[c]) \in Nat \ {0} /\ Len(fwd_rx'[c]) = Len(fwd_rx[c]) - 1
      /\ \A i \in 1..(Len(fwd_rx[c]) - 1) : fwd_rx'[c][i] = fwd_rx[c][i + 1]
      /\ x = fwd_rx[c][1] /\ x \in RelayFrame /\ fwd_rx'[c] \in Seq(RelayFrame)
  BY <1>1, <1>2, TailFacts
<1> HIDE DEF x
<1>4. /\ Len(got[c]) \in Nat /\ Len(got'[c]) = Len(got[c]) + 1
      /\ \A i \in 1..Len(got[c]) : got'[c][i] = got[c][i]
      /\ got'[c][Len(got[c]) + 1] = x /\ got'[c] # <<>>
  BY SMTT(30), <1>1, <1>2, <1>3, AppendFacts
<1>a. (got[c] = <<>> <=> Len(got[c]) = 0) /\ (fwd_rx'[c] = <<>> <=> Len(fwd_rx'[c]) = 0)
  BY <1>1, <1>3, EmptyFacts
<1>5. RunsOn(got'[c])
  <2> SUFFICES ASSUME NEW i \in 1..Len(got'[c]), i > 1
               PROVE  got'[c][i].n = got'[c][i - 1].n + 1
    BY DEF RunsOn
  <2>1. CASE i = Len(got[c]) + 1
    <3>1. got[c] # <<>> /\ i - 1 = Len(got[c]) /\ i - 1 \in 1..Len(got[c])
      BY <1>4, <1>a, <2>1
    <3>2. got'[c][i] = fwd_rx[c][1] /\ got'[c][i - 1] = got[c][Len(got[c])]
      BY <1>3, <1>4, <2>1, <3>1
    <3> QED
      BY <1>1, <3>1, <3>2 DEF FlowInv
  <2>2. CASE i \in 1..Len(got[c])
    <3>1. i - 1 \in 1..Len(got[c]) /\ got'[c][i] = got[c][i] /\ got'[c][i - 1] = got[c][i - 1]
      BY <1>4, <2>2
    <3> QED
      BY <2>2, <3>1 DEF FlowInv, RunsOn
  <2> QED
    BY <1>4, <2>1, <2>2
<1>6. RunsOn(fwd_rx'[c])
  <2> SUFFICES ASSUME NEW i \in 1..Len(fwd_rx'[c]), i > 1
               PROVE  fwd_rx'[c][i].n = fwd_rx'[c][i - 1].n + 1
    BY DEF RunsOn
  <2>1. /\ fwd_rx'[c][i] = fwd_rx[c][i + 1] /\ fwd_rx'[c][i - 1] = fwd_rx[c][i]
        /\ i + 1 \in 1..Len(fwd_rx[c])
    <3>1. i - 1 \in 1..(Len(fwd_rx[c]) - 1) /\ i \in 1..(Len(fwd_rx[c]) - 1) /\ (i - 1) + 1 = i
      BY <1>3
    <3>2. \A j \in 1..(Len(fwd_rx[c]) - 1) : fwd_rx'[c][j] = fwd_rx[c][j + 1]
      BY <1>3
    <3>3. fwd_rx'[c][i - 1] = fwd_rx[c][(i - 1) + 1] /\ fwd_rx'[c][i] = fwd_rx[c][i + 1]
      BY <3>1, <3>2
    <3>4. fwd_rx[c][(i - 1) + 1] = fwd_rx[c][i]
      BY <3>1
    <3>5. Len(fwd_rx[c]) \in Nat \ {0}
      BY <1>3
    <3>6. i + 1 \in 1..Len(fwd_rx[c])
      BY <3>1, <3>5
    <3> QED
      BY <3>3, <3>4, <3>6
  <2> QED
    BY <2>1 DEF FlowInv, RunsOn
<1>7. fwd_rx'[c] # <<>> => fwd_rx'[c][1].n = got'[c][Len(got'[c])].n + 1
  <2> SUFFICES ASSUME fwd_rx'[c] # <<>>
               PROVE  fwd_rx[c][2].n = fwd_rx[c][1].n + 1
    BY <1>3, <1>4, <1>a
  <2>1. 2 \in 1..Len(fwd_rx[c])
    BY <1>3, <1>a
  <2> QED
    BY <2>1 DEF FlowInv, RunsOn
<1>8. StartOK(got[c])'
  <2>1. CASE got[c] = <<>>
    BY <1>1, <1>2, <1>3, <1>4, <1>a, <2>1 DEF FlowInv, StartOK
  <2>2. CASE got[c] # <<>>
    BY <1>2, <1>4, <1>a, <2>2 DEF FlowInv, StartOK
  <2> QED
    BY <2>1, <2>2
<1>9. FlowInv'
  <2> SUFFICES ASSUME NEW d \in Conns
               PROVE  (/\ RunsOn(got[d]) /\ RunsOn(fwd_rx[d])
                       /\ got[d] # <<>> /\ fwd_rx[d] # <<>> => fwd_rx[d][1].n = got[d][Len(got[d])].n + 1
                       /\ StartOK(got[d])
                       /\ got[d] = <<>> => StartOK(fwd_rx[d]))'
    BY DEF FlowInv
  <2>1. CASE d = c
    BY <1>4, <1>5, <1>6, <1>7, <1>8, <2>1
  <2>2. CASE d # c
    BY <1>2, <2>2 DEF FlowInv, StartOK, RunsOn
  <2> QED
    BY <2>1, <2>2
<1>10. SourceInv'
  <2> SUFFICES ASSUME NEW p \in Conns, NEW d \in Conns, Paired(p, d)
               PROVE  /\ Silent(p)' => got'[d] = <<>> /\ fwd_rx'[d] = <<>>
                      /\ pc'[p] \in {"forward", "sending"} /\ pc'[d] # "done" =>
                           /\ fwd_rx'[d] # <<>> => fwd_rx'[d][Len(fwd_rx'[d])].n = Taken(p)'
                           /\ fwd_rx'[d] = <<>> /\ got'[d] # <<>> => got'[d][Len(got'[d])].n = Taken(p)'
                           /\ fwd_rx'[d] = <<>> /\ got'[d] = <<>> /\ p \notin waited' => Taken(p)' = 0
    BY DEF SourceInv, Paired
  <2>1. Silent(p)' = Silent(p) /\ Taken(p)' = Taken(p)
    BY <1>2 DEF Silent, Taken
  <2>2. CASE d # c
    BY <1>2, <2>1, <2>2 DEF SourceInv
  <2>3. CASE d = c
    <3>1. ~Silent(p)
      BY <1>1, <2>3 DEF SourceInv
    <3>2. fwd_rx'[c] # <<>> => fwd_rx'[c][Len(fwd_rx'[c])] = fwd_rx[c][Len(fwd_rx[c])]
      BY <1>3, <1>a
    <3>3. fwd_rx'[c] = <<>> => got'[c][Len(got'[c])] = fwd_rx[c][Len(fwd_rx[c])]
      BY <1>3, <1>4, <1>a
    <3>4. pc[p] \in {"forward", "sending"} /\ pc[c] # "done" => fwd_rx[c][Len(fwd_rx[c])].n = Taken(p)
      BY <1>1, <2>3 DEF SourceInv
    <3> QED
      BY <1>2, <1>4, <2>1, <2>3, <3>1, <3>2, <3>3, <3>4
  <2> QED
    BY <2>2, <2>3
<1> QED
  BY <1>9, <1>10

\* A frame goes into the channel of the peer, which has no other source.
LEMMA FlowSends ==
  ASSUME OneEach, RelayInv, FlowInv, SourceInv, ReadInv, NEW c \in Conns, ForwardSend(c)
  PROVE  FlowInv' /\ SourceInv'
<1> DEFINE q == peer_tx[c]
           x == [from |-> c, n |-> read[c]]
<1>1. q \in Conns /\ Paired(c, q)
  BY RelayAssumption DEF RelayInv, RelayTypeOK, PeerInv, ForwardSend, Paired
<1>2. fwd_rx[q] \in Seq(RelayFrame) /\ got[q] \in Seq(RelayFrame) /\ x \in RelayFrame
  BY <1>1 DEF RelayInv, RelayTypeOK, RelayFrame
<1>3. x.from = c /\ x.n = read[c] /\ read[c] \in Nat /\ pc[c] = "sending" /\ pc[q] # "done"
  BY DEF RelayInv, RelayTypeOK, ForwardSend
<1>4. /\ fwd_rx'[q] = Append(fwd_rx[q], x)
      /\ \A d \in Conns \ {q} : fwd_rx'[d] = fwd_rx[d]
      /\ pc'[c] = "forward" /\ \A d \in Conns \ {c} : pc'[d] = pc[d]
      /\ UNCHANGED <<got, read, waited>>
  BY <1>1 DEF RelayInv, RelayTypeOK, ForwardSend, clients
<1> HIDE DEF x, q
<1>5. /\ Len(fwd_rx[q]) \in Nat /\ Len(fwd_rx'[q]) = Len(fwd_rx[q]) + 1
      /\ \A i \in 1..Len(fwd_rx[q]) : fwd_rx'[q][i] = fwd_rx[q][i]
      /\ fwd_rx'[q][Len(fwd_rx[q]) + 1] = x /\ fwd_rx'[q] # <<>>
  BY <1>2, <1>4, AppendFacts
<1>a. (fwd_rx[q] = <<>> <=> Len(fwd_rx[q]) = 0)
  BY <1>2, EmptyFacts
\* What the frame follows.
<1>6. /\ fwd_rx[q] # <<>> => read[c] = fwd_rx[q][Len(fwd_rx[q])].n + 1
      /\ fwd_rx[q] = <<>> /\ got[q] # <<>> => read[c] = got[q][Len(got[q])].n + 1
      /\ fwd_rx[q] = <<>> /\ got[q] = <<>> /\ c \notin waited => read[c] = 1
  <2>1. Taken(c) = read[c] - 1
    BY <1>3 DEF Taken
  <2>2. /\ fwd_rx[q] # <<>> => fwd_rx[q][Len(fwd_rx[q])].n = read[c] - 1
        /\ fwd_rx[q] = <<>> /\ got[q] # <<>> => got[q][Len(got[q])].n = read[c] - 1
        /\ fwd_rx[q] = <<>> /\ got[q] = <<>> /\ c \notin waited => read[c] - 1 = 0
    BY <1>1, <1>3, <2>1 DEF SourceInv
  <2> QED
    BY <1>3, <2>2
<1>7. RunsOn(fwd_rx'[q])
  <2> SUFFICES ASSUME NEW i \in 1..Len(fwd_rx'[q]), i > 1
               PROVE  fwd_rx'[q][i].n = fwd_rx'[q][i - 1].n + 1
    BY DEF RunsOn
  <2>1. CASE i = Len(fwd_rx[q]) + 1
    <3>1. fwd_rx[q] # <<>> /\ i - 1 = Len(fwd_rx[q]) /\ i - 1 \in 1..Len(fwd_rx[q])
      BY <1>5, <1>a, <2>1
    <3>2. fwd_rx'[q][i] = x /\ fwd_rx'[q][i - 1] = fwd_rx[q][Len(fwd_rx[q])]
      BY <1>5, <2>1, <3>1
    <3> QED
      BY <1>3, <1>6, <3>1, <3>2
  <2>2. CASE i \in 1..Len(fwd_rx[q])
    <3>1. i - 1 \in 1..Len(fwd_rx[q]) /\ fwd_rx'[q][i] = fwd_rx[q][i] /\ fwd_rx'[q][i - 1] = fwd_rx[q][i - 1]
      BY <1>5, <2>2
    <3> QED
      BY <1>1, <2>2, <3>1 DEF FlowInv, RunsOn
  <2> QED
    BY <1>5, <2>1, <2>2
<1>8. fwd_rx'[q][1] = IF fwd_rx[q] = <<>> THEN x ELSE fwd_rx[q][1]
  BY <1>5, <1>a
<1>9. got[q] # <<>> => fwd_rx'[q][1].n = got[q][Len(got[q])].n + 1
  BY <1>1, <1>3, <1>6, <1>8 DEF FlowInv
<1>10. got[q] = <<>> => (fwd_rx'[q][1].from \notin waited => fwd_rx'[q][1].n = 1)
  <2>1. CASE fwd_rx[q] = <<>>
    BY <1>3, <1>6, <1>8, <2>1
  <2>2. CASE fwd_rx[q] # <<>>
    BY <1>1, <1>8, <2>2 DEF StartOK, FlowInv
  <2> QED
    BY <2>1, <2>2
<1>11. FlowInv'
  <2> SUFFICES ASSUME NEW d \in Conns
               PROVE  (/\ RunsOn(got[d]) /\ RunsOn(fwd_rx[d])
                       /\ got[d] # <<>> /\ fwd_rx[d] # <<>> => fwd_rx[d][1].n = got[d][Len(got[d])].n + 1
                       /\ StartOK(got[d])
                       /\ got[d] = <<>> => StartOK(fwd_rx[d]))'
    BY DEF FlowInv
  <2>1. RunsOn(got[d])' /\ StartOK(got[d])'
    BY <1>4 DEF FlowInv, RunsOn, StartOK
  <2>2. CASE d = q
    <3>1. RunsOn(fwd_rx'[d]) /\ got'[d] = got[q] /\ fwd_rx'[d] = fwd_rx'[q] /\ waited' = waited
      BY <1>4, <1>7, <2>2
    <3>2. RunsOn(fwd_rx[d])' /\ (got'[d] = <<>> => StartOK(fwd_rx[d])')
      BY <1>10, <3>1 DEF RunsOn, StartOK
    <3> QED
      BY <1>9, <2>1, <3>1, <3>2
  <2>3. CASE d # q
    BY <1>4, <2>1, <2>3 DEF FlowInv, StartOK, RunsOn
  <2> QED
    BY <2>2, <2>3
<1>12. SourceInv'
  <2> SUFFICES ASSUME NEW p \in Conns, NEW d \in Conns, Paired(p, d)
               PROVE  /\ Silent(p)' => got'[d] = <<>> /\ fwd_rx'[d] = <<>>
                      /\ pc'[p] \in {"forward", "sending"} /\ pc'[d] # "done" =>
                           /\ fwd_rx'[d] # <<>> => fwd_rx'[d][Len(fwd_rx'[d])].n = Taken(p)'
                           /\ fwd_rx'[d] = <<>> /\ got'[d] # <<>> => got'[d][Len(got'[d])].n = Taken(p)'
                           /\ fwd_rx'[d] = <<>> /\ got'[d] = <<>> /\ p \notin waited' => Taken(p)' = 0
    BY DEF SourceInv, Paired
  <2>1. CASE d = q
    <3>1. p = c
      BY <1>1, <2>1, RelayAssumption DEF Paired, OneEach
    <3>2. ~Silent(p)' /\ Taken(p)' = read[c]
      BY <1>4, <3>1 DEF Silent, Taken
    <3> QED
      BY <1>3, <1>5, <2>1, <3>2
  <2>2. CASE d # q
    <3>1. p # c
      BY <1>1, <2>2, RelayAssumption DEF Paired, OneEach
    <3>2. Silent(p)' = Silent(p) /\ Taken(p)' = Taken(p) /\ pc'[p] = pc[p] /\ (pc'[d] # "done" => pc[d] # "done")
      BY <1>3, <1>4, <3>1 DEF Silent, Taken
    <3> QED
      BY <1>4, <2>2, <3>2 DEF SourceInv
  <2> QED
    BY <2>1, <2>2
<1> QED
  BY <1>11, <1>12

\* What one end has passed and the other has read stays without gaps.
LEMMA FlowStep ==
  ASSUME OneEach, RelayInv, FlowInv, SourceInv, ReadInv, [RelayNext]_relayServerVars
  PROVE  FlowInv' /\ SourceInv'
<1> USE DEF clients
<1>0. /\ pc \in [Conns -> {"unopened", "joining", "wait", "forward", "sending", "done"}]
      /\ read \in [Conns -> Nat] /\ waited \subseteq Conns /\ RelayTypeOK
  BY DEF RelayInv, RelayTypeOK
<1>1. ASSUME UNCHANGED <<got, fwd_rx, pc, read, waited>>
      PROVE  FlowInv' /\ SourceInv'
  <2>1. \A p \in Conns : Silent(p)' = Silent(p) /\ Taken(p)' = Taken(p)
    BY <1>1 DEF Silent, Taken
  <2> QED
    BY <1>1, <2>1, FlowFrame
<1>2. CASE \E t \in Tokens : Issue(t) \/ Reap(t)
  BY <1>1, <1>2 DEF Issue, Reap
<1>3. CASE \E c \in Conns : ClientSend(c) \/ ClientClose(c)
  BY <1>1, <1>3 DEF ClientSend, ClientClose
<1>4. ASSUME NEW c \in Conns, Arrive(c)
      PROVE  FlowInv' /\ SourceInv'
  <2>1. /\ UNCHANGED <<got, fwd_rx, read, waited>> /\ pc[c] = "unopened"
        /\ pc' \in {[pc EXCEPT ![c] = "done"], [pc EXCEPT ![c] = "joining"]}
    BY <1>4 DEF Arrive
  <2>2. pc'[c] \in {"done", "joining"} /\ \A d \in Conns \ {c} : pc'[d] = pc[d]
    BY <1>0, <2>1
  <2>3. \A p \in Conns : /\ Silent(p)' => Silent(p)
                         /\ pc'[p] \in {"forward", "sending"} => p # c /\ Taken(p)' = Taken(p)
    BY <2>1, <2>2 DEF Silent, Taken
  <2> QED
    BY <2>1, <2>2, <2>3, FlowFrame
<1>5. ASSUME NEW c \in Conns, JoinSlot(c)
      PROVE  FlowInv' /\ SourceInv'
  <2>1. /\ UNCHANGED <<got, fwd_rx, read>> /\ pc[c] = "joining"
        /\ \/ pc' = [pc EXCEPT ![c] = "wait"] /\ waited' = waited \cup {c}
           \/ pc' = [pc EXCEPT ![c] = "done"] /\ waited' = waited
           \/ pc' = [pc EXCEPT ![c] = "forward"] /\ waited' = waited
    BY <1>5 DEF JoinSlot
  <2>2. CASE pc' = [pc EXCEPT ![c] = "forward"] /\ waited' = waited
    BY <1>0, <2>1, <2>2, FlowStarts
  <2>3. CASE pc' \in {[pc EXCEPT ![c] = "wait"], [pc EXCEPT ![c] = "done"]} /\ waited \subseteq waited'
    <3>1. pc'[c] \in {"done", "wait"} /\ \A d \in Conns \ {c} : pc'[d] = pc[d]
      BY <1>0, <2>3
    <3>2. \A p \in Conns : /\ Silent(p)' => Silent(p)
                           /\ pc'[p] \in {"forward", "sending"} => p # c /\ Taken(p)' = Taken(p)
      BY <2>1, <3>1 DEF Silent, Taken
    <3> QED
      BY <2>1, <2>3, <3>1, <3>2, FlowFrame
  <2> QED
    BY <2>1, <2>2, <2>3
<1>6. ASSUME NEW c \in Conns, WaitDeadline(c) \/ WaitClosed(c) \/ SendBreaks(c) \/ ForwardClosed(c) \/ WriteBreaks(c)
      PROVE  FlowInv' /\ SourceInv'
  <2>1. UNCHANGED <<got, waited, read>> /\ pc' = [pc EXCEPT ![c] = "done"] /\ fwd_rx' = [fwd_rx EXCEPT ![c] = <<>>]
    BY <1>6 DEF WaitDeadline, WaitClosed, SendBreaks, ForwardClosed, WriteBreaks, Return
  <2> QED
    BY <1>0, <2>1, FlowReturns
<1>7. ASSUME NEW c \in Conns, WaitPoll(c)
      PROVE  FlowInv' /\ SourceInv'
  BY <1>0, <1>7, FlowStarts DEF WaitPoll
<1>8. ASSUME NEW c \in Conns, WaitFrame(c)
      PROVE  FlowInv' /\ SourceInv'
  <2>1. UNCHANGED <<got, fwd_rx, waited, pc>> /\ pc[c] = "wait" /\ \A d \in Conns \ {c} : read'[d] = read[d]
    BY <1>0, <1>8 DEF WaitFrame
  <2>2. \A p \in Conns : /\ Silent(p)' => Silent(p)
                         /\ pc'[p] \in {"forward", "sending"} => Taken(p)' = Taken(p)
    BY <2>1 DEF Silent, Taken
  <2> QED
    BY <2>1, <2>2, FlowFrame
<1>9. ASSUME NEW c \in Conns, ForwardRead(c)
      PROVE  FlowInv' /\ SourceInv'
  <2>1. /\ UNCHANGED <<got, fwd_rx, waited>> /\ pc[c] = "forward" /\ pc'[c] = "sending"
        /\ read[c] \in Nat /\ read'[c] = read[c] + 1
        /\ \A d \in Conns \ {c} : read'[d] = read[d] /\ pc'[d] = pc[d]
    BY <1>0, <1>9 DEF ForwardRead
  <2>2. \A p \in Conns : /\ Silent(p)' => Silent(p)
                         /\ Taken(p)' = Taken(p)
    BY <2>1 DEF Silent, Taken
  <2> QED
    BY <2>1, <2>2, FlowFrame
<1>10. CASE \E c \in Conns : ForwardSend(c) \/ Write(c)
  BY <1>0, <1>10, FlowSends, FlowWrites
<1>11. CASE UNCHANGED relayServerVars
  BY <1>1, <1>11 DEF relayServerVars
<1> QED
  BY <1>2, <1>3, <1>4, <1>5, <1>6, <1>7, <1>8, <1>9, <1>10, <1>11 DEF RelayNext

\* relay_session never skips a frame between two clients that hold a token each for itself: what
\* a client receives is one run of its peer's frames, for any capacity and however sends and
\* writes fail.
THEOREM FramesWithoutGaps == ASSUME OneEach PROVE RelaySpec => []NoGaps
<1> DEFINE Inv == RelayInv /\ FlowInv /\ SourceInv /\ ReadInv
<1>1. RelayInit => Inv
  <2> SUFFICES ASSUME RelayInit
               PROVE  Inv
    OBVIOUS
  <2>1. \A c \in Conns : got[c] = <<>> /\ fwd_rx[c] = <<>> /\ pc[c] = "unopened" /\ read[c] = 0
    BY DEF RelayInit
  <2> QED
    BY <2>1, RelayInitInv DEF FlowInv, SourceInv, ReadInv, RunsOn, StartOK, Silent, Taken
<1>2. Inv /\ [RelayNext]_relayServerVars => Inv'
  <2>1. RelayInv /\ [RelayNext]_relayServerVars => RelayInv'
    BY RelayTypeStep, SlotStep, PeerStep DEF RelayInv
  <2> QED
    BY <2>1, FlowStep, ReadStep DEF RelayInv
<1>3. Inv => NoGaps
  <2> SUFFICES ASSUME Inv, NEW c \in Conns, NEW i \in 1..Len(got[c])
               PROVE  /\ i > 1 => got[c][i].n = got[c][i-1].n + 1
                      /\ i = 1 /\ got[c][1].from \notin waited => got[c][1].n = 1
    BY DEF NoGaps
  <2>1. got[c] # <<>>
    OBVIOUS
  <2> QED
    BY <2>1 DEF FlowInv, RunsOn, StartOK
<1> QED
  BY <1>1, <1>2, <1>3, PTL DEF RelaySpec

-----------------------------------------------------------------------------
(***************************************************************************)
(* The two ends of a session and the relay between them, for queues of any *)
(* length.                                                                 *)
(***************************************************************************)

Place(e) == IF e = "host" THEN host ELSE viewer

\* The end has not read its first frame.
Unread(e) == Place(e) \in {"idle", "handshake"}

\* The end has sent its frame in the clear, and may seal from now on.
Spoke(e) == e \in sealing \/ (e = "host" /\ host = "admission")

Short(s) == Len(s) <= 1

\* No frame of e is on its way to o, in any of the queues between them.
Quiet(e, o) ==
  in[o] = <<>> /\ relay[o] # "to_socket" /\ fwd[o] = <<>> /\ relay[e] # "to_peer" /\ out[e] = <<>>

\* One at most is.
AtMostOne(e, o) ==
  /\ Short(in[o]) /\ Short(fwd[o]) /\ Short(out[e])
  /\ in[o] # <<>> => relay[o] # "to_socket" /\ fwd[o] = <<>> /\ relay[e] # "to_peer" /\ out[e] = <<>>
  /\ relay[o] = "to_socket" => fwd[o] = <<>> /\ relay[e] # "to_peer" /\ out[e] = <<>>
  /\ fwd[o] # <<>> => relay[e] # "to_peer" /\ out[e] = <<>>
  /\ relay[e] = "to_peer" => out[e] = <<>>

\* An end seals from the place at which it installed its ciphers, and gets past its handshake only
\* after the other end has spoken.
PlaceInv ==
  /\ host \in {"idle", "handshake"} => viewer \in {"idle", "handshake", "ended"} /\ "viewer" \notin sealing
  /\ host \in {"idle", "handshake", "admission"} => "host" \notin sealing
  /\ host \in {"serving", "media", "ping"} => "host" \in sealing
  /\ viewer = "idle" => host \in {"idle", "handshake", "ended"} /\ "host" \notin sealing
  /\ viewer \in {"idle", "handshake", "prompt"} => "viewer" \notin sealing
  /\ viewer \in {"serving", "sending", "pong", "closing"} => "viewer" \in sealing

\* An end that does not seal yet has one frame under way at most, and one whose relay task has no
\* peer has received nothing.
CountInv ==
  /\ "host" \notin sealing => AtMostOne("host", "viewer")
  /\ "viewer" \notin sealing => AtMostOne("viewer", "host")
  /\ viewer = "idle" => Quiet("viewer", "host")
  /\ host \in {"idle", "handshake"} => Quiet("host", "viewer")
  /\ \A e \in Ends : relay[e] \in {"none", "waiting"} =>
       in[e] = <<>> /\ Place(e) \in {"idle", "handshake", "ended"} /\ e \notin sealing

AllSealed(s) == \A i \in 1..Len(s) : s[i].sealed
FirstClear(s) == \A i \in 1..Len(s) : s[i].sealed <=> i # 1

\* All of s is sealed, except its first frame if clear.
SealedBut(s, clear) == IF clear THEN FirstClear(s) ELSE AllSealed(s)

\* Of the frames on their way from e to o the first, if o has read none, is in the clear, and all
\* others are sealed.  The five conjuncts follow the frames from o's inbox back to e's outbox; what
\* lies behind a task that has ended does not arrive any more.
CipherOK(e, o) ==
  Place(o) # "ended" =>
    /\ SealedBut(in[o], Unread(o))
    /\ relay[o] = "to_socket" => (carried[o].sealed <=> ~(Unread(o) /\ in[o] = <<>>))
    /\ SealedBut(fwd[o], Unread(o) /\ in[o] = <<>> /\ relay[o] # "to_socket")
    /\ relay[o] # "gone" /\ relay[e] = "to_peer" =>
         (carried[e].sealed <=> ~(Unread(o) /\ in[o] = <<>> /\ relay[o] # "to_socket" /\ fwd[o] = <<>>))
    /\ relay[o] # "gone" /\ relay[e] # "gone" =>
         /\ SealedBut(out[e], /\ Unread(o) /\ in[o] = <<>> /\ relay[o] # "to_socket" /\ fwd[o] = <<>>
                              /\ relay[e] # "to_peer")
         /\ Spoke(e) /\ Unread(o) => ~Quiet(e, o)

CipherInv == CipherOK("host", "viewer") /\ CipherOK("viewer", "host")

LinkInv == LinkTypeOK /\ PlaceInv /\ CountInv /\ CipherInv

\* There are two ends.
LEMMA EndsFacts ==
  /\ Other("host") = "viewer" /\ Other("viewer") = "host"
  /\ \A e \in Ends : Other(e) \in Ends /\ Other(e) # e /\ Other(Other(e)) = e
  /\ \A e, d \in Ends : d = e \/ d = Other(e)
BY DEF Ends, Other

\* What a frame is.
LEMMA FrameFacts ==
  /\ \A k \in Kinds, b \in BOOLEAN : [kind |-> k, sealed |-> b] \in Frames
  /\ \A k, b : [kind |-> k, sealed |-> b].sealed = b
  /\ NoFrame \in Frames
BY DEF Frames, NoFrame, Kinds

\* Reading the first frame of a sound queue leaves a sealed one.
LEMMA SealedTail ==
  ASSUME NEW s \in Seq(Frames), s # <<>>
  PROVE  /\ AllSealed(s) => AllSealed(Tail(s)) /\ Head(s).sealed
         /\ FirstClear(s) => AllSealed(Tail(s)) /\ ~Head(s).sealed
<1>1. /\ Len(s) \in Nat \ {0} /\ Len(Tail(s)) = Len(s) - 1 /\ Head(s) = s[1]
      /\ \A i \in 1..(Len(s) - 1) : Tail(s)[i] = s[i + 1]
  BY TailFacts
<1>2. 1 \in 1..Len(s)
  BY <1>1
<1>3. (AllSealed(s) => Head(s).sealed) /\ (FirstClear(s) => ~Head(s).sealed)
  BY <1>1, <1>2 DEF AllSealed, FirstClear
<1>4. ASSUME NEW i \in 1..Len(Tail(s)), AllSealed(s) \/ FirstClear(s)
      PROVE  Tail(s)[i].sealed
  <2>1. i + 1 \in 1..Len(s) /\ i + 1 # 1 /\ Tail(s)[i] = s[i + 1]
    BY <1>1
  <2> QED
    BY <1>4, <2>1 DEF AllSealed, FirstClear
<1>5. AllSealed(s) \/ FirstClear(s) => AllSealed(Tail(s))
  BY <1>4 DEF AllSealed
<1> QED
  BY <1>3, <1>5

\* Sending a sealed frame keeps a queue sound.
LEMMA SealedAppend ==
  ASSUME NEW s \in Seq(Frames), NEW x \in Frames
  PROVE  /\ AllSealed(s) /\ x.sealed => AllSealed(Append(s, x))
         /\ FirstClear(s) /\ s # <<>> /\ x.sealed => FirstClear(Append(s, x))
         /\ s = <<>> /\ ~x.sealed => FirstClear(Append(s, x))
<1>1. /\ Len(s) \in Nat /\ Len(Append(s, x)) = Len(s) + 1 /\ Append(s, x)[Len(s) + 1] = x
      /\ \A i \in 1..Len(s) : Append(s, x)[i] = s[i]
  BY AppendFacts
<1>2. s = <<>> <=> Len(s) = 0
  BY EmptyFacts
<1>3. ASSUME NEW i \in 1..Len(Append(s, x))
      PROVE  i \in 1..Len(s) \/ i = Len(s) + 1
  BY <1>1
<1>4. AllSealed(s) /\ x.sealed => AllSealed(Append(s, x))
  BY <1>1, <1>3 DEF AllSealed
<1>5. FirstClear(s) /\ s # <<>> /\ x.sealed => FirstClear(Append(s, x))
  BY <1>1, <1>2, <1>3 DEF FirstClear
<1>6. s = <<>> /\ ~x.sealed => FirstClear(Append(s, x))
  BY <1>1, <1>2, <1>3 DEF FirstClear
<1> QED
  BY <1>4, <1>5, <1>6

\* An empty queue is sound.
LEMMA SealedEmpty == AllSealed(<<>>) /\ FirstClear(<<>>)
BY DEF AllSealed, FirstClear

\* The types hold before anyone connects.
LEMMA LinkTypeInit == LinkInit => LinkTypeOK
<1> SUFFICES ASSUME LinkInit
             PROVE  LinkTypeOK
  OBVIOUS
<1>1. host \in HostPlaces /\ viewer \in ViewerPlaces /\ cancel \in BOOLEAN /\ sealing \subseteq Ends
  BY DEF LinkInit, HostPlaces, ViewerPlaces
<1>4. cmds \in 0..Cmds
  BY LinkAssumption DEF LinkInit
<1>2. out \in [Ends -> Seq(Frames)] /\ in \in [Ends -> Seq(Frames)] /\ fwd \in [Ends -> Seq(Frames)]
  BY DEF LinkInit
<1>3. relay \in [Ends -> RelayPlaces] /\ carried \in [Ends -> Frames]
  BY FrameFacts DEF LinkInit, RelayPlaces
<1> QED
  BY <1>1, <1>2, <1>3, <1>4 DEF LinkTypeOK

\* Sending keeps the types.
LEMMA SendType ==
  ASSUME LinkTypeOK, NEW e \in Ends, NEW k \in Kinds
  PROVE  /\ Frame(e, k) \in Frames /\ (Frame(e, k).sealed <=> e \in sealing)
         /\ [out EXCEPT ![e] = Append(@, Frame(e, k))] \in [Ends -> Seq(Frames)]
<1>1. Frame(e, k) \in Frames /\ (Frame(e, k).sealed <=> e \in sealing)
  <2>1. CASE e \in sealing
    <3>1. (e \in sealing) = TRUE
      BY <2>1
    <3>2. Frame(e, k) = [kind |-> k, sealed |-> TRUE]
      BY <3>1, Zenon DEF Frame
    <3> QED
      BY <2>1, <3>2, FrameFacts
  <2>2. CASE e \notin sealing
    <3>1. (e \in sealing) = FALSE
      BY <2>2
    <3>2. Frame(e, k) = [kind |-> k, sealed |-> FALSE]
      BY <3>1, Zenon DEF Frame
    <3> QED
      BY <2>2, <3>2, FrameFacts
  <2> QED
    BY <2>1, <2>2
<1>2. Append(out[e], Frame(e, k)) \in Seq(Frames)
  BY <1>1 DEF LinkTypeOK
<1> QED
  BY <1>1, <1>2 DEF LinkTypeOK

\* Reading and losing keep the types.
LEMMA ReadType ==
  ASSUME LinkTypeOK, NEW e \in Ends
  PROVE  /\ in[e] # <<>> => [in EXCEPT ![e] = Tail(@)] \in [Ends -> Seq(Frames)]
         /\ [in EXCEPT ![e] = <<>>] \in [Ends -> Seq(Frames)]
BY DEF LinkTypeOK

\* Every step keeps the types.
LEMMA LinkTypeStep == LinkTypeOK /\ [LinkNext]_linkVars => LinkTypeOK'
<1> SUFFICES ASSUME LinkTypeOK, [LinkNext]_linkVars
             PROVE  LinkTypeOK'
  OBVIOUS
<1> USE DEF endVars, relayVars
<1>1. ASSUME NEW e \in Ends, Join(e) \/ FindPeer(e) \/ WaitOver(e)
      PROVE  LinkTypeOK'
  <2>1. UNCHANGED <<endVars, out, in, carried, fwd>> /\ \E x \in RelayPlaces : relay' = [relay EXCEPT ![e] = x]
    BY <1>1 DEF Join, FindPeer, WaitOver, RelayPlaces
  <2> QED
    BY <2>1 DEF LinkTypeOK
<1>2. ASSUME NEW e \in Ends, DropEarly(e)
      PROVE  LinkTypeOK'
  <2>1. Tail(out[e]) \in Seq(Frames)
    BY <1>2, TailFacts DEF DropEarly, LinkTypeOK
  <2> QED
    BY <1>2, <2>1 DEF DropEarly, LinkTypeOK
<1>3. ASSUME NEW e \in Ends, TakeFromEnd(e)
      PROVE  LinkTypeOK'
  <2>1. Tail(out[e]) \in Seq(Frames) /\ Head(out[e]) \in Frames /\ "to_peer" \in RelayPlaces
    BY <1>3, TailFacts DEF TakeFromEnd, LinkTypeOK, RelayPlaces
  <2> QED
    BY <1>3, <2>1 DEF TakeFromEnd, LinkTypeOK
<1>4. ASSUME NEW e \in Ends, TakeFromPeer(e)
      PROVE  LinkTypeOK'
  <2>1. Tail(fwd[e]) \in Seq(Frames) /\ Head(fwd[e]) \in Frames /\ "to_socket" \in RelayPlaces
    BY <1>4, TailFacts DEF TakeFromPeer, LinkTypeOK, RelayPlaces
  <2> QED
    BY <1>4, <2>1 DEF TakeFromPeer, LinkTypeOK
<1>5. ASSUME NEW e \in Ends, Delivered(e)
      PROVE  LinkTypeOK'
  <2>1. Other(e) \in Ends /\ "ready" \in RelayPlaces /\ NoFrame \in Frames
    BY EndsFacts, FrameFacts DEF RelayPlaces
  <2>2. Append(fwd[Other(e)], carried[e]) \in Seq(Frames) /\ Append(in[e], carried[e]) \in Seq(Frames)
    BY <2>1, AppendFacts DEF LinkTypeOK
  <2>3. fwd' \in [Ends -> Seq(Frames)] /\ in' \in [Ends -> Seq(Frames)]
    BY <1>5, <2>1, <2>2 DEF Delivered, LinkTypeOK
  <2>4. /\ UNCHANGED <<endVars, out>>
        /\ carried' = [carried EXCEPT ![e] = NoFrame] /\ relay' = [relay EXCEPT ![e] = "ready"]
    BY <1>5 DEF Delivered
  <2> QED
    BY <2>1, <2>3, <2>4 DEF LinkTypeOK
<1>6. ASSUME NEW e \in Ends, TaskEnds(e)
      PROVE  LinkTypeOK'
  <2>1. /\ UNCHANGED <<endVars, in>> /\ relay' = [relay EXCEPT ![e] = "gone"] /\ carried' = [carried EXCEPT ![e] = NoFrame]
        /\ fwd' = [fwd EXCEPT ![e] = <<>>] /\ out' = [out EXCEPT ![e] = <<>>]
    BY <1>6 DEF TaskEnds
  <2>2. "gone" \in RelayPlaces /\ NoFrame \in Frames
    BY FrameFacts DEF RelayPlaces
  <2> QED
    BY <2>1, <2>2 DEF LinkTypeOK
<1>7. CASE HostConnects \/ HostStep
  <2>1. host' \in HostPlaces /\ sealing' \subseteq Ends
    BY <1>7 DEF HostConnects, HostStep, HostAnswers, HostRejects, HostHandshakeOver, HostAdmits, HostRefuses,
                HostHasMedia, HostHasAudio, HostTicks, HostSends, HostSendFails, HostReads, HostSeesEnd, HostLeaves, HostGoesTo,
                HostPlaces, LinkTypeOK, Ends
  <2>2. UNCHANGED <<viewer, cmds, cancel, relayVars>>
    BY <1>7 DEF HostConnects, HostStep, HostAnswers, HostRejects, HostHandshakeOver, HostAdmits, HostRefuses,
                HostHasMedia, HostHasAudio, HostTicks, HostSends, HostSendFails, HostReads, HostSeesEnd
  <2>3. \/ UNCHANGED in
        \/ Arrived("host") /\ Read("host")
        \/ Dropped("host")
    BY <1>7 DEF HostConnects, HostStep, HostAnswers, HostRejects, HostHandshakeOver, HostAdmits, HostRefuses,
                HostHasMedia, HostHasAudio, HostTicks, HostSends, HostSendFails, HostReads, HostSeesEnd, HostLeaves
  <2>4. \/ UNCHANGED out
        \/ \E k \in Kinds : Send("host", k)
        \/ out' = [out EXCEPT !["host"] = Append(@, [kind |-> "Media", sealed |-> TRUE])]
    BY <1>7 DEF HostConnects, HostStep, HostAnswers, HostRejects, HostHandshakeOver, HostAdmits, HostRefuses,
                HostHasMedia, HostHasAudio, HostTicks, HostSends, HostSendFails, HostReads, HostSeesEnd, Kinds
  <2>5. in' \in [Ends -> Seq(Frames)]
    BY <2>3, ReadType DEF Read, Dropped, Arrived, Ends, LinkTypeOK
  <2>6. [kind |-> "Media", sealed |-> TRUE] \in Frames
    BY FrameFacts DEF Kinds
  <2>7. [out EXCEPT !["host"] = Append(@, [kind |-> "Media", sealed |-> TRUE])] \in [Ends -> Seq(Frames)]
    BY <2>6, AppendFacts DEF LinkTypeOK, Ends
  <2>8. out' \in [Ends -> Seq(Frames)]
    BY <2>4, <2>7, SendType DEF Send, LinkTypeOK, Ends
  <2> QED
    BY <2>1, <2>2, <2>5, <2>8 DEF LinkTypeOK
<1>8. CASE ViewerConnects \/ PromptAccepted \/ ViewerStep \/ UserCommands \/ UserCancels
  <2>1. viewer' \in ViewerPlaces /\ sealing' \subseteq Ends /\ cancel' \in BOOLEAN
    BY <1>8 DEF ViewerConnects, PromptAccepted, ViewerStep, UserCommands, UserCancels, ViewerAnswered, ViewerTurnedAway, PromptOver,
                ViewerCancelled, ViewerTakesCommand, ViewerReads, ViewerSeesEnd, ViewerSends, ViewerSendFails, ViewerLeaves,
                ViewerPlaces, LinkTypeOK, Ends
  <2>2. cmds' \in 0..Cmds
    BY <1>8, LinkAssumption DEF ViewerConnects, PromptAccepted, ViewerStep, UserCommands, UserCancels, ViewerAnswered, ViewerTurnedAway, PromptOver,
                ViewerCancelled, ViewerTakesCommand, ViewerReads, ViewerSeesEnd, ViewerSends, ViewerSendFails, ViewerLeaves,
                LinkTypeOK
  <2>3. UNCHANGED <<host, relayVars>>
    BY <1>8 DEF ViewerConnects, PromptAccepted, ViewerStep, UserCommands, UserCancels, ViewerAnswered, ViewerTurnedAway, PromptOver,
                ViewerCancelled, ViewerTakesCommand, ViewerReads, ViewerSeesEnd, ViewerSends, ViewerSendFails
  <2>4. \/ UNCHANGED in
        \/ Arrived("viewer") /\ Read("viewer")
        \/ Dropped("viewer")
    BY <1>8 DEF ViewerConnects, PromptAccepted, ViewerStep, UserCommands, UserCancels, ViewerAnswered, ViewerTurnedAway, PromptOver,
                ViewerCancelled, ViewerTakesCommand, ViewerReads, ViewerSeesEnd, ViewerSends, ViewerSendFails, ViewerLeaves
  <2>5. \/ UNCHANGED out
        \/ \E k \in Kinds : Send("viewer", k)
    BY <1>8 DEF ViewerConnects, PromptAccepted, ViewerStep, UserCommands, UserCancels, ViewerAnswered, ViewerTurnedAway, PromptOver,
                ViewerCancelled, ViewerTakesCommand, ViewerReads, ViewerSeesEnd, ViewerSends, ViewerSendFails, Kinds
  <2>6. in' \in [Ends -> Seq(Frames)]
    BY <2>4, ReadType DEF Read, Dropped, Arrived, Ends, LinkTypeOK
  <2>7. out' \in [Ends -> Seq(Frames)]
    BY <2>5, SendType DEF Send, LinkTypeOK, Ends
  <2> QED
    BY <2>1, <2>2, <2>3, <2>6, <2>7 DEF LinkTypeOK
<1>9. CASE UNCHANGED linkVars
  BY <1>9 DEF linkVars, LinkTypeOK
<1> QED
  BY <1>1, <1>2, <1>3, <1>4, <1>5, <1>6, <1>7, <1>8, <1>9 DEF LinkNext, RelayStep

\* What a queue of at most one frame becomes.
LEMMA ShortFacts ==
  ASSUME NEW s \in Seq(Frames), NEW f \in Frames
  PROVE  /\ Short(<<>>)
         /\ s # <<>> /\ Short(s) => Tail(s) = <<>>
         /\ s = <<>> => Short(Append(s, f))
         /\ Append(s, f) # <<>>
<1>1. Len(s) \in Nat /\ (s = <<>> <=> Len(s) = 0)
  BY EmptyFacts
<1>2. s # <<>> => Tail(s) \in Seq(Frames) /\ Len(Tail(s)) = Len(s) - 1
  BY TailFacts
<1>3. Append(s, f) # <<>> /\ Len(Append(s, f)) = Len(s) + 1
  BY AppendFacts
<1>4. ASSUME s # <<>>, Short(s)
      PROVE  Tail(s) = <<>>
  <2>0. Len(s) # 0 /\ Len(s) <= 1
    BY <1>1, <1>4, Zenon DEF Short
  <2>a. \A n \in Nat : n # 0 /\ n <= 1 => n = 1
    OBVIOUS
  <2>1. Len(s) = 1
    BY <1>1, <2>0, <2>a, Zenon
  <2>2. Len(Tail(s)) = 0
    BY <1>2, <1>4, <2>1
  <2> QED
    BY <1>2, <1>4, <2>2, EmptyFacts
<1> QED
  BY <1>1, <1>3, <1>4 DEF Short

\* Steps of the relay leave the ends where they are; they lose frames at most.
LEMMA RelayCounts ==
  ASSUME PlaceInv, CountInv, UNCHANGED endVars, NEW e \in Ends, NEW o, o = Other(e),
         AtMostOne(e, o) => AtMostOne(e, o)', AtMostOne(o, e) => AtMostOne(o, e)',
         Quiet(e, o) => Quiet(e, o)', Quiet(o, e) => Quiet(o, e)',
         relay'[e] \in {"none", "waiting"} => relay[e] \in {"none", "waiting"} /\ in'[e] = in[e],
         relay'[o] \in {"none", "waiting"} => relay[o] \in {"none", "waiting"} /\ in'[o] = in[o]
  PROVE  PlaceInv' /\ CountInv'
<1>1. PlaceInv'
  <2>1. host' = host /\ viewer' = viewer /\ sealing' = sealing
    BY DEF endVars
  <2> QED
    BY <2>1 DEF PlaceInv
<1>2. (e = "host" /\ o = "viewer") \/ (e = "viewer" /\ o = "host")
  BY EndsFacts DEF Ends
<1>3. \A d \in Ends : Place(d)' = Place(d)
  BY DEF Place, endVars
<1>4. sealing' = sealing /\ host' = host /\ viewer' = viewer
  BY DEF endVars
<1>5. /\ AtMostOne("host", "viewer") => AtMostOne("host", "viewer")'
      /\ AtMostOne("viewer", "host") => AtMostOne("viewer", "host")'
      /\ Quiet("host", "viewer") => Quiet("host", "viewer")'
      /\ Quiet("viewer", "host") => Quiet("viewer", "host")'
  BY <1>2
<1>6. \A d \in Ends : relay'[d] \in {"none", "waiting"} => relay[d] \in {"none", "waiting"} /\ in'[d] = in[d]
  BY <1>2 DEF Ends
<1>7. CountInv'
  BY <1>3, <1>4, <1>5, <1>6 DEF CountInv
<1> QED
  BY <1>1, <1>7

\* The relay moves frames without touching them.
LEMMA RelayStepInv ==
  ASSUME LinkInv, NEW e \in Ends, Join(e) \/ RelayStep(e)
  PROVE  PlaceInv' /\ CountInv' /\ CipherInv'
<1> DEFINE o == Other(e)
<1>e. o \in Ends /\ o # e /\ Other(o) = e /\ Other(e) = o /\ \A d \in Ends : d = e \/ d = o
  BY EndsFacts
<1>t. /\ LinkTypeOK /\ PlaceInv /\ CountInv
      /\ out[e] \in Seq(Frames) /\ out[o] \in Seq(Frames) /\ in[e] \in Seq(Frames) /\ in[o] \in Seq(Frames)
      /\ fwd[e] \in Seq(Frames) /\ fwd[o] \in Seq(Frames) /\ carried[e] \in Frames /\ carried[o] \in Frames
      /\ relay \in [Ends -> RelayPlaces] /\ carried \in [Ends -> Frames]
      /\ out \in [Ends -> Seq(Frames)] /\ in \in [Ends -> Seq(Frames)] /\ fwd \in [Ends -> Seq(Frames)]
  BY <1>e DEF LinkInv, LinkTypeOK
<1>c. CipherOK(e, o) /\ CipherOK(o, e)
  BY EndsFacts DEF LinkInv, CipherInv, Ends
<1>d. CipherOK(e, o)' /\ CipherOK(o, e)' => CipherInv'
  BY EndsFacts DEF CipherInv, Ends
<1>m. /\ e \notin sealing => AtMostOne(e, o)
      /\ relay[e] \in {"none", "waiting"} =>
           in[e] = <<>> /\ Place(e) \in {"idle", "handshake", "ended"} /\ e \notin sealing
  BY <1>t, EndsFacts DEF CountInv, Ends
<1> HIDE DEF o
<1>p. UNCHANGED endVars
  BY DEF Join, RelayStep, FindPeer, DropEarly, WaitOver, TakeFromEnd, TakeFromPeer, Delivered, TaskEnds
<1>q. /\ Place(e)' = Place(e) /\ Place(o)' = Place(o) /\ Unread(e)' = Unread(e) /\ Unread(o)' = Unread(o)
      /\ Spoke(e)' = Spoke(e) /\ Spoke(o)' = Spoke(o)
  BY <1>p DEF Place, Unread, Spoke, endVars
<1>f. Short(<<>>) /\ AllSealed(<<>>) /\ FirstClear(<<>>)
  BY SealedEmpty, ShortFacts, <1>t
\* The relay's task changes its place and nothing else moves.
<1>1. CASE Join(e) \/ FindPeer(e) \/ WaitOver(e)
  <2>1. /\ out' = out /\ in' = in /\ carried' = carried /\ fwd' = fwd
        /\ relay[e] \in {"none", "waiting"} /\ relay'[o] = relay[o] /\ relay'[e] \in {"waiting", "ready", "gone"}
    BY <1>1, <1>e, <1>t DEF Join, FindPeer, WaitOver
  <2>2. /\ Quiet(e, o)' = Quiet(e, o) /\ Quiet(o, e)' = Quiet(o, e)
        /\ AtMostOne(e, o)' = AtMostOne(e, o) /\ AtMostOne(o, e)' = AtMostOne(o, e)
    BY <2>1 DEF Quiet, AtMostOne
  <2>3. PlaceInv' /\ CountInv'
    BY <1>e, <1>t, <1>p, <2>1, <2>2, RelayCounts
  <2>4. CipherOK(e, o)'
    BY <1>c, <1>q, <2>1, <2>2 DEF CipherOK, SealedBut
  <2>5. CipherOK(o, e)'
    BY <1>c, <1>q, <2>1, <2>2 DEF CipherOK, SealedBut
  <2> QED
    BY <1>d, <2>3, <2>4, <2>5
\* A frame that comes before the peer is lost: it was the only one.
<1>2. CASE DropEarly(e)
  <2>1. /\ relay' = relay /\ in' = in /\ carried' = carried /\ fwd' = fwd
        /\ relay[e] = "waiting" /\ out[e] # <<>> /\ out'[e] = Tail(out[e]) /\ out'[o] = out[o]
    BY <1>2, <1>e, <1>t DEF DropEarly, relayVars
  <2>2. e \notin sealing /\ ~Spoke(e) /\ AtMostOne(e, o)
    BY <1>m, <2>1 DEF Spoke, Place
  <2>3. out'[e] = <<>>
    BY <1>t, <2>1, <2>2, ShortFacts DEF AtMostOne
  <2>4. /\ Quiet(e, o)' /\ Quiet(o, e)' = Quiet(o, e) /\ AtMostOne(e, o)' /\ AtMostOne(o, e)' = AtMostOne(o, e)
    BY <1>f, <2>1, <2>2, <2>3 DEF Quiet, AtMostOne
  <2>5. PlaceInv' /\ CountInv'
    BY <1>e, <1>t, <1>p, <2>1, <2>4, RelayCounts
  <2>6. CipherOK(e, o)'
    BY <1>c, <1>q, <1>f, <2>1, <2>2, <2>3 DEF CipherOK, SealedBut
  <2>7. CipherOK(o, e)'
    BY <1>c, <1>q, <2>1, <2>4 DEF CipherOK, SealedBut
  <2> QED
    BY <1>d, <2>5, <2>6, <2>7
<1>3. CASE TakeFromEnd(e)
  <2>1. /\ in' = in /\ fwd' = fwd /\ relay[e] = "ready" /\ relay'[e] = "to_peer" /\ relay'[o] = relay[o]
        /\ carried'[e] = Head(out[e]) /\ carried'[o] = carried[o]
        /\ out[e] # <<>> /\ out'[e] = Tail(out[e]) /\ out'[o] = out[o]
    BY <1>3, <1>e, <1>t DEF TakeFromEnd
  <2>2. Short(out[e]) => out'[e] = <<>>
    BY <1>t, <2>1, ShortFacts
  <2>3. /\ ~Quiet(e, o) /\ ~Quiet(e, o)' /\ Quiet(o, e)' = Quiet(o, e) /\ AtMostOne(o, e)' = AtMostOne(o, e)
        /\ AtMostOne(e, o) => AtMostOne(e, o)'
    BY <1>f, <2>1, <2>2 DEF Quiet, AtMostOne
  <2>4. PlaceInv' /\ CountInv'
    BY <1>e, <1>t, <1>p, <2>1, <2>3, RelayCounts
  <2>5. /\ AllSealed(out[e]) => AllSealed(out'[e]) /\ carried'[e].sealed
        /\ FirstClear(out[e]) => AllSealed(out'[e]) /\ ~carried'[e].sealed
    BY <1>t, <2>1, SealedTail
  <2>6. CipherOK(e, o)'
    BY <1>c, <1>q, <2>1, <2>3, <2>5 DEF CipherOK, SealedBut
  <2>7. CipherOK(o, e)'
    BY <1>c, <1>q, <2>1, <2>3 DEF CipherOK, SealedBut
  <2> QED
    BY <1>d, <2>4, <2>6, <2>7
<1>4. CASE TakeFromPeer(e)
  <2>1. /\ in' = in /\ out' = out /\ relay[e] = "ready" /\ relay'[e] = "to_socket" /\ relay'[o] = relay[o]
        /\ carried'[e] = Head(fwd[e]) /\ carried'[o] = carried[o]
        /\ fwd[e] # <<>> /\ fwd'[e] = Tail(fwd[e]) /\ fwd'[o] = fwd[o]
    BY <1>4, <1>e, <1>t DEF TakeFromPeer
  <2>2. Short(fwd[e]) => fwd'[e] = <<>>
    BY <1>t, <2>1, ShortFacts
  <2>3. /\ ~Quiet(o, e) /\ ~Quiet(o, e)' /\ Quiet(e, o)' = Quiet(e, o) /\ AtMostOne(e, o)' = AtMostOne(e, o)
        /\ AtMostOne(o, e) => AtMostOne(o, e)'
    BY <1>f, <2>1, <2>2 DEF Quiet, AtMostOne
  <2>4. PlaceInv' /\ CountInv'
    BY <1>e, <1>t, <1>p, <2>1, <2>3, RelayCounts
  <2>5. /\ AllSealed(fwd[e]) => AllSealed(fwd'[e]) /\ carried'[e].sealed
        /\ FirstClear(fwd[e]) => AllSealed(fwd'[e]) /\ ~carried'[e].sealed
    BY <1>t, <2>1, SealedTail
  <2>6. CipherOK(o, e)'
    BY <1>c, <1>q, <2>1, <2>3, <2>5 DEF CipherOK, SealedBut
  <2>7. CipherOK(e, o)'
    BY <1>c, <1>q, <2>1, <2>3 DEF CipherOK, SealedBut
  <2> QED
    BY <1>d, <2>4, <2>6, <2>7
\* The frame goes into the peer's queue, unless its task has ended meanwhile.
<1>5. CASE Delivered(e) /\ relay[e] = "to_peer"
  <2>1. /\ in' = in /\ out' = out /\ relay'[e] = "ready" /\ relay'[o] = relay[o] /\ relay[o] # "gone"
        /\ carried'[o] = carried[o] /\ fwd'[o] = Append(fwd[o], carried[e]) /\ fwd'[e] = fwd[e]
    BY <1>5, <1>e, <1>t DEF Delivered, Closed
  <2>2. fwd'[o] # <<>> /\ (fwd[o] = <<>> => Short(fwd'[o]))
    BY <1>t, <2>1, ShortFacts
  <2>3. /\ ~Quiet(e, o) /\ ~Quiet(e, o)' /\ Quiet(o, e)' = Quiet(o, e) /\ AtMostOne(o, e)' = AtMostOne(o, e)
        /\ AtMostOne(e, o) => AtMostOne(e, o)'
    BY <1>5, <1>f, <2>1, <2>2 DEF Quiet, AtMostOne
  <2>4. PlaceInv' /\ CountInv'
    BY <1>e, <1>t, <1>p, <2>1, <2>3, RelayCounts
  <2>5. /\ AllSealed(fwd[o]) /\ carried[e].sealed => AllSealed(fwd'[o])
        /\ FirstClear(fwd[o]) /\ fwd[o] # <<>> /\ carried[e].sealed => FirstClear(fwd'[o])
        /\ fwd[o] = <<>> /\ ~carried[e].sealed => FirstClear(fwd'[o])
    BY <1>t, <2>1, SealedAppend
  <2>6. CipherOK(e, o)'
    BY <1>5, <1>c, <1>q, <2>1, <2>2, <2>3, <2>5 DEF CipherOK, SealedBut
  <2>7. CipherOK(o, e)'
    BY <1>5, <1>c, <1>q, <2>1, <2>3 DEF CipherOK, SealedBut
  <2> QED
    BY <1>d, <2>4, <2>6, <2>7
<1>6. CASE Delivered(e) /\ relay[e] = "to_socket"
  <2>1. /\ fwd' = fwd /\ out' = out /\ relay'[e] = "ready" /\ relay'[o] = relay[o]
        /\ carried'[o] = carried[o] /\ in'[e] = Append(in[e], carried[e]) /\ in'[o] = in[o]
    BY <1>6, <1>e, <1>t DEF Delivered
  <2>2. in'[e] # <<>> /\ (in[e] = <<>> => Short(in'[e]))
    BY <1>t, <2>1, ShortFacts
  <2>3. /\ ~Quiet(o, e) /\ ~Quiet(o, e)' /\ Quiet(e, o)' = Quiet(e, o) /\ AtMostOne(e, o)' = AtMostOne(e, o)
        /\ AtMostOne(o, e) => AtMostOne(o, e)'
    BY <1>6, <1>f, <2>1, <2>2 DEF Quiet, AtMostOne
  <2>4. PlaceInv' /\ CountInv'
    BY <1>e, <1>t, <1>p, <2>1, <2>3, RelayCounts
  <2>5. /\ AllSealed(in[e]) /\ carried[e].sealed => AllSealed(in'[e])
        /\ FirstClear(in[e]) /\ in[e] # <<>> /\ carried[e].sealed => FirstClear(in'[e])
        /\ in[e] = <<>> /\ ~carried[e].sealed => FirstClear(in'[e])
    BY <1>t, <2>1, SealedAppend
  <2>6. CipherOK(o, e)'
    BY <1>6, <1>c, <1>q, <2>1, <2>2, <2>3, <2>5 DEF CipherOK, SealedBut
  <2>7. CipherOK(e, o)'
    BY <1>6, <1>c, <1>q, <2>1, <2>3 DEF CipherOK, SealedBut
  <2> QED
    BY <1>d, <2>4, <2>6, <2>7
\* What the task held and had queued is lost, and nothing follows it.
<1>7. CASE TaskEnds(e)
  <2>1. /\ in' = in /\ relay'[e] = "gone" /\ relay'[o] = relay[o]
        /\ carried'[o] = carried[o] /\ fwd'[e] = <<>> /\ fwd'[o] = fwd[o] /\ out'[e] = <<>> /\ out'[o] = out[o]
    BY <1>7, <1>e, <1>t DEF TaskEnds
  <2>2. /\ Quiet(e, o) => Quiet(e, o)'
        /\ Quiet(o, e) => Quiet(o, e)'
        /\ AtMostOne(e, o) => AtMostOne(e, o)'
        /\ AtMostOne(o, e) => AtMostOne(o, e)'
    BY <1>f, <2>1 DEF Quiet, AtMostOne
  <2>3. PlaceInv' /\ CountInv'
    BY <1>e, <1>t, <1>p, <2>1, <2>2, RelayCounts
  <2>4. CipherOK(e, o)'
    BY <1>f, <1>c, <1>q, <2>1 DEF CipherOK, SealedBut
  <2>5. CipherOK(o, e)'
    BY <1>f, <1>c, <1>q, <2>1 DEF CipherOK, SealedBut
  <2> QED
    BY <1>d, <2>3, <2>4, <2>5
<1>8. Delivered(e) => relay[e] \in {"to_peer", "to_socket"}
  BY DEF Delivered
<1> QED
  BY <1>1, <1>2, <1>3, <1>4, <1>5, <1>6, <1>7, <1>8 DEF RelayStep

\* A step of e itself, seen from the frames that come to it: it leaves them, reads one, or ends.
LEMMA Incoming ==
  ASSUME LinkTypeOK, NEW e \in Ends, NEW o \in Ends, relay' = relay, carried' = carried, fwd' = fwd,
         out'[o] = out[o], Spoke(o)' = Spoke(o),
         \/ Place(e)' = "ended" /\ in'[e] = <<>>
         \/ Place(e) # "ended" /\ Unread(e)' = Unread(e) /\ in'[e] = in[e]
         \/ Place(e) # "ended" /\ ~Unread(e)' /\ in[e] # <<>> /\ in'[e] = Tail(in[e])
  PROVE  /\ CipherOK(o, e) => CipherOK(o, e)'
         /\ Quiet(o, e) => Quiet(o, e)'
         /\ AtMostOne(o, e) => AtMostOne(o, e)'
<1>1. in[e] \in Seq(Frames) /\ carried[e] \in Frames
  BY DEF LinkTypeOK
<1>2. Short(<<>>) /\ (in[e] # <<>> /\ Short(in[e]) => Tail(in[e]) = <<>>)
  BY <1>1, ShortFacts
<1>3. CASE Place(e)' = "ended" /\ in'[e] = <<>>
  BY <1>2, <1>3 DEF CipherOK, Quiet, AtMostOne
<1>4. CASE Place(e) # "ended" /\ Unread(e)' = Unread(e) /\ in'[e] = in[e]
  <2>1. Quiet(o, e)' = Quiet(o, e) /\ AtMostOne(o, e)' = AtMostOne(o, e)
    BY <1>4 DEF Quiet, AtMostOne
  <2>2. CipherOK(o, e) => CipherOK(o, e)'
    BY <1>4, <2>1 DEF CipherOK, SealedBut
  <2> QED
    BY <2>1, <2>2
<1>5. CASE Place(e) # "ended" /\ ~Unread(e)' /\ in[e] # <<>> /\ in'[e] = Tail(in[e])
  <2>1. ~Quiet(o, e) /\ (AtMostOne(o, e) => AtMostOne(o, e)')
    BY <1>2, <1>5 DEF Quiet, AtMostOne
  <2>2. AllSealed(in[e]) \/ FirstClear(in[e]) => AllSealed(in'[e])
    BY <1>1, <1>5, SealedTail
  <2>3. CipherOK(o, e) => CipherOK(o, e)'
    BY <1>5, <2>2 DEF CipherOK, SealedBut
  <2> QED
    BY <2>1, <2>3
<1> QED
  BY <1>3, <1>4, <1>5

\* And from the frames it sends: none, a sealed one after its clear one, or the clear one.
LEMMA Outgoing ==
  ASSUME LinkTypeOK, NEW e \in Ends, NEW o \in Ends, e # o, relay' = relay, carried' = carried, fwd' = fwd,
         in'[o] = in[o], Place(o)' = Place(o), Unread(o)' = Unread(o), NEW f \in Frames,
         \/ out'[e] = out[e] /\ (Spoke(e)' => Spoke(e) \/ ~Unread(o) \/ relay[e] = "gone")
         \/ out'[e] = Append(out[e], f) /\ f.sealed /\ Spoke(e)
         \/ out'[e] = Append(out[e], f) /\ ~f.sealed /\ Quiet(e, o) /\ (Unread(o) \/ Place(o) = "ended")
  PROVE  /\ CipherOK(e, o) => CipherOK(e, o)'
         /\ out'[e] = out[e] => Quiet(e, o)' = Quiet(e, o) /\ AtMostOne(e, o)' = AtMostOne(e, o)
         /\ Quiet(e, o) => AtMostOne(e, o)'
<1>1. out[e] \in Seq(Frames)
  BY DEF LinkTypeOK
<1>2. Short(<<>>) /\ (out[e] = <<>> => Short(Append(out[e], f))) /\ Append(out[e], f) # <<>>
  BY <1>1, ShortFacts
<1>3. out'[e] = out[e] => Quiet(e, o)' = Quiet(e, o) /\ AtMostOne(e, o)' = AtMostOne(e, o)
  BY DEF Quiet, AtMostOne
<1>4. Quiet(e, o) => AtMostOne(e, o)'
  BY <1>2 DEF Quiet, AtMostOne
<1>5. CASE out'[e] = out[e] /\ (Spoke(e)' => Spoke(e) \/ ~Unread(o) \/ relay[e] = "gone")
  BY <1>3, <1>4, <1>5 DEF CipherOK, SealedBut
<1>6. CASE out'[e] = Append(out[e], f) /\ f.sealed /\ Spoke(e)
  <2>1. /\ AllSealed(out[e]) => AllSealed(out'[e])
        /\ FirstClear(out[e]) /\ out[e] # <<>> => FirstClear(out'[e])
    BY <1>1, <1>6, SealedAppend
  <2>2. ~Quiet(e, o)'
    BY <1>2, <1>6 DEF Quiet
  <2>3. CipherOK(e, o) => CipherOK(e, o)'
    BY <1>6, <2>1, <2>2 DEF CipherOK, SealedBut, Quiet
  <2> QED
    BY <1>3, <1>4, <2>3
<1>7. CASE out'[e] = Append(out[e], f) /\ ~f.sealed /\ Quiet(e, o) /\ (Unread(o) \/ Place(o) = "ended")
  <2>1. FirstClear(out'[e])
    BY <1>1, <1>7, SealedAppend DEF Quiet
  <2>2. ~Quiet(e, o)'
    BY <1>2, <1>7 DEF Quiet
  <2>3. CipherOK(e, o) => CipherOK(e, o)'
    BY <1>7, <2>1, <2>2 DEF CipherOK, SealedBut, Quiet
  <2> QED
    BY <1>3, <1>4, <2>3
<1> QED
  BY <1>5, <1>6, <1>7

\* The host changes ciphers between two frames.
LEMMA HostStepInv ==
  ASSUME LinkInv, HostConnects \/ HostStep
  PROVE  PlaceInv' /\ CountInv' /\ CipherInv'
<1>t. /\ LinkTypeOK /\ PlaceInv /\ CountInv /\ CipherOK("host", "viewer") /\ CipherOK("viewer", "host")
      /\ "host" \in Ends /\ "viewer" \in Ends /\ "host" # "viewer" /\ NoFrame \in Frames
      /\ in \in [Ends -> Seq(Frames)] /\ out \in [Ends -> Seq(Frames)]
  BY FrameFacts DEF LinkInv, CipherInv, Ends, LinkTypeOK
<1>a. relay' = relay /\ carried' = carried /\ fwd' = fwd /\ viewer' = viewer
  BY DEF HostConnects, HostStep, HostAnswers, HostRejects, HostHandshakeOver, HostAdmits, HostRefuses, HostHasMedia,
         HostHasAudio, HostTicks, HostSends, HostSendFails, HostReads, HostSeesEnd, HostLeaves, HostGoesTo, relayVars
<1>v. Place("viewer")' = Place("viewer") /\ Unread("viewer")' = Unread("viewer")
  BY <1>a DEF Place, Unread
<1>d. CipherOK("host", "viewer")' /\ CipherOK("viewer", "host")' => CipherInv'
  BY DEF CipherInv
\* The session is over, and nothing was sent.
<1>1. CASE host' = "ended" /\ Dropped("host") /\ out' = out /\ sealing' = sealing
  <2>1. in'["host"] = <<>> /\ in'["viewer"] = in["viewer"]
    BY <1>1, <1>t DEF Dropped
  <2>2. Spoke("viewer")' = Spoke("viewer") /\ (Spoke("host")' => Spoke("host")) /\ Place("host")' = "ended"
    BY <1>1, <1>a DEF Spoke, Place
  <2>3. /\ CipherOK("viewer", "host")'
        /\ Quiet("viewer", "host") => Quiet("viewer", "host")'
        /\ AtMostOne("viewer", "host") => AtMostOne("viewer", "host")'
    BY <1>1, <1>t, <1>a, <2>1, <2>2, Incoming
  <2>4. /\ CipherOK("host", "viewer")'
        /\ Quiet("host", "viewer")' = Quiet("host", "viewer") /\ AtMostOne("host", "viewer")' = AtMostOne("host", "viewer")
    BY <1>1, <1>t, <1>a, <1>v, <2>1, <2>2, Outgoing
  <2>5. PlaceInv'
    BY <1>1, <1>t, <1>a DEF PlaceInv
  <2>6. CountInv'
    BY <1>1, <1>t, <1>a, <1>v, <2>1, <2>2, <2>3, <2>4 DEF CountInv, Ends
  <2> QED
    BY <1>d, <2>3, <2>4, <2>5, <2>6
\* Only the place changes.
<1>2. CASE /\ in' = in /\ out' = out /\ sealing' = sealing
           /\ \/ host = "idle" /\ host' = "handshake"
              \/ host \in {"serving", "media", "ping"} /\ host' \in {"serving", "media", "ping"}
  <2>1. /\ Spoke("viewer")' = Spoke("viewer") /\ Spoke("host")' = Spoke("host")
        /\ Place("host")' # "ended" /\ Place("host") # "ended" /\ Unread("host")' = Unread("host")
    BY <1>2, <1>a DEF Spoke, Place, Unread
  <2>2. /\ CipherOK("viewer", "host")'
        /\ Quiet("viewer", "host") => Quiet("viewer", "host")'
        /\ AtMostOne("viewer", "host") => AtMostOne("viewer", "host")'
    BY <1>2, <1>t, <1>a, <2>1, Incoming
  <2>3. /\ CipherOK("host", "viewer")'
        /\ Quiet("host", "viewer")' = Quiet("host", "viewer") /\ AtMostOne("host", "viewer")' = AtMostOne("host", "viewer")
    BY <1>2, <1>t, <1>a, <1>v, <2>1, Outgoing
  <2>4. PlaceInv'
    BY <1>2, <1>t, <1>a DEF PlaceInv
  <2>5. Place("host")' \in {"idle", "handshake", "ended"} <=> Place("host") \in {"idle", "handshake", "ended"}
    BY <1>2 DEF Place
  <2>6. CountInv'
    BY <1>2, <1>t, <1>a, <1>v, <2>2, <2>3, <2>5 DEF CountInv, Ends
  <2> QED
    BY <1>d, <2>2, <2>3, <2>4, <2>6
\* A sealed frame follows the others.
<1>3. CASE HostSends \/ (HostAdmits /\ out' # out)
  <2>1. /\ \E f \in Frames : f.sealed /\ out' = [out EXCEPT !["host"] = Append(@, f)]
        /\ host' = "serving" /\ "host" \in sealing' /\ sealing \subseteq sealing' /\ in' = in
        /\ ("viewer" \in sealing' <=> "viewer" \in sealing) /\ host \in {"media", "ping", "admission"}
    <3>1. CASE HostSends
      <4>1. PICK k \in Kinds : Send("host", k)
        BY <3>1 DEF HostSends, Kinds
      <4>2. "host" \in sealing
        BY <1>t, <3>1 DEF PlaceInv, HostSends
      <4>3. Frame("host", k) \in Frames /\ Frame("host", k).sealed
        BY <1>t, <4>2, SendType
      <4> QED
        BY <3>1, <4>1, <4>2, <4>3 DEF HostSends, HostGoesTo, Send
    <3>2. CASE HostAdmits /\ out' # out
      <4>1. [kind |-> "Media", sealed |-> TRUE] \in Frames /\ [kind |-> "Media", sealed |-> TRUE].sealed
        BY FrameFacts DEF Kinds
      <4>2. out' = [out EXCEPT !["host"] = Append(@, [kind |-> "Media", sealed |-> TRUE])]
        BY <3>2 DEF HostAdmits
      <4> QED
        BY <3>2, <4>1, <4>2 DEF HostAdmits, HostGoesTo
    <3> QED
      BY <1>3, <3>1, <3>2
  <2>2. PICK f \in Frames : f.sealed /\ out'["host"] = Append(out["host"], f) /\ out'["viewer"] = out["viewer"]
    BY <1>t, <2>1
  <2>3. /\ Spoke("viewer")' = Spoke("viewer") /\ Spoke("host")
        /\ Place("host")' # "ended" /\ Place("host") # "ended" /\ Unread("host")' = Unread("host")
        /\ ~(Place("host") \in {"idle", "handshake", "ended"})
    BY <1>a, <1>t, <2>1 DEF Spoke, Place, Unread, PlaceInv
  <2>4. /\ CipherOK("viewer", "host")'
        /\ Quiet("viewer", "host") => Quiet("viewer", "host")'
        /\ AtMostOne("viewer", "host") => AtMostOne("viewer", "host")'
    BY <1>t, <1>a, <2>1, <2>2, <2>3, Incoming
  <2>5. CipherOK("host", "viewer")'
    BY <1>t, <1>a, <1>v, <2>1, <2>2, <2>3, Outgoing
  <2>6. PlaceInv'
    BY <1>t, <1>a, <2>1 DEF PlaceInv
  <2>7. CountInv'
    BY <1>t, <1>a, <1>v, <2>1, <2>3, <2>4 DEF CountInv, Ends
  <2> QED
    BY <1>d, <2>4, <2>5, <2>6, <2>7
\* The list of displays could not be sent: the connection is closed.
<1>4. CASE HostAdmits /\ out' = out
  <2>1. relay["host"] = "gone" /\ host = "admission" /\ host' = "serving" /\ sealing' = sealing \union {"host"} /\ in' = in
    <3>1. out["host"] \in Seq(Frames) /\ [kind |-> "Media", sealed |-> TRUE] \in Frames
      BY <1>t, FrameFacts DEF Kinds
    <3>2. Append(out["host"], [kind |-> "Media", sealed |-> TRUE]) # out["host"]
      <4>1. /\ Len(Append(out["host"], [kind |-> "Media", sealed |-> TRUE])) = Len(out["host"]) + 1
            /\ Len(out["host"]) \in Nat
        BY <3>1, AppendFacts
      <4> QED
        BY <4>1
    <3> QED
      BY <1>t, <1>4, <3>2 DEF HostAdmits, HostGoesTo, Closed
  <2>3. /\ Spoke("viewer")' = Spoke("viewer")
        /\ Place("host")' # "ended" /\ Place("host") # "ended" /\ Unread("host")' = Unread("host")
        /\ ~(Place("host") \in {"idle", "handshake", "ended"})
    BY <1>a, <1>t, <2>1 DEF Spoke, Place, Unread, PlaceInv
  <2>4. /\ CipherOK("viewer", "host")'
        /\ Quiet("viewer", "host") => Quiet("viewer", "host")'
        /\ AtMostOne("viewer", "host") => AtMostOne("viewer", "host")'
    BY <1>t, <1>a, <1>4, <2>1, <2>3, Incoming
  <2>5. CipherOK("host", "viewer")'
    BY <1>t, <1>a, <1>v, <1>4, <2>1, <2>3, Outgoing
  <2>6. PlaceInv'
    BY <1>t, <1>a, <2>1 DEF PlaceInv
  <2>7. CountInv'
    BY <1>t, <1>a, <1>v, <2>1, <2>3, <2>4 DEF CountInv, Ends
  <2> QED
    BY <1>d, <2>4, <2>5, <2>6, <2>7
\* The answer to the Hello is the host's first frame, in the clear; the Hello was the viewer's only one.
<1>5. CASE HostAnswers \/ (HostRejects /\ out' # out)
  <2>1. PICK k \in Kinds : Send("host", k)
    BY <1>5 DEF HostAnswers, HostRejects, Kinds
  <2>2. /\ host = "handshake" /\ sealing' = sealing /\ in["host"] # <<>>
        /\ "host" \notin sealing /\ "viewer" \notin sealing /\ viewer \in {"handshake", "ended"}
    BY <1>5, <1>t DEF HostAnswers, HostRejects, Arrived, PlaceInv, CountInv, Quiet
  <2>3. /\ in'["viewer"] = in["viewer"]
        /\ \/ host' = "admission" /\ in'["host"] = Tail(in["host"])
           \/ host' = "ended" /\ in'["host"] = <<>>
    BY <1>5, <1>t DEF HostAnswers, HostRejects, Read, Dropped, HostGoesTo
  <2>4. Frame("host", k) \in Frames /\ ~Frame("host", k).sealed
    BY <1>t, <2>2, SendType
  <2>5. out'["host"] = Append(out["host"], Frame("host", k)) /\ out'["viewer"] = out["viewer"]
    BY <1>t, <2>1 DEF Send
  <2>6. /\ Spoke("viewer")' = Spoke("viewer") /\ Place("host") # "ended"
        /\ ~Unread("host")' /\ (host' = "ended" => Place("host")' = "ended")
        /\ Unread("viewer") \/ Place("viewer") = "ended"
    BY <1>a, <2>2, <2>3 DEF Spoke, Place, Unread
  <2>7. /\ CipherOK("viewer", "host")'
        /\ Quiet("viewer", "host") => Quiet("viewer", "host")'
        /\ AtMostOne("viewer", "host") => AtMostOne("viewer", "host")'
    BY <1>t, <1>a, <2>2, <2>3, <2>5, <2>6, Incoming
  <2>8. Quiet("host", "viewer")
    BY <1>t, <2>2 DEF CountInv
  <2>9. CipherOK("host", "viewer")' /\ AtMostOne("host", "viewer")'
    BY <1>t, <1>a, <1>v, <2>3, <2>4, <2>5, <2>6, <2>8, Outgoing
  <2>10. PlaceInv'
    BY <1>t, <1>a, <2>2, <2>3 DEF PlaceInv
  <2>11. relay["host"] \notin {"none", "waiting"}
    BY <1>t, <2>2 DEF CountInv, Ends
  <2>12. CountInv'
    BY <1>t, <1>a, <1>v, <2>2, <2>3, <2>7, <2>9, <2>11 DEF CountInv, Ends
  <2> QED
    BY <1>d, <2>7, <2>9, <2>10, <2>12
<1>6. CASE HostReads /\ host' # "ended"
  <2>1. /\ host = "serving" /\ host' = host /\ sealing' = sealing /\ out' = out /\ in["host"] # <<>>
        /\ in'["host"] = Tail(in["host"]) /\ in'["viewer"] = in["viewer"]
    BY <1>6, <1>t DEF HostReads, HostLeaves, Read, Arrived
  <2>2. /\ Spoke("viewer")' = Spoke("viewer") /\ Spoke("host")' = Spoke("host")
        /\ Place("host") # "ended" /\ ~Unread("host")' /\ Place("host")' = Place("host")
    BY <1>a, <2>1 DEF Spoke, Place, Unread
  <2>3. /\ CipherOK("viewer", "host")'
        /\ Quiet("viewer", "host") => Quiet("viewer", "host")'
        /\ AtMostOne("viewer", "host") => AtMostOne("viewer", "host")'
    BY <1>t, <1>a, <2>1, <2>2, Incoming
  <2>4. /\ CipherOK("host", "viewer")'
        /\ Quiet("host", "viewer")' = Quiet("host", "viewer") /\ AtMostOne("host", "viewer")' = AtMostOne("host", "viewer")
    BY <1>t, <1>a, <1>v, <2>1, <2>2, Outgoing
  <2>5. PlaceInv'
    BY <1>t, <1>a, <2>1 DEF PlaceInv
  <2>6. relay["host"] \notin {"none", "waiting"}
    BY <1>t, <2>1 DEF CountInv, Ends
  <2>7. CountInv'
    BY <1>t, <1>a, <1>v, <2>1, <2>2, <2>3, <2>4, <2>6 DEF CountInv, Ends
  <2> QED
    BY <1>d, <2>3, <2>4, <2>5, <2>7
<1>7. HostHandshakeOver \/ HostRefuses \/ HostSeesEnd \/ (HostRejects /\ out' = out) \/ (HostReads /\ host' = "ended")
        \/ (HostSendFails /\ host = "media")
      => host' = "ended" /\ Dropped("host") /\ out' = out /\ sealing' = sealing
  BY DEF HostHandshakeOver, HostRefuses, HostSeesEnd, HostRejects, HostReads, HostSendFails, HostLeaves
<1>8. HostConnects \/ HostHasMedia \/ HostHasAudio \/ HostTicks \/ (HostSendFails /\ host # "media")
      => /\ in' = in /\ out' = out /\ sealing' = sealing
         /\ \/ host = "idle" /\ host' = "handshake"
            \/ host \in {"serving", "media", "ping"} /\ host' \in {"serving", "media", "ping"}
  BY DEF HostConnects, HostHasMedia, HostHasAudio, HostTicks, HostSendFails, HostGoesTo
<1> QED
  BY <1>1, <1>2, <1>3, <1>4, <1>5, <1>6, <1>7, <1>8 DEF HostStep

\* So does the viewer.
LEMMA ViewerStepInv ==
  ASSUME LinkInv, ViewerConnects \/ PromptAccepted \/ ViewerStep \/ UserCommands \/ UserCancels
  PROVE  PlaceInv' /\ CountInv' /\ CipherInv'
<1>t. /\ LinkTypeOK /\ PlaceInv /\ CountInv /\ CipherOK("host", "viewer") /\ CipherOK("viewer", "host")
      /\ "host" \in Ends /\ "viewer" \in Ends /\ "host" # "viewer" /\ NoFrame \in Frames
      /\ in \in [Ends -> Seq(Frames)] /\ out \in [Ends -> Seq(Frames)] /\ sealing \subseteq Ends
  BY FrameFacts DEF LinkInv, CipherInv, Ends, LinkTypeOK
<1>a. relay' = relay /\ carried' = carried /\ fwd' = fwd /\ host' = host
  BY DEF ViewerConnects, PromptAccepted, ViewerStep, UserCommands, UserCancels, ViewerAnswered, ViewerTurnedAway,
         PromptOver, ViewerCancelled, ViewerTakesCommand, ViewerReads, ViewerSeesEnd, ViewerSends, ViewerSendFails, relayVars
<1>v. Place("host")' = Place("host") /\ Unread("host")' = Unread("host")
  BY <1>a DEF Place, Unread
<1>d. CipherOK("host", "viewer")' /\ CipherOK("viewer", "host")' => CipherInv'
  BY DEF CipherInv
\* The session is over, and nothing was sent.
<1>1. CASE viewer' = "ended" /\ Dropped("viewer") /\ out' = out /\ sealing' = sealing
  <2>1. in'["viewer"] = <<>> /\ in'["host"] = in["host"]
    BY <1>1, <1>t DEF Dropped
  <2>2. Spoke("host")' = Spoke("host") /\ (Spoke("viewer")' => Spoke("viewer")) /\ Place("viewer")' = "ended"
    BY <1>1, <1>a DEF Spoke, Place
  <2>3. /\ CipherOK("host", "viewer")'
        /\ Quiet("host", "viewer") => Quiet("host", "viewer")'
        /\ AtMostOne("host", "viewer") => AtMostOne("host", "viewer")'
    BY <1>1, <1>t, <1>a, <2>1, <2>2, Incoming
  <2>4. /\ CipherOK("viewer", "host")'
        /\ Quiet("viewer", "host")' = Quiet("viewer", "host") /\ AtMostOne("viewer", "host")' = AtMostOne("viewer", "host")
    BY <1>1, <1>t, <1>a, <1>v, <2>1, <2>2, Outgoing
  <2>5. PlaceInv'
    BY <1>1, <1>t, <1>a DEF PlaceInv
  <2>6. CountInv'
    BY <1>1, <1>t, <1>a, <1>v, <2>1, <2>2, <2>3, <2>4 DEF CountInv, Ends
  <2> QED
    BY <1>d, <2>3, <2>4, <2>5, <2>6
\* Only the place changes, if anything.
<1>2. CASE /\ in' = in /\ out' = out
           /\ \/ viewer' = viewer /\ sealing' = sealing /\ viewer # "ended"
              \/ /\ viewer = "prompt" /\ viewer' = "serving" /\ sealing' = sealing \union {"viewer"}
              \/ /\ viewer \in {"serving", "sending", "pong", "closing"} /\ sealing' = sealing
                 /\ viewer' \in {"serving", "sending", "pong", "closing"}
  <2>1. /\ Spoke("host")' = Spoke("host") /\ (Spoke("viewer")' => Spoke("viewer") \/ ~Unread("host"))
        /\ Place("viewer")' # "ended" /\ Place("viewer") # "ended" /\ Unread("viewer")' = Unread("viewer")
    BY <1>2, <1>a, <1>t DEF Spoke, Place, Unread, PlaceInv
  <2>2. /\ CipherOK("host", "viewer")'
        /\ Quiet("host", "viewer") => Quiet("host", "viewer")'
        /\ AtMostOne("host", "viewer") => AtMostOne("host", "viewer")'
    BY <1>2, <1>t, <1>a, <2>1, Incoming
  <2>3. /\ CipherOK("viewer", "host")'
        /\ Quiet("viewer", "host")' = Quiet("viewer", "host") /\ AtMostOne("viewer", "host")' = AtMostOne("viewer", "host")
    BY <1>2, <1>t, <1>a, <1>v, <2>1, Outgoing
  <2>4. PlaceInv'
    BY <1>2, <1>t, <1>a DEF PlaceInv
  <2>5. /\ Place("viewer") \in {"idle", "handshake", "ended"} => Place("viewer")' = Place("viewer") /\ sealing' = sealing
        /\ viewer' = "idle" => viewer = "idle"
        /\ ("host" \in sealing' <=> "host" \in sealing) /\ ("viewer" \in sealing => "viewer" \in sealing')
    BY <1>2 DEF Place
  <2>6. CountInv'
    BY <1>2, <1>t, <1>a, <1>v, <2>2, <2>3, <2>5 DEF CountInv, Ends
  <2> QED
    BY <1>d, <2>2, <2>3, <2>4, <2>6
<1>3. CASE ViewerConnects
  <2>1. /\ viewer = "idle" /\ viewer' = "handshake" /\ Send("viewer", "Hello") /\ "Hello" \in Kinds /\ in' = in /\ sealing' = sealing
        /\ "viewer" \notin sealing
    BY <1>3, <1>t DEF ViewerConnects, Kinds, PlaceInv
  <2>2. Frame("viewer", "Hello") \in Frames /\ ~Frame("viewer", "Hello").sealed
    BY <1>t, <2>1, SendType
  <2>3. out'["viewer"] = Append(out["viewer"], Frame("viewer", "Hello")) /\ out'["host"] = out["host"]
    BY <1>t, <2>1 DEF Send
  <2>4. /\ Spoke("host")' = Spoke("host") /\ Place("viewer") # "ended" /\ Unread("viewer")' = Unread("viewer")
        /\ Unread("host") \/ Place("host") = "ended"
    BY <1>a, <1>t, <2>1 DEF Spoke, Place, Unread, PlaceInv
  <2>5. /\ CipherOK("host", "viewer")'
        /\ Quiet("host", "viewer") => Quiet("host", "viewer")'
        /\ AtMostOne("host", "viewer") => AtMostOne("host", "viewer")'
    BY <1>t, <1>a, <2>1, <2>3, <2>4, Incoming
  <2>6. Quiet("viewer", "host")
    BY <1>t, <2>1 DEF CountInv
  <2>7. CipherOK("viewer", "host")' /\ AtMostOne("viewer", "host")'
    BY <1>t, <1>a, <1>v, <2>1, <2>2, <2>3, <2>4, <2>6, Outgoing
  <2>8. PlaceInv'
    BY <1>t, <1>a, <2>1 DEF PlaceInv
  <2>9. Place("viewer")' \in {"idle", "handshake", "ended"}
    BY <2>1 DEF Place
  <2>10. CountInv'
    BY <1>t, <1>a, <1>v, <2>1, <2>5, <2>7, <2>9 DEF CountInv, Ends
  <2> QED
    BY <1>d, <2>5, <2>7, <2>8, <2>10
\* A frame is read: the first one, or one of the session.
<1>4. CASE ViewerAnswered \/ ViewerReads
  <2>1. /\ in["viewer"] # <<>> /\ in'["viewer"] = Tail(in["viewer"]) /\ in'["host"] = in["host"] /\ out' = out
        /\ viewer \in {"handshake", "serving"} /\ viewer' \in {"serving", "prompt", "pong"}
        /\ sealing \subseteq sealing' /\ ("host" \in sealing' <=> "host" \in sealing)
        /\ (viewer' = "prompt" <=> "viewer" \notin sealing')
    BY <1>4, <1>t DEF ViewerAnswered, ViewerReads, Read, Arrived, PlaceInv
  <2>2. host \notin {"idle", "handshake"} /\ relay["viewer"] \notin {"none", "waiting"}
    BY <1>t, <2>1 DEF CountInv, Quiet, Ends
  <2>3. /\ Spoke("host")' = Spoke("host") /\ ~Unread("host")
        /\ Place("viewer") # "ended" /\ ~Unread("viewer")'
    BY <1>a, <2>1, <2>2 DEF Spoke, Place, Unread
  <2>4. /\ CipherOK("host", "viewer")'
        /\ Quiet("host", "viewer") => Quiet("host", "viewer")'
        /\ AtMostOne("host", "viewer") => AtMostOne("host", "viewer")'
    BY <1>t, <1>a, <2>1, <2>3, Incoming
  <2>5. /\ CipherOK("viewer", "host")'
        /\ Quiet("viewer", "host")' = Quiet("viewer", "host") /\ AtMostOne("viewer", "host")' = AtMostOne("viewer", "host")
    BY <1>t, <1>a, <1>v, <2>1, <2>3, Outgoing
  <2>6. PlaceInv'
    BY <1>t, <1>a, <2>1, <2>2 DEF PlaceInv
  <2>7. CountInv'
    BY <1>t, <1>a, <1>v, <2>1, <2>2, <2>4, <2>5 DEF CountInv, Ends
  <2> QED
    BY <1>d, <2>4, <2>5, <2>6, <2>7
<1>5. CASE ViewerSends
  <2>1. PICK k \in Kinds : Send("viewer", k)
    BY <1>5 DEF ViewerSends, Kinds
  <2>2. /\ viewer \in {"sending", "pong", "closing"} /\ sealing' = sealing /\ "viewer" \in sealing
        /\ host \notin {"idle", "handshake"} /\ in'["host"] = in["host"]
        /\ \/ viewer' = "ended" /\ in'["viewer"] = <<>>
           \/ viewer' = "serving" /\ in'["viewer"] = in["viewer"]
    BY <1>5, <1>t DEF ViewerSends, ViewerLeaves, Dropped, PlaceInv
  <2>3. Frame("viewer", k) \in Frames /\ Frame("viewer", k).sealed
    BY <1>t, <2>2, SendType
  <2>4. out'["viewer"] = Append(out["viewer"], Frame("viewer", k)) /\ out'["host"] = out["host"]
    BY <1>t, <2>1 DEF Send
  <2>5. /\ Spoke("host")' = Spoke("host") /\ Spoke("viewer") /\ Place("viewer") # "ended" /\ ~Unread("viewer") /\ ~Unread("viewer")'
        /\ (viewer' = "ended" => Place("viewer")' = "ended") /\ Unread("viewer")' = Unread("viewer")
    BY <1>a, <2>2 DEF Spoke, Place, Unread
  <2>6. /\ CipherOK("host", "viewer")'
        /\ Quiet("host", "viewer") => Quiet("host", "viewer")'
        /\ AtMostOne("host", "viewer") => AtMostOne("host", "viewer")'
    BY <1>t, <1>a, <2>2, <2>4, <2>5, Incoming
  <2>7. CipherOK("viewer", "host")'
    BY <1>t, <1>a, <1>v, <2>2, <2>3, <2>4, <2>5, Outgoing
  <2>8. PlaceInv'
    BY <1>t, <1>a, <2>2 DEF PlaceInv
  <2>9. relay["viewer"] \notin {"none", "waiting"}
    BY <1>t, <2>2 DEF CountInv, Ends
  <2>10. CountInv'
    BY <1>t, <1>a, <1>v, <2>2, <2>6, <2>9 DEF CountInv, Ends
  <2> QED
    BY <1>d, <2>6, <2>7, <2>8, <2>10
<1>6. ViewerTurnedAway \/ PromptOver \/ ViewerSeesEnd \/ (ViewerSendFails /\ viewer # "pong")
      => viewer' = "ended" /\ Dropped("viewer") /\ out' = out /\ sealing' = sealing
  BY DEF ViewerTurnedAway, PromptOver, ViewerSeesEnd, ViewerSendFails, ViewerLeaves
<1>7. PromptAccepted \/ ViewerCancelled \/ ViewerTakesCommand \/ UserCommands \/ UserCancels \/ (ViewerSendFails /\ viewer = "pong")
      => /\ in' = in /\ out' = out
         /\ \/ viewer' = viewer /\ sealing' = sealing /\ viewer # "ended"
            \/ /\ viewer = "prompt" /\ viewer' = "serving" /\ sealing' = sealing \union {"viewer"}
            \/ /\ viewer \in {"serving", "sending", "pong", "closing"} /\ sealing' = sealing
               /\ viewer' \in {"serving", "sending", "pong", "closing"}
  BY DEF PromptAccepted, ViewerCancelled, ViewerTakesCommand, UserCommands, UserCancels, ViewerSendFails
<1> QED
  BY <1>1, <1>2, <1>3, <1>4, <1>5, <1>6, <1>7 DEF ViewerStep

\* The invariant holds before anyone connects.
LEMMA LinkInitInv == LinkInit => LinkInv
<1> SUFFICES ASSUME LinkInit
             PROVE  LinkInv
  OBVIOUS
<1>1. \A e \in Ends : in[e] = <<>> /\ out[e] = <<>> /\ fwd[e] = <<>> /\ relay[e] = "none"
  BY DEF LinkInit
<1>2. "host" \in Ends /\ "viewer" \in Ends /\ Len(<<>>) = 0
  BY DEF Ends
<1>3. PlaceInv
  BY DEF LinkInit, PlaceInv
<1>4. CountInv
  BY <1>1, <1>2 DEF CountInv, AtMostOne, Quiet, Short, Place, LinkInit
<1>5. CipherInv
  BY <1>1, <1>2, SealedEmpty DEF CipherInv, CipherOK, SealedBut, Spoke, LinkInit
<1> QED
  BY <1>3, <1>4, <1>5, LinkTypeInit DEF LinkInv

\* Every step keeps the invariant.
LEMMA LinkInvStep == LinkInv /\ [LinkNext]_linkVars => LinkInv'
<1> SUFFICES ASSUME LinkInv, [LinkNext]_linkVars
             PROVE  LinkInv'
  OBVIOUS
<1>1. LinkTypeOK'
  BY LinkTypeStep DEF LinkInv
<1>2. CASE \E e \in Ends : Join(e) \/ RelayStep(e)
  BY <1>1, <1>2, RelayStepInv DEF LinkInv
<1>3. CASE HostConnects \/ HostStep
  BY <1>1, <1>3, HostStepInv DEF LinkInv
<1>4. CASE ViewerConnects \/ PromptAccepted \/ ViewerStep \/ UserCommands \/ UserCancels
  BY <1>1, <1>4, ViewerStepInv DEF LinkInv
<1>5. CASE UNCHANGED linkVars
  <2>1. /\ host' = host /\ viewer' = viewer /\ sealing' = sealing /\ out' = out /\ in' = in
        /\ relay' = relay /\ carried' = carried /\ fwd' = fwd
    BY <1>5 DEF linkVars
  <2>2. PlaceInv'
    BY <2>1 DEF PlaceInv, LinkInv
  <2>3. CountInv'
    BY <2>1 DEF CountInv, LinkInv, AtMostOne, Quiet, Place
  <2>4. CipherInv'
    BY ZenonT(60), <2>1 DEF CipherInv, LinkInv, CipherOK, Quiet, Place, Unread, Spoke
  <2> QED
    BY <1>1, <2>2, <2>3, <2>4 DEF LinkInv
<1> QED
  BY <1>2, <1>3, <1>4, <1>5 DEF LinkNext

Fits(q) == \A e \in Ends : Len(q[e]) <= Cap

\* What a step may do to the queues of one kind: nothing, empty one, take from one, or add to one
\* that has room.
Moved(p, q) ==
  \/ p = q
  \/ \E e \in Ends : \/ p = [q EXCEPT ![e] = <<>>]
                     \/ q[e] # <<>> /\ p = [q EXCEPT ![e] = Tail(q[e])]
                     \/ Len(q[e]) < Cap /\ \E f \in Frames : p = [q EXCEPT ![e] = Append(q[e], f)]

\* None of that makes a queue longer than its room.
LEMMA MovedFits ==
  ASSUME NEW q \in [Ends -> Seq(Frames)], NEW p, Fits(q), Moved(p, q)
  PROVE  Fits(p)
<1>1. Cap \in Nat /\ Cap > 0
  BY LinkAssumption
<1>2. CASE p = q
  BY <1>2
<1>3. ASSUME NEW e \in Ends, NEW s \in Seq(Frames), Len(s) <= Cap, p = [q EXCEPT ![e] = s]
      PROVE  Fits(p)
  BY <1>3 DEF Fits
<1>4. ASSUME NEW e \in Ends, p = [q EXCEPT ![e] = <<>>]
      PROVE  Fits(p)
  <2>1. <<>> \in Seq(Frames) /\ Len(<<>>) <= Cap
    BY <1>1
  <2> QED
    BY <1>3, <1>4, <2>1
<1>5. ASSUME NEW e \in Ends, q[e] # <<>>, p = [q EXCEPT ![e] = Tail(q[e])]
      PROVE  Fits(p)
  <2>1. q[e] \in Seq(Frames) /\ Len(q[e]) <= Cap
    BY DEF Fits
  <2>2. Tail(q[e]) \in Seq(Frames) /\ Len(Tail(q[e])) <= Cap
    BY <1>1, <1>5, <2>1
  <2> QED
    BY <1>3, <1>5, <2>2
<1>6. ASSUME NEW e \in Ends, NEW f \in Frames, Len(q[e]) < Cap, p = [q EXCEPT ![e] = Append(q[e], f)]
      PROVE  Fits(p)
  <2>1. Append(q[e], f) \in Seq(Frames) /\ Len(Append(q[e], f)) <= Cap
    BY <1>1, <1>6
  <2> QED
    BY <1>3, <1>6, <2>1
<1> QED
  BY <1>2, <1>4, <1>5, <1>6 DEF Moved

\* Every step moves frames in that way: the viewer's Hello finds its queue empty.
LEMMA StepMoves ==
  ASSUME LinkInv, [LinkNext]_linkVars
  PROVE  Moved(out', out) /\ Moved(in', in) /\ Moved(fwd', fwd)
<1>1. /\ LinkTypeOK /\ "host" \in Ends /\ "viewer" \in Ends
      /\ \A e \in Ends : Other(e) \in Ends /\ carried[e] \in Frames
  BY DEF LinkInv, LinkTypeOK, Ends, Other
<1>2. viewer = "idle" => Len(out["viewer"]) < Cap
  BY LinkAssumption DEF LinkInv, CountInv, Quiet
<1>3. ASSUME NEW e \in Ends, Join(e) \/ RelayStep(e)
      PROVE  Moved(out', out) /\ Moved(in', in) /\ Moved(fwd', fwd)
  <2>1. CASE Join(e) \/ FindPeer(e) \/ WaitOver(e)
    BY <2>1 DEF Join, FindPeer, WaitOver, Moved
  <2>2. CASE DropEarly(e) \/ TakeFromEnd(e) \/ TakeFromPeer(e)
    BY <2>2 DEF DropEarly, TakeFromEnd, TakeFromPeer, relayVars, Moved
  <2>3. CASE Delivered(e)
    BY <1>1, <2>3 DEF Delivered, Moved
  <2>4. CASE TaskEnds(e)
    BY <2>4 DEF TaskEnds, Moved
  <2> QED
    BY <1>3, <2>1, <2>2, <2>3, <2>4 DEF RelayStep
<1>4. ASSUME NEW e \in Ends, NEW k \in Kinds, Len(out[e]) < Cap, Send(e, k)
      PROVE  Moved(out', out)
  <2>1. Frame(e, k) \in Frames
    BY <1>1, SendType
  <2>2. out' = [out EXCEPT ![e] = Append(out[e], Frame(e, k))]
    BY <1>4 DEF Send
  <2> QED
    BY <1>4, <2>1, <2>2 DEF Moved
<1>5. ASSUME NEW e \in Ends, (Arrived(e) /\ Read(e)) \/ Dropped(e) \/ in' = in
      PROVE  Moved(in', in)
  BY <1>5 DEF Arrived, Read, Dropped, Moved
<1>6. [kind |-> "Media", sealed |-> TRUE] \in Frames
  BY DEF Frames, Kinds
<1>7. CASE HostConnects \/ HostStep
  <2>1. fwd' = fwd
    BY <1>7 DEF HostConnects, HostStep, HostAnswers, HostRejects, HostHandshakeOver, HostAdmits, HostRefuses, HostHasMedia,
        HostHasAudio, HostTicks, HostSends, HostSendFails, HostReads, HostSeesEnd, relayVars
  <2>2. (Arrived("host") /\ Read("host")) \/ Dropped("host") \/ in' = in
    BY <1>7 DEF HostConnects, HostStep, HostAnswers, HostRejects, HostHandshakeOver, HostAdmits, HostRefuses, HostHasMedia,
        HostHasAudio, HostTicks, HostSends, HostSendFails, HostReads, HostSeesEnd, HostLeaves
  <2>3. \/ out' = out
        \/ Room("host") /\ \E k \in Kinds : Send("host", k)
        \/ Room("host") /\ out' = [out EXCEPT !["host"] = Append(@, [kind |-> "Media", sealed |-> TRUE])]
    BY <1>7 DEF HostConnects, HostStep, HostAnswers, HostRejects, HostHandshakeOver, HostAdmits, HostRefuses, HostHasMedia,
        HostHasAudio, HostTicks, HostSends, HostSendFails, HostReads, HostSeesEnd, Kinds
  <2>4. Moved(out', out)
    <3>1. CASE out' = out
      BY <3>1 DEF Moved
    <3>2. CASE Room("host") /\ \E k \in Kinds : Send("host", k)
      BY <1>1, <1>4, <3>2 DEF Room
    <3>3. CASE Room("host") /\ out' = [out EXCEPT !["host"] = Append(@, [kind |-> "Media", sealed |-> TRUE])]
      BY <1>1, <1>6, <3>3 DEF Room, Moved
    <3> QED
      BY <2>3, <3>1, <3>2, <3>3
  <2> QED
    BY <1>1, <1>5, <2>1, <2>2, <2>4 DEF Moved
<1>8. CASE ViewerConnects \/ PromptAccepted \/ ViewerStep \/ UserCommands \/ UserCancels
  <2>1. fwd' = fwd
    BY <1>8 DEF ViewerConnects, PromptAccepted, ViewerStep, UserCommands, UserCancels, ViewerAnswered, ViewerTurnedAway,
        PromptOver, ViewerCancelled, ViewerTakesCommand, ViewerReads, ViewerSeesEnd, ViewerSends, ViewerSendFails, relayVars
  <2>2. (Arrived("viewer") /\ Read("viewer")) \/ Dropped("viewer") \/ in' = in
    BY <1>8 DEF ViewerConnects, PromptAccepted, ViewerStep, UserCommands, UserCancels, ViewerAnswered, ViewerTurnedAway,
        PromptOver, ViewerCancelled, ViewerTakesCommand, ViewerReads, ViewerSeesEnd, ViewerSends, ViewerSendFails, ViewerLeaves
  <2>3. out' = out \/ (Len(out["viewer"]) < Cap /\ \E k \in Kinds : Send("viewer", k))
    BY <1>2, <1>8 DEF ViewerConnects, PromptAccepted, ViewerStep, UserCommands, UserCancels, ViewerAnswered, ViewerTurnedAway,
        PromptOver, ViewerCancelled, ViewerTakesCommand, ViewerReads, ViewerSeesEnd, ViewerSends, ViewerSendFails, Room, Kinds
  <2>4. Moved(out', out)
    <3>1. CASE out' = out
      BY <3>1 DEF Moved
    <3> QED
      BY <1>1, <1>4, <2>3, <3>1
  <2> QED
    BY <1>1, <1>5, <2>1, <2>2, <2>4 DEF Moved
<1>9. CASE UNCHANGED linkVars
  BY <1>9 DEF linkVars, Moved
<1> QED
  BY <1>3, <1>7, <1>8, <1>9 DEF LinkNext

\* Each variable of the two ends, their transports and the relay between them stays in its range,
\* and no queue between them ever holds more than it has room for (handle_viewer, run,
\* RelayTransport, relay tasks).
THEOREM LinkTypeCorrect == LinkSpec => [](LinkTypeOK /\ QueuesFit)
<1>1. LinkInit => QueuesFit
  <2> SUFFICES ASSUME LinkInit
               PROVE  QueuesFit
    OBVIOUS
  <2>1. \A e \in Ends : in[e] = <<>> /\ out[e] = <<>> /\ fwd[e] = <<>>
    BY DEF LinkInit
  <2>2. Len(<<>>) <= Cap
    BY LinkAssumption
  <2> QED
    BY <2>1, <2>2 DEF QueuesFit
<1>2. LinkInv /\ QueuesFit /\ [LinkNext]_linkVars => QueuesFit'
  <2> SUFFICES ASSUME LinkInv, QueuesFit, [LinkNext]_linkVars
               PROVE  QueuesFit'
    OBVIOUS
  <2>1. Fits(out) /\ Fits(in) /\ Fits(fwd)
    BY DEF Fits, QueuesFit
  <2>2. Moved(out', out) /\ Moved(in', in) /\ Moved(fwd', fwd)
    BY StepMoves
  <2>3. out \in [Ends -> Seq(Frames)] /\ in \in [Ends -> Seq(Frames)] /\ fwd \in [Ends -> Seq(Frames)]
    BY DEF LinkInv, LinkTypeOK
  <2>4. Fits(out') /\ Fits(in') /\ Fits(fwd')
    BY <2>1, <2>2, <2>3, MovedFits
  <2> QED
    BY <2>4 DEF Fits, QueuesFit
<1>3. LinkInv => LinkTypeOK
  BY DEF LinkInv
<1> QED
  BY <1>1, <1>2, <1>3, LinkInitInv, LinkInvStep, PTL DEF LinkSpec

\* Whatever the room in the queues and the command channel, whenever either end comes to read, the
\* frame at its inbox is sealed exactly if the end has installed its ciphers (install_ciphers,
\* send_msg, recv_msg).
THEOREM ReadInItsCipherAlways == LinkSpec => []ReadInItsCipher
<1>1. LinkInv => ReadInItsCipher
  <2> SUFFICES ASSUME LinkInv
               PROVE  ReadInItsCipher
    OBVIOUS
  <2>1. /\ in["host"] \in Seq(Frames) /\ in["viewer"] \in Seq(Frames)
        /\ CipherOK("host", "viewer") /\ CipherOK("viewer", "host")
    BY DEF LinkInv, LinkTypeOK, CipherInv, Ends
  <2>2. ASSUME NEW s \in Seq(Frames), s # <<>>
        PROVE  (AllSealed(s) => Head(s).sealed) /\ (FirstClear(s) => ~Head(s).sealed)
    BY <2>2, SealedTail
  <2>3. Place("host") = host /\ Place("viewer") = viewer
    BY DEF Place
  <2>4. /\ host = "handshake" => FirstClear(in["host"])
        /\ host = "serving" => AllSealed(in["host"])
    BY <2>1, <2>3 DEF CipherOK, SealedBut, Unread
  <2>5. /\ viewer = "handshake" => FirstClear(in["viewer"])
        /\ viewer = "serving" => AllSealed(in["viewer"])
    BY <2>1, <2>3 DEF CipherOK, SealedBut, Unread
  <2> QED
    BY <2>1, <2>2, <2>4, <2>5 DEF ReadInItsCipher, Arrived
<1> QED
  BY <1>1, LinkInitInv, LinkInvStep, PTL DEF LinkSpec
=============================================================================

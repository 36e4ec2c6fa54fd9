-------------------------- MODULE ViewerSessionProofs --------------------------
(***************************************************************************)
(* The viewer's slot, retries and TOFU pin, for any number of connect()    *)
(* calls, devices and keys, and any interleaving of old and new session    *)
(* tasks.                                                                  *)
(***************************************************************************)
EXTENDS ViewerSession, TLAPS

USE ViewerAssumption

\* The phases in which run is being executed.
Running == {"connecting", "pairing", "connected", "closing"}

\* The tasks: which exist, for which device, and how often they may still
\* fail.
TasksInv ==
  /\ \A s \in Sessions : s > connects => phase[s] = "none"
  /\ \A s \in Sessions : phase[s] # "none" => device[s] \in Devices
  /\ \A s \in Sessions : phase[s] # "done" => attempt[s] <= MAX_RECONNECT_ATTEMPTS

\* A run that has not been cancelled is the one in the slot.
SlotInv == \A s \in Sessions : phase[s] \in Running /\ ~cancelled[s] => session = s

\* A prompt that can still be accepted is about a device without a pin, and a
\* yes was given for the key on display.
PromptInv ==
  /\ \A s \in Sessions : phase[s] = "pairing" => host_key[s] \in Keys
  /\ \A s \in Sessions : phase[s] = "pairing" /\ ~cancelled[s] => acl[device[s]] = None
  /\ \A s \in pending_pairing : phase[s] = "pairing"
  /\ \A s \in Sessions : phase[s] \in {"none", "connecting"} => answer[s] = "none"
  /\ \A s \in Sessions : phase[s] = "pairing" /\ answer[s] = "yes"
                           => <<device[s], host_key[s]>> \in confirmed

IInv ==
  TypeOK /\ SlotIsLive /\ TrustIsConfirmed /\ RefusalIsFinal /\ TasksInv /\ SlotInv /\ PromptInv

-----------------------------------------------------------------------------
\* Writing the slot cancels the run that was in it.
LEMMA PutFacts ==
  ASSUME TypeOK, NEW v \in Sessions \cup {None}, Put(v)
  PROVE  /\ session' = v
         /\ cancelled' \in [Sessions -> BOOLEAN]
         /\ \A s \in Sessions : cancelled'[s] <=> (s # v /\ (cancelled[s] \/ s = session))
<1>1. cancelled' = [s \in Sessions |-> IF s = v THEN FALSE ELSE cancelled[s] \/ s = session]
  BY DEF Put
<1>2. \A s \in Sessions : cancelled[s] \in BOOLEAN
  BY DEF TypeOK
<1> QED BY <1>1, <1>2 DEF Put

\* A run that returns empties the slot and leaves its task ended or asleep.
LEMMA ReturnsFacts ==
  ASSUME IInv, NEW s \in Sessions, NEW r \in {"ok", "refused", "error"}, Returns(s, r),
         phase[s] \in Running
  PROVE  /\ session' = None
         /\ cancelled' \in [Sessions -> BOOLEAN]
         /\ \A t \in Sessions : cancelled'[t] <=> (cancelled[t] \/ t = session)
         /\ \E p \in {"done", "backoff"} :
              phase' = [phase EXCEPT ![s] = p] /\ (r = "refused" => p = "done")
         /\ attempt' \in [Sessions -> 0..(MAX_RECONNECT_ATTEMPTS + 1)]
         /\ \A t \in Sessions : phase'[t] # "done" => attempt'[t] <= MAX_RECONNECT_ATTEMPTS
         /\ outcome' \in [Sessions -> {"none", "ok", "refused", "error"}]
         /\ refused' = IF r = "refused" THEN refused \cup {s} ELSE refused
<1>1. Put(None)
  BY DEF Returns
<1>2. /\ session' = None
      /\ cancelled' \in [Sessions -> BOOLEAN]
      /\ \A t \in Sessions : cancelled'[t] <=> (cancelled[t] \/ t = session)
  BY <1>1, PutFacts DEF IInv, Sessions
<1>3. CASE r = "error"
  <2>1. /\ phase' = [phase EXCEPT ![s] = AfterFailure(attempt[s] + 1)]
        /\ attempt' = [attempt EXCEPT ![s] = attempt[s] + 1]
        /\ outcome' = [outcome EXCEPT ![s] = r]
        /\ refused' = refused
    BY <1>3 DEF Returns, Retries
  <2>2. attempt[s] \in 0 .. MAX_RECONNECT_ATTEMPTS
    BY DEF IInv, TasksInv, TypeOK, Running
  <2>3. attempt' \in [Sessions -> 0..(MAX_RECONNECT_ATTEMPTS + 1)]
    BY <2>1, <2>2 DEF IInv, TypeOK
  <2>4. \A t \in Sessions : phase'[t] # "done" => attempt'[t] <= MAX_RECONNECT_ATTEMPTS
    BY <2>1, <2>2 DEF AfterFailure, IInv, TypeOK, TasksInv
  <2> QED BY <1>2, <1>3, <2>1, <2>3, <2>4 DEF AfterFailure, IInv, TypeOK
<1>4. CASE r # "error"
  <2>1. /\ phase' = [phase EXCEPT ![s] = "done"]
        /\ attempt' = attempt
        /\ outcome' = [outcome EXCEPT ![s] = r]
        /\ refused' = IF r = "refused" THEN refused \cup {s} ELSE refused
    BY <1>4 DEF Returns, Retries
  <2> QED BY <1>2, <2>1 DEF IInv, TypeOK, TasksInv
<1> QED BY <1>3, <1>4

\* Without a session there is nothing in the slot.
LEMMA IInvInit == Init => IInv
  BY DEF Init, IInv, TypeOK, SlotIsLive, TrustIsConfirmed, RefusalIsFinal, TasksInv, SlotInv,
         PromptInv, Sessions, Phases, Running

\* A task whose run returns: the invariant is kept whatever else the action
\* leaves alone or withdraws from the prompt.
LEMMA ReturnsKeeps ==
  ASSUME IInv, NEW s \in Sessions, NEW r \in {"ok", "refused", "error"}, Returns(s, r),
         phase[s] \in Running,
         host_key' \in [Sessions -> Keys \cup {None}],
         \A t \in Sessions : t # s => host_key'[t] = host_key[t],
         pending_pairing' \in {pending_pairing, pending_pairing \ {s}},
         phase[s] = "pairing" => pending_pairing' = pending_pairing \ {s},
         closed' \in SUBSET Sessions,
         UNCHANGED <<ui, answer, trust, dismissed>>
  PROVE  IInv'
<1> USE DEF ui, trust
<1>1. /\ session' = None
      /\ cancelled' \in [Sessions -> BOOLEAN]
      /\ \A t \in Sessions : cancelled'[t] <=> (cancelled[t] \/ t = session)
      /\ attempt' \in [Sessions -> 0..(MAX_RECONNECT_ATTEMPTS + 1)]
      /\ \A t \in Sessions : phase'[t] # "done" => attempt'[t] <= MAX_RECONNECT_ATTEMPTS
      /\ outcome' \in [Sessions -> {"none", "ok", "refused", "error"}]
      /\ refused' = IF r = "refused" THEN refused \cup {s} ELSE refused
  BY ReturnsFacts
<1>2. PICK p \in {"done", "backoff"} :
        phase' = [phase EXCEPT ![s] = p] /\ (r = "refused" => p = "done")
  BY ReturnsFacts
<1>3. phase' \in [Sessions -> Phases] /\ phase'[s] = p
      /\ \A t \in Sessions : t # s => phase'[t] = phase[t]
  BY <1>2 DEF IInv, TypeOK, Phases
<1>4. TypeOK'
  BY <1>1, <1>3 DEF IInv, TypeOK
<1>5. SlotIsLive' /\ TrustIsConfirmed'
  BY <1>1 DEF IInv, SlotIsLive, TrustIsConfirmed
<1>6. RefusalIsFinal'
  BY <1>1, <1>2, <1>3 DEF IInv, RefusalIsFinal, TypeOK, Running
<1>7. TasksInv'
  BY <1>1, <1>3 DEF IInv, TasksInv, Running
<1>8. SlotInv'
  BY <1>1, <1>3 DEF IInv, SlotInv, Running
<1>9. PromptInv'
  BY <1>1, <1>3 DEF IInv, PromptInv, Running, TypeOK
<1> QED BY <1>4, <1>5, <1>6, <1>7, <1>8, <1>9 DEF IInv

\* connect, retry, cancel and the prompt keep the slot live and its answers consented.
LEMMA IInvNext == IInv /\ [Next]_vars => IInv'
<1> SUFFICES ASSUME IInv, [Next]_vars PROVE IInv'
  OBVIOUS
<1> USE DEF ui, trust, prompt
<1>1. ASSUME NEW d \in Devices, Connect(d) PROVE IInv'
  <2> DEFINE n == connects + 1
  <2>1. n \in Sessions /\ phase[n] = "none" /\ answer[n] = "none" /\ n > connects
    BY <1>1 DEF Connect, IInv, TypeOK, TasksInv, PromptInv, Sessions
  <2>2. /\ session' = n
        /\ cancelled' \in [Sessions -> BOOLEAN]
        /\ \A s \in Sessions : cancelled'[s] <=> (s # n /\ (cancelled[s] \/ s = session))
    BY <1>1, <2>1, PutFacts DEF Connect, IInv
  <2>3. /\ connects' = n
        /\ phase' = [phase EXCEPT ![n] = "connecting"]
        /\ device' = [device EXCEPT ![n] = d]
        /\ dismissed' = dismissed \cup 1..connects
        /\ UNCHANGED <<attempt, host_key, prompt, trust, closed, outcome, refused>>
    BY <1>1 DEF Connect
  <2>4. TypeOK'
    BY <1>1, <2>1, <2>2, <2>3 DEF IInv, TypeOK, Phases, Sessions, Connect
  <2>5. SlotIsLive' /\ TrustIsConfirmed'
    BY <2>1, <2>2, <2>3 DEF IInv, TypeOK, SlotIsLive, TrustIsConfirmed
  <2>6. RefusalIsFinal'
    BY <2>1, <2>3 DEF IInv, TypeOK, RefusalIsFinal
  <2>7. TasksInv'
    BY <2>1, <2>3 DEF IInv, TypeOK, TasksInv, Sessions
  <2>8. SlotInv'
    BY <2>1, <2>2, <2>3 DEF IInv, TypeOK, SlotInv
  <2>9. PromptInv'
    BY <2>1, <2>2, <2>3 DEF IInv, TypeOK, PromptInv
  <2> QED BY <2>4, <2>5, <2>6, <2>7, <2>8, <2>9 DEF IInv
<1>2. CASE Disconnect
  <2>2. /\ session' = None
        /\ cancelled' \in [Sessions -> BOOLEAN]
        /\ \A s \in Sessions : cancelled'[s] <=> (s # None /\ (cancelled[s] \/ s = session))
    BY <1>2, PutFacts DEF Disconnect, IInv
  <2> QED BY <1>2, <2>2 DEF Disconnect, IInv, TypeOK, SlotIsLive, TrustIsConfirmed,
             RefusalIsFinal, TasksInv, SlotInv, PromptInv, Sessions, Running
<1>3. ASSUME NEW b \in BOOLEAN, ConfirmPairing(b) PROVE IInv'
  <2>1. session \in Sessions /\ phase[session] = "pairing" /\ host_key[session] \in Keys
        /\ device[session] \in Devices
    BY <1>3 DEF ConfirmPairing, IInv, TypeOK, PromptInv, TasksInv
  <2>2. \E a \in {"yes", "no"} :
          /\ answer' = [answer EXCEPT ![session] = a]
          /\ confirmed' = IF a = "yes"
                            THEN confirmed \cup {<<device[session], host_key[session]>>}
                            ELSE confirmed
    BY <1>3 DEF ConfirmPairing
  <2>3. /\ pending_pairing' = pending_pairing \ {session}
        /\ UNCHANGED <<ui, session, phase, cancelled, attempt, host_key, acl, dismissed, closed,
                       outcome, refused>>
    BY <1>3 DEF ConfirmPairing
  <2>4. TypeOK' /\ SlotIsLive' /\ TrustIsConfirmed' /\ RefusalIsFinal' /\ TasksInv' /\ SlotInv'
    BY <2>1, <2>2, <2>3 DEF IInv, TypeOK, SlotIsLive, TrustIsConfirmed, RefusalIsFinal,
       TasksInv, SlotInv
  <2>5. PromptInv'
    BY <2>1, <2>2, <2>3 DEF IInv, TypeOK, PromptInv
  <2> QED BY <2>4, <2>5 DEF IInv
<1>4. ASSUME NEW d \in Devices, RevokePeer(d) PROVE IInv'
  <2>1. /\ acl' = [acl EXCEPT ![d] = None]
        /\ UNCHANGED <<ui, session, phase, cancelled, attempt, host_key, prompt, dismissed,
                       closed, outcome, refused, confirmed>>
    BY <1>4 DEF RevokePeer
  <2>2. TypeOK' /\ SlotIsLive' /\ TrustIsConfirmed' /\ RefusalIsFinal' /\ TasksInv' /\ SlotInv'
    BY <2>1 DEF IInv, TypeOK, SlotIsLive, TrustIsConfirmed, RefusalIsFinal, TasksInv, SlotInv
  <2>3. PromptInv'
    BY <2>1 DEF IInv, TypeOK, PromptInv, TasksInv
  <2> QED BY <2>2, <2>3 DEF IInv
<1>5. ASSUME NEW s \in Sessions, Wake(s) PROVE IInv'
  <2>2. /\ session' = s
        /\ cancelled' \in [Sessions -> BOOLEAN]
        /\ \A t \in Sessions : cancelled'[t] <=> (t # s /\ (cancelled[t] \/ t = session))
    BY <1>5, PutFacts DEF Wake, IInv
  <2>3. /\ phase[s] = "backoff" /\ phase' = [phase EXCEPT ![s] = "connecting"]
        /\ pending_pairing' = pending_pairing \ {s}
        /\ answer' = [answer EXCEPT ![s] = "none"]
        /\ UNCHANGED <<ui, attempt, host_key, trust, dismissed, closed, outcome, refused>>
    BY <1>5 DEF Wake
  <2>4. TypeOK' /\ SlotIsLive' /\ TrustIsConfirmed' /\ RefusalIsFinal' /\ TasksInv'
    BY <2>2, <2>3 DEF IInv, TypeOK, Phases, SlotIsLive, TrustIsConfirmed, RefusalIsFinal,
       TasksInv
  <2>5. SlotInv'
    BY <2>2, <2>3 DEF IInv, TypeOK, SlotInv
  <2>6. PromptInv'
    BY <2>2, <2>3 DEF IInv, TypeOK, PromptInv
  <2> QED BY <2>4, <2>5, <2>6 DEF IInv
<1>6. ASSUME NEW s \in Sessions, ConnectFails(s) PROVE IInv'
  BY <1>6, ReturnsKeeps DEF ConnectFails, Running, IInv, TypeOK
<1>7. ASSUME NEW s \in Sessions, NEW k \in Keys, GateTrusted(s, k) PROVE IInv'
  BY <1>7 DEF GateTrusted, IInv, TypeOK, Phases, SlotIsLive, TrustIsConfirmed, RefusalIsFinal,
     TasksInv, SlotInv, PromptInv, Running
<1>8. ASSUME NEW s \in Sessions, NEW k \in Keys, GateMismatch(s, k) PROVE IInv'
  <2>1. /\ host_key' \in [Sessions -> Keys \cup {None}]
        /\ \A t \in Sessions : t # s => host_key'[t] = host_key[t]
        /\ phase[s] = "connecting"
    BY <1>8 DEF GateMismatch, IInv, TypeOK
  <2> QED BY <1>8, <2>1, ReturnsKeeps DEF GateMismatch, Running, IInv, TypeOK
<1>9. ASSUME NEW s \in Sessions, NEW k \in Keys, GateUnknown(s, k) PROVE IInv'
  BY <1>9 DEF GateUnknown, IInv, TypeOK, Phases, SlotIsLive, TrustIsConfirmed, RefusalIsFinal,
     TasksInv, SlotInv, PromptInv, Running
<1>10. ASSUME NEW s \in Sessions, PairingCancelled(s) PROVE IInv'
  BY <1>10, ReturnsKeeps DEF PairingCancelled, Running, IInv, TypeOK
<1>11. ASSUME NEW s \in Sessions, PairingAccepted(s) PROVE IInv'
  <2>1. /\ phase[s] = "pairing" /\ ~cancelled[s] /\ answer[s] = "yes"
        /\ device[s] \in Devices /\ host_key[s] \in Keys /\ session = s
        /\ <<device[s], host_key[s]>> \in confirmed
    BY <1>11 DEF PairingAccepted, IInv, TasksInv, PromptInv, SlotInv, Running
  <2>2. /\ pending_pairing' = pending_pairing \ {s}
        /\ acl' = [acl EXCEPT ![device[s]] = host_key[s]]
        /\ phase' = [phase EXCEPT ![s] = "connected"]
        /\ UNCHANGED <<ui, session, cancelled, attempt, host_key, answer, dismissed, closed,
                       outcome, refused, confirmed>>
    BY <1>11 DEF PairingAccepted
  <2>3. TypeOK' /\ SlotIsLive' /\ RefusalIsFinal' /\ TasksInv' /\ SlotInv'
    BY <2>1, <2>2 DEF IInv, TypeOK, Phases, SlotIsLive, RefusalIsFinal, TasksInv, SlotInv,
       Running
  <2>4. TrustIsConfirmed'
    BY <2>1, <2>2 DEF IInv, TypeOK, TrustIsConfirmed
  <2>5. \A t \in Sessions : phase'[t] = "pairing" => t # s /\ phase[t] = "pairing" /\ cancelled[t]
    BY <2>1, <2>2 DEF IInv, TypeOK, SlotInv, Running
  <2>6. PromptInv'
    BY <2>1, <2>2, <2>5 DEF IInv, TypeOK, PromptInv
  <2> QED BY <2>3, <2>4, <2>6 DEF IInv
<1>12. ASSUME NEW s \in Sessions, PairingNotConfirmed(s) PROVE IInv'
  BY <1>12, ReturnsKeeps DEF PairingNotConfirmed, Running, IInv, TypeOK
<1>13. ASSUME NEW s \in Sessions, CancelSeen(s) PROVE IInv'
  BY <1>13 DEF CancelSeen, IInv, TypeOK, Phases, SlotIsLive, TrustIsConfirmed, RefusalIsFinal,
     TasksInv, SlotInv, PromptInv, Running
<1>14. ASSUME NEW s \in Sessions, Closed(s) PROVE IInv'
  BY <1>14, ReturnsKeeps DEF Closed, Running, IInv, TypeOK
<1>15. ASSUME NEW s \in Sessions, HostCloses(s) PROVE IInv'
  BY <1>15, ReturnsKeeps DEF HostCloses, Running, IInv, TypeOK
<1>16. ASSUME NEW s \in Sessions, RelayLost(s) PROVE IInv'
  BY <1>16, ReturnsKeeps DEF RelayLost, Running, IInv, TypeOK
<1>17. CASE UNCHANGED vars
  BY <1>17 DEF vars, IInv, TypeOK, SlotIsLive, TrustIsConfirmed, RefusalIsFinal, TasksInv,
     SlotInv, PromptInv
<1> QED BY <1>1, <1>2, <1>3, <1>4, <1>5, <1>6, <1>7, <1>8, <1>9, <1>10, <1>11, <1>12, <1>13,
           <1>14, <1>15, <1>16, <1>17 DEF Next, TaskStep

\* So they are at every moment.
LEMMA IInvHolds == Spec => []IInv
  BY IInvInit, IInvNext, PTL DEF Spec

-----------------------------------------------------------------------------
\* The types, with the bound on a task's failed runs that the reconnect loop
\* of connect() keeps.
THEOREM ViewerTypeCorrect == Spec => []TypeOK
<1>1. IInv => TypeOK
  BY DEF IInv
<1> QED BY <1>1, IInvHolds, PTL

\* The slot never holds a session whose task has ended or sleeps, although
\* every task clears and fills it without looking whose it is.
THEOREM SlotAlwaysLive == Spec => []SlotIsLive
<1>1. IInv => SlotIsLive
  BY DEF IInv
<1> QED BY <1>1, IInvHolds, PTL

\* Trust follows a yes of the user for that device and that key.
THEOREM TrustFollowsConsent == Spec => []TrustIsConfirmed
<1>1. IInv => TrustIsConfirmed
  BY DEF IInv
<1> QED BY <1>1, IInvHolds, PTL

\* A refusal ends the task for good.
THEOREM RefusalsFinal == Spec => []RefusalIsFinal
<1>1. IInv => RefusalIsFinal
  BY DEF IInv
<1> QED BY <1>1, IInvHolds, PTL

\* The TOFU pin: no interleaving of sessions, prompts and retries moves a
\* device from one trusted key to another.
THEOREM PinNeverReplaced == Spec => PinnedKeyStays
<1>1. IInv /\ [Next]_vars =>
        [\A d \in Devices : acl[d] # None => acl'[d] \in {acl[d], None}]_vars
  <2> SUFFICES ASSUME IInv, Next, NEW d \in Devices, acl[d] # None
               PROVE  acl'[d] \in {acl[d], None}
    OBVIOUS
  <2>1. CASE acl' = acl
    BY <2>1
  <2>2. ASSUME NEW e \in Devices, RevokePeer(e) PROVE acl'[d] \in {acl[d], None}
    BY <2>2 DEF RevokePeer, IInv, TypeOK
  <2>3. ASSUME NEW s \in Sessions, PairingAccepted(s) PROVE acl'[d] \in {acl[d], None}
    <3>1. acl[device[s]] = None /\ acl' = [acl EXCEPT ![device[s]] = host_key[s]]
      BY <2>3 DEF PairingAccepted, IInv, PromptInv
    <3> QED BY <3>1 DEF IInv, TypeOK
  <2> QED
    BY <2>1, <2>2, <2>3 DEF Next, TaskStep, Connect, Disconnect, ConfirmPairing, Wake,
       ConnectFails, GateTrusted, GateMismatch, GateUnknown, PairingCancelled,
       PairingNotConfirmed, CancelSeen, Closed, HostCloses, RelayLost, trust, prompt
<1> QED BY <1>1, IInvHolds, PTL DEF Spec, PinnedKeyStays
=============================================================================

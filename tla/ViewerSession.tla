---------------------------- MODULE ViewerSession ----------------------------
(***************************************************************************)
(* The viewer's sessions (crates/miru-client/src-tauri/src): AppState has  *)
(* one slot for the active session (state.rs); connect() replaces what is  *)
(* in it and spawns a task that calls session::run (session.rs), retries a *)
(* failed run and writes the slot itself.  disconnect() and connect() only *)
(* signal an older task, so its remaining steps interleave with the newer  *)
(* session's.                                                              *)
(*                                                                         *)
(* A step is what a task does between two awaits.  A session is numbered   *)
(* by the connect() call that made it.                                     *)
(***************************************************************************)
EXTENDS Integers, FiniteSets

CONSTANTS
  MaxConnects,            \* bound: connect() calls of the UI
  Devices, Keys, None,
  MAX_RECONNECT_ATTEMPTS, \* 3
  RelayMayFail            \* may an established relay connection be lost?

ASSUME ViewerAssumption ==
  /\ MaxConnects \in Nat
  /\ MAX_RECONNECT_ATTEMPTS \in Nat
  /\ RelayMayFail \in BOOLEAN
  /\ None \notin Devices /\ None \notin Keys /\ None \notin 1..MaxConnects

Sessions == 1..MaxConnects

VARIABLES
  connects,   \* connect() calls so far
  session,    \* AppState.session: whose ActiveSession it holds
  phase,      \* where a session's task is
  cancelled,  \* was the current attempt's cancel sender used or dropped?
  attempt,    \* failed runs of a session's task
  device,     \* the device a session connects to
  host_key,   \* the identity key the host showed in the handshake
  pending_pairing,  \* sessions with a pairing prompt to be answered
  answer,     \* what confirm_pairing sent to a session
  acl,        \* the key a device is trusted under
  dismissed,  \* sessions the user ended: by disconnect() or a later connect()
  closed,     \* sessions the host closed
  outcome,    \* how run returned last
  refused,    \* sessions whose user or policy said no
  confirmed   \* what the user said yes to, as <<device, key>>

ui == <<connects, device>>
trust == <<acl, confirmed>>
prompt == <<pending_pairing, answer>>
vars == <<connects, session, phase, cancelled, attempt, device, host_key, pending_pairing,
          answer, acl, dismissed, closed, outcome, refused, confirmed>>

Phases == {"none", "connecting", "pairing", "connected", "closing", "backoff", "done"}

-----------------------------------------------------------------------------
Init ==
  /\ connects = 0 /\ session = None
  /\ phase = [s \in Sessions |-> "none"]
  /\ cancelled = [s \in Sessions |-> FALSE]
  /\ attempt = [s \in Sessions |-> 0]
  /\ device = [s \in Sessions |-> None]
  /\ host_key = [s \in Sessions |-> None]
  /\ pending_pairing = {}
  /\ answer = [s \in Sessions |-> "none"]
  /\ acl = [d \in Devices |-> None]
  /\ dismissed = {} /\ closed = {} /\ refused = {} /\ confirmed = {}
  /\ outcome = [s \in Sessions |-> "none"]

\* The slot is written.  The ActiveSession that was in it is dropped, and
\* with it its cancel sender: the receiver resolves as if it had been used.
Put(v) ==
  /\ session' = v
  /\ cancelled' = [s \in Sessions |->
       IF s = v THEN FALSE ELSE cancelled[s] \/ s = session]

\* connect(): disconnect(), a new ActiveSession, a new task.
Connect(d) ==
  /\ connects < MaxConnects
  /\ LET s == connects + 1
     IN  /\ connects' = s
         /\ Put(s)
         /\ phase' = [phase EXCEPT ![s] = "connecting"]
         /\ device' = [device EXCEPT ![s] = d]
  /\ dismissed' = dismissed \cup 1..connects
  /\ UNCHANGED <<attempt, host_key, prompt, trust, closed, outcome, refused>>

\* disconnect(): the session in the slot, if any, is cancelled.
Disconnect ==
  /\ Put(None)
  /\ dismissed' = dismissed \cup 1..connects
  /\ UNCHANGED <<ui, phase, attempt, host_key, prompt, trust, closed, outcome, refused>>

\* confirm_pairing(): the answer goes to the prompt of the session in the slot.
ConfirmPairing(accept) ==
  /\ session # None /\ session \in pending_pairing
  /\ pending_pairing' = pending_pairing \ {session}
  /\ answer' = [answer EXCEPT ![session] = IF accept THEN "yes" ELSE "no"]
  /\ confirmed' = IF accept
                    THEN confirmed \cup {<<device[session], host_key[session]>>} ELSE confirmed
  /\ UNCHANGED <<ui, session, phase, cancelled, attempt, host_key, acl, dismissed, closed,
                 outcome, refused>>

\* revoke_peer(): the device is unknown again.
RevokePeer(d) ==
  /\ acl[d] # None
  /\ acl' = [acl EXCEPT ![d] = None]
  /\ UNCHANGED <<ui, session, phase, cancelled, attempt, host_key, prompt, dismissed, closed,
                 outcome, refused, confirmed>>

-----------------------------------------------------------------------------

\* Ok and NoAutoRetry end the task, every other error is retried.
Retries(result) == result = "error"

\* Where the n-th failed run leaves a task.
AfterFailure(n) == IF n > MAX_RECONNECT_ATTEMPTS THEN "done" ELSE "backoff"

\* Mutant: the slot is cleared only after an error.
ReturnsKeepsSlot(s, result) ==
  /\ IF Retries(result)
       THEN /\ attempt' = [attempt EXCEPT ![s] = @ + 1]
            /\ phase' = [phase EXCEPT ![s] = AfterFailure(attempt[s] + 1)]
            /\ Put(None)
       ELSE /\ phase' = [phase EXCEPT ![s] = "done"]
            /\ UNCHANGED <<attempt, session, cancelled>>
  /\ outcome' = [outcome EXCEPT ![s] = result]
  /\ refused' = IF result = "refused" THEN refused \cup {s} ELSE refused

\* run returns result: the slot is cleared, whoever is in it, and the task
\* ends or sleeps before the next attempt.
Returns(s, result) ==
  /\ Put(None)
  /\ IF Retries(result)
       THEN /\ attempt' = [attempt EXCEPT ![s] = @ + 1]
            /\ phase' = [phase EXCEPT ![s] = AfterFailure(attempt[s] + 1)]
       ELSE /\ phase' = [phase EXCEPT ![s] = "done"]
            /\ UNCHANGED attempt
  /\ outcome' = [outcome EXCEPT ![s] = result]
  /\ refused' = IF result = "refused" THEN refused \cup {s} ELSE refused

\* Backoff is over: new channels, a new pairing slot, a new ActiveSession.
Wake(s) ==
  /\ phase[s] = "backoff"
  /\ phase' = [phase EXCEPT ![s] = "connecting"]
  /\ Put(s)
  /\ pending_pairing' = pending_pairing \ {s}
  /\ answer' = [answer EXCEPT ![s] = "none"]
  /\ UNCHANGED <<ui, attempt, host_key, trust, dismissed, closed, outcome, refused>>

\* Signal server, relay or handshake fails.  Nothing here looks at cancel_rx.
ConnectFails(s) ==
  /\ phase[s] = "connecting"
  /\ Returns(s, "error")
  /\ UNCHANGED <<ui, host_key, prompt, trust, dismissed, closed>>

\* The TOFU gate after a handshake in which the host showed key k: trusted.
GateTrusted(s, k) ==
  /\ phase[s] = "connecting" /\ acl[device[s]] = k
  /\ phase' = [phase EXCEPT ![s] = "connected"]
  /\ host_key' = [host_key EXCEPT ![s] = k]
  /\ UNCHANGED <<ui, session, cancelled, attempt, prompt, trust, dismissed, closed, outcome, refused>>

\* PubkeyMismatch.
GateMismatch(s, k) ==
  /\ phase[s] = "connecting" /\ acl[device[s]] \notin {k, None}
  /\ host_key' = [host_key EXCEPT ![s] = k]
  /\ Returns(s, "refused")
  /\ UNCHANGED <<ui, prompt, trust, dismissed, closed>>

\* Unknown: the UI is asked.
GateUnknown(s, k) ==
  /\ phase[s] = "connecting" /\ acl[device[s]] = None
  /\ host_key' = [host_key EXCEPT ![s] = k]
  /\ pending_pairing' = pending_pairing \cup {s}
  /\ phase' = [phase EXCEPT ![s] = "pairing"]
  /\ UNCHANGED <<ui, session, cancelled, attempt, answer, trust, dismissed, closed, outcome, refused>>

\* Mutants: cancel_rx is not raced against the prompt; the select is not
\* biased.
PairingCancelledNever(s) == FALSE /\ UNCHANGED vars
PairingAcceptedUnbiased(s) ==
  /\ phase[s] = "pairing" /\ answer[s] = "yes"
  /\ pending_pairing' = pending_pairing \ {s}
  /\ acl' = [acl EXCEPT ![device[s]] = host_key[s]]
  /\ phase' = [phase EXCEPT ![s] = "connected"]
  /\ UNCHANGED <<ui, session, cancelled, attempt, host_key, answer, dismissed, closed, outcome,
                 refused, confirmed>>

\* The prompt: cancel_rx comes first (biased).
PairingCancelled(s) ==
  /\ phase[s] = "pairing" /\ cancelled[s]
  /\ pending_pairing' = pending_pairing \ {s}
  /\ Returns(s, "refused")
  /\ UNCHANGED <<ui, host_key, answer, trust, dismissed, closed>>

\* The prompt: accepted, so the host is trusted under the key it showed.
PairingAccepted(s) ==
  /\ phase[s] = "pairing" /\ ~cancelled[s] /\ answer[s] = "yes"
  /\ pending_pairing' = pending_pairing \ {s}
  /\ acl' = [acl EXCEPT ![device[s]] = host_key[s]]
  /\ phase' = [phase EXCEPT ![s] = "connected"]
  /\ UNCHANGED <<ui, session, cancelled, attempt, host_key, answer, dismissed, closed, outcome,
                 refused, confirmed>>

\* Mutant: a prompt that timed out counts as accepted.
PairingTimeoutAccepts(s) ==
  /\ phase[s] = "pairing" /\ ~cancelled[s] /\ answer[s] \in {"none", "no"}
  /\ pending_pairing' = pending_pairing \ {s}
  /\ acl' = [acl EXCEPT ![device[s]] = host_key[s]]
  /\ phase' = [phase EXCEPT ![s] = "connected"]
  /\ UNCHANGED <<ui, session, cancelled, attempt, host_key, answer, dismissed, closed, outcome,
                 refused, confirmed>>

\* The prompt: rejected, or not answered within 120 s.
PairingNotConfirmed(s) ==
  /\ phase[s] = "pairing" /\ ~cancelled[s] /\ answer[s] \in {"none", "no"}
  /\ pending_pairing' = pending_pairing \ {s}
  /\ Returns(s, "refused")
  /\ UNCHANGED <<ui, host_key, answer, trust, dismissed, closed>>

\* Main loop: cancel_rx resolves first (biased); a Close is sent to the host.
CancelSeen(s) ==
  /\ phase[s] = "connected" /\ cancelled[s]
  /\ phase' = [phase EXCEPT ![s] = "closing"]
  /\ UNCHANGED <<ui, session, cancelled, attempt, host_key, prompt, trust, dismissed, closed,
                 outcome, refused>>

\* The Close is sent, or cannot be sent.
Closed(s) ==
  /\ phase[s] = "closing"
  /\ Returns(s, "ok")
  /\ UNCHANGED <<ui, host_key, prompt, trust, dismissed, closed>>

\* Main loop: the host sends Close.
HostCloses(s) ==
  /\ phase[s] = "connected" /\ ~cancelled[s]
  /\ closed' = closed \cup {s}
  /\ Returns(s, "ok")
  /\ UNCHANGED <<ui, host_key, prompt, trust, dismissed>>

\* Main loop: a receive on the relay fails or the relay ends, or a send the
\* loop is waiting for fails, which no cancellation interrupts.
RelayLost(s) ==
  /\ RelayMayFail
  /\ phase[s] = "connected"
  /\ Returns(s, "ok")
  /\ UNCHANGED <<ui, host_key, prompt, trust, dismissed, closed>>

-----------------------------------------------------------------------------
TaskStep(s) ==
  \/ Wake(s) \/ ConnectFails(s)
  \/ \E k \in Keys : GateTrusted(s, k) \/ GateMismatch(s, k) \/ GateUnknown(s, k)
  \/ PairingCancelled(s) \/ PairingAccepted(s) \/ PairingNotConfirmed(s)
  \/ CancelSeen(s) \/ Closed(s) \/ HostCloses(s) \/ RelayLost(s)

Next ==
  \/ \E d \in Devices : Connect(d) \/ RevokePeer(d)
  \/ Disconnect
  \/ \E b \in BOOLEAN : ConfirmPairing(b)
  \/ \E s \in Sessions : TaskStep(s)

Spec == Init /\ [][Next]_vars

\* The runtime polls a task whose select has a ready arm.  The network, the
\* host, the user and the long timeouts owe nothing.
FairSpec ==
  Spec /\ \A s \in Sessions :
            WF_vars(PairingCancelled(s)) /\ WF_vars(CancelSeen(s)) /\ WF_vars(Closed(s))

-----------------------------------------------------------------------------
\* The ranges of the variables.  The retry counter never runs past its limit
\* by more than the one attempt that ends the task.
TypeOK ==
  /\ connects \in 0..MaxConnects
  /\ session \in Sessions \cup {None}
  /\ phase \in [Sessions -> Phases]
  /\ cancelled \in [Sessions -> BOOLEAN]
  /\ attempt \in [Sessions -> 0..(MAX_RECONNECT_ATTEMPTS + 1)]
  /\ device \in [Sessions -> Devices \cup {None}]
  /\ host_key \in [Sessions -> Keys \cup {None}]
  /\ pending_pairing \subseteq Sessions
  /\ answer \in [Sessions -> {"none", "yes", "no"}]
  /\ acl \in [Devices -> Keys \cup {None}]
  /\ dismissed \subseteq Sessions /\ closed \subseteq Sessions /\ refused \subseteq Sessions
  /\ outcome \in [Sessions -> {"none", "ok", "refused", "error"}]
  /\ confirmed \subseteq (Devices \X Keys)

\* What the slot holds is always a session whose task runs: send_input and
\* the other commands never talk to a task that has ended or sleeps.
SlotIsLive == session # None => phase[session] \notin {"none", "backoff", "done"}

\* The TOFU pin: however connects, retries, prompts and cancellations
\* interleave, a device that is trusted under a key is never moved to another
\* key; only revoke_peer takes the trust away.
PinnedKeyStays == [][\A d \in Devices : acl[d] # None => acl'[d] \in {acl[d], None}]_vars

\* No host is trusted under a key the user did not accept for that device.
TrustIsConfirmed == \A d \in Devices : acl[d] # None => <<d, acl[d]>> \in confirmed

\* "retrying after the user said 'no' would just re-show the same prompt": a
\* session that was refused asks nothing more.
RefusalIsFinal == \A s \in refused : phase[s] = "done"

\* The prompt races cancel_rx, so a superseded session does not sit in it
\* until the 120 s are over, and one in the main loop does not stay there.
CancelledLeaves ==
  \A s \in Sessions : (phase[s] \in {"pairing", "connected"} /\ cancelled[s])
                        ~> (phase[s] = "done")

-----------------------------------------------------------------------------
(* What the code's comments say and the interleavings refute.              *)

\* `Ok(()) => break, // clean exit (user disconnect or host close)`: checked
\* with a relay that never fails.
OkMeansUserOrHost == \A s \in Sessions : outcome[s] = "ok" => s \in dismissed \cup closed
=============================================================================

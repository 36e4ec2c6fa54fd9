--------------------------- MODULE AgentGateProofs ---------------------------
(***************************************************************************)
(* The audit log and the agent gate, for any number of sessions, tokens,   *)
(* requests and entries.  Until an append fails or two sessions overlap,   *)
(* the chain is intact and every acknowledged entry is where append()      *)
(* said, across crashes.  Afterwards the chain can break (configuration    *)
(* AuditLogFork), but no acknowledged entry is ever lost and no broken     *)
(* chain ever verifies again.  The gate uses the log as AuditLog allows,   *)
(* so all of this holds for it; on top of it, what the gate lets through   *)
(* is on record, confirmed where it must be, and not revoked.              *)
(***************************************************************************)
EXTENDS AgentGate, TLAPS

USE AuditAssumption

\* The types are kept by open, append, its failures, the end of a session and
\* a crash.
THEOREM AuditTypeCorrect == Spec => []TypeOK
<1>1. Init => TypeOK
  BY DEF Init, TypeOK
<1>2. TypeOK /\ [Next]_vars => TypeOK'
  <2> SUFFICES ASSUME TypeOK, [Next]_vars PROVE TypeOK'
    OBVIOUS
  <2> USE DEF TypeOK
  <2>0. ASSUME NEW w \in Writers PROVE NewEntry(w) \in Entry
    BY <2>0 DEF NewEntry, Entry
  <2>1. ASSUME NEW w \in Writers, Open(w) PROVE TypeOK'
    <3>0. Len(file) \in Nat /\ (file # <<>> => file[Len(file)] \in Entry)
      OBVIOUS
    <3>1. Len(file) \in Nat /\ LastHash(file) \in Nat
      BY <3>0 DEF LastHash, Entry
    <3> QED BY <2>1, <3>1 DEF Open, Recover
  <2>2. ASSUME NEW w \in Writers, AppendOk(w) PROVE TypeOK'
    BY <2>0, <2>2 DEF AppendOk
  <2>3. ASSUME NEW w \in Writers, FlushFails(w) PROVE TypeOK'
    BY <2>0, <2>3 DEF FlushFails
  <2>4. ASSUME NEW w \in Writers, SyncFails(w) PROVE TypeOK'
    BY <2>0, <2>4 DEF SyncFails
  <2>5. ASSUME NEW w \in Writers, Close(w) PROVE TypeOK'
    BY <2>5 DEF Close
  <2>6. CASE Crash
    BY <2>6 DEF Crash
  <2>7. CASE UNCHANGED vars
    BY <2>7 DEF vars
  <2> QED BY <2>1, <2>2, <2>3, <2>4, <2>5, <2>6, <2>7 DEF Next
<1> QED BY <1>1, <1>2, PTL DEF Spec

-----------------------------------------------------------------------------
\* The file only grows.
Extends(s, t) == Len(s) <= Len(t) /\ \A i \in 1 .. Len(s) : t[i] = s[i]

\* Every operation on the log leaves the file as it is or appends to it.
LEMMA FileGrows == TypeOK /\ [Next]_vars => Extends(file, file')
<1> SUFFICES ASSUME TypeOK, [Next]_vars PROVE Extends(file, file')
  OBVIOUS
<1> USE DEF TypeOK
<1>0. Len(file) \in Nat
  OBVIOUS
<1>1. ASSUME file' = file PROVE Extends(file, file')
  BY <1>0, <1>1 DEF Extends
<1>2. ASSUME NEW t \in Seq(Entry), file' = file \o t PROVE Extends(file, file')
  BY <1>2 DEF Extends
<1>3. ASSUME NEW w \in Writers, file' = Append(file \o buffer[w], NewEntry(w))
      PROVE  Extends(file, file')
  <2>1. NewEntry(w) \in Entry /\ file \o buffer[w] \in Seq(Entry)
    BY DEF NewEntry, Entry
  <2> QED BY <1>3, <2>1 DEF Extends
<1>4. ASSUME NEW w \in Writers, AppendOk(w) \/ SyncFails(w) PROVE Extends(file, file')
  BY <1>3, <1>4 DEF AppendOk, SyncFails
<1>5. ASSUME NEW w \in Writers, Close(w) PROVE Extends(file, file')
  BY <1>2, <1>5 DEF Close
<1>6. ASSUME NEW w \in Writers, Open(w) \/ FlushFails(w) PROVE Extends(file, file')
  BY <1>1, <1>6 DEF Open, FlushFails
<1>7. CASE Crash \/ UNCHANGED vars
  BY <1>1, <1>7 DEF Crash, vars
<1> QED BY <1>4, <1>5, <1>6, <1>7 DEF Next

\* Whatever fails and however many sessions write side by side, what append()
\* returned Ok for stays in the file.
THEOREM AcknowledgedKept == Spec => []AckedIsKept
<1>1. Init => AckedIsKept
  BY DEF Init, AckedIsKept
<1>2. TypeOK /\ AckedIsKept /\ [Next]_vars => AckedIsKept'
  <2> SUFFICES ASSUME TypeOK, AckedIsKept, [Next]_vars, NEW e \in acked'
               PROVE  \E i \in 1 .. Len(file') : file'[i] = e
    BY DEF AckedIsKept
  <2>0. Extends(file, file') /\ Len(file) \in Nat
    BY FileGrows DEF TypeOK
  <2>1. CASE e \in acked
    <3>1. PICK i \in 1 .. Len(file) : file[i] = e
      BY <2>1 DEF AckedIsKept
    <3>2. i \in 1 .. Len(file') /\ file'[i] = e
      BY <2>0, <3>1 DEF Extends, TypeOK
    <3> QED BY <3>2
  <2>2. CASE e \notin acked
    <3>1. PICK w \in Writers : AppendOk(w)
      BY <2>2 DEF Next, Open, FlushFails, SyncFails, Close, Crash, vars
    <3>2. e = NewEntry(w) /\ file' = Append(file \o buffer[w], NewEntry(w))
      BY <2>2, <3>1 DEF AppendOk
    <3>3. NewEntry(w) \in Entry /\ file \o buffer[w] \in Seq(Entry)
      BY DEF TypeOK, NewEntry, Entry
    <3>4. Len(file') \in 1 .. Len(file') /\ file'[Len(file')] = e
      BY <3>2, <3>3
    <3> QED BY <3>4
  <2> QED BY <2>1, <2>2
<1> QED BY <1>1, <1>2, AuditTypeCorrect, PTL DEF Spec

\* A log that does not verify is never written so that it verifies again:
\* replay_chain reports tampering or damage for good.
THEOREM BrokenForGood == Spec => BrokenStaysBroken
<1>1. ASSUME TypeOK, TypeOK', Extends(file, file'), ReplayChain(file') PROVE ReplayChain(file)
  <2> SUFFICES ASSUME NEW i \in 1 .. Len(file)
               PROVE  /\ file[i].seq = i - 1
                      /\ file[i].prev_hash = IF i = 1 THEN 0 ELSE file[i - 1].hash
    BY DEF ReplayChain
  <2>1. Len(file) \in Nat /\ Len(file') \in Nat
    BY <1>1 DEF TypeOK
  <2>2. i \in 1 .. Len(file') /\ file'[i] = file[i]
    BY <1>1, <2>1 DEF Extends
  <2>3. i # 1 => file'[i - 1] = file[i - 1]
    BY <1>1, <2>1 DEF Extends
  <2> QED BY <1>1, <2>2, <2>3 DEF ReplayChain
<1>2. TypeOK /\ TypeOK' /\ [Next]_vars => [~ReplayChain(file) => ~ReplayChain(file')]_vars
  BY <1>1, FileGrows
<1> QED BY <1>2, AuditTypeCorrect, PTL DEF Spec, BrokenStaysBroken

-----------------------------------------------------------------------------
\* Every acknowledged entry is at its number; the log verifies.
Durable == \A e \in acked : e.seq < Len(file) /\ file[e.seq + 1] = e
Verified == ReplayChain(file)

\* What makes the chain inductive: the open instance agrees with the file.
Agrees ==
  /\ \A w \in Writers : buffer[w] = <<>>
  /\ \A v, w \in Writers : isOpen[v] /\ isOpen[w] => v = w
  /\ \A w \in Writers : isOpen[w] =>
       next_seq[w] = Len(file) /\ last_hash[w] = LastHash(file)
  /\ Verified
  /\ Durable

InStep == trouble = "none" => Agrees

\* A log nobody has opened is in step.
LEMMA InStepInit == Init => InStep
  BY DEF Init, InStep, Agrees, Verified, ReplayChain, Durable

\* Opening, appending, closing and crashing keep instance and file in step.
LEMMA InStepNext == TypeOK /\ InStep /\ [Next]_vars => InStep'
<1> SUFFICES ASSUME TypeOK, InStep, [Next]_vars, trouble' = "none" PROVE Agrees'
  BY DEF InStep
<1>a. trouble = "none"
  BY DEF Next, Open, AppendOk, FlushFails, SyncFails, Close, Crash, vars
<1>b. Agrees
  BY <1>a DEF InStep
<1>0. Len(file) \in Nat
  BY DEF TypeOK
<1>1. ASSUME NEW w \in Writers, Open(w) PROVE Agrees'
  <2>4. \A v \in Writers : ~isOpen[v]
    BY <1>1 DEF Open
  <2>5. /\ isOpen' = [isOpen EXCEPT ![w] = TRUE]
        /\ next_seq' = [next_seq EXCEPT ![w] = Len(file)]
        /\ last_hash' = [last_hash EXCEPT ![w] = LastHash(file)]
        /\ UNCHANGED <<file, appends, buffer, acked>>
    BY <1>1 DEF Open, Recover
  <2>6. \A v \in Writers : isOpen'[v] => v = w
    BY <2>4, <2>5 DEF TypeOK
  <2>7. next_seq'[w] = Len(file') /\ last_hash'[w] = LastHash(file')
    BY <2>5 DEF TypeOK, LastHash
  <2>8. Verified' /\ Durable'
    BY <1>b, <2>5 DEF Agrees, Verified, ReplayChain, Durable
  <2> QED BY <1>b, <2>5, <2>6, <2>7, <2>8 DEF Agrees
<1>2. ASSUME NEW w \in Writers, AppendOk(w) PROVE Agrees'
  <2> DEFINE e == NewEntry(w)
  <2>1. /\ isOpen[w] /\ isOpen' = isOpen
        /\ buffer' = [buffer EXCEPT ![w] = <<>>]
        /\ last_hash' = [last_hash EXCEPT ![w] = appends + 1]
        /\ next_seq' = [next_seq EXCEPT ![w] = @ + 1]
        /\ acked' = acked \cup {e}
    BY <1>2 DEF AppendOk
  <2>2. e \in Entry
    BY DEF TypeOK, NewEntry, Entry
  <2>3. e.seq = Len(file) /\ e.prev_hash = LastHash(file) /\ e.hash = appends + 1
    BY <1>b, <2>1 DEF NewEntry, Agrees
  <2>4. file' = Append(file, e)
    <3>1. file' = Append(file \o buffer[w], e) /\ buffer[w] = <<>>
      BY <1>b, <1>2 DEF AppendOk, Agrees
    <3>2. file \o <<>> = file
      BY DEF TypeOK
    <3> QED BY <3>1, <3>2
  <2>5. /\ Len(file') = Len(file) + 1
        /\ file'[Len(file) + 1] = e
        /\ \A i \in 1 .. Len(file) : file'[i] = file[i]
    BY <2>2, <2>4 DEF TypeOK
  <2>6. Verified'
    <3> SUFFICES ASSUME NEW i \in 1 .. Len(file')
                 PROVE  /\ file'[i].seq = i - 1
                        /\ file'[i].prev_hash = IF i = 1 THEN 0 ELSE file'[i - 1].hash
      BY DEF Verified, ReplayChain
    <3>1. CASE i \in 1 .. Len(file)
      <4>1. /\ file[i].seq = i - 1
            /\ file[i].prev_hash = IF i = 1 THEN 0 ELSE file[i - 1].hash
        BY <1>b, <3>1 DEF Agrees, Verified, ReplayChain
      <4>2. file'[i] = file[i] /\ (i # 1 => file'[i - 1] = file[i - 1])
        BY <1>0, <2>5, <3>1
      <4> QED BY <4>1, <4>2
    <3>2. CASE i = Len(file) + 1
      <4>1. LastHash(file) = IF i = 1 THEN 0 ELSE file[i - 1].hash
        BY <1>0, <3>2 DEF LastHash, TypeOK
      <4>2. i # 1 => file'[i - 1] = file[i - 1]
        BY <1>0, <2>5, <3>2
      <4> QED BY <1>0, <2>3, <2>5, <3>2, <4>1, <4>2
    <3> QED BY <1>0, <2>5, <3>1, <3>2
  <2>7. Durable'
    <3> SUFFICES ASSUME NEW a \in acked' PROVE a.seq < Len(file') /\ file'[a.seq + 1] = a
      BY DEF Durable
    <3>1. CASE a \in acked
      <4>1. a.seq \in Nat /\ a.seq < Len(file) /\ file[a.seq + 1] = a
        BY <1>b, <3>1 DEF Agrees, Durable, TypeOK, Entry
      <4> QED BY <1>0, <2>5, <4>1
    <3>2. CASE a = e
      BY <1>0, <2>3, <2>5, <3>2
    <3> QED BY <2>1, <3>1, <3>2
  <2>8. next_seq'[w] = Len(file') /\ last_hash'[w] = LastHash(file')
    <3>1. next_seq[w] = Len(file)
      BY <1>b, <2>1 DEF Agrees
    <3>2. file' # <<>>
      BY <1>0, <2>2, <2>4 DEF TypeOK
    <3> QED BY <1>0, <2>1, <2>3, <2>5, <3>1, <3>2 DEF TypeOK, LastHash
  <2>9. \A v \in Writers : buffer'[v] = <<>>
    BY <1>b, <2>1 DEF TypeOK, Agrees
  <2>10. \A v \in Writers : isOpen'[v] => v = w
    BY <1>b, <2>1 DEF Agrees
  <2> QED BY <1>b, <2>6, <2>7, <2>8, <2>9, <2>10 DEF Agrees
<1>3. ASSUME NEW w \in Writers, FlushFails(w) \/ SyncFails(w) PROVE Agrees'
  BY <1>3 DEF FlushFails, SyncFails
<1>4. ASSUME NEW w \in Writers, Close(w) PROVE Agrees'
  <2>1. file' = file
    <3>1. file' = file \o buffer[w] /\ buffer[w] = <<>>
      BY <1>b, <1>4 DEF Close, Agrees
    <3>2. file \o <<>> = file
      BY DEF TypeOK
    <3> QED BY <3>1, <3>2
  <2>2. /\ isOpen' = [isOpen EXCEPT ![w] = FALSE]
        /\ buffer' = [buffer EXCEPT ![w] = <<>>]
        /\ last_hash' = [last_hash EXCEPT ![w] = 0]
        /\ next_seq' = [next_seq EXCEPT ![w] = 0]
        /\ UNCHANGED <<appends, acked>>
    BY <1>4 DEF Close
  <2>3. \A v \in Writers : isOpen'[v] =>
          isOpen[v] /\ last_hash'[v] = last_hash[v] /\ next_seq'[v] = next_seq[v]
    BY <2>2 DEF TypeOK
  <2>4. \A v \in Writers : buffer'[v] = <<>>
    BY <1>b, <2>2 DEF TypeOK, Agrees
  <2>5. Verified' /\ Durable'
    BY <1>b, <2>1, <2>2 DEF Agrees, Verified, ReplayChain, Durable
  <2> QED BY <1>b, <2>1, <2>2, <2>3, <2>4, <2>5 DEF Agrees, LastHash
<1>5. CASE Crash
  <2>1. \A v \in Writers : ~isOpen'[v] /\ buffer'[v] = <<>>
    BY <1>5 DEF Crash
  <2>2. Verified' /\ Durable'
    BY <1>b, <1>5 DEF Crash, Agrees, Verified, ReplayChain, Durable
  <2> QED BY <1>b, <2>1, <2>2 DEF Agrees
<1>6. CASE UNCHANGED vars
  BY <1>b, <1>6 DEF vars, Agrees, Verified, ReplayChain, Durable, LastHash
<1> QED BY <1>1, <1>2, <1>3, <1>4, <1>5, <1>6 DEF Next

\* So they are in step at every moment.
LEMMA InStepHolds == Spec => []InStep
  BY InStepInit, InStepNext, AuditTypeCorrect, PTL DEF Spec

\* Until an append fails or two sessions overlap, the log verifies at every
\* moment, across restarts and crashes.
THEOREM ChainAlwaysIntact == Spec => []ChainIntact
<1>1. InStep => ChainIntact
  BY DEF InStep, Agrees, Verified, ChainIntact
<1> QED BY <1>1, InStepHolds, PTL

\* Under the same condition every acknowledged entry is in the file at the
\* number append() returned.
THEOREM AcknowledgedDurable == Spec => []AckedIsDurable
<1>1. InStep => AckedIsDurable
  BY DEF InStep, Agrees, Durable, AckedIsDurable
<1> QED BY <1>1, InStepHolds, PTL

-----------------------------------------------------------------------------
(* The gate *)

HIDE AuditAssumption
USE GateAssumption

\* Each handler of the gate does one operation of the log, or none.
LEMMA GateStepOfLog == [GateNext]_allVars => [Next]_vars
<1> SUFFICES ASSUME [GateNext]_allVars PROVE [Next]_vars
  OBVIOUS
<1> SUFFICES ASSUME GateNext PROVE [Next]_vars
  BY DEF allVars, vars
<1>1. CASE Tick
  BY <1>1 DEF Tick
<1>2. ASSUME NEW w \in Writers, NEW t \in Tokens, NEW list \in BOOLEAN, OpenWith(w, t, list) PROVE Next
  BY <1>2 DEF OpenWith, Next
<1>3. ASSUME NEW w \in Writers, EndSession(w) PROVE Next
  BY <1>3 DEF EndSession, Next
<1>4. ASSUME NEW w \in Writers, NEW r \in Requests, Authorize(w, r[1], r[2])
      PROVE  UNCHANGED vars
  BY <1>4 DEF Authorize, AuthorizeDenied, AuthorizeUnasked, AuthorizeDangerous, Begin
<1>5. ASSUME NEW w \in Writers, Confirm(w) \/ Decline(w) \/ RevokeSession(w)
      PROVE  UNCHANGED vars
  BY <1>5 DEF Confirm, Decline, RevokeSession
<1>6. ASSUME NEW w \in Writers, Logged(w) \/ LogFails(w) \/ AuditScreenCapture(w)
      PROVE  Next
  BY <1>6 DEF Logged, LogFails, AuditScreenCapture, Next
<1>7. CASE \E ts \in {<<t>> : t \in Tokens} \cup {KnownTokens} : RevokeTokens(ts)
  BY <1>7 DEF RevokeTokens
<1>8. CASE RevokeAgain \/ RevokeInsert \/ RevokeWritten \/ RevokeFails
  BY <1>8 DEF RevokeAgain, RevokeInsert, RevokeWritten, RevokeFails
<1>9. CASE Restart
  BY <1>9 DEF Restart, Next
<1> QED BY <1>1, <1>2, <1>3, <1>4, <1>5, <1>6, <1>7, <1>8, <1>9 DEF GateNext, OpenSession, OpenWithRevocation

\* Every step of the gate is a step of the audit log or leaves it alone.
THEOREM GateImplementsLog == GateSpec => Spec
<1>1. GateInit => Init
  BY DEF GateInit
<1> QED BY <1>1, GateStepOfLog, PTL DEF GateSpec, Spec

\* The audit log of a gate verifies until an append fails or two sessions
\* overlap, and never loses an entry it acknowledged.
THEOREM GateLogIntact == GateSpec => [](ChainIntact /\ AckedIsKept)
  BY GateImplementsLog, ChainAlwaysIntact, AcknowledgedKept, PTL

-----------------------------------------------------------------------------
(* The revocation list.                                                    *)

\* Memory holds what is on disk; beyond that only what could not be saved
\* and what is just being written, for which nobody was told Ok yet.  What
\* somebody was told Ok for is in memory.
ListInv ==
  /\ saved \subseteq revoked
  /\ writing => todo # <<>> /\ Head(todo) \in revoked /\ Head(todo) \notin told
  /\ revoked \subseteq saved \cup unsaved \cup (IF writing THEN {Head(todo)} ELSE {})
  /\ told \subseteq revoked

\* A call that passed the checks did not begin too late.
TimelyInv == \A w \in Writers : call[w].state \notin {"none", "logDenied"} => ~call[w].late

\* revoke, its failures, its retries and a restart keep memory and disk related.
LEMMA ListStep == ListInv /\ [GateNext]_allVars => ListInv'
<1> SUFFICES ASSUME ListInv, [GateNext]_allVars PROVE ListInv'
  OBVIOUS
<1> USE DEF ListInv
<1>1. ASSUME UNCHANGED listVars PROVE ListInv'
  BY <1>1 DEF listVars
<1>2. CASE UNCHANGED allVars \/ Tick
  BY <1>1, <1>2 DEF allVars, gateVars, listVars, Tick
<1>3. ASSUME NEW w \in Writers, NEW t \in Tokens, NEW list \in BOOLEAN, OpenWith(w, t, list) PROVE ListInv'
  BY <1>1, <1>3 DEF OpenWith
<1>4. ASSUME NEW w \in Writers, NEW r \in Requests, Authorize(w, r[1], r[2]) PROVE ListInv'
  BY <1>1, <1>4 DEF Authorize, AuthorizeDenied, AuthorizeUnasked, AuthorizeDangerous, Begin
<1>5. ASSUME NEW w \in Writers,
             \/ EndSession(w) \/ Confirm(w) \/ Decline(w) \/ Logged(w) \/ LogFails(w)
             \/ AuditScreenCapture(w) \/ RevokeSession(w)
      PROVE  ListInv'
  BY <1>1, <1>5 DEF EndSession, Confirm, Decline, Logged, LogFails, AuditScreenCapture, RevokeSession
<1>6. CASE \E ts \in {<<t>> : t \in Tokens} \cup {KnownTokens} : RevokeTokens(ts)
  <2>1. todo = <<>> /\ UNCHANGED <<revoked, saved, writing, told, unsaved>>
    BY <1>6 DEF RevokeTokens
  <2> QED BY <2>1
<1>7. CASE RevokeAgain
  BY <1>7 DEF RevokeAgain
<1>8. CASE RevokeInsert
  BY <1>8 DEF RevokeInsert
<1>9. CASE RevokeWritten
  BY <1>9 DEF RevokeWritten
<1>10. CASE RevokeFails
  BY <1>10 DEF RevokeFails
<1>11. CASE Restart
  BY <1>11 DEF Restart
<1> QED BY <1>2, <1>3, <1>4, <1>5, <1>6, <1>7, <1>8, <1>9, <1>10, <1>11 DEF GateNext, OpenSession, OpenWithRevocation

-----------------------------------------------------------------------------
\* The types are kept by every step of the gate.
LEMMA GateTypeStep == TypeOK /\ GateTypeOK /\ ListInv /\ [GateNext]_allVars => GateTypeOK'
<1> SUFFICES ASSUME TypeOK, GateTypeOK, ListInv, [GateNext]_allVars PROVE GateTypeOK'
  OBVIOUS
<1>a. <<>> \in Seq(Tokens)
  OBVIOUS
<1>0. NoCall \in Call
  BY DEF NoCall, Call, CallState, Capability, Normal
<1>1. ASSUME NEW ws \in SUBSET Writers, Fresh(ws)
      PROVE  /\ locally_revoked' \in [Writers -> BOOLEAN]
             /\ auto_approve' \in [Writers -> Seq(Grant)]
             /\ \A w \in Writers : Len(auto_approve'[w]) <= MAX_AUTO_APPROVE_ENTRIES
             /\ call' \in [Writers -> Call]
             /\ consents' \in [Writers -> SUBSET Consent]
  BY <1>0, <1>1 DEF Fresh, GateTypeOK
<1>2. CASE UNCHANGED allVars
  BY <1>2 DEF allVars, gateVars, GateTypeOK
<1>3. CASE Tick
  BY <1>3 DEF Tick, sessionVars, listVars, GateTypeOK
<1>4. ASSUME NEW w \in Writers, NEW t \in Tokens, NEW list \in BOOLEAN, OpenWith(w, t, list) PROVE GateTypeOK'
  BY <1>1, <1>4 DEF OpenWith, listVars, GateTypeOK
<1>5. ASSUME NEW w \in Writers, EndSession(w) PROVE GateTypeOK'
  BY <1>1, <1>5 DEF EndSession, listVars, GateTypeOK
<1>6. ASSUME NEW w \in Writers, NEW r \in Requests, Authorize(w, r[1], r[2]) PROVE GateTypeOK'
  <2>1. r[1] \in Capability /\ r[2] \in Scopes
    OBVIOUS
  <2>2. ASSUME NEW st \in CallState, Begin(w, r[1], r[2], st)
        PROVE  /\ call' \in [Writers -> Call]
               /\ UNCHANGED <<clock, token, revocation, locally_revoked, consents, listVars>>
    <3>1. TooLate(w) \in BOOLEAN
      BY Zenon DEF TooLate
    <3>2. [state |-> st, cap |-> r[1], scope |-> r[2], at |-> clock, late |-> TooLate(w), n |-> 0] \in Call
      BY <2>1, <3>1 DEF GateTypeOK, Call
    <3> QED BY <2>2, <3>2 DEF Begin, GateTypeOK
  <2>3. CASE AuthorizeDenied(w, r[1], r[2])
    BY <2>2, <2>3 DEF AuthorizeDenied, CallState, GateTypeOK, listVars
  <2>4. CASE AuthorizeUnasked(w, r[1], r[2])
    BY <2>2, <2>4 DEF AuthorizeUnasked, CallState, GateTypeOK, listVars
  <2>5. CASE AuthorizeDangerous(w, r[1], r[2])
    <3>1. /\ auto_approve' \in [Writers -> Seq(Grant)]
          /\ \A v \in Writers : Len(auto_approve'[v]) <= MAX_AUTO_APPROVE_ENTRIES
      BY <2>5 DEF AuthorizeDangerous, DropExpired, GateTypeOK
    <3>2. call' \in [Writers -> Call] /\ UNCHANGED <<clock, token, revocation, locally_revoked, consents, listVars>>
      BY <2>2, <2>5 DEF AuthorizeDangerous, CallState
    <3> QED BY <3>1, <3>2 DEF GateTypeOK, listVars
  <2> QED BY <1>6, <2>3, <2>4, <2>5 DEF Authorize
<1>7. ASSUME NEW w \in Writers, Confirm(w) PROVE GateTypeOK'
  <2>1. /\ auto_approve' \in [Writers -> Seq(Grant)]
        /\ \A v \in Writers : Len(auto_approve'[v]) <= MAX_AUTO_APPROVE_ENTRIES
    <3>1. [cap |-> call[w].cap, scope |-> call[w].scope, until |-> clock + GRANT_SECS] \in Grant
      BY DEF GateTypeOK, Call, Grant
    <3>2. auto_approve[w] \in Seq(Grant) /\ Len(auto_approve[w]) <= MAX_AUTO_APPROVE_ENTRIES
      BY DEF GateTypeOK
    <3> QED BY <1>7, <3>1, <3>2 DEF Confirm, AddAutoApprove, GateTypeOK
  <2>2. consents' \in [Writers -> SUBSET Consent]
    BY <1>7 DEF Confirm, GateTypeOK, Call, Consent
  <2>3. call' \in [Writers -> Call]
    <3>1. call[w] \in Call /\ clock \in Nat
      BY DEF GateTypeOK
    <3>2. [call[w] EXCEPT !.state = "log", !.at = clock] \in Call
      BY <3>1 DEF Call, CallState
    <3> QED BY <1>7, <3>2 DEF Confirm, GateTypeOK
  <2> QED BY <1>7, <2>1, <2>2, <2>3 DEF Confirm, GateTypeOK, listVars
<1>8. ASSUME NEW w \in Writers, Decline(w) PROVE GateTypeOK'
  <2>1. call' \in [Writers -> Call]
    <3>1. call[w] \in Call /\ clock \in Nat
      BY DEF GateTypeOK
    <3>2. [call[w] EXCEPT !.state = "logDenied", !.at = clock] \in Call
      BY <3>1 DEF Call, CallState
    <3> QED BY <1>8, <3>2 DEF Decline, GateTypeOK
  <2> QED BY <1>8, <2>1 DEF Decline, GateTypeOK, listVars
<1>9. ASSUME NEW w \in Writers, Logged(w) \/ LogFails(w) PROVE GateTypeOK'
  <2>1. call' \in [Writers -> Call]
    <3>1. call[w] \in Call /\ appends + 1 \in Nat
      BY DEF TypeOK, GateTypeOK
    <3>2. [call[w] EXCEPT !.state = "allowed", !.n = appends + 1] \in Call
      BY <3>1 DEF Call, CallState
    <3> QED BY <1>0, <1>9, <3>2 DEF Logged, LogFails, GateTypeOK
  <2> QED BY <1>9, <2>1 DEF Logged, LogFails, GateTypeOK, listVars
<1>10. ASSUME NEW w \in Writers, AuditScreenCapture(w) PROVE GateTypeOK'
  <2>1. call' \in [Writers -> Call]
    <3>1. [call[w] EXCEPT !.state = "captured"] \in Call
      BY ZenonT(60) DEF GateTypeOK, Call, CallState
    <3> QED BY <1>10, <3>1 DEF AuditScreenCapture, GateTypeOK
  <2> QED BY <1>10, <2>1 DEF AuditScreenCapture, GateTypeOK, listVars
<1>11. ASSUME NEW w \in Writers, RevokeSession(w) PROVE GateTypeOK'
  BY <1>11 DEF RevokeSession, GateTypeOK, listVars
<1>12. CASE \E ts \in {<<t>> : t \in Tokens} \cup {KnownTokens} : RevokeTokens(ts)
  <2>0. PICK ts \in {<<t>> : t \in Tokens} \cup {KnownTokens} : RevokeTokens(ts)
    BY <1>12
  <2>1. todo' \in Seq(Tokens)
    <3>1. KnownTokens \in Seq(Tokens) /\ \A t \in Tokens : <<t>> \in Seq(Tokens)
      OBVIOUS
    <3>2. ts \in Seq(Tokens)
      BY <3>1
    <3> QED BY <2>0, <3>2 DEF RevokeTokens
  <2> QED BY <1>12, <2>1 DEF RevokeTokens, GateTypeOK, sessionVars
<1>13. ASSUME todo # <<>> PROVE Head(todo) \in Tokens /\ Tail(todo) \in Seq(Tokens)
  BY <1>13 DEF GateTypeOK
<1>14. CASE RevokeAgain \/ RevokeInsert
  BY <1>13, <1>14 DEF RevokeAgain, RevokeInsert, GateTypeOK, sessionVars
<1>15. CASE RevokeWritten \/ RevokeFails
  <2>1. todo # <<>>
    BY <1>15 DEF RevokeWritten, RevokeFails, ListInv
  <2>2. saved' \subseteq Tokens /\ unsaved' \subseteq Tokens /\ told' \subseteq Tokens
    BY <1>13, <1>15, <2>1 DEF RevokeWritten, RevokeFails, GateTypeOK
  <2>3. (todo' = Tail(todo) \/ todo' = <<>>) /\ UNCHANGED <<clock, sessionVars, revoked>>
    BY <1>15 DEF RevokeWritten, RevokeFails
  <2>4. todo' \in Seq(Tokens)
    BY <1>13, <2>1, <2>3, <1>a
  <2>5. writing' \in BOOLEAN
    BY <1>15, Zenon DEF RevokeWritten, RevokeFails
  <2> QED BY <2>2, <2>3, <2>4, <2>5 DEF GateTypeOK, sessionVars
<1>16. CASE Restart
  <2>1. saved' \subseteq Tokens
    BY <1>13, <1>16 DEF Restart, ListInv, GateTypeOK
  <2>2. todo' \in Seq(Tokens) /\ revoked' \subseteq Tokens
    BY <1>16, <1>a, <2>1 DEF Restart
  <2>4. writing' \in BOOLEAN
    BY <1>16, Zenon DEF Restart
  <2>3. Fresh(Writers) /\ UNCHANGED <<clock, token, revocation>>
    BY <1>16 DEF Restart
  <2>5. told' \subseteq Tokens /\ unsaved' \subseteq Tokens
    BY <1>16 DEF Restart, GateTypeOK
  <2> QED BY <1>1, <2>1, <2>2, <2>3, <2>4, <2>5 DEF GateTypeOK
<1> QED BY <1>2, <1>3, <1>4, <1>5, <1>6, <1>7, <1>8, <1>9, <1>10, <1>11, <1>12, <1>14, <1>15,
           <1>16 DEF GateNext, OpenSession, OpenWithRevocation

\* Types and the list's invariant hold from the start.
LEMMA GateBase == GateSpec => [](TypeOK /\ GateTypeOK /\ ListInv)
<1>1. GateInit => GateTypeOK /\ ListInv
  <2> SUFFICES ASSUME GateInit PROVE GateTypeOK /\ ListInv
    OBVIOUS
  <2>1. NoCall \in Call /\ (CHOOSE t \in Tokens : TRUE) \in Tokens
    BY DEF NoCall, Call, CallState, Capability, Normal
  <2>2. /\ auto_approve \in [Writers -> Seq(Grant)]
        /\ \A w \in Writers : Len(auto_approve[w]) <= MAX_AUTO_APPROVE_ENTRIES
        /\ todo \in Seq(Tokens)
    <3>1. <<>> \in Seq(Grant) /\ <<>> \in Seq(Tokens) /\ Len(<<>>) = 0
      OBVIOUS
    <3>2. todo = <<>> /\ auto_approve = [w \in Writers |-> <<>>]
      BY DEF GateInit
    <3> QED BY <3>1, <3>2
  <2>4. writing \in BOOLEAN
    BY Zenon DEF GateInit
  <2>3. ListInv
    BY DEF GateInit, ListInv
  <2> QED BY <2>1, <2>2, <2>3, <2>4 DEF GateInit, GateTypeOK
<1> QED BY <1>1, GateTypeStep, ListStep, GateImplementsLog, AuditTypeCorrect, PTL DEF GateSpec

\* The variables of the gate keep their types, and no session remembers more
\* than MAX_AUTO_APPROVE_ENTRIES confirmations.
THEOREM GateTypeCorrect == GateSpec => []GateTypeOK
  BY GateBase, PTL

-----------------------------------------------------------------------------
\* No call is let through that began after its session was revoked, after its
\* token's time was up or, in a session with the revocation list, after its
\* token was revoked, also across a restart.
THEOREM LateAlwaysRefused == GateSpec => []LateIsRefused
<1>1. GateInit => TimelyInv
  BY DEF GateInit, TimelyInv, NoCall
<1>2. TypeOK /\ GateTypeOK /\ ListInv /\ TimelyInv /\ [GateNext]_allVars => TimelyInv'
  <2> SUFFICES ASSUME TypeOK, GateTypeOK, ListInv, TimelyInv, [GateNext]_allVars PROVE TimelyInv'
    OBVIOUS
  <2>1. ASSUME UNCHANGED call PROVE TimelyInv'
    BY <2>1 DEF TimelyInv
  <2>2. ASSUME NEW ws \in SUBSET Writers, Fresh(ws) PROVE TimelyInv'
    BY <2>2 DEF Fresh, TimelyInv, NoCall
  <2>3. ASSUME NEW w \in Writers, NEW r \in Requests, Authorize(w, r[1], r[2]) PROVE TimelyInv'
    <3>1. CASE AuthorizeDenied(w, r[1], r[2])
      BY <3>1 DEF AuthorizeDenied, Begin, TimelyInv, GateTypeOK
    <3>2. CASE ~Refused(w, r[1]) /\ \E st \in CallState : Begin(w, r[1], r[2], st)
      <4>0. Exp(token[w]) \in Nat /\ clock \in Nat
        BY DEF GateTypeOK, Exp
      <4>1. ~TooLate(w)
        BY <3>2, <4>0 DEF Refused, ListInv, TooLate, SecondsRemaining
      <4>2. call'[w].late = FALSE /\ \A v \in Writers : v # w => call'[v] = call[v]
        BY <3>2, <4>1 DEF Begin, GateTypeOK
      <4> QED BY <4>2 DEF TimelyInv
    <3> QED BY <2>3, <3>1, <3>2
            DEF Authorize, AuthorizeUnasked, AuthorizeDangerous, CallState
  <2>4. ASSUME NEW w \in Writers,
               Confirm(w) \/ Decline(w) \/ Logged(w) \/ LogFails(w) \/ AuditScreenCapture(w)
        PROVE  TimelyInv'
    <3>1. call[w].state \in {"confirm", "log", "logDenied", "allowed"}
      BY <2>4 DEF Confirm, Decline, Logged, LogFails, AuditScreenCapture
    <3>2. \A v \in Writers : v # w => call'[v] = call[v]
      BY <2>4 DEF Confirm, Decline, Logged, LogFails, AuditScreenCapture, GateTypeOK
    <3>3. \/ call'[w].state \in {"none", "logDenied"}
          \/ call'[w].late = call[w].late /\ call[w].state # "logDenied"
      <4>1. call[w] \in Call /\ call \in [Writers -> Call]
        BY DEF GateTypeOK
      <4>2. CASE Confirm(w)
        BY <4>1, <4>2 DEF Confirm, Call
      <4>3. CASE Decline(w)
        BY <4>1, <4>3 DEF Decline, Call
      <4>4. CASE Logged(w)
        BY <4>1, <4>4 DEF Logged, Call, NoCall
      <4>5. CASE LogFails(w)
        BY <4>1, <4>5 DEF LogFails, NoCall
      <4>6. CASE AuditScreenCapture(w)
        BY <4>1, <4>6 DEF AuditScreenCapture, Call
      <4> QED BY <2>4, <4>2, <4>3, <4>4, <4>5, <4>6
    <3> QED BY <3>1, <3>2, <3>3 DEF TimelyInv
  <2>5. CASE UNCHANGED allVars \/ Tick
    BY <2>1, <2>5 DEF allVars, gateVars, Tick, sessionVars
  <2>6. ASSUME NEW w \in Writers, NEW t \in Tokens, NEW list \in BOOLEAN, OpenWith(w, t, list) PROVE TimelyInv'
    BY <2>2, <2>6 DEF OpenWith
  <2>7. ASSUME NEW w \in Writers, EndSession(w) \/ RevokeSession(w) PROVE TimelyInv'
    BY <2>1, <2>2, <2>7 DEF EndSession, RevokeSession
  <2>8. CASE \/ \E ts \in {<<t>> : t \in Tokens} \cup {KnownTokens} : RevokeTokens(ts)
             \/ RevokeAgain \/ RevokeInsert \/ RevokeWritten \/ RevokeFails
    BY <2>1, <2>8 DEF RevokeTokens, RevokeAgain, RevokeInsert, RevokeWritten, RevokeFails, sessionVars
  <2>9. CASE Restart
    BY <2>2, <2>9 DEF Restart
  <2> QED BY <2>3, <2>4, <2>5, <2>6, <2>7, <2>8, <2>9 DEF GateNext, OpenSession, OpenWithRevocation
<1>3. TimelyInv => LateIsRefused
  BY DEF TimelyInv, LateIsRefused, Allowed
<1> QED BY <1>1, <1>2, <1>3, GateBase, PTL DEF GateSpec

-----------------------------------------------------------------------------
\* What the gate lets through has its entry in the log file, whatever happens
\* to the log afterwards.
THEOREM AllowedAlwaysOnRecord == GateSpec => []AllowedIsOnRecord
<1>1. GateInit => AllowedIsOnRecord
  BY DEF GateInit, AllowedIsOnRecord, Allowed, NoCall
<1>2. TypeOK /\ GateTypeOK /\ AllowedIsOnRecord /\ [GateNext]_allVars => AllowedIsOnRecord'
  <2> SUFFICES ASSUME TypeOK, GateTypeOK, AllowedIsOnRecord, [GateNext]_allVars,
                      NEW v \in Writers, Allowed(v)'
               PROVE  \E i \in 1 .. Len(file') : file'[i].hash = call'[v].n
    BY DEF AllowedIsOnRecord
  <2>0. Extends(file, file') /\ Len(file) \in Nat
    BY GateStepOfLog, FileGrows DEF TypeOK
  <2>1. CASE Allowed(v) /\ call'[v].n = call[v].n
    <3>1. PICK i \in 1 .. Len(file) : file[i].hash = call[v].n
      BY <2>1 DEF AllowedIsOnRecord
    <3>2. i \in 1 .. Len(file') /\ file'[i] = file[i]
      BY <2>0, <3>1 DEF Extends
    <3> QED BY <2>1, <3>1, <3>2
  <2>2. CASE Logged(v)
    <3>1. NewEntry(v) \in Entry /\ file \o buffer[v] \in Seq(Entry)
      BY DEF TypeOK, NewEntry, Entry
    <3>2. file' = Append(file \o buffer[v], NewEntry(v))
      BY <2>2 DEF Logged, AppendOk
    <3>3. Len(file') \in 1 .. Len(file') /\ file'[Len(file')] = NewEntry(v)
      BY <3>1, <3>2
    <3>4. call'[v].n = appends + 1
      BY <2>2 DEF Logged, Allowed, GateTypeOK, Call, NoCall
    <3> QED BY <3>3, <3>4 DEF NewEntry
  <2>3. ASSUME UNCHANGED call PROVE Allowed(v) /\ call'[v].n = call[v].n
    BY <2>3 DEF Allowed
  <2>4. ASSUME NEW ws \in SUBSET Writers, Fresh(ws) PROVE Allowed(v) /\ call'[v].n = call[v].n
    BY <2>4 DEF Fresh, Allowed, NoCall
  <2>5. ASSUME NEW w \in Writers, NEW r \in Requests, Authorize(w, r[1], r[2])
        PROVE  Allowed(v) /\ call'[v].n = call[v].n
    <3>1. call'[w].state \in {"confirm", "log", "logDenied"}
      BY <2>5 DEF Authorize, AuthorizeDenied, AuthorizeUnasked, AuthorizeDangerous, Begin, GateTypeOK
    <3>2. v # w => call'[v] = call[v]
      BY <2>5 DEF Authorize, AuthorizeDenied, AuthorizeUnasked, AuthorizeDangerous, Begin, GateTypeOK
    <3> QED BY <3>1, <3>2 DEF Allowed
  <2>6. ASSUME NEW w \in Writers, Confirm(w) \/ Decline(w) \/ LogFails(w)
        PROVE  Allowed(v) /\ call'[v].n = call[v].n
    <3>1. call'[w].state \in {"log", "logDenied", "none"}
      BY SMTT(30), <2>6 DEF Confirm, Decline, LogFails, GateTypeOK, Call, NoCall
    <3>2. v # w => call'[v] = call[v]
      BY <2>6 DEF Confirm, Decline, LogFails, GateTypeOK
    <3> QED BY <3>1, <3>2 DEF Allowed
  <2>7. ASSUME NEW w \in Writers, Logged(w), w # v PROVE Allowed(v) /\ call'[v].n = call[v].n
    BY <2>7 DEF Logged, Allowed, GateTypeOK
  <2>8. ASSUME NEW w \in Writers, AuditScreenCapture(w) PROVE Allowed(v) /\ call'[v].n = call[v].n
    BY <2>8 DEF AuditScreenCapture, Allowed, GateTypeOK, Call
  <2>9. CASE UNCHANGED allVars \/ Tick
    BY <2>1, <2>3, <2>9 DEF allVars, gateVars, Tick, sessionVars
  <2>10. ASSUME NEW w \in Writers,
                EndSession(w) \/ RevokeSession(w) \/ \E t \in Tokens, list \in BOOLEAN : OpenWith(w, t, list)
         PROVE  Allowed(v) /\ call'[v].n = call[v].n
    BY <2>3, <2>4, <2>10 DEF OpenWith, EndSession, RevokeSession
  <2>11. CASE \/ \E ts \in {<<t>> : t \in Tokens} \cup {KnownTokens} : RevokeTokens(ts)
              \/ RevokeAgain \/ RevokeInsert \/ RevokeWritten \/ RevokeFails
    BY <2>1, <2>3, <2>11
       DEF RevokeTokens, RevokeAgain, RevokeInsert, RevokeWritten, RevokeFails, sessionVars
  <2>12. CASE Restart
    BY <2>1, <2>4, <2>12 DEF Restart
  <2> QED BY <2>1, <2>2, <2>5, <2>6, <2>7, <2>8, <2>9, <2>10, <2>11, <2>12 DEF GateNext, OpenSession, OpenWithRevocation
<1> QED BY <1>1, <1>2, GateBase, PTL DEF GateSpec

-----------------------------------------------------------------------------
\* The consent c, given by now, is for what g remembers, and lasts as long.
Covers(c, g, now) ==
  c.cap = g.cap /\ c.scope = g.scope /\ c.at <= now /\ g.until <= c.at + GRANT_SECS

\* What a session remembers, the user said: every remembered confirmation has
\* its consent, which lasts at least as long.
GrantsInv ==
  \A w \in Writers : \A i \in 1 .. Len(auto_approve[w]) :
    \E c \in consents[w] : Covers(c, auto_approve[w][i], clock)

\* A dangerous call that was decided positively has its consent.
DecidedInv ==
  \A w \in Writers :
    call[w].state \in {"log", "allowed", "captured"} /\ call[w].cap \in Dangerous =>
      \E c \in consents[w] :
        /\ c.cap = call[w].cap /\ c.scope = call[w].scope
        /\ c.at <= call[w].at /\ call[w].at < c.at + GRANT_SECS

ConsentInv == GrantsInv /\ DecidedInv

\* The steps that leave the remembered confirmations and the consents alone.
LEMMA GrantsKept ==
  ASSUME GateTypeOK, GrantsInv, clock' \in Nat, clock <= clock', UNCHANGED <<auto_approve, consents>>
  PROVE  GrantsInv'
<1> SUFFICES ASSUME NEW w \in Writers, NEW i \in 1 .. Len(auto_approve[w])
             PROVE  \E c \in consents[w] : Covers(c, auto_approve[w][i], clock')
  BY DEF GrantsInv
<1>1. PICK c \in consents[w] : Covers(c, auto_approve[w][i], clock)
  BY DEF GrantsInv
<1>2. c.at \in Nat /\ clock \in Nat
  BY DEF GateTypeOK, Consent
<1> QED BY <1>1, <1>2 DEF Covers

\* Prompts, remembered confirmations and the clock keep every grant backed by a consent.
LEMMA ConsentStep == GateTypeOK /\ ConsentInv /\ [GateNext]_allVars => ConsentInv'
<1> SUFFICES ASSUME GateTypeOK, GrantsInv, DecidedInv, [GateNext]_allVars
             PROVE  GrantsInv' /\ DecidedInv'
  BY DEF ConsentInv
<1>0. clock \in Nat
  BY DEF GateTypeOK
<1>1. ASSUME UNCHANGED <<clock, auto_approve, consents>> PROVE GrantsInv'
  BY <1>0, <1>1, GrantsKept
<1>2. ASSUME UNCHANGED <<call, consents>> PROVE DecidedInv'
  BY <1>2 DEF DecidedInv
<1>3. ASSUME NEW ws \in SUBSET Writers, Fresh(ws), UNCHANGED clock PROVE GrantsInv' /\ DecidedInv'
  <2>1. ASSUME NEW w \in Writers, w \notin ws
        PROVE  UNCHANGED <<auto_approve[w], call[w], consents[w]>>
    BY <1>3, <2>1 DEF Fresh
  <2>0. NoCall.state = "none"
    BY DEF NoCall
  <2>2. ASSUME NEW w \in ws PROVE auto_approve'[w] = <<>> /\ call'[w].state = "none"
    BY <1>3, <2>0, <2>2 DEF Fresh
  <2>3. GrantsInv'
    <3> SUFFICES ASSUME NEW w \in Writers, NEW i \in 1 .. Len(auto_approve'[w])
                 PROVE  \E c \in consents'[w] : Covers(c, auto_approve'[w][i], clock')
      BY DEF GrantsInv
    <3>1. w \notin ws
      BY <2>2
    <3> QED BY <1>3, <2>1, <3>1 DEF GrantsInv
  <2>4. DecidedInv'
    <3> SUFFICES ASSUME NEW w \in Writers,
                        call'[w].state \in {"log", "allowed", "captured"}, call'[w].cap \in Dangerous
                 PROVE  \E c \in consents'[w] :
                          /\ c.cap = call'[w].cap /\ c.scope = call'[w].scope
                          /\ c.at <= call'[w].at /\ call'[w].at < c.at + GRANT_SECS
      BY DEF DecidedInv
    <3>1. w \notin ws
      BY <2>2
    <3> QED BY <2>1, <3>1 DEF DecidedInv
  <2> QED BY <2>3, <2>4
<1>4. ASSUME NEW w \in Writers, NEW r \in Requests, Authorize(w, r[1], r[2])
      PROVE  GrantsInv' /\ DecidedInv'
  <2>1. /\ UNCHANGED <<clock, consents>>
        /\ \A v \in Writers : v # w => call'[v] = call[v]
        /\ call'[w].cap = r[1] /\ call'[w].scope = r[2] /\ call'[w].at = clock
    BY <1>4 DEF Authorize, AuthorizeDenied, AuthorizeUnasked, AuthorizeDangerous, Begin, GateTypeOK
  <2>2. CASE ~AuthorizeDangerous(w, r[1], r[2])
    <3>1. UNCHANGED auto_approve /\ (call'[w].state = "log" => r[1] \notin Dangerous)
      BY <1>4, <2>2 DEF Authorize, AuthorizeDenied, AuthorizeUnasked, Begin, GateTypeOK
    <3>2. call'[w].state \in {"log", "logDenied"}
      BY <1>4, <2>2 DEF Authorize, AuthorizeDenied, AuthorizeUnasked, Begin, GateTypeOK
    <3> QED BY <1>1, <2>1, <3>1, <3>2 DEF DecidedInv
  <2>3. CASE AuthorizeDangerous(w, r[1], r[2])
    <3>1. PICK k \in 0 .. Len(auto_approve[w]) :
            auto_approve' = [auto_approve EXCEPT ![w] = SubSeq(@, k + 1, Len(@))]
      BY <2>3 DEF AuthorizeDangerous, DropExpired
    <3>2. ASSUME NEW v \in Writers, NEW i \in 1 .. Len(auto_approve'[v])
          PROVE  \E j \in 1 .. Len(auto_approve[v]) : auto_approve'[v][i] = auto_approve[v][j]
      <4>1. auto_approve[v] \in Seq(Grant) /\ auto_approve \in [Writers -> Seq(Grant)]
        BY DEF GateTypeOK
      <4>2. CASE v # w
        BY <3>1, <4>1, <4>2
      <4>3. CASE v = w
        <5>1. auto_approve'[v] = SubSeq(auto_approve[v], k + 1, Len(auto_approve[v]))
          BY <3>1, <4>1, <4>3
        <5>2. Len(auto_approve'[v]) = Len(auto_approve[v]) - k
          BY <4>1, <4>3, <5>1
        <5>3. i + k \in 1 .. Len(auto_approve[v]) /\ auto_approve'[v][i] = auto_approve[v][i + k]
          BY <3>2, <4>1, <4>3, <5>1, <5>2
        <5> QED BY <5>3
      <4> QED BY <4>2, <4>3
    <3>3. GrantsInv'
      <4> SUFFICES ASSUME NEW v \in Writers, NEW i \in 1 .. Len(auto_approve'[v])
                   PROVE  \E c \in consents'[v] : Covers(c, auto_approve'[v][i], clock')
        BY DEF GrantsInv
      <4>1. PICK j \in 1 .. Len(auto_approve[v]) : auto_approve'[v][i] = auto_approve[v][j]
        BY <3>2
      <4> QED BY <2>1, <4>1 DEF GrantsInv
    <3>4. call'[w].state = "log" \/ call'[w].state = "confirm"
      BY <2>3 DEF AuthorizeDangerous, Begin, GateTypeOK
    <3>5. ASSUME call'[w].state = "log"
          PROVE  \E c \in consents[w] : /\ c.cap = r[1] /\ c.scope = r[2]
                                         /\ c.at <= clock /\ clock < c.at + GRANT_SECS
      <4>1. IsAutoApproved(w, r[1], r[2])
        BY <2>3, <3>5 DEF AuthorizeDangerous, Begin, GateTypeOK
      <4>2. PICK i \in 1 .. Len(auto_approve[w]) :
              /\ auto_approve[w][i].cap = r[1] /\ auto_approve[w][i].scope = r[2]
              /\ auto_approve[w][i].until > clock
        BY <4>1 DEF IsAutoApproved, Unexpired
      <4>3. PICK c \in consents[w] : Covers(c, auto_approve[w][i], clock)
        BY DEF GrantsInv
      <4>4. auto_approve[w][i] \in Grant /\ c \in Consent
        BY <4>2, <4>3 DEF GateTypeOK
      <4>5. c.at \in Nat /\ auto_approve[w][i].until \in Nat
        BY <4>4 DEF Consent, Grant
      <4>6. /\ c.cap = r[1] /\ c.scope = r[2]
            /\ c.at <= clock /\ auto_approve[w][i].until <= c.at + GRANT_SECS
        BY <4>2, <4>3 DEF Covers
      <4>7. clock < c.at + GRANT_SECS
        BY SMTT(30), <1>0, <4>2, <4>5, <4>6
      <4> QED BY <4>6, <4>7
    <3>6. DecidedInv'
      <4> SUFFICES ASSUME NEW v \in Writers,
                          call'[v].state \in {"log", "allowed", "captured"}, call'[v].cap \in Dangerous
                   PROVE  \E c \in consents'[v] :
                            /\ c.cap = call'[v].cap /\ c.scope = call'[v].scope
                            /\ c.at <= call'[v].at /\ call'[v].at < c.at + GRANT_SECS
        BY DEF DecidedInv
      <4>1. CASE v = w
        <5>1. call'[w].state = "log"
          BY <3>4, <4>1
        <5>2. PICK c \in consents[w] : /\ c.cap = r[1] /\ c.scope = r[2]
                                       /\ c.at <= clock /\ clock < c.at + GRANT_SECS
          BY <3>5, <5>1
        <5> QED BY <2>1, <4>1, <5>2, Zenon
      <4>2. CASE v # w
        <5>1. UNCHANGED <<call[v], consents[v]>>
          BY <2>1, <4>2
        <5> QED BY <5>1 DEF DecidedInv
      <4> QED BY <4>1, <4>2
    <3> QED BY <3>3, <3>6
  <2> QED BY <2>2, <2>3
<1>5. ASSUME NEW w \in Writers, Confirm(w) PROVE GrantsInv' /\ DecidedInv'
  <2> DEFINE new == [cap |-> call[w].cap, scope |-> call[w].scope, at |-> clock]
             grant == [cap |-> call[w].cap, scope |-> call[w].scope, until |-> clock + GRANT_SECS]
  <2>1. /\ UNCHANGED clock
        /\ \A v \in Writers : v # w => UNCHANGED <<call[v], consents[v], auto_approve[v]>>
        /\ new \in consents'[w]
        /\ \A c \in consents[w] : c \in consents'[w] \/ (c.cap = new.cap /\ c.scope = new.scope)
    BY <1>5 DEF Confirm, AddAutoApprove, GateTypeOK
  <2>2. call'[w].cap = new.cap /\ call'[w].scope = new.scope /\ call'[w].at = clock
    <3>1. call[w] \in Call /\ call \in [Writers -> Call]
      BY DEF GateTypeOK
    <3> QED BY <1>5, <3>1 DEF Confirm, Call
  <2>3. ASSUME NEW i \in 1 .. Len(auto_approve'[w])
        PROVE  \/ auto_approve'[w][i] = grant
               \/ \E j \in 1 .. Len(auto_approve[w]) : auto_approve'[w][i] = auto_approve[w][j]
    <3>1. auto_approve[w] \in Seq(Grant) /\ auto_approve \in [Writers -> Seq(Grant)]
      BY DEF GateTypeOK
    <3>2. grant \in Grant
      BY <1>0 DEF GateTypeOK, Call, Grant
    <3>3. CASE UNCHANGED auto_approve
      BY <2>3, <3>3
    <3>4. CASE auto_approve'[w] = Append(auto_approve[w], grant)
      BY <2>3, <3>1, <3>2, <3>4
    <3>5. CASE auto_approve'[w] = Append(Tail(auto_approve[w]), grant) /\ auto_approve[w] # <<>>
      <4>1. /\ Tail(auto_approve[w]) \in Seq(Grant)
            /\ Len(Tail(auto_approve[w])) = Len(auto_approve[w]) - 1
            /\ \A j \in 1 .. Len(auto_approve[w]) - 1 :
                 Tail(auto_approve[w])[j] = auto_approve[w][j + 1]
        BY <3>1, <3>5
      <4>2. CASE i = Len(auto_approve[w])
        BY <3>1, <3>2, <3>5, <4>1, <4>2
      <4>3. CASE i # Len(auto_approve[w])
        <5>0. Len(auto_approve'[w]) = Len(auto_approve[w])
          BY <3>1, <3>2, <3>5, <4>1
        <5>1. i \in 1 .. Len(auto_approve[w]) - 1 /\ i + 1 \in 1 .. Len(auto_approve[w])
          BY <2>3, <3>1, <4>3, <5>0
        <5>2. auto_approve'[w][i] = Tail(auto_approve[w])[i]
          BY <3>2, <3>5, <4>1, <5>1
        <5> QED BY <4>1, <5>1, <5>2
      <4> QED BY <4>2, <4>3
    <3>6. CASE call[w].scope \in LongScopes
      BY <1>5, <3>3, <3>6 DEF Confirm, AddAutoApprove
    <3>7. CASE call[w].scope \notin LongScopes
      <4>1. auto_approve'[w] =
              Append(IF Len(auto_approve[w]) >= MAX_AUTO_APPROVE_ENTRIES
                     THEN Tail(auto_approve[w]) ELSE auto_approve[w], grant)
        BY <1>5, <3>1, <3>7 DEF Confirm, AddAutoApprove
      <4>2. CASE Len(auto_approve[w]) >= MAX_AUTO_APPROVE_ENTRIES
        <5>1. auto_approve[w] # <<>>
          BY <3>1, <4>2, GateAssumption
        <5> QED BY <3>5, <4>1, <4>2, <5>1
      <4>3. CASE ~(Len(auto_approve[w]) >= MAX_AUTO_APPROVE_ENTRIES)
        BY <3>4, <4>1, <4>3
      <4> QED BY <4>2, <4>3
    <3> QED BY <3>6, <3>7
  <2>4. GrantsInv'
    <3> SUFFICES ASSUME NEW v \in Writers, NEW i \in 1 .. Len(auto_approve'[v])
                 PROVE  \E c \in consents'[v] : Covers(c, auto_approve'[v][i], clock')
      BY DEF GrantsInv
    <3>1. CASE v # w
      BY <2>1, <3>1 DEF GrantsInv
    <3>2. CASE v = w /\ auto_approve'[v][i] = grant
      <4>1. Covers(new, grant, clock)
        BY <1>0 DEF Covers
      <4> QED BY <2>1, <3>2, <4>1
    <3>3. ASSUME NEW j \in 1 .. Len(auto_approve[w]), v = w, auto_approve'[v][i] = auto_approve[w][j]
          PROVE  \E c \in consents'[v] : Covers(c, auto_approve'[v][i], clock')
      <4>1. PICK c \in consents[w] : Covers(c, auto_approve[w][j], clock)
        BY DEF GrantsInv
      <4>2. CASE c \in consents'[w]
        BY <2>1, <3>3, <4>1, <4>2
      <4>3. CASE c.cap = new.cap /\ c.scope = new.scope
        <5>1. auto_approve[w][j] \in Grant /\ c \in Consent
          BY <4>1 DEF GateTypeOK
        <5>2. c.at \in Nat /\ auto_approve[w][j].until \in Nat
          BY <5>1 DEF Consent, Grant
        <5>3. Covers(new, auto_approve[w][j], clock)
          BY SMTT(30), <1>0, <4>1, <4>3, <5>2 DEF Covers
        <5> QED BY <2>1, <3>3, <5>3
      <4> QED BY <2>1, <4>1, <4>2, <4>3
    <3> QED BY <2>3, <3>1, <3>2, <3>3
  <2>5. DecidedInv'
    <3>1. /\ new.cap = call'[w].cap /\ new.scope = call'[w].scope
          /\ new.at <= call'[w].at /\ call'[w].at < new.at + GRANT_SECS
      BY <1>0, <2>2
    <3> QED BY ZenonT(60), <2>1, <3>1 DEF DecidedInv
  <2> QED BY <2>4, <2>5
<1>6. ASSUME NEW w \in Writers,
             Decline(w) \/ Logged(w) \/ LogFails(w) \/ AuditScreenCapture(w)
      PROVE  GrantsInv' /\ DecidedInv'
  <2>1. UNCHANGED <<clock, auto_approve, consents>>
    BY <1>6 DEF Decline, Logged, LogFails, AuditScreenCapture
  <2>2. \A v \in Writers : v # w => call'[v] = call[v]
    BY <1>6 DEF Decline, Logged, LogFails, AuditScreenCapture, GateTypeOK
  <2>3. \/ call'[w].state \in {"none", "logDenied"}
        \/ /\ call[w].state \in {"log", "allowed"}
           /\ call'[w].cap = call[w].cap /\ call'[w].scope = call[w].scope
           /\ call'[w].at = call[w].at
    <3>1. call[w] \in Call /\ call \in [Writers -> Call]
      BY DEF GateTypeOK
    <3>2. CASE Decline(w)
      BY <3>1, <3>2 DEF Decline, Call
    <3>3. CASE Logged(w)
      BY <3>1, <3>3 DEF Logged, Call, NoCall
    <3>4. CASE LogFails(w)
      BY <3>1, <3>4 DEF LogFails, NoCall
    <3>5. CASE AuditScreenCapture(w)
      BY <3>1, <3>5 DEF AuditScreenCapture, Call
    <3> QED BY <1>6, <3>2, <3>3, <3>4, <3>5
  <2>4. DecidedInv'
    BY SMTT(30), <2>1, <2>2, <2>3 DEF DecidedInv
  <2> QED BY <1>1, <2>1, <2>4
<1>7. CASE UNCHANGED allVars
  BY <1>1, <1>2, <1>7 DEF allVars, gateVars
<1>8. CASE Tick
  <2>1. clock' = clock + 1 /\ UNCHANGED <<auto_approve, consents, call>>
    BY <1>8 DEF Tick, sessionVars
  <2>2. clock' \in Nat /\ clock <= clock'
    BY <1>0, <2>1
  <2> QED BY <1>2, <2>1, <2>2, GrantsKept
<1>9. ASSUME NEW w \in Writers,
             EndSession(w) \/ RevokeSession(w) \/ \E t \in Tokens, list \in BOOLEAN : OpenWith(w, t, list)
      PROVE  GrantsInv' /\ DecidedInv'
  BY <1>1, <1>2, <1>3, <1>9 DEF OpenWith, EndSession, RevokeSession
<1>10. CASE \/ \E ts \in {<<t>> : t \in Tokens} \cup {KnownTokens} : RevokeTokens(ts)
            \/ RevokeAgain \/ RevokeInsert \/ RevokeWritten \/ RevokeFails
  BY <1>1, <1>2, <1>10
     DEF RevokeTokens, RevokeAgain, RevokeInsert, RevokeWritten, RevokeFails, sessionVars
<1>11. CASE Restart
  BY <1>3, <1>11 DEF Restart
<1> QED BY <1>4, <1>5, <1>6, <1>7, <1>8, <1>9, <1>10, <1>11 DEF GateNext, OpenSession, OpenWithRevocation

\* A dangerous action is let through only on a confirmation of the same
\* capability and scope in the same session that is younger than GRANT_SECS.
THEOREM DangerAlwaysConfirmed == GateSpec => []DangerIsConfirmed
<1>1. GateInit => ConsentInv
  BY DEF GateInit, ConsentInv, GrantsInv, DecidedInv, NoCall
<1>2. ConsentInv => DangerIsConfirmed
  BY DEF ConsentInv, DecidedInv, DangerIsConfirmed, Allowed
<1> QED BY <1>1, <1>2, ConsentStep, GateBase, PTL DEF GateSpec
=============================================================================

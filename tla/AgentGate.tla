------------------------------ MODULE AgentGate ------------------------------
(***************************************************************************)
(* The gate every action of an AI agent passes: AgentSession of            *)
(* crates/miru-agent/src/session.rs with the token it was opened with, the *)
(* revocation list (revocation.rs) and, underneath, the audit log          *)
(* (AuditLog, which this module extends).                                  *)
(*                                                                         *)
(* A session is named by the AuditLog instance it writes to.  Its caller   *)
(* (gate_input of the host, gate of the MCP server) makes one call at a    *)
(* time; other tasks revoke the session, one of them, the user's, revokes  *)
(* tokens, other sessions write the same log, and the process may die at   *)
(* any moment.                                                             *)
(***************************************************************************)
EXTENDS AuditLog

CONSTANTS
  Tokens,                    \* the issued tokens, by their jti
  Granted,                   \* Granted[t]: the capabilities of a token
  Ttl,                       \* Ttl[t]: the lifetime asked for at issue, time 0
  MAX_TTL_SECS,              \* 15 min in the code
  Scopes, LongScopes,        \* scope keys; those over MAX_SCOPE_KEY_BYTES
  GRANT_SECS,                \* how long a confirmation is remembered, 30 s in the code
  MAX_AUTO_APPROVE_ENTRIES,
  KnownTokens,               \* the host's list of issued tokens, for revoke_all_known
  Requests,                  \* bound: the <<capability, scope>> pairs that are tried
  MaxTime                    \* bound: the clock

\* Capability::security_level: the tiers, of which only the last needs a
\* confirmation (requires_confirmation).
Normal == {"ScreenRead", "PointerMove"}
Conditional == {"PointerClick", "KeyType", "KeyCombo", "ClipboardWrite", "OpenUrl"}
Dangerous == {"ClipboardRead", "FileRead", "FileWrite", "ShellExec"}
Capability == Normal \cup Conditional \cup Dangerous

ASSUME GateAssumption ==
  /\ Tokens # {} /\ Scopes # {}
  /\ Granted \in [Tokens -> SUBSET Capability]
  /\ Ttl \in [Tokens -> Nat]
  /\ MAX_TTL_SECS \in Nat /\ MaxTime \in Nat
  /\ GRANT_SECS \in Nat \ {0} /\ MAX_AUTO_APPROVE_ENTRIES \in Nat \ {0}
  /\ LongScopes \subseteq Scopes
  /\ KnownTokens \in Seq(Tokens)
  /\ Requests \subseteq Capability \X Scopes

VARIABLES
  clock,             \* seconds
  token,             \* token[w]: what the session was opened with
  revocation,        \* whether it was given the revocation list
  locally_revoked,   \* the flag of the session
  auto_approve,      \* the remembered confirmations of the session, oldest first
  call,              \* the call in progress, or the last one
  revoked,           \* the revocation list in memory
  saved,             \* the revocation list on disk
  todo, writing,     \* tokens revoke_all_known still has to visit; the head is being written
  told,              \* history: the tokens revoke() returned Ok for, but for those a restart lost
  unsaved,           \* history: the tokens whose line failed to be written since the last restart
  consents           \* history: what the user said yes to in this session, and when last

gateVars == <<clock, token, revocation, locally_revoked, auto_approve, call,
              revoked, saved, todo, writing, told, unsaved, consents>>
listVars == <<revoked, saved, todo, writing, told, unsaved>>
sessionVars == <<token, revocation, locally_revoked, auto_approve, call, consents>>
allVars == <<vars, gateVars>>

Grant == [cap : Capability, scope : Scopes, until : Nat]
Consent == [cap : Capability, scope : Scopes, at : Nat]

\* A call: how far it is, what it asks for, when it was decided, whether it
\* began too late to be allowed, and the audit entry it made.
\* "log" is followed by the append of an Ok entry, "logDenied" by that of a
\* Denied one; "captured" is "allowed" after the frame went to the agent.  A
\* refused call leaves "none".
CallState == {"none", "confirm", "log", "logDenied", "allowed", "captured"}
Call == [state : CallState, cap : Capability, scope : Scopes, at : Nat, late : BOOLEAN, n : Nat]

Busy(w) == call[w].state \in {"confirm", "log", "logDenied"}
Allowed(w) == call[w].state \in {"allowed", "captured"}

\* AgentToken::issue clamps the lifetime.
Exp(t) == IF Ttl[t] <= MAX_TTL_SECS THEN Ttl[t] ELSE MAX_TTL_SECS
SecondsRemaining(t) == IF Exp(t) > clock THEN Exp(t) - clock ELSE 0

-----------------------------------------------------------------------------
NoCall == [state |-> "none", cap |-> "ScreenRead", scope |-> CHOOSE s \in Scopes : TRUE,
           at |-> 0, late |-> FALSE, n |-> 0]

GateInit ==
  /\ Init
  /\ clock = 0
  /\ token = [w \in Writers |-> CHOOSE t \in Tokens : TRUE]
  /\ revocation = [w \in Writers |-> FALSE]
  /\ locally_revoked = [w \in Writers |-> FALSE]
  /\ auto_approve = [w \in Writers |-> <<>>]
  /\ call = [w \in Writers |-> NoCall]
  /\ consents = [w \in Writers |-> {}]
  /\ revoked = {} /\ saved = {} /\ todo = <<>> /\ writing = FALSE
  /\ told = {} /\ unsaved = {}

\* The sessions ws have no state but their token.
Fresh(ws) ==
  /\ locally_revoked' = [w \in Writers |-> w \notin ws /\ locally_revoked[w]]
  /\ auto_approve' = [w \in Writers |-> IF w \in ws THEN <<>> ELSE auto_approve[w]]
  /\ call' = [w \in Writers |-> IF w \in ws THEN NoCall ELSE call[w]]
  /\ consents' = [w \in Writers |-> IF w \in ws THEN {} ELSE consents[w]]

Tick ==
  /\ clock < MaxTime
  /\ clock' = clock + 1
  /\ UNCHANGED <<vars, sessionVars, listVars>>

\* AgentToken::parse_and_verify of a token this host issued: its signature
\* holds, and its last second still counts.
ParseAndVerify(t) == clock <= Exp(t)

\* The log is opened, the token verified, and the session opened, with the
\* revocation list or without.
OpenWith(w, t, list) ==
  /\ Open(w)
  /\ ParseAndVerify(t)
  /\ token' = [token EXCEPT ![w] = t]
  /\ revocation' = [revocation EXCEPT ![w] = list]
  /\ Fresh({w})
  /\ UNCHANGED <<clock, listVars>>

\* AgentSession::open, which the host and the MCP server call: no list.
OpenSession(w, t) == OpenWith(w, t, FALSE)

\* open_with_revocation, the crate's interface for callers that keep a list.
OpenWithRevocation(w, t) == OpenWith(w, t, TRUE)

\* The session is dropped, and its log with it; not while a call runs in it.
EndSession(w) ==
  /\ ~Busy(w)
  /\ Close(w)
  /\ Fresh({w})
  /\ UNCHANGED <<clock, token, revocation, listVars>>

-----------------------------------------------------------------------------
(* AgentSession::authorize.                                                *)

\* The checks before anything is asked: the flag of the session, the
\* revocation list if there is one, the capability, the lifetime.
Refused(w, cap) ==
  \/ locally_revoked[w]
  \/ revocation[w] /\ token[w] \in revoked
  \/ cap \notin Granted[token[w]]
  \/ SecondsRemaining(token[w]) = 0

Unexpired(g) == g.until > clock

\* Mutant: expired confirmations are not dropped.
IsAutoApprovedForEver(w, cap, scope) ==
  \E i \in 1 .. Len(auto_approve[w]) :
    auto_approve[w][i].cap = cap /\ auto_approve[w][i].scope = scope

\* is_auto_approved: a remembered confirmation of the same capability and
\* scope that has not expired.
IsAutoApproved(w, cap, scope) ==
  \E i \in 1 .. Len(auto_approve[w]) :
    /\ auto_approve[w][i].cap = cap /\ auto_approve[w][i].scope = scope
    /\ Unexpired(auto_approve[w][i])

\* History: the session was revoked, or its token's time is up, or its token
\* was revoked on the list the session has.
TooLate(w) ==
  locally_revoked[w] \/ clock >= Exp(token[w]) \/ (revocation[w] /\ token[w] \in told)

\* A call begins and is decided up to its audit entry or the prompt.
Begin(w, cap, scope, state) ==
  /\ isOpen[w] /\ ~Busy(w) /\ appends < MaxAppends
  /\ call' = [call EXCEPT ![w] =
       [state |-> state, cap |-> cap, scope |-> scope, at |-> clock,
        late |-> TooLate(w), n |-> 0]]
  /\ UNCHANGED <<vars, clock, token, revocation, locally_revoked, consents, listVars>>

AuthorizeDenied(w, cap, scope) ==
  /\ Refused(w, cap)
  /\ Begin(w, cap, scope, "logDenied")
  /\ UNCHANGED auto_approve

AuthorizeUnasked(w, cap, scope) ==
  /\ ~Refused(w, cap) /\ cap \notin Dangerous
  /\ Begin(w, cap, scope, "log")
  /\ UNCHANGED auto_approve

\* is_auto_approved drops the expired confirmations on the way.  All last
\* equally long, so the expired ones are the oldest.
DropExpired(w) ==
  \E k \in 0 .. Len(auto_approve[w]) :
    /\ \A i \in 1 .. k : ~Unexpired(auto_approve[w][i])
    /\ \A i \in k + 1 .. Len(auto_approve[w]) : Unexpired(auto_approve[w][i])
    /\ auto_approve' = [auto_approve EXCEPT ![w] = SubSeq(@, k + 1, Len(@))]

AuthorizeDangerous(w, cap, scope) ==
  /\ ~Refused(w, cap) /\ cap \in Dangerous
  /\ Begin(w, cap, scope, IF IsAutoApproved(w, cap, scope) THEN "log" ELSE "confirm")
  /\ DropExpired(w)

Authorize(w, cap, scope) ==
  \/ AuthorizeDenied(w, cap, scope)
  \/ AuthorizeUnasked(w, cap, scope)
  \/ AuthorizeDangerous(w, cap, scope)

\* add_auto_approve: long scopes are not remembered, a full list loses its
\* oldest confirmation.
AddAutoApprove(w) ==
  auto_approve' =
    IF call[w].scope \in LongScopes THEN auto_approve
    ELSE [auto_approve EXCEPT ![w] =
           Append(IF Len(@) >= MAX_AUTO_APPROVE_ENTRIES THEN Tail(@) ELSE @,
                  [cap |-> call[w].cap, scope |-> call[w].scope, until |-> clock + GRANT_SECS])]

\* The confirm callback returns true.
Confirm(w) ==
  /\ call[w].state = "confirm"
  /\ call' = [call EXCEPT ![w].state = "log", ![w].at = clock]
  /\ AddAutoApprove(w)
  /\ consents' = [consents EXCEPT ![w] =
       {c \in @ : c.cap # call[w].cap \/ c.scope # call[w].scope}
         \cup {[cap |-> call[w].cap, scope |-> call[w].scope, at |-> clock]}]
  /\ UNCHANGED <<vars, clock, token, revocation, locally_revoked, listVars>>

\* The confirm callback returns false.
Decline(w) ==
  /\ call[w].state = "confirm"
  /\ call' = [call EXCEPT ![w].state = "logDenied", ![w].at = clock]
  /\ UNCHANGED <<vars, clock, token, revocation, locally_revoked, auto_approve, consents, listVars>>

\* The entry is on record and authorize returns what it says.
Logged(w) ==
  /\ call[w].state \in {"log", "logDenied"}
  /\ AppendOk(w)
  /\ call' = [call EXCEPT ![w] =
       IF @.state = "log" THEN [@ EXCEPT !.state = "allowed", !.n = appends + 1] ELSE NoCall]
  /\ UNCHANGED <<clock, token, revocation, locally_revoked, auto_approve, consents, listVars>>

\* Mutant: the result of append is not looked at.
LogFailsIgnored(w) ==
  /\ call[w].state \in {"log", "logDenied"}
  /\ FlushFails(w) \/ SyncFails(w)
  /\ call' = [call EXCEPT ![w] =
       IF @.state = "log" THEN [@ EXCEPT !.state = "allowed", !.n = appends + 1] ELSE NoCall]
  /\ UNCHANGED <<clock, token, revocation, locally_revoked, auto_approve, consents, listVars>>

\* append fails: authorize returns its error, whatever was decided.
LogFails(w) ==
  /\ call[w].state \in {"log", "logDenied"}
  /\ FlushFails(w) \/ SyncFails(w)
  /\ call' = [call EXCEPT ![w] = NoCall]
  /\ UNCHANGED <<clock, token, revocation, locally_revoked, auto_approve, consents, listVars>>

\* audit_screen_capture: the frame an allowed ScreenRead shows the agent is
\* noted in the log, whether or not the append succeeds.
AuditScreenCapture(w) ==
  /\ call[w].state = "allowed" /\ call[w].cap = "ScreenRead"
  /\ AppendOk(w) \/ FlushFails(w) \/ SyncFails(w)
  /\ call' = [call EXCEPT ![w].state = "captured"]
  /\ UNCHANGED <<clock, token, revocation, locally_revoked, auto_approve, consents, listVars>>

\* AgentSession::revoke, from any task that shares the session.
RevokeSession(w) ==
  /\ isOpen[w]
  /\ locally_revoked' = [locally_revoked EXCEPT ![w] = TRUE]
  /\ UNCHANGED <<vars, clock, token, revocation, auto_approve, call, consents, listVars>>

-----------------------------------------------------------------------------
(* RevocationList.                                                         *)

\* revoke for one token, or revoke_all_known for the host's list.
RevokeTokens(ts) ==
  /\ todo = <<>>
  /\ todo' = ts
  /\ UNCHANGED <<vars, clock, sessionVars, revoked, saved, writing, told, unsaved>>

\* revoke: the token is in the set already, so nothing is written.
RevokeAgain ==
  /\ todo # <<>> /\ ~writing /\ Head(todo) \in revoked
  /\ told' = told \cup {Head(todo)}
  /\ todo' = Tail(todo)
  /\ UNCHANGED <<vars, clock, sessionVars, revoked, saved, writing, unsaved>>

\* revoke: into the set first,
RevokeInsert ==
  /\ todo # <<>> /\ ~writing /\ Head(todo) \notin revoked
  /\ revoked' = revoked \cup {Head(todo)}
  /\ writing' = TRUE
  /\ UNCHANGED <<vars, clock, sessionVars, saved, todo, told, unsaved>>

\* Mutant: Ok without the line having been written.
RevokeUnwritten ==
  /\ writing
  /\ told' = told \cup {Head(todo)}
  /\ todo' = Tail(todo) /\ writing' = FALSE
  /\ unsaved' = unsaved \ {Head(todo)}
  /\ UNCHANGED <<vars, clock, sessionVars, revoked, saved>>

\* then into the file, synced.
RevokeWritten ==
  /\ writing
  /\ saved' = saved \cup {Head(todo)}
  /\ told' = told \cup {Head(todo)}
  /\ unsaved' = unsaved \ {Head(todo)}
  /\ todo' = Tail(todo) /\ writing' = FALSE
  /\ UNCHANGED <<vars, clock, sessionVars, revoked>>

\* Opening, writing or syncing the file fails, with or without the line in
\* it; revoke_all_known stops there.
RevokeFails ==
  /\ writing
  /\ saved' \in {saved, saved \cup {Head(todo)}}
  /\ unsaved' = unsaved \cup {Head(todo)}
  /\ todo' = <<>> /\ writing' = FALSE
  /\ UNCHANGED <<vars, clock, sessionVars, revoked, told>>

\* The process dies, a line it was writing is in the file or not, and a new
\* process reads the list.  What failed to be written is lost, also when
\* revoke() was called again and returned Ok.
Restart ==
  /\ IF \E w \in Writers : isOpen[w] THEN Crash ELSE UNCHANGED vars
  /\ saved' \in IF writing THEN {saved, saved \cup {Head(todo)}} ELSE {saved}
  /\ revoked' = saved'
  /\ todo' = <<>> /\ writing' = FALSE
  /\ Fresh(Writers)
  /\ told' = told \ unsaved /\ unsaved' = {}
  /\ UNCHANGED <<clock, token, revocation>>

-----------------------------------------------------------------------------
GateNext ==
  \/ Tick
  \/ \E w \in Writers :
       \/ \E t \in Tokens : OpenSession(w, t) \/ OpenWithRevocation(w, t)
       \/ EndSession(w)
       \/ \E r \in Requests : Authorize(w, r[1], r[2])
       \/ Confirm(w) \/ Decline(w) \/ Logged(w) \/ LogFails(w)
       \/ AuditScreenCapture(w)
       \/ RevokeSession(w)
  \/ \E ts \in {<<t>> : t \in Tokens} \cup {KnownTokens} : RevokeTokens(ts)
  \/ RevokeAgain \/ RevokeInsert \/ RevokeWritten \/ RevokeFails
  \/ Restart

GateSpec == GateInit /\ [][GateNext]_allVars

-----------------------------------------------------------------------------
\* The ranges of the variables; at most MAX_AUTO_APPROVE_ENTRIES are
\* remembered in a session.
GateTypeOK ==
  /\ clock \in 0 .. MaxTime
  /\ token \in [Writers -> Tokens]
  /\ revocation \in [Writers -> BOOLEAN]
  /\ locally_revoked \in [Writers -> BOOLEAN]
  /\ auto_approve \in [Writers -> Seq(Grant)]
  /\ \A w \in Writers : Len(auto_approve[w]) <= MAX_AUTO_APPROVE_ENTRIES
  /\ call \in [Writers -> Call]
  /\ consents \in [Writers -> SUBSET Consent]
  /\ revoked \subseteq Tokens /\ saved \subseteq Tokens
  /\ told \subseteq Tokens /\ unsaved \subseteq Tokens
  /\ todo \in Seq(Tokens) /\ writing \in BOOLEAN

\* An action the agent may carry out has its entry in the log file, across
\* failed writes, other sessions on the same file and whatever happens later.
AllowedIsOnRecord ==
  \A w \in Writers : Allowed(w) => \E i \in 1 .. Len(file) : file[i].hash = call[w].n

\* A dangerous action is only allowed if the user confirmed this capability
\* for this scope in this session, less than GRANT_SECS before.
DangerIsConfirmed ==
  \A w \in Writers : Allowed(w) /\ call[w].cap \in Dangerous =>
    \E c \in consents[w] :
      /\ c.cap = call[w].cap /\ c.scope = call[w].scope
      /\ c.at <= call[w].at /\ call[w].at < c.at + GRANT_SECS

\* No call is allowed that began after its session was revoked, after its
\* token's time was up or, in a session that has the revocation list, after
\* revoke() returned Ok for its token, in this process or in one before it:
\* only what failed to be written is lost, and only at the restart.  A session
\* the host or the MCP server opens has no list, and a call that waits at the
\* prompt began before.
LateIsRefused == \A w \in Writers : Allowed(w) => ~call[w].late
=============================================================================

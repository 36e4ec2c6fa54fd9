------------------------------ MODULE HostProofs ------------------------------
(***************************************************************************)
(* What TLAPS proves of the host: of HostSession for any number of          *)
(* sessions, peers, keys and names of keys, and any number of crashes,      *)
(* failed saves and edits; of FileTransfer for any sessions, ids and        *)
(* limits.                                                                  *)
(***************************************************************************)
EXTENDS HostSession, FileTransfer, FiniteSetTheorems, TLAPS

\* Where a session has been admitted.
Within == {"saving", "admitted", "preparing", "serving", "injecting"}
\* Where main has read the trust store.
Loaded == {"device", "writing_device", "set_up", "running"}

\* Sessions run, and keys are down, only while the process runs.
OnlyWhileRunning ==
    process # "running" => down = {} /\ \A s \in Sessions : place[s] = "free"

-----------------------------------------------------------------------------
(* The keyboard *)

KeyTypes ==
    /\ process \in ProcessPlaces /\ uinput \in BOOLEAN
    /\ place \in [Sessions -> Places]
    /\ held \in [Sessions -> SUBSET KeyNames] /\ press \in [Sessions -> SUBSET KeyNames] /\ lift \in [Sessions -> SUBSET KeyNames]
    /\ down \subseteq Keys

\* What a session is about to press it has noted; what it is about to lift is lifted before it
\* does anything else; without a keyboard nothing is down.
KeyInv ==
    /\ KeyTypes /\ OnlyWhileRunning
    /\ ~uinput => down = {}
    /\ \A s \in Sessions : /\ press[s] \subseteq held[s]
                           /\ press[s] # {} => place[s] = "injecting"
                           /\ lift[s] # {} => place[s] \in {"injecting", "leaving"}
    /\ KeysAreOwned

\* A key is one of the names' exactly if a name among them has its code.
LEMMA KeysOfNames ==
  ASSUME NEW N, NEW k PROVE k \in KeysOf(N) <=> k \in Keys /\ \E c \in N : evdev_code(c) = k
BY DEF KeysOf

\* More names mean at least as many keys.
LEMMA KeysOfMore == ASSUME NEW N, NEW M, N \subseteq M PROVE KeysOf(N) \subseteq KeysOf(M) /\ KeysOf(M) \subseteq Keys
BY DEF KeysOf

KeyVars == <<process, uinput, place, held, press, lift, down>>

\* A host that has not started has no key down.
LEMMA InitKeyInv == HostInit => KeyInv
BY DEF HostInit, KeyInv, KeyTypes, OnlyWhileRunning, KeysAreOwned, Places, ProcessPlaces

\* Injecting, releasing, leaving and dying keep every key that is down owned.
LEMMA NextKeyInv == KeyInv /\ [HostNext]_hostVars => KeyInv'
<1> SUFFICES ASSUME KeyInv, [HostNext]_hostVars PROVE KeyInv'
    OBVIOUS
<1> USE HostAssumption
<1> USE DEF KeyInv, KeyTypes, OnlyWhileRunning
<1>1. ASSUME UNCHANGED KeyVars PROVE KeyInv'
  BY <1>1 DEF KeyVars, KeysAreOwned
<1>2. ASSUME Gone PROVE KeyInv'
  BY <1>2 DEF Gone, KeysAreOwned, Places, ProcessPlaces
\* A step of main before it runs: no session, and nothing is down.
<1>3. ASSUME process # "running", process' \in ProcessPlaces, uinput' \in BOOLEAN,
             UNCHANGED <<place, held, press, lift, down>>
      PROVE KeyInv'
  BY <1>3 DEF KeysAreOwned
\* A session moves on and leaves the keyboard alone.
<1>4. ASSUME NEW s \in Sessions, NEW to \in Places, process = "running",
             place' = [place EXCEPT ![s] = to], lift[s] = {}, press[s] = {},
             UNCHANGED <<process, uinput, held, press, lift, down>>
      PROVE KeyInv'
  BY <1>4 DEF KeysAreOwned
<1>5. ASSUME MainStep PROVE KeyInv'
  <2>1. Starts \/ LoadIdentity \/ WriteIdentity \/ LoadAcl \/ LoadAclFails \/ LoadDevice \/ WriteDevice \/ SetUp
        => KeyInv'
    BY <1>2, <1>3 DEF Starts, LoadIdentity, WriteIdentity, LoadAcl, LoadAclFails, LoadDevice, WriteDevice,
                      SetUp, OpenKeyboard, Goes, ProcessPlaces, keyboard
  <2>2. SignalConnects \/ Registers \/ SignalFails \/ SignalLost \/ BackoffOver => KeyInv'
    BY <1>1 DEF SignalConnects, Registers, SignalFails, SignalLost, BackoffOver, Signals, KeyVars, keyboard
  <2>3. Dies => KeyInv' BY <1>2 DEF Dies
  <2> QED BY <1>5, <2>1, <2>2, <2>3 DEF MainStep
<1>6. ASSUME NEW s \in Sessions, SessionStep(s) PROVE KeyInv'
  <2>0. place[s] # "free" => process = "running" OBVIOUS
  <2>1. Incoming(s) \/ HandshakeFails(s) \/ (\E p \in Peers : Handshaken(s, p)) => KeyInv'
    BY <1>4, <2>0 DEF Incoming, HandshakeFails, Handshaken, SessionGoes, main, keyboard, Places
  <2>2. CheckOrPair(s) \/ Rejected(s) \/ SaveEnds(s) => KeyInv'
    BY <1>4, <2>0 DEF CheckOrPair, Rejected, SaveEnds, SessionGoes, main, keyboard, Places
  <2>3. Admit(s) \/ Prepare(s) \/ Finish(s) \/ Attest(s) => KeyInv'
    BY <1>4, <2>0 DEF Admit, Prepare, Finish, Attest, SessionGoes, main, keyboard, Places
  <2>4. ASSUME NEW c \in KeyNames, KeyDown(s, c) PROVE KeyInv'
    <3>1. KeyTypes' /\ OnlyWhileRunning'
      BY <2>0, <2>4 DEF KeyDown, MayControl, SessionGoes, main, Places
    <3>2. /\ \A x \in Sessions : held[x] \subseteq held'[x] /\ lift'[x] = lift[x]
          /\ UNCHANGED <<down, uinput>>
      BY <2>4 DEF KeyDown, main
    <3>3. \A x \in Sessions : KeysOf(held[x] \union lift[x]) \subseteq KeysOf(held'[x] \union lift'[x])
      <4> TAKE x \in Sessions
      <4> QED BY <3>2, KeysOfMore
    <3>4. KeysAreOwned' BY <3>2, <3>3 DEF KeysAreOwned
    <3> QED BY <2>4, <3>1, <3>2, <3>4 DEF KeyDown, MayControl, SessionGoes
  <2>5. ASSUME NEW c \in KeyNames, KeyUp(s, c) PROVE KeyInv'
    <3>1. KeyTypes' /\ OnlyWhileRunning'
      BY <2>0, <2>5 DEF KeyUp, MayControl, SessionGoes, main, Places
    <3>2. /\ \A x \in Sessions : held[x] \union lift[x] \subseteq held'[x] \union lift'[x]
          /\ UNCHANGED <<down, uinput>>
      BY <2>5 DEF KeyUp, MayControl, main
    <3>3. \A x \in Sessions : KeysOf(held[x] \union lift[x]) \subseteq KeysOf(held'[x] \union lift'[x])
      <4> TAKE x \in Sessions
      <4> QED BY <3>2, KeysOfMore
    <3>4. KeysAreOwned' BY <3>2, <3>3 DEF KeysAreOwned
    <3> QED BY <2>5, <3>1, <3>2, <3>4 DEF KeyUp, MayControl, SessionGoes
  <2>6. ASSUME Inject(s) PROVE KeyInv'
    <3>1. KeyTypes' /\ OnlyWhileRunning'
      BY <2>0, <2>6, KeysOfNames DEF Inject, SessionGoes, main, Places
    <3>2. /\ held' = held /\ lift'[s] = {} /\ \A x \in Sessions \ {s} : lift'[x] = lift[x]
      BY <2>6 DEF Inject
    <3>a. uinput => down' = (down \union KeysOf(press[s])) \ KeysOf(lift[s]) BY <2>6 DEF Inject
    <3>b. ~uinput => down' = {} BY <2>6 DEF Inject
    <3>3. ASSUME NEW k \in down' PROVE \E x \in Sessions : k \in KeysOf(held'[x] \union lift'[x])
      <4>1. CASE k \in KeysOf(press[s]) BY <3>2, <4>1, KeysOfNames
      <4>2. CASE k \in down \ KeysOf(lift[s])
        <5>1. PICK x \in Sessions : k \in KeysOf(held[x] \union lift[x]) BY <4>2 DEF KeysAreOwned
        <5> QED BY <3>2, <4>2, <5>1, KeysOfNames
      <4> QED BY <3>3, <3>a, <3>b, <4>1, <4>2
    <3>4. KeysAreOwned' BY <3>3 DEF KeysAreOwned
    <3> QED BY <2>6, <3>1, <3>4 DEF Inject, SessionGoes, main
  <2>7. InjectText(s) \/ Pointer(s) => KeyInv'
    BY SMTT(30), <2>0 DEF InjectText, Pointer, MayControl, main, KeysAreOwned
  <2>8. ASSUME Leave(s) PROVE KeyInv'
    BY ZenonT(60), <2>0, <2>8 DEF Leave, SessionGoes, main, Places, KeysAreOwned
  <2>9. ASSUME NEW c \in KeyNames, Release(s, c) PROVE KeyInv'
    <3>1. KeyTypes' /\ OnlyWhileRunning'
      BY <2>0, <2>9 DEF Release, main
    <3>2. /\ held' = held /\ c \in lift[s] /\ lift'[s] = lift[s] \ {c}
          /\ \A x \in Sessions \ {s} : lift'[x] = lift[x]
      BY <2>9 DEF Release
    <3>a. uinput => down' = down \ KeysOf({c}) BY <2>9 DEF Release
    <3>b. ~uinput => down' = {} BY <2>9 DEF Release
    <3>3. ASSUME NEW k \in down' PROVE \E x \in Sessions : k \in KeysOf(held'[x] \union lift'[x])
      <4>1. k \in down /\ k \notin KeysOf({c}) BY <3>3, <3>a, <3>b
      <4>2. PICK x \in Sessions : k \in KeysOf(held[x] \union lift[x]) BY <4>1 DEF KeysAreOwned
      <4>3. PICK d \in held[x] \union lift[x] : evdev_code(d) = k /\ k \in Keys BY <4>2, KeysOfNames
      <4>4. d # c BY <4>1, <4>3, KeysOfNames
      <4>5. d \in held'[x] \union lift'[x] BY <3>2, <4>3, <4>4
      <4> QED BY <4>3, <4>5, KeysOfNames
    <3>4. KeysAreOwned' BY <3>3 DEF KeysAreOwned
    <3> QED BY <2>9, <3>1, <3>2, <3>4 DEF Release, main
  <2> QED BY <1>6, <2>1, <2>2, <2>3, <2>4, <2>5, <2>6, <2>7, <2>8, <2>9 DEF SessionStep
<1>7. ASSUME NEW p \in Peers, NEW g \in Grants \union {"unknown"}, OperatorSets(p, g) PROVE KeyInv'
  BY <1>1, <1>7 DEF OperatorSets, KeyVars, main, keyboard
<1>8. CASE UNCHANGED hostVars
  BY <1>1, <1>8 DEF hostVars, KeyVars, main, keyboard
<1> QED BY <1>5, <1>6, <1>7, <1>8 DEF HostNext

\* However many sessions share the virtual keyboard, press and lift each other's keys and end by
\* an orderly close or by an error, a key that is down is one some session will lift: handle_input
\* notes a key before it injects it, and release_all_keys drains what was noted.
THEOREM KeysAlwaysOwned == HostSpec => []KeysAreOwned
<1>1. KeyInv => KeysAreOwned BY DEF KeyInv
<1> QED BY <1>1, InitKeyInv, NextKeyInv, PTL DEF HostSpec

-----------------------------------------------------------------------------
(* The trust store *)

TrustTypes ==
    /\ process \in ProcessPlaces /\ place \in [Sessions -> Places]
    /\ aclFile \in Store /\ acl \in Store /\ decided \in Store
    /\ peer \in [Sessions -> Peers] /\ perm \in [Sessions -> Permissions]

\* The file is never torn, because save renames; it agrees with the operator about every peer the
\* operator decided on, and so does the store in memory from the moment it was read.
TrustInv ==
    /\ TrustTypes /\ OnlyWhileRunning /\ aclTorn = FALSE /\ forgotten \in BOOLEAN
    /\ ~forgotten => \A p \in Peers : decided[p] # "unknown" =>
         /\ aclFile[p] = decided[p]
         /\ process \in Loaded => acl[p] = decided[p]
    /\ OperatorDecides

\* An empty store knows nobody.
LEMMA StoreOfStrangers == Stranger \in Store /\ \A p \in Peers : Stranger[p] = "unknown"
BY DEF Stranger, Store

\* Before the first start the file says what the operator wrote.
LEMMA InitTrustInv == HostInit => TrustInv
BY ZenonT(60), StoreOfStrangers
DEF HostInit, TrustInv, TrustTypes, OnlyWhileRunning, OperatorDecides, Places, ProcessPlaces, Permissions

\* Keys do not matter to the store, nor the other way round.
LEMMA NextTrustInv == TrustInv /\ OnlyWhileRunning' /\ [HostNext]_hostVars => TrustInv'
<1> SUFFICES ASSUME TrustInv, OnlyWhileRunning', [HostNext]_hostVars PROVE TrustInv'
    OBVIOUS
<1> USE HostAssumption, StoreOfStrangers
<1> USE DEF TrustInv, TrustTypes, Loaded
<1>1. ASSUME UNCHANGED <<process, place, aclFile, aclTorn, acl, decided, forgotten, peer, perm>> PROVE TrustInv'
  BY <1>1 DEF OperatorDecides
<1>2. ASSUME Gone, UNCHANGED <<aclFile, aclTorn, decided, forgotten>> PROVE TrustInv'
  BY <1>2 DEF Gone, OperatorDecides, Places, ProcessPlaces
\* A session moves on with the same peer and permission.
<1>3. ASSUME NEW s \in Sessions, NEW to \in Places, place' = [place EXCEPT ![s] = to],
             to \in Within => place[s] \in Within,
             UNCHANGED <<process, aclFile, aclTorn, acl, decided, forgotten, peer, perm>>
      PROVE TrustInv'
  BY <1>3 DEF OperatorDecides, Within
<1>4. ASSUME MainStep PROVE TrustInv'
  <2>1. ASSUME process' \in ProcessPlaces, process # "running", process' \in Loaded => process \in Loaded,
               UNCHANGED <<place, aclFile, aclTorn, acl, decided, forgotten, peer, perm>>
        PROVE TrustInv'
    BY <2>1 DEF OperatorDecides
  <2>2. Starts \/ LoadIdentity \/ WriteIdentity \/ LoadDevice \/ WriteDevice \/ SetUp => TrustInv'
    BY <1>2, <2>1 DEF Starts, LoadIdentity, WriteIdentity, LoadDevice, WriteDevice,
                      SetUp, Goes, ProcessPlaces, files, operator
  <2>3. LoadAcl => TrustInv'
    BY DEF LoadAcl, files, operator, OnlyWhileRunning, OperatorDecides, ProcessPlaces
  <2>4. LoadAclFails => TrustInv'
    BY DEF LoadAclFails, files, OnlyWhileRunning, OperatorDecides, ProcessPlaces
  <2>5. SignalConnects \/ Registers \/ SignalFails \/ SignalLost \/ BackoffOver => TrustInv'
    BY <1>1 DEF SignalConnects, Registers, SignalFails, SignalLost, BackoffOver, Signals, files, operator
  <2>6. Dies => TrustInv' BY <1>2 DEF Dies, files, operator
  <2> QED BY <1>4, <2>2, <2>3, <2>4, <2>5, <2>6 DEF MainStep
<1>5. ASSUME NEW s \in Sessions, SessionStep(s) PROVE TrustInv'
  <2>0. place[s] # "free" => process = "running" BY DEF OnlyWhileRunning
  <2>1. Incoming(s) \/ HandshakeFails(s) \/ Rejected(s) \/ Admit(s) \/ Prepare(s) \/ Finish(s) \/ Attest(s) => TrustInv'
    BY <1>3 DEF Incoming, HandshakeFails, Rejected, Admit, Prepare, Finish, Attest, SessionGoes,
                main, files, operator, Places, Within
  <2>2. ASSUME NEW p \in Peers, Handshaken(s, p) PROVE TrustInv'
    BY <2>2 DEF Handshaken, SessionGoes, main, files, operator, Places, OperatorDecides
  <2>3. ASSUME CheckOrPair(s) PROVE TrustInv'
    <3>0. /\ peer[s] \in Peers /\ process = "running" /\ place' = [place EXCEPT ![s] = "saving"]
          /\ UNCHANGED <<process, aclFile, aclTorn, decided, forgotten, peer>>
      BY <2>0, <2>3 DEF CheckOrPair, SaveBegins, SessionGoes, main, operator
    <3>1. CASE acl[peer[s]] # "unknown" /\ perm' = [perm EXCEPT ![s] = acl[peer[s]]] /\ acl' = acl
      <4>1. acl[peer[s]] \in Permissions BY <3>0, <3>1 DEF Store
      <4> QED BY <3>0, <3>1, <4>1 DEF OperatorDecides, Places
    <3>2. CASE /\ acl[peer[s]] = "unknown" /\ perm' = [perm EXCEPT ![s] = "control"]
               /\ acl' = [acl EXCEPT ![peer[s]] = "control"]
      <4>1. ~forgotten => decided[peer[s]] = "unknown" BY <3>0, <3>2
      <4>2. acl' \in Store BY <3>0, <3>2 DEF Store, Permissions
      <4> QED BY <3>0, <3>2, <4>1, <4>2 DEF OperatorDecides, Places, Permissions, Store
    <3> QED BY <2>3, <3>1, <3>2 DEF CheckOrPair, Check, Trust
  <2>4. ASSUME SaveEnds(s) PROVE TrustInv'
    <3>0. /\ place[s] = "saving" /\ process = "running" /\ place' = [place EXCEPT ![s] = "admitted"]
          /\ UNCHANGED <<process, acl, decided, forgotten, peer, perm>>
      BY <2>0, <2>4 DEF SaveEnds, SessionGoes, main, operator
    <3>1. aclTorn' = FALSE /\ aclFile' \in {aclFile, acl} BY <2>4 DEF SaveEnds
    <3> QED BY <3>0, <3>1 DEF OperatorDecides, Places
  <2>5. ASSUME NEW c \in KeyNames, KeyDown(s, c) \/ KeyUp(s, c) \/ Release(s, c) PROVE TrustInv'
    BY <1>1, <1>3, <2>5 DEF KeyDown, KeyUp, Release, MayControl, SessionGoes, main, files, operator, Places, Within
  <2>6. Inject(s) \/ InjectText(s) \/ Pointer(s) \/ Leave(s) => TrustInv'
    BY <1>1, <1>3 DEF Inject, InjectText, Pointer, Leave, SessionGoes, main, files, operator, Places, Within
  <2> QED BY <1>5, <2>1, <2>2, <2>3, <2>4, <2>5, <2>6 DEF SessionStep
<1>6. ASSUME NEW p \in Peers, NEW g \in Grants \union {"unknown"}, OperatorSets(p, g) PROVE TrustInv'
  BY <1>6 DEF OperatorSets, main, Store, OnlyWhileRunning, OperatorDecides, ProcessPlaces
<1>7. CASE UNCHANGED hostVars
  BY <1>1, <1>7 DEF hostVars, files, main, operator
<1> QED BY <1>4, <1>5, <1>6, <1>7 DEF HostNext

\* Whatever saves fail and wherever the process dies: as long as acl.json can be read at every
\* start, every session serves its peer with the permission the operator wrote.
THEOREM OperatorAlwaysDecides == HostSpec => []OperatorDecides
<1>1. TrustInv => OperatorDecides BY DEF TrustInv
<1>2. KeyInv => OnlyWhileRunning BY DEF KeyInv
<1> QED BY <1>1, <1>2, InitKeyInv, NextKeyInv, InitTrustInv, NextTrustInv, PTL DEF HostSpec

-----------------------------------------------------------------------------
\* Each variable of the host stays in its range.
LEMMA NextHostType == HostTypeOK /\ [HostNext]_hostVars => HostTypeOK'
<1> SUFFICES ASSUME HostTypeOK, [HostNext]_hostVars PROVE HostTypeOK'
    OBVIOUS
<1> USE HostAssumption, StoreOfStrangers
<1> USE DEF HostTypeOK, FileStates, files, main, keyboard, operator
<1>1. ASSUME MainStep PROVE HostTypeOK'
  <2>1. Dies \/ Starts \/ LoadIdentity \/ WriteIdentity => HostTypeOK'
    BY DEF Dies, Gone, Starts, LoadIdentity, WriteIdentity, Goes, Places, ProcessPlaces
  <2>2. LoadAcl \/ LoadAclFails \/ LoadDevice \/ WriteDevice \/ SetUp => HostTypeOK'
    BY DEF LoadAcl, LoadAclFails, LoadDevice, WriteDevice, SetUp, OpenKeyboard, Goes, ProcessPlaces
  <2>3. SignalConnects \/ Registers \/ SignalFails \/ SignalLost \/ BackoffOver => HostTypeOK'
    BY DEF SignalConnects, Registers, SignalFails, SignalLost, BackoffOver, Signals
  <2> QED BY <1>1, <2>1, <2>2, <2>3 DEF MainStep
<1>2. ASSUME NEW s \in Sessions, SessionStep(s) PROVE HostTypeOK'
  <2> USE DEF SessionGoes, Places
  <2>1. Incoming(s) \/ HandshakeFails(s) \/ (\E p \in Peers : Handshaken(s, p)) => HostTypeOK'
    BY DEF Incoming, HandshakeFails, Handshaken
  <2>2. CheckOrPair(s) => HostTypeOK'
    BY DEF CheckOrPair, Check, Trust, SaveBegins, Store, Permissions
  <2>3. Rejected(s) \/ SaveEnds(s) \/ Admit(s) \/ Prepare(s) \/ Finish(s) \/ Attest(s) => HostTypeOK'
    BY DEF Rejected, SaveEnds, Admit, Prepare, Finish, Attest
  <2>4. Inject(s) \/ InjectText(s) \/ Pointer(s) \/ Leave(s) => HostTypeOK'
    BY KeysOfNames DEF Inject, InjectText, Pointer, MouseButton, Leave
  <2>5. ASSUME NEW c \in KeyNames, KeyDown(s, c) \/ KeyUp(s, c) \/ Release(s, c) PROVE HostTypeOK'
    BY <2>5 DEF KeyDown, KeyUp, Release
  <2> QED BY <1>2, <2>1, <2>2, <2>3, <2>4, <2>5 DEF SessionStep
<1>3. ASSUME NEW p \in Peers, NEW g \in Grants \union {"unknown"}, OperatorSets(p, g) PROVE HostTypeOK'
  BY <1>3 DEF OperatorSets, Store
<1>4. CASE UNCHANGED hostVars
  BY <1>4 DEF hostVars
<1> QED BY <1>1, <1>2, <1>3, <1>4 DEF HostNext

\* The variables of the host, its files and its sessions keep their ranges.
THEOREM HostTypeCorrect == HostSpec => []HostTypeOK
<1>1. HostInit => HostTypeOK
  <2> SUFFICES ASSUME HostInit PROVE HostTypeOK
      OBVIOUS
  <2>1. aclFile \in Store /\ acl \in Store /\ decided \in Store BY StoreOfStrangers DEF HostInit
  <2>2. /\ held \in [Sessions -> SUBSET KeyNames] /\ press \in [Sessions -> SUBSET KeyNames]
        /\ lift \in [Sessions -> SUBSET KeyNames] /\ down \subseteq Keys
    BY DEF HostInit
  <2>3. place \in [Sessions -> Places] /\ peer \in [Sessions -> Peers] /\ perm \in [Sessions -> Permissions]
    BY DEF HostInit, Places, Permissions
  <2> QED BY <2>1, <2>2, <2>3 DEF HostInit, HostTypeOK, FileStates, ProcessPlaces
<1> QED BY <1>1, NextHostType, PTL DEF HostSpec

-----------------------------------------------------------------------------
(* Files that viewers send *)

Move == [id : Ids, to : Names]

\* The ranges without the bound on open transfers.
Types ==
  /\ running \in [Senders -> {"yes", "ended", "failed"}]
  /\ transfers \subseteq Ids /\ temp \subseteq Ids /\ intact \subseteq Ids
  /\ len \in [Ids -> Nat]
  /\ moving \in [Senders -> Move \cup {None}]
  /\ saved \in [Names -> Ids \cup {None}]

\* A file that is being renamed belongs to the session, is no longer written
\* to and has the announced content; its name was not the session's before.
MoveIsSound ==
  \A s \in Senders : moving[s] # None =>
    /\ OwnerOf[moving[s].id] = s
    /\ moving[s].id \notin transfers
    /\ HashMatches(moving[s].id)
    /\ saved[moving[s].to] # None => OwnerOf[saved[moving[s].to]] # s

\* A session that returned has no transfer left.
TransfersAreLive == \A id \in transfers : running[OwnerOf[id]] = "yes"

TransferInv == Types /\ MoveIsSound /\ TransfersAreLive /\ SavedIsIntact /\ TempIsOwned

\* A session that has something to rename has a move.
LEMMA NoneIsNoMove == ASSUME NEW s \in Senders, Types, moving[s] # None PROVE moving[s] \in Move
BY DEF Types

\* An empty directory is sound.
LEMMA InitTransferInv == TransferInit => TransferInv
BY TransferAssumption
DEF TransferInit, TransferInv, Types, MoveIsSound, TransfersAreLive, SavedIsIntact, TempIsOwned, Names

\* Each message of a transfer and both ends of a session keep moves and saved files sound.
LEMMA NextTransferInv == TransferInv /\ [TransferNext]_transferVars => TransferInv'
<1> SUFFICES ASSUME TransferInv, [TransferNext]_transferVars PROVE TransferInv'
    OBVIOUS
<1> USE TransferAssumption DEF TransferInv
<1>1. ASSUME NEW id \in Ids, NEW n \in 1..(FileBlocks + 1), Start(id, n) PROVE TransferInv'
  <2> USE <1>1 DEF Start, Idle
  <2>1. Types'
    BY DEF Types
  <2>2. MoveIsSound' /\ TransfersAreLive'
    BY DEF Types, MoveIsSound, TransfersAreLive, HashMatches
  <2>3. SavedIsIntact' /\ TempIsOwned'
    BY DEF Types, SavedIsIntact, TempIsOwned
  <2> QED BY <2>1, <2>2, <2>3
<1>2. ASSUME NEW id \in Ids, NEW o \in 0..FileBlocks, NEW right \in BOOLEAN, Chunk(id, o, right) PROVE TransferInv'
  <2> USE <1>2 DEF Chunk, Idle
  <2>1. Types'
    BY DEF Types
  <2>2. MoveIsSound'
    <3> SUFFICES ASSUME NEW s \in Senders, moving[s] # None
                 PROVE len'[moving[s].id] = FileBlocks /\ good'[moving[s].id] = 0..(FileBlocks - 1)
        BY DEF MoveIsSound, HashMatches
    <3>1. moving[s] \in Move BY NoneIsNoMove
    <3>2. moving[s].id # id BY DEF MoveIsSound
    <3> QED BY <3>1, <3>2 DEF HashMatches, MoveIsSound, Move, Types
  <2>3. TransfersAreLive' /\ SavedIsIntact' /\ TempIsOwned'
    BY DEF TransfersAreLive, SavedIsIntact, TempIsOwned
  <2> QED BY <2>1, <2>2, <2>3
<1>3. ASSUME NEW id \in Ids, Drop(id) PROVE TransferInv'
  <2> USE <1>3 DEF Drop, Forget, Idle
  <2>1. Types' BY DEF Types
  <2>2. MoveIsSound' /\ TransfersAreLive' /\ SavedIsIntact'
    BY DEF MoveIsSound, TransfersAreLive, SavedIsIntact, HashMatches
  <2>3. TempIsOwned' BY DEF TempIsOwned
  <2> QED BY <2>1, <2>2, <2>3
<1>4. ASSUME NEW id \in Ids, Done(id) PROVE TransferInv'
  <2> DEFINE s == OwnerOf[id]
  <2>0. s \in Senders /\ running[s] = "yes" /\ moving[s] = None /\ id \in transfers
        /\ transfers' = transfers \ {id}
        /\ UNCHANGED <<running, size, len, good, saved, intact, used>>
    BY <1>4 DEF Done, Idle
  <2>1. CASE HashMatches(id) /\ FreeName # {}
    <3>1. PICK n \in FreeName : moving' = [moving EXCEPT ![s] = [id |-> id, to |-> n]] /\ temp' = temp
      BY <1>4, <2>1 DEF Done
    <3>2. n \in Names /\ saved[n] = None BY DEF FreeName
    <3>3. Types' BY <2>0, <3>1, <3>2 DEF Types, Move
    <3>4. MoveIsSound'
      <4> SUFFICES ASSUME NEW r \in Senders, moving'[r] # None
                   PROVE /\ OwnerOf[moving'[r].id] = r
                         /\ moving'[r].id \notin transfers'
                         /\ len'[moving'[r].id] = FileBlocks /\ good'[moving'[r].id] = 0..(FileBlocks - 1)
                         /\ saved'[moving'[r].to] # None => OwnerOf[saved'[moving'[r].to]] # r
          BY DEF MoveIsSound, HashMatches
      <4>1. CASE r = s
        <5>1. moving'[r] = [id |-> id, to |-> n] BY <2>0, <3>1, <4>1 DEF Types
        <5> QED BY <2>0, <2>1, <3>2, <4>1, <5>1 DEF HashMatches
      <4>2. CASE r # s
        <5>1. moving'[r] = moving[r] BY <2>0, <3>1, <4>2 DEF Types
        <5> QED BY <2>0, <5>1 DEF MoveIsSound, HashMatches
      <4> QED BY <4>1, <4>2
    <3>5. TransfersAreLive' /\ SavedIsIntact' BY <2>0 DEF TransfersAreLive, SavedIsIntact
    <3>6. TempIsOwned' 
      <4> SUFFICES ASSUME NEW i \in temp
                   PROVE \/ i \in transfers'
                         \/ moving'[OwnerOf[i]] # None /\ moving'[OwnerOf[i]].id = i
                         \/ running'[OwnerOf[i]] = "failed"
          BY <3>1 DEF TempIsOwned
      <4>0. i \in Ids /\ OwnerOf[i] \in Senders BY DEF Types
      <4>1. CASE i = id
        <5>1. moving'[OwnerOf[i]] = [id |-> id, to |-> n] BY <2>0, <3>1, <4>1 DEF Types
        <5>2. [id |-> id, to |-> n] # None BY <3>2 DEF Names
        <5> QED BY <4>1, <5>1, <5>2
      <4>2. CASE i # id
        <5>1. \/ i \in transfers
              \/ moving[OwnerOf[i]] # None /\ moving[OwnerOf[i]].id = i
              \/ running[OwnerOf[i]] = "failed"
          BY DEF TempIsOwned
        <5>2. OwnerOf[i] # s => moving'[OwnerOf[i]] = moving[OwnerOf[i]]
          BY <2>0, <3>1, <4>0 DEF Types
        <5> QED BY <2>0, <4>0, <4>2, <5>1, <5>2
      <4> QED BY <4>1, <4>2
    <3> QED BY <3>3, <3>4, <3>5, <3>6
  <2>2. CASE ~(HashMatches(id) /\ FreeName # {})
    <3>1. temp' = temp \ {id} /\ moving' = moving BY <1>4, <2>2 DEF Done
    <3>2. Types' BY <2>0, <3>1 DEF Types
    <3>3. MoveIsSound' /\ TransfersAreLive' /\ SavedIsIntact'
      BY <2>0, <3>1 DEF MoveIsSound, TransfersAreLive, SavedIsIntact, HashMatches
    <3>4. TempIsOwned' BY <2>0, <3>1 DEF TempIsOwned
    <3> QED BY <3>2, <3>3, <3>4
  <2> QED BY <2>1, <2>2
<1>5. ASSUME NEW s \in Senders, Rename(s) PROVE TransferInv'
  <2> DEFINE m == moving[s]
  <2>0. /\ m # None /\ m \in Move /\ m.id \in Ids /\ m.to \in Names
        /\ OwnerOf[m.id] = s /\ m.id \notin transfers /\ HashMatches(m.id)
    BY <1>5, NoneIsNoMove DEF Rename, MoveIsSound, Move
  <2>1. /\ saved' = [saved EXCEPT ![m.to] = m.id]
        /\ temp' = temp \ {m.id}
        /\ intact' = intact \cup {m.id}
        /\ moving' = [moving EXCEPT ![s] = None]
        /\ UNCHANGED <<running, transfers, size, len, good, used>>
    BY <1>5, <2>0 DEF Rename, HashMatches
  <2> HIDE DEF m
  <2>2. Types' BY <2>0, <2>1 DEF Types
  <2>3. MoveIsSound'
    <3> SUFFICES ASSUME NEW r \in Senders, moving'[r] # None
                 PROVE /\ OwnerOf[moving'[r].id] = r
                       /\ moving'[r].id \notin transfers'
                       /\ len'[moving'[r].id] = FileBlocks /\ good'[moving'[r].id] = 0..(FileBlocks - 1)
                       /\ saved'[moving'[r].to] # None => OwnerOf[saved'[moving'[r].to]] # r
        BY DEF MoveIsSound, HashMatches
    <3>1. r # s /\ moving'[r] = moving[r] /\ moving[r] # None BY <2>1 DEF Types
    <3>2. moving[r] \in Move BY <3>1, NoneIsNoMove
    <3>3. saved'[moving[r].to] \in {saved[moving[r].to], m.id}
      BY <2>0, <2>1, <3>2 DEF Types, Move
    <3> QED BY <2>0, <2>1, <3>1, <3>3 DEF MoveIsSound, HashMatches
  <2>4. TransfersAreLive' BY <2>1 DEF TransfersAreLive
  <2>5. SavedIsIntact'
    <3> SUFFICES ASSUME NEW n \in Names, saved'[n] # None PROVE saved'[n] \in intact'
        BY DEF SavedIsIntact
    <3>1. saved'[n] \in {saved[n], m.id} BY <2>0, <2>1 DEF Types
    <3> QED BY <2>1, <3>1 DEF SavedIsIntact
  <2>6. TempIsOwned'
    <3> SUFFICES ASSUME NEW i \in temp, i # m.id
                 PROVE \/ i \in transfers'
                       \/ moving'[OwnerOf[i]] # None /\ moving'[OwnerOf[i]].id = i
                       \/ running'[OwnerOf[i]] = "failed"
        BY <2>1 DEF TempIsOwned
    <3>0. i \in Ids /\ OwnerOf[i] \in Senders BY DEF Types
    <3>1. \/ i \in transfers
          \/ moving[OwnerOf[i]] # None /\ moving[OwnerOf[i]].id = i
          \/ running[OwnerOf[i]] = "failed"
      BY DEF TempIsOwned
    <3>2. OwnerOf[i] # s => moving'[OwnerOf[i]] = moving[OwnerOf[i]] BY <2>1, <3>0 DEF Types
    <3> QED BY <2>1, <3>1, <3>2 DEF m
  <2> QED BY <2>2, <2>3, <2>4, <2>5, <2>6
<1>6. ASSUME NEW s \in Senders, RenameFails(s) PROVE TransferInv'
  <2> USE <1>6 DEF RenameFails
  <2>1. Types' BY DEF Types
  <2>2. MoveIsSound' /\ TransfersAreLive' /\ SavedIsIntact'
    BY DEF MoveIsSound, TransfersAreLive, SavedIsIntact, HashMatches, Types
  <2>3. TempIsOwned' BY DEF TempIsOwned, Types
  <2> QED BY <2>1, <2>2, <2>3
<1>7. ASSUME NEW s \in Senders, EndBreak(s) PROVE TransferInv'
  <2> USE <1>7 DEF EndBreak, Idle, Mine
  <2>1. Types' BY DEF Types
  <2>2. MoveIsSound' /\ TransfersAreLive' /\ SavedIsIntact'
    BY DEF MoveIsSound, TransfersAreLive, SavedIsIntact, HashMatches, Types
  <2>3. TempIsOwned' BY DEF TempIsOwned, Types
  <2> QED BY <2>1, <2>2, <2>3
<1>8. ASSUME NEW s \in Senders, EndError(s) PROVE TransferInv'
  <2> USE <1>8 DEF EndError, Idle, Mine
  <2>1. Types' BY DEF Types
  <2>2. MoveIsSound' /\ TransfersAreLive' /\ SavedIsIntact'
    BY DEF MoveIsSound, TransfersAreLive, SavedIsIntact, HashMatches, Types
  <2>3. TempIsOwned' BY DEF TempIsOwned, Types
  <2> QED BY <2>1, <2>2, <2>3
<1>9. CASE UNCHANGED transferVars
  BY <1>9 DEF transferVars, Types, MoveIsSound, TransfersAreLive, SavedIsIntact, TempIsOwned, HashMatches
<1> QED BY <1>1, <1>2, <1>3, <1>4, <1>5, <1>6, <1>7, <1>8, <1>9 DEF TransferNext

\* So they are sound at every moment.
LEMMA TransferInvariant == TransferSpec => []TransferInv
BY InitTransferInv, NextTransferInv, PTL DEF TransferSpec

\* Whatever chunks are lost, repeated, reordered or wrong, in any number of
\* sessions: what handle_file_transfer saves has the announced content.
THEOREM SavedAlwaysIntact == TransferSpec => []SavedIsIntact
<1>1. TransferInv => SavedIsIntact BY DEF TransferInv
<1> QED BY <1>1, TransferInvariant, PTL

\* The only way to leave a temp file behind is the error exit of
\* handle_viewer.
THEOREM TempAlwaysOwned == TransferSpec => []TempIsOwned
<1>1. TransferInv => TempIsOwned BY DEF TransferInv
<1> QED BY <1>1, TransferInvariant, PTL

\* A session never replaces a file it saved itself, although exists() and
\* rename() are separate steps.
THEOREM OwnFilesKept == TransferSpec => OwnFileKept
<1>1. TransferInv /\ [TransferNext]_transferVars =>
        [\A n \in Names : (saved[n] # None /\ saved'[n] # saved[n])
            => OwnerOf[saved'[n]] # OwnerOf[saved[n]]]_transferVars
  <2> SUFFICES ASSUME TransferInv, [TransferNext]_transferVars, NEW n \in Names, saved[n] # None, saved'[n] # saved[n]
               PROVE OwnerOf[saved'[n]] # OwnerOf[saved[n]]
      OBVIOUS
  <2>1. PICK s \in Senders : Rename(s)
    BY DEF TransferNext, transferVars, Start, Chunk, Drop, Done, RenameFails, EndBreak, EndError
  <2>2. moving[s] # None /\ moving[s] \in Move /\ OwnerOf[moving[s].id] = s
    BY <2>1, NoneIsNoMove DEF Rename, TransferInv, MoveIsSound
  <2>3. n = moving[s].to /\ saved'[n] = moving[s].id
    BY <2>1, <2>2 DEF Rename, TransferInv, Types, Move
  <2> QED BY <2>2, <2>3 DEF TransferInv, MoveIsSound
<1> QED BY <1>1, TransferInvariant, PTL DEF TransferSpec, OwnFileKept

-----------------------------------------------------------------------------
\* An id that was never announced has no transfer and no length.
UnusedIsBlank == \A id \in Ids \ used : id \notin transfers /\ len[id] = 0

\* The ranges that no bound depends on.
Ranges ==
  /\ Types /\ used \subseteq Ids
  /\ size \in [Ids -> 0..max_file_bytes] /\ \A id \in Ids : len[id] <= size[id]
  /\ good \in [Ids -> SUBSET (0..max_file_bytes)]

Bounded == \A s \in Senders : Cardinality(Mine(s)) <= MAX_CONCURRENT_TRANSFERS

RangeInv == Ranges /\ UnusedIsBlank /\ Bounded

\* Before the first Start nothing is announced.
LEMMA InitRangeInv == TransferInit => RangeInv
<1> SUFFICES ASSUME TransferInit PROVE RangeInv
    OBVIOUS
<1> USE TransferAssumption
<1>1. Types BY InitTransferInv DEF TransferInv
<1>2. Ranges BY <1>1 DEF TransferInit, Ranges
<1>3. UnusedIsBlank BY DEF TransferInit, UnusedIsBlank
<1>4. \A s \in Senders : Mine(s) = {} BY DEF TransferInit, Mine
<1>5. Bounded BY <1>4, FS_EmptySet DEF Bounded
<1> QED BY <1>2, <1>3, <1>5 DEF RangeInv

\* Lengths stay within the announced size.
LEMMA NextRanges == TransferInv' /\ RangeInv /\ [TransferNext]_transferVars => Ranges' /\ UnusedIsBlank'
<1> SUFFICES ASSUME TransferInv', RangeInv, [TransferNext]_transferVars PROVE Ranges' /\ UnusedIsBlank'
    OBVIOUS
<1> USE TransferAssumption DEF RangeInv, Ranges, UnusedIsBlank
<1>0. Types' BY DEF TransferInv
<1>1. ASSUME NEW id \in Ids, NEW n \in 1..(FileBlocks + 1), Start(id, n) PROVE Ranges' /\ UnusedIsBlank'
  <2>1. n \in 0..max_file_bytes /\ len[id] = 0 BY <1>1 DEF Start, Admits
  <2> QED BY <1>0, <1>1, <2>1 DEF Start
<1>2. ASSUME NEW id \in Ids, NEW o \in 0..FileBlocks, NEW right \in BOOLEAN, Chunk(id, o, right)
      PROVE Ranges' /\ UnusedIsBlank'
  <2>1. o \in 0..max_file_bytes /\ o + 1 <= size[id] /\ id \in used BY <1>2 DEF Chunk
  <2>2. good' \in [Ids -> SUBSET (0..max_file_bytes)] BY <1>2, <2>1 DEF Chunk
  <2>3. \A i \in Ids : len'[i] <= size'[i] BY <1>2, <2>1 DEF Chunk, Types
  <2> QED BY <1>0, <1>2, <2>1, <2>2, <2>3 DEF Chunk, Types
<1>3. ASSUME NEW id \in Ids, Drop(id) \/ Done(id) PROVE Ranges' /\ UnusedIsBlank'
  BY <1>0, <1>3 DEF Drop, Done, Forget
<1>4. ASSUME NEW s \in Senders, Rename(s) \/ RenameFails(s) \/ EndBreak(s) \/ EndError(s)
      PROVE Ranges' /\ UnusedIsBlank'
  BY <1>0, <1>4 DEF Rename, RenameFails, EndBreak, EndError
<1>5. CASE UNCHANGED transferVars
  BY <1>0, <1>5 DEF transferVars
<1> QED BY <1>1, <1>2, <1>3, <1>4, <1>5 DEF TransferNext

\* Start refuses a transfer beyond MAX_CONCURRENT_TRANSFERS.
LEMMA NextBounded == Types /\ Bounded /\ [TransferNext]_transferVars => Bounded'
<1> SUFFICES ASSUME Types, Bounded, [TransferNext]_transferVars, NEW s \in Senders
             PROVE Cardinality(Mine(s)') <= MAX_CONCURRENT_TRANSFERS
    BY DEF Bounded
<1> USE TransferAssumption
<1>1. IsFiniteSet(Mine(s)) /\ Cardinality(Mine(s)) \in Nat
  BY FS_Subset, FS_CardinalityType DEF Mine, Types
<1>2. CASE Mine(s)' \subseteq Mine(s)
  <2>1. Cardinality(Mine(s)') <= Cardinality(Mine(s)) /\ Cardinality(Mine(s)') \in Nat
    BY <1>1, <1>2, FS_Subset, FS_CardinalityType
  <2> QED BY <1>1, <2>1 DEF Bounded
<1>3. CASE \E id \in Ids, n \in 1..(FileBlocks + 1) : OwnerOf[id] = s /\ Start(id, n)
  <2>1. PICK id \in Ids, n \in 1..(FileBlocks + 1) : OwnerOf[id] = s /\ Start(id, n) BY <1>3
  <2>2. Mine(s)' = Mine(s) \cup {id} BY <2>1 DEF Start, Mine
  <2>3. Cardinality(Mine(s)) < MAX_CONCURRENT_TRANSFERS BY <2>1 DEF Start, Admits
  <2>4. Cardinality(Mine(s) \cup {id}) \in {Cardinality(Mine(s)), Cardinality(Mine(s)) + 1}
    BY <1>1, FS_AddElement
  <2> QED BY <1>1, <2>2, <2>3, <2>4
<1>4. ASSUME NEW id \in Ids, NEW n \in 1..(FileBlocks + 1), Start(id, n), OwnerOf[id] # s
      PROVE Mine(s)' \subseteq Mine(s)
  BY <1>4 DEF Start, Mine
<1>5. transfers' \subseteq transfers => Mine(s)' \subseteq Mine(s) BY DEF Mine
<1>6. \/ transfers' \subseteq transfers
      \/ \E id \in Ids, n \in 1..(FileBlocks + 1) : Start(id, n)
  BY DEF TransferNext, transferVars, Chunk, Drop, Forget, Done, Rename, RenameFails, EndBreak, EndError
<1> QED BY <1>2, <1>3, <1>4, <1>5, <1>6

\* The open transfers of a session never exceed MAX_CONCURRENT_TRANSFERS,
\* however they end, and the variables keep their ranges.
THEOREM TransferTypeCorrect == TransferSpec => []TransferTypeOK
<1>1. RangeInv => TransferTypeOK BY DEF RangeInv, Ranges, Types, Bounded, TransferTypeOK, Move
<1>2. TransferInv' /\ RangeInv /\ [TransferNext]_transferVars => RangeInv'
  BY NextRanges, NextBounded DEF RangeInv, Ranges
<1> QED BY <1>1, <1>2, InitRangeInv, TransferInvariant, PTL DEF TransferSpec
=============================================================================

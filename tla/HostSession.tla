----------------------------- MODULE HostSession -----------------------------
(***************************************************************************)
(* The host process: what it keeps on disk, how it starts, its connection   *)
(* to the signal server and the viewers' sessions it serves at once.  The   *)
(* sessions share the trust store, one lock and one file, and the virtual   *)
(* keyboard; the process may die between any two steps and start again.     *)
(***************************************************************************)
EXTENDS Naturals, FiniteSets

CONSTANTS
    Sessions,   \* handle_viewer tasks that may run at once
    Peers,      \* viewer identities; the device id of a peer is its key
    Codes, Keys,   \* evdev codes, and those the virtual keyboard was set up with
    CtrlKey,       \* the one inject_text presses and releases, with V
    KeyNames,      \* a viewer's name for a key: its number and, unless it is old, its physical code
    KeyTable,      \* the evdev code of each name whose physical code is in the keymap
    Legacy,        \* the number of each name, taken as an evdev code
    NoCode,
    Grants,     \* what the operator writes into acl.json
    MaxEdits    \* how often

Permissions == {"view_only", "control", "full"}
ASSUME HostAssumption ==
    /\ Keys \subseteq Codes /\ CtrlKey \in Keys /\ NoCode \notin Codes
    /\ KeyTable \in [DOMAIN KeyTable -> Codes] /\ DOMAIN KeyTable \subseteq KeyNames
    /\ Legacy \in [KeyNames -> Codes]
    /\ Grants \subseteq Permissions /\ MaxEdits \in Nat

VARIABLES
    identityFile,  \* "absent", "empty" (created, not written) or "whole"
    deviceFile,    \* the same for device_id
    aclFile,       \* acl.json: the permission of each peer, "unknown" if it is not in it
    aclTorn,       \* acl.json cannot be parsed
    process,       \* how far main has got
    strict,        \* MIRU_REQUIRE_PAIRING_CONFIRM
    uinput,        \* the virtual keyboard could be opened
    acl,           \* the trust store in memory
    signal,        \* where run's loop is
    place,         \* place[s]: where handle_viewer is
    peer, perm,    \* peer[s], perm[s]: whom it serves, with which permission
    held,          \* held[s]: the handler's held_keys, by the viewer's names
    press,         \* press[s]: names about to be pressed
    lift,          \* lift[s]: names about to be lifted
    down,          \* keys down on the virtual keyboard
    button,        \* a button of the virtual mouse is down
    decided,       \* the operator's last word on each peer
    forgotten,     \* acl.json could not be read at a start
    edits

files == <<identityFile, deviceFile, aclFile, aclTorn>>
main == <<process, strict, uinput, signal>>
keyboard == <<held, press, lift, down, button>>
operator == <<decided, forgotten, edits>>
hostVars == <<files, main, acl, place, peer, perm, keyboard, operator>>

Places == {"free", "handshake", "admission", "saving", "admitted", "preparing", "serving", "injecting", "leaving", "attesting"}
ProcessPlaces == {"down", "identity", "writing_identity", "acl", "device", "writing_device", "set_up", "running"}
Stranger == [p \in Peers |-> "unknown"]

HostInit ==
    /\ identityFile = "absent" /\ deviceFile = "absent" /\ aclFile = Stranger /\ aclTorn = FALSE
    /\ process = "down" /\ strict = FALSE /\ uinput = FALSE /\ signal = "connecting"
    /\ acl = Stranger
    /\ place = [s \in Sessions |-> "free"]
    /\ peer \in [Sessions -> Peers] /\ perm = [s \in Sessions |-> "view_only"]
    /\ held = [s \in Sessions |-> {}] /\ press = [s \in Sessions |-> {}] /\ lift = [s \in Sessions |-> {}]
    /\ down = {} /\ button = FALSE
    /\ decided = Stranger /\ forgotten = FALSE /\ edits = 0

-----------------------------------------------------------------------------
(* The process *)

\* It ends, by an error of main, a panic (the release build aborts) or a kill; its sessions end
\* with it, and the kernel removes the virtual keyboard.
Gone ==
    /\ process' = "down" /\ signal' = "connecting"
    /\ acl' = Stranger
    /\ place' = [s \in Sessions |-> "free"]
    /\ held' = [s \in Sessions |-> {}] /\ press' = [s \in Sessions |-> {}] /\ lift' = [s \in Sessions |-> {}]
    /\ down' = {} /\ button' = FALSE
    /\ UNCHANGED <<strict, uinput, peer, perm>>
Dies ==
    /\ process # "down"
    /\ Gone
    /\ UNCHANGED <<files, operator>>

Starts ==
    /\ process = "down"
    /\ process' = "identity"
    /\ UNCHANGED <<files, strict, uinput, signal, acl, place, peer, perm, keyboard, operator>>

Goes(to) == process' = to /\ UNCHANGED <<strict, uinput, signal, acl, place, peer, perm, keyboard>>

\* load_or_create: a file of any other length than a key's stops the host.
LoadIdentity ==
    /\ process = "identity"
    /\ \/ identityFile = "whole" /\ Goes("acl") /\ UNCHANGED identityFile
       \/ identityFile = "empty" /\ Gone /\ UNCHANGED identityFile
       \/ identityFile = "absent" /\ Goes("writing_identity") /\ identityFile' = "empty"
    /\ UNCHANGED <<deviceFile, aclFile, aclTorn, operator>>
WriteIdentity ==
    /\ process = "writing_identity"
    /\ Goes("acl")
    /\ identityFile' = "whole"
    /\ UNCHANGED <<deviceFile, aclFile, aclTorn, operator>>

\* AclStore::load: a file that does not parse counts as an empty store.
LoadAcl ==
    /\ process = "acl"
    /\ process' = "device"
    /\ acl' = IF aclTorn THEN Stranger ELSE aclFile
    /\ UNCHANGED <<files, strict, uinput, signal, place, peer, perm, keyboard, operator>>
\* So does one that cannot be read.
LoadAclFails ==
    /\ process = "acl"
    /\ process' = "device"
    /\ acl' = Stranger
    /\ forgotten' = TRUE
    /\ UNCHANGED <<files, strict, uinput, signal, place, peer, perm, keyboard, decided, edits>>

\* load_or_create_device_id: what is in the file is the id, be it nothing.
LoadDevice ==
    /\ process = "device"
    /\ \/ deviceFile # "absent" /\ Goes("set_up") /\ UNCHANGED deviceFile
       \/ deviceFile = "absent" /\ Goes("writing_device") /\ deviceFile' = "empty"
    /\ UNCHANGED <<identityFile, aclFile, aclTorn, operator>>
WriteDevice ==
    /\ process = "writing_device"
    /\ Goes("set_up")
    /\ deviceFile' = "whole"
    /\ UNCHANGED <<identityFile, aclFile, aclTorn, operator>>

\* UinputDevice::new, once per process: it works or it does not.
OpenKeyboard == uinput' \in BOOLEAN
\* The probes, the sandbox and the discovery may fail and are only logged; the environment says
\* whether pairing is strict.
SetUp ==
    /\ process = "set_up"
    /\ process' = "running"
    /\ strict' \in BOOLEAN
    /\ OpenKeyboard
    /\ UNCHANGED <<files, signal, acl, place, peer, perm, keyboard, operator>>

\* run: connects and registers; on an error or at the end of the connection it waits and tries
\* again.  Sessions that are being served go on.
Signals(from, to) ==
    /\ process = "running" /\ signal = from
    /\ signal' = to
    /\ UNCHANGED <<files, process, strict, uinput, acl, place, peer, perm, keyboard, operator>>
SignalConnects == Signals("connecting", "registering")
Registers == Signals("registering", "online")
SignalFails == Signals("connecting", "backoff") \/ Signals("registering", "backoff")
SignalLost == Signals("online", "backoff")
BackoffOver == Signals("backoff", "connecting")

\* The operator edits acl.json while the host is down.
OperatorSets(p, g) ==
    /\ process = "down" /\ ~aclTorn /\ edits < MaxEdits
    /\ aclFile' = [aclFile EXCEPT ![p] = g]
    /\ decided' = [decided EXCEPT ![p] = g]
    /\ edits' = edits + 1
    /\ UNCHANGED <<identityFile, deviceFile, aclTorn, main, acl, place, peer, perm, keyboard, forgotten>>

-----------------------------------------------------------------------------
(* handle_viewer: admission *)

SessionGoes(s, to) == place' = [place EXCEPT ![s] = to]

\* An offer of the signal server: a task of its own.
Incoming(s) ==
    /\ process = "running" /\ signal = "online" /\ place[s] = "free"
    /\ SessionGoes(s, "handshake")
    /\ UNCHANGED <<files, main, acl, peer, perm, keyboard, operator>>

Handshaken(s, p) ==
    /\ place[s] = "handshake"
    /\ SessionGoes(s, "admission")
    /\ peer' = [peer EXCEPT ![s] = p]
    /\ UNCHANGED <<files, main, acl, perm, keyboard, operator>>
HandshakeFails(s) ==
    /\ place[s] = "handshake"
    /\ SessionGoes(s, "free")
    /\ UNCHANGED <<files, main, acl, peer, perm, keyboard, operator>>

\* A session that saves keeps the store's lock.
StoreLocked == \E s \in Sessions : place[s] = "saving"

\* Mutant: the file is written in place.
SaveTorn == aclTorn' = TRUE /\ UNCHANGED aclFile
\* save, up to the rename: another file is written and synced.
SaveBegins == UNCHANGED <<aclFile, aclTorn>>

\* AclStore::check; the device id of a viewer is its key, so there is no mismatch.
Check(p) == acl[p]
\* AclStore::trust
Trust(p, g) == acl' = [acl EXCEPT ![p] = g]

\* check_or_pair, under the lock of the store, which it keeps while it saves.
CheckOrPair(s) ==
    /\ place[s] = "admission" /\ ~StoreLocked
    /\ LET p == peer[s] IN
       \/ /\ Check(p) # "unknown"
          /\ perm' = [perm EXCEPT ![s] = Check(p)]
          /\ UNCHANGED acl
       \/ /\ Check(p) = "unknown" /\ ~strict
          /\ perm' = [perm EXCEPT ![s] = "control"]
          /\ Trust(p, "control")
    /\ SessionGoes(s, "saving")
    /\ SaveBegins
    /\ UNCHANGED <<identityFile, deviceFile, main, peer, keyboard, operator>>
Rejected(s) ==
    /\ place[s] = "admission" /\ ~StoreLocked
    /\ Check(peer[s]) = "unknown" /\ strict
    /\ SessionGoes(s, "free")
    /\ UNCHANGED <<files, main, acl, peer, perm, keyboard, operator>>

\* The rename; or save fails, which nobody looks at.
SaveEnds(s) ==
    /\ place[s] = "saving"
    /\ \/ aclFile' = acl /\ aclTorn' = FALSE
       \/ UNCHANGED <<aclFile, aclTorn>>
    /\ SessionGoes(s, "admitted")
    /\ UNCHANGED <<identityFile, deviceFile, main, acl, peer, perm, keyboard, operator>>

\* An agent without a valid token or a log ends here, though it has been trusted.
Admit(s) ==
    /\ place[s] = "admitted"
    /\ \/ SessionGoes(s, "preparing")
       \/ SessionGoes(s, "free")
    /\ UNCHANGED <<files, main, acl, peer, perm, keyboard, operator>>
\* The ciphers, the capture, the recorder: without a screen to capture there is no session.
Prepare(s) ==
    /\ place[s] = "preparing"
    /\ \/ SessionGoes(s, "serving")
       \/ SessionGoes(s, "free")
    /\ UNCHANGED <<files, main, acl, peer, perm, keyboard, operator>>

-----------------------------------------------------------------------------
(* handle_viewer: keys.  Events over the rate limit, or refused by an agent's gate, do nothing. *)

\* The row of the keymap; a physical code it does not have, or no physical code, gives None.
lookup(c) == IF c \in DOMAIN KeyTable THEN KeyTable[c] ELSE NoCode
\* evdev_code: the physical code if the keymap knows it, else the number.  Two names may mean one key.
evdev_code(c) == IF lookup(c) # NoCode THEN lookup(c) ELSE Legacy[c]
\* The keys the kernel changes: it ignores codes the keyboard was not set up with.
KeysOf(names) == {evdev_code(c) : c \in names} \intersect Keys

MayControl(s) == place[s] = "serving" /\ perm[s] \in {"control", "full"}

\* handle_input: noted first, injected after.
KeyDown(s, c) ==
    /\ MayControl(s)
    /\ held' = [held EXCEPT ![s] = @ \union {c}]
    /\ press' = [press EXCEPT ![s] = {c}]
    /\ SessionGoes(s, "injecting")
    /\ UNCHANGED <<files, main, acl, peer, perm, lift, down, button, operator>>
KeyUp(s, c) ==
    /\ MayControl(s)
    /\ held' = [held EXCEPT ![s] = @ \ {c}]
    /\ lift' = [lift EXCEPT ![s] = {c}]
    /\ SessionGoes(s, "injecting")
    /\ UNCHANGED <<files, main, acl, peer, perm, press, down, button, operator>>

\* inject, under the keyboard's lock; without a keyboard it is an error nobody looks at.
Inject(s) ==
    /\ place[s] = "injecting"
    /\ down' = IF uinput THEN (down \union KeysOf(press[s])) \ KeysOf(lift[s]) ELSE down
    /\ press' = [press EXCEPT ![s] = {}] /\ lift' = [lift EXCEPT ![s] = {}]
    /\ SessionGoes(s, "serving")
    /\ UNCHANGED <<files, main, acl, peer, perm, held, button, operator>>

\* inject_text: Ctrl and V go down and up, whoever holds them.
InjectText(s) ==
    /\ MayControl(s) /\ uinput
    /\ down' = down \ {CtrlKey}
    /\ UNCHANGED <<files, main, acl, place, peer, perm, held, press, lift, button, operator>>

\* The mouse: nobody notes which buttons are down.
MouseButton == button' \in BOOLEAN
Pointer(s) ==
    /\ MayControl(s) /\ uinput
    /\ MouseButton
    /\ UNCHANGED <<files, main, acl, place, peer, perm, held, press, lift, down, operator>>

\* Mutant: an error skips the release.
LeaveByError(s) ==
    /\ place[s] = "serving"
    /\ SessionGoes(s, "leaving")
    /\ held' = [held EXCEPT ![s] = {}]
    /\ UNCHANGED <<files, main, acl, peer, perm, press, lift, down, button, operator>>
\* The loop ends, or an error leaves it: release_all_keys drains what is held, at the end or when
\* the handler is dropped.
Leave(s) ==
    /\ place[s] = "serving"
    /\ SessionGoes(s, "leaving")
    /\ held' = [held EXCEPT ![s] = {}]
    /\ lift' = [lift EXCEPT ![s] = held[s]]
    /\ UNCHANGED <<files, main, acl, peer, perm, press, down, button, operator>>

\* One injection per key ...
Release(s, c) ==
    /\ place[s] = "leaving" /\ c \in lift[s]
    /\ down' = IF uinput THEN down \ KeysOf({c}) ELSE down
    /\ lift' = [lift EXCEPT ![s] = @ \ {c}]
    /\ UNCHANGED <<files, main, acl, place, peer, perm, held, press, button, operator>>
\* ... then the files, the recording and, after an orderly end and where a log is configured, the
\* attestation.
Finish(s) ==
    /\ place[s] = "leaving" /\ lift[s] = {}
    /\ \/ SessionGoes(s, "attesting")
       \/ SessionGoes(s, "free")
    /\ UNCHANGED <<files, main, acl, peer, perm, keyboard, operator>>
\* submit_host_to_rekor: accepted, refused or timed out, the session has ended.
Attest(s) ==
    /\ place[s] = "attesting"
    /\ SessionGoes(s, "free")
    /\ UNCHANGED <<files, main, acl, peer, perm, keyboard, operator>>

-----------------------------------------------------------------------------
MainStep ==
    \/ Dies \/ Starts \/ LoadIdentity \/ WriteIdentity \/ LoadAcl \/ LoadAclFails \/ LoadDevice \/ WriteDevice \/ SetUp
    \/ SignalConnects \/ Registers \/ SignalFails \/ SignalLost \/ BackoffOver
SessionStep(s) ==
    \/ Incoming(s) \/ HandshakeFails(s) \/ (\E p \in Peers : Handshaken(s, p))
    \/ CheckOrPair(s) \/ Rejected(s) \/ SaveEnds(s) \/ Admit(s) \/ Prepare(s)
    \/ Inject(s) \/ InjectText(s) \/ Pointer(s) \/ Leave(s) \/ Finish(s) \/ Attest(s)
    \/ (\E c \in KeyNames : KeyDown(s, c) \/ KeyUp(s, c) \/ Release(s, c))
HostNext ==
    \/ MainStep
    \/ \E s \in Sessions : SessionStep(s)
    \/ \E p \in Peers, g \in Grants \union {"unknown"} : OperatorSets(p, g)
HostSpec == HostInit /\ [][HostNext]_hostVars

-----------------------------------------------------------------------------
(* Properties *)

FileStates == {"absent", "empty", "whole"}
Store == [Peers -> Permissions \union {"unknown"}]
\* Each variable has its type.
HostTypeOK ==
    /\ identityFile \in FileStates /\ deviceFile \in FileStates /\ aclFile \in Store /\ aclTorn \in BOOLEAN
    /\ process \in ProcessPlaces /\ strict \in BOOLEAN /\ uinput \in BOOLEAN
    /\ signal \in {"connecting", "registering", "online", "backoff"}
    /\ acl \in Store
    /\ place \in [Sessions -> Places] /\ peer \in [Sessions -> Peers] /\ perm \in [Sessions -> Permissions]
    /\ held \in [Sessions -> SUBSET KeyNames] /\ press \in [Sessions -> SUBSET KeyNames] /\ lift \in [Sessions -> SUBSET KeyNames]
    /\ down \subseteq Keys /\ button \in BOOLEAN
    /\ decided \in Store /\ forgotten \in BOOLEAN /\ edits \in Nat

\* A key that is down is one some session remembers to lift, or is lifting: sessions share the
\* keyboard, press and lift each other's keys, under different names too, and end while others go
\* on; none leaves a key latched (handle_input, release_all_keys, the handler's Drop).
KeysAreOwned == \A k \in down : \E s \in Sessions : k \in KeysOf(held[s] \union lift[s])

\* What the operator wrote about a peer while the host was down holds for every session of that
\* peer from then on, whatever saves fail and wherever in a save the process dies, as long as the
\* file can be read at every start (AclStore::load and save, check_or_pair).
OperatorDecides ==
    ~forgotten => \A s \in Sessions :
        place[s] \in {"saving", "admitted", "preparing", "serving", "injecting"} /\ decided[peer[s]] # "unknown"
            => perm[s] = decided[peer[s]]
=============================================================================

# A TLA+ model of Miru

Miru is a remote-desktop system: a *host* shares its screen, a *viewer* (or an
AI agent) watches and controls it, and a *signal server* introduces the two and
relays their encrypted traffic.  This directory holds TLA+ models of the parts
whose correctness depends on interleavings, failures and limits, the TLC runs
that check them on small instances, and TLAPS proofs of the main results for
every value of the constants.

`PROJECT.json` lists the runs, the lines of code each definition stands for, the
hazards and the theorems.

## 1. The system

| component | state | operations | interacts with |
|---|---|---|---|
| signal server, rendezvous (`miru-signal/src/main.rs`) | registry of devices in a sharded map, a channel of 32 messages per connection, relay slots | Register, Connect, forwarding, keepalive, cleanup, slot reaper | host and viewer `SignalClient`s over WebSocket |
| signal server, relay (same file) | one slot per token, a channel of 256 frames per side | join, wait, forward, time out, leave | the rendezvous half makes the slots |
| session cipher (`miru-common/src/crypto.rs`) | send counter; receive window (highest, 128-bit bitmap) | encrypt, decrypt | one per direction in `RelayTransport` |
| viewer session (`miru-client/src-tauri/src/{state,session}.rs`) | the active-session slot, the retry counter of each task, the trusted peers, the pairing prompt | connect, disconnect, confirm_pairing, revoke_peer, the run/retry loop | signal server, relay, user interface |
| host video (`miru-host/src/{capture_loop,backpressure,session}.rs`) | capture threads, frame channel, in-flight count | capture, encode, send, pong, select display, end | viewer through the relay |
| host file transfer (`miru-host/src/session.rs`) | transfers of a session, temp and saved files | Start, Chunk, Done, Abort, both ends of a session | viewer; other sessions through the directory |
| agent audit log (`miru-agent/src/audit.rs`) | log file, last hash, next number, write buffer | open, append, verify, close | one instance per agent session on the host |
| agent authorisation (`miru-agent/src/{session,token,revocation}.rs`) | the token, revoked flag and remembered confirmations of a session; the revocation list in memory and on disk | open, authorize with its prompt, audit_screen_capture, revoke, revoke_all_known | the audit log underneath; the host's and the MCP server's input paths call it |
| host process (`miru-host/src/{main,session}.rs`, `miru-auth`, `miru-input`) | identity, device id and trust store on disk; the store in memory; the signal loop; a handler per viewer with its held keys; one virtual keyboard and mouse | start, crash, connect and reconnect, admit a viewer, save the store, inject, leave, attest | signal server, operator (who edits `acl.json`), all sessions through the store's lock and the keyboard |
| session link (`miru-transport`, the loops of both `session.rs`, `audio_loop.rs`, the relay) | a bounded queue per hop; where each task waits; which ends have installed their ciphers | Hello/HelloAck, install ciphers, send pictures and sound, receive, ping, pairing prompt, disconnect, time out | both ends and the two relay tasks |
| MCP server (`miru-mcp`) | stdin loop, one call at a time, a token bucket per capability, the bridge with its latest picture and clipboard | connect, tools/call, limit, authorise, send events, wait with a deadline, answer | AI client over stdio, agent gate, remote host or this machine |
| viewer input (`miru-client/ui/src`: key tracker, move coalescer, touch gestures, input sender) | held keys, pending move, gesture, chords of the toolbar | DOM handlers, blur, unmount, status events | the session's command channel |
| viewer video and recording (`miru-client`: decode mode, WebCodecs renderer, JPEG path, recording commands) | decoder of each path, events on their way to the web view, canvas, recording files | frame, probe, mount, fallback, draw, record, stop | session task and web view |
| bandwidth control, host recorder, constellation, LAN discovery | see `PROJECT.json` | | not modelled, sections 7 and 8 |
| capture and sandbox crates | platform APIs | | of the capture crate only whether `next_frame` has a frame (`CaptureLoop`) |

The hard behaviours are the ones of a system of concurrent tasks: tokio tasks on
several threads that share maps and mutexes, `select!` loops, bounded channels,
references held across awaits, one-shot cancellation that is signalled and not
awaited, OS threads that only notice the end of a session when they send, lost
and duplicated packets, failed writes and crashes of an append-only log.

## 2. Modules

| module | models | composes / proves |
|---|---|---|
| `SessionCipher` | the two ciphers of one direction and the transport between them | implements `OnceChannel` |
| `OnceChannel` | abstract: a number is sealed once, and again only after two refusals more; its plaintext is handed over at most once | |
| `Rendezvous`, `MCRendezvous` | the rendezvous tasks, registry and channels | |
| `RendezvousProofs` | | theorems about `Rendezvous` |
| `RelayServer`, `MCRelayServer` | the relay tasks and slots; `Issue` and `Reap` are the rendezvous side's steps on the slots | |
| `ViewerSession` | slot, tasks, retries, TOFU gate and prompt of the viewer | |
| `ViewerSessionProofs` | | theorems about `ViewerSession` |
| `CaptureLoop` | capture threads, channel, session loop and frame controller | |
| `CaptureLoopProofs` | | theorems about `CaptureLoop` |
| `FileTransfer`, `MCFileTransfer` | transfers of several sessions into one directory | |
| `AuditLog` | instances of the audit log on one file | |
| `AgentGate`, `MCAgentGate` | agent sessions and the revocation list | extends `AuditLog`: the log's operations happen as parts of the gate's |
| `AgentGateProofs` | | theorems about `AuditLog` and `AgentGate`, the refinement of the one by the other among them |
| `HostSession`, `MCHostSession` | the host process: files, start and crash, signal loop, trust store, sessions that share a keyboard | |
| `HostProofs` | | theorems about `HostSession` and `FileTransfer` |
| `SessionLink` | one session from end to end: both ends' loops, their transports and the relay's tasks in between | the one composition of host, relay and viewer |
| `LinkProofs` | | theorems about `SessionCipher` (the refinement of `OnceChannel` among them), `RelayServer` and `SessionLink` |
| `RateLimiter` | the token bucket and the daily cap of each capability, as functions of the time that has passed | |
| `McpServer` | the request loop, its gate, tools, bridge and the host behind it | extends `RateLimiter`: `check` is part of the call |
| `McpProofs` | | theorems about `RateLimiter` and `McpServer` |
| `ViewerInput` | what the viewer's keyboard, mouse and touch handlers send | |
| `ViewerVideo` | the two decode paths of the viewer, the switch between them and the recording | |
| `ViewerProofs` | | theorems about `ViewerInput` and `ViewerVideo` |

State and actions carry the names of the code where TLA+ allows.  Definitions
whose comment begins with "Mutant" are wrong variants of the definition that
follows them: each is a plausible slip in the code, and each property is shown
to fail under one of them.

### Grain of atomicity

* An asynchronous task takes a step from one await to the next, further divided
  wherever it uses shared state twice: `RegisterCheck`, `RegisterCapacity` and
  `RegisterInsert` are one handler without an await in between, but three uses
  of the shared map by tasks that run on several threads.
* A handler that sends several messages takes a step per message (`DeliverNext`),
  because every send waits for room.
* A map write waits for every reference into its shard (`ShardFree`); `Connect`
  holds its reference until its last send.  `dashmap` itself is external.
* Two lock operations of one UI command in a row (`confirm_pairing`) and the
  lines of a viewer task between two awaits are one step.
* An OS thread of the capture loop takes two steps per frame: the check of the
  in-flight limit and capture, and the hand-over to the channel.
* `Done` of a file transfer is two steps, around the gap between `exists()` and
  `rename()`, which other sessions can use.
* A line of the audit log, or of the revocation list, is written as a whole.
* `authorize` is the checks up to the prompt or the decision (one step, with the
  flag and the list read once), the answer to the prompt, and the append.  A
  session's caller makes one call at a time.  `revoke` of a token is the insert
  into the set and the write of the line; one task revokes tokens.
* The host creates and writes a file in two steps, with a crash in between
  possible; the trust store is saved by a write of another file and a rename,
  under the store's lock.  A key event is noted in one step and injected in the
  next, because sessions share the keyboard; `release_all_keys` lifts one key per
  step.
* In `SessionLink` a send is a step that needs room in the queue: a task that
  waits for room takes no other step, unless the code waits for something else
  at the same time (`select!`) or has a timeout (the relay's sends).
* A request of the MCP server takes a step per event it sends, and one per wait.
* The handlers of the web view run to completion on one thread; a toolbar chord
  continues between them, a step per awaited send.  Events from the Rust side
  arrive in order and late.
* A frame of a recording is its data and then its index entry, two steps, each of
  which may fail or be cut short.

### Data that is abstracted

A sealed packet is its number; a file is a few blocks, each right or wrong; an
audit entry stands for its own hash, so hashes never collide; keys and device
ids are model values; a key on the wire is one of its names, a physical code or a
number, and two names may mean one key; a frame is its encoder, its number and whether it is a
keyframe.  In `SessionLink` a frame is its kind and whether it is sealed.  The
MCP server's requests are numbered lines, a clipboard text is a version number, a
picture is there or not, and the answer of the agent gate is a choice.  Pointer
positions are numbers in the order the pointer took them.  A trust store is the
permission of each peer.  A decoded picture is good or broken, a decoder fresh, in
step or broken.  Payloads, wording and logging are left out.

Two limits of the abstraction: `ViewerSession` records which key a consent was
given for as the key of the session in the slot, not as the fingerprint the dialog
displays; and `ViewerVideo` assumes that `fstat` of an open recording does not
fail (if it does, the code records offset 0).

## 3. Runs

One run per component; a run checks the safety and the liveness properties together.

| run | instance | properties | what it shows |
|---|---|---|---|
| `cipher` | counter 0..6, window 3, 10 calls | `ReuseTakesTwoRefusals`, `FreshIsExact`, `ImplementsOnceChannel` | calls past the end of the counter's range, through its guard and its wrap, and every order of arrival: the window decides exactly, nothing is opened twice, and a number is sealed again only by a caller that ignored two refusals |
| `rendezvous` | two connections that claim one device, one viewer, a registry of one, channels of 2, one token | `SoleRegistrationStays`, `OfferedEntryStable`, `DownEndsOrDeadlocks` | a sole registration stays and offers are stable; a connection that is down is cleaned up, or it is in a circle of tasks that wait for each other over a full channel and a map reference: there is no third outcome |
| `relay` | host and viewer of one token, a host of another, channels of 1 | `PairedByToken`, `NoGaps`, `SlotsAreFreed` | frames reach the right peer without a gap; slots are freed |
| `viewer` | three connects, one device, two keys, one retry | `SlotIsLive`, `TrustIsConfirmed`, `PinnedKeyStays`, `CancelledLeaves` | the slot is live, trust follows consent, the pin stays, a superseded session leaves its prompt and its main loop |
| `capture` | two threads, channel 2, limit 2, six frames each | `InFlightBounded`, `DecodableStream`, `ReplacedThreadExits` | frames in flight are bounded, the stream is decodable, the thread of the display that was left exits if its screen goes on changing and the viewer answers |
| `file_transfer` | two sessions, three files of one name, one place each | `SavedIsIntact`, `TempIsOwned`, `OwnFileKept` | only intact files are saved, nothing is orphaned, own files are kept |
| `agent_gate` | one agent session after another, one token, three scopes, three audit entries, a list of one confirmation, failures, restarts and time running out | `AllowedIsOnRecord`, `DangerIsConfirmed`, `LateIsRefused`, `ChainIntact` | an allowed action is on record, a dangerous one was confirmed for its scope and recently; no call is let through that began after its session was revoked, its token had expired or, in a session with the revocation list, its token had been revoked, also before a restart; the chain verifies until an append fails.  Sessions are opened without the list, as the host and the MCP server do, and with it.  Several sessions at once are covered by the theorems |
| `host` | two sessions, two peers, one key (Ctrl, which `inject_text` also uses) under two names, one edit of the operator | `KeysAreOwned`, `OperatorDecides` | no order of presses, pastes, ends and errors leaves a key down that nobody lifts; the operator's word survives failed saves and crashes |
| `link` | queues of 1, one command | `ReadInItsCipher`, `ViewerGoneIsNoticed`, `NobodyWaitsForEver`, `CancelIsHeard` | sealed and unsealed frames are told apart on both sides of the pairing prompt; the circle of full queues is broken; a disconnect is heard |
| `mcp` | two requests, two clipboard versions, channels of 1, a bucket of 1 refilled every 2, daily cap 1, a day of 1 | `NothingLeftPressed`, `ReadIsNews`, `LazyRefillIsExact`, `RequestsAreAnswered` | a chord or a click leaves pressed only what the host refused to lift, this machine failed to lift or a lost session cut off, and after a lost session only the mouse button; the cached clipboard is not returned; the lazy refill equals a bucket that is refilled at every tick; every request is answered |
| `input` | Ctrl and one letter of a blocked chord, two toolbar chords, three positions | `MovesNeverGoBack`, `PressIsAccounted`, `LingeringIsBlocked`, `TouchPressIsOwned` | late moves do not undo clicks; a key the host believes pressed is remembered by somebody who will release it; while the session runs a touch press outlives its finger only if the browser cancels the touch |
| `video` | two events in flight, two recorded frames, two clicks | `FirstIsKey`, `IndexIsExact`, `PictureComes` | a decoder starts with a keyframe, every index entry leads to a whole frame, a screen that stays comes to show a good picture if key frames keep coming |

Each property fails under a mutant of the code that `PROJECT.json` names.  The type
invariants and some further invariants that the modules state are not in a run
because a theorem, or a stronger property, covers them.

The bounds are the smallest at which the interesting cases happen: a window that
slides both within and past its size and a counter that reaches its guard and wraps behind it; two
connections of one device so that a cleanup can meet a newer registration; a
channel that fills; two sessions of one viewer plus a third that finds the slot
cleared; enough retries to reach the limit; two display threads that both hold
frames; a bucket that the second request finds empty, refilled with a remainder, or at the cap; two
sessions that press one key; queues that are all full at once, for which one place
each is enough since every send waits for room in the same way; two moves around a
click; a failed write before a good one.  Deadlock is not checked where the system
may stop: sessions end, tasks return and the bounds on requests and frames run out.

## 4. Fairness

* `Rendezvous!FairSpec`, `RelayServer!RelayFairSpec`: the runtime polls every task
  that can make progress and timers fire, so the tasks' own steps are weakly
  fair.  Clients owe nothing: they may stop reading, sending or closing.  A write
  to the map waits on its thread, not in the runtime; that the other tasks still
  have a thread to run on is assumed.
* `ViewerSession!FairSpec`: only the arms of a `select!` that are ready; not the
  network, the host, the user or the long timeouts.
* `CaptureLoop!FairSpec`: a thread goes on with its loop and the session sends what
  is queued, weakly fair.  That a capture gives a frame is not assumed: DXGI and
  PipeWire have none on a screen that does not change (`NoFrame`).  Nor is it
  assumed that the viewer answers.  Both are premises of `ReplacedThreadExits`, spelt
  out as `ScreenChanges` and `WindowOpens`, and the property is about threads that
  still have frames to encode under the bound.
* `McpServer!Spec`: the server's own loop goes on and its deadlines fire; the host
  takes what is queued for it, refuses it or the session is lost.  Nothing obliges the signal
  server to send an offer, and `connect` has no deadline for it, so the liveness
  property starts with a request.
* `SessionLink!LinkSpec`: the steps of each task are weakly fair, timeouts included.
  Receiving and noticing the end of the connection are strongly fair for the
  host, since tokio's `select!` begins with a branch chosen at random and cannot pass over a
  branch for ever that is ready again and again.  The viewer's `select!` is
  biased, and has no such assumption.
* `ViewerVideo!VideoSpec`: events are delivered, the probe answers, a decoder that
  does not work reports its error.  Nothing is assumed of the host's frames: its
  encoder spaces keyframes by frames and not by time, and a still screen may give
  none.  That they keep coming (`KeyFramesKeepComing`) is the premise of
  `PictureComes`.
* `SessionCipher`, `FileTransfer`, `AgentGate`, `HostSession` and `ViewerInput`
  have only safety properties.

## 5. Proofs

Everything below is proved with TLAPS from the assumptions on the constants
that each module states, for all their values.

* `LinkProofs`, the cipher.  The inductive invariant of the receiver relates the
  bitmap to the set of all numbers ever let through: bit *i* is set exactly if
  `highest - i` was let through, and `highest` is their maximum.  From it follow
  that the window decides exactly (`WindowDecidesExactly`) and that nothing is
  opened twice (`PacketsOpenedOnce`).  The sender's invariant follows the counter
  through its wraps: what a number has been sealed and what has been refused so far
  are tied to the rounds the counter has made, two refusals to each.  From it
  `ReuseAlwaysTakesTwoRefusals` and the refinement `CipherImplementsChannel`, for
  any number of calls and without an assumption about the caller: one that stops at
  the first error never reuses a nonce, one that goes on does (section 6).
* `LinkProofs`, the relay.  A slot holds tasks of its own token, each under its
  role and none that has returned (`SlotInv`, hence `SlotsNotStale`); peers and the
  sources of all queued and received frames are of the opposite role under the
  same token (`PeerInv`, hence `PairedOnly`).  Both hold for any number of
  connections, several of one token and role included.  `FramesWithoutGaps` needs
  more: what a client has received and what is queued for it is one run of numbers
  (`FlowInv`) that ends with the last frame its source has put into the channel
  (`SourceInv`).  It assumes `OneEach`, one connection per token and role: this is
  what both clients of the repository do, one `RelayTransport::connect` per offer,
  and a third connection that took over a slot would mix its numbers with those
  of its predecessor.
* `LinkProofs`, the link.  `ReadInItsCipher` speaks of two inboxes only, so the
  invariant follows a frame along all five places between two ends, outbox, relay
  task, forwarding queue, relay task, inbox: of everything under way the first
  frame, if the receiver has read none, is in the clear, and all others are sealed
  (`CipherInv`).  That an end which does not seal yet has one frame under way at
  most (`CountInv`) and that an end gets past its handshake only after the other
  has spoken (`PlaceInv`) make it inductive.  `ReadInItsCipherAlways` holds for
  queues and a command channel of any capacity.  `LinkTypeCorrect` adds to the ranges
  that no queue outgrows its room (`QueuesFit`), the one into which the Hello is put
  without a look included.
* `RendezvousProofs`.  Type correctness; the entry a handler holds a reference to
  does not change (`OffersStable`), from an invariant that says that a handler
  which still has to tell a peer holds the reference to the device's entry; `OvershootBounded` from an invariant that
  bounds the entries by the cap and by the connections that are between check
  and insert; `NothingDangles` and `SoleRegistrationKept` under `OneId`: every
  client registers a single id, as both clients in this repository do.  A
  connection that registered two would leave the first entry behind.
* `ViewerSessionProofs`.  The invariant says that the session in the slot runs
  and is not cancelled, that every other session that runs was cancelled, that
  only the session in the slot can have an answer it may still act upon, and
  that an acceptance stands for what the user was shown.  From it:
  `SlotAlwaysLive`, `TrustFollowsConsent`, `RefusalsFinal`, `PinNeverReplaced`.
* `CaptureLoopProofs`.  The invariant orders the channel: frames of the current
  thread in encoder order, a gap only before a keyframe, and a forced keyframe
  whenever the thread's last frame was dropped (`StreamDecodable`); the count in
  flight is bounded by the limit and the room left in the channel
  (`FramesInFlightBounded`).
* `AgentGateProofs`, the log.  `AcknowledgedKept` and `BrokenForGood` hold whatever
  fails and for any number of instances, because the file only grows.
  `ChainAlwaysIntact` and `AcknowledgedDurable` rest on an invariant that holds
  until the first failed append or overlap: buffers are empty, at most one
  instance is open and it agrees with the file about hash and number.
* `AgentGateProofs`, the gate.  Every step of the gate is a step of the log or leaves it
  alone (`GateImplementsLog`), so the log's theorems hold under the gate
  (`GateLogIntact`).  `LateAlwaysRefused` is about sessions with the list and without:
  what `revoke` returned Ok for is in memory, and on disk unless its write failed, in
  which case the next restart forgets it; together with the fact that a call that
  began late was refused at its start.  `AllowedAlwaysOnRecord` holds for any number of sessions
  and any failure because the hash of an allowed call was appended and the file
  only grows.  `DangerAlwaysConfirmed` relates every remembered confirmation to a
  consent of the same session that is at most `GRANT_SECS` older than its end,
  and every call between decision and entry to a consent in time.
* `HostProofs`, files.  A transfer is in the table of its session only while the
  session runs (`TransfersAreLive`), and a file that is about to be renamed belongs to its session, is no longer written
  to, has the right content, and its target is not a name the session itself saved
  before (`MoveIsSound`).  That gives `SavedAlwaysIntact`, `TempAlwaysOwned` and
  `OwnFilesKept` for any number of sessions and files; the range invariant behind
  `TransferTypeCorrect` needs that a transfer not in use is blank.  Assumed: the
  value `None` is neither an id nor a pending move.
* `HostProofs`, the process.  Keys: what a session is about to press it already holds;
  it presses only while it injects and lifts only while it injects or leaves;
  without a keyboard, or without a process, nothing is down (`KeyInv`).  From it
  `KeysAlwaysOwned`.  Trust: unless the file was unreadable at a start, file and
  memory both agree with the operator's decisions, wherever the process is
  (`TrustInv`), and so `OperatorAlwaysDecides`.  Both hold for any number of
  sessions, peers and keys, any key table and any edits; a key that has two names
  belongs to whoever holds either.
* `McpProofs`, the limiter.  The invariant says that the bucket which is refilled at
  every tick holds what the lazy one would hold if it were asked now, and that its
  phase is the age of the last refill modulo the interval.  The step of a tick is
  arithmetic with `\div` and `%` over a variable divisor, which the solver does not
  do by itself: the lemmas characterise quotient and remainder by their bounds and
  show how both change at a multiple of the interval.  `LazyRefillExact` holds for
  any burst, rate, cap and day.
* `McpProofs`, the server.  `NothingLeftPressed` speaks of a moment at which nothing
  is under way.  The invariant behind it (`PressInv`) looks at one sequence, what is
  queued for the host followed by what the call still has to send: every press in it
  is followed by its release, and what the host holds down is released in it, unless
  its release was already lost (`missed`): refused by the host, failed on this machine,
  or cut off with the session, which leaves the mouse button and nothing else.  So no
  cut of a chord by a full channel or a timeout leaves a press behind
  (`CallsLeaveNothingPressed`).
  `NewsInv` says that the cache of a read that waits is empty or holds a text that
  came after the read began (`ReadsAreNews`).
* `ViewerProofs`, input.  Of the messages on their way to the host only the first
  can be a coalesced move, and it is not older than what was sent last (`OutInv`);
  a host that is not told any more has nothing down, a chord runs only once the
  session was reported, a window without the focus holds no key, and a key that is
  held without being down is a letter of a blocked chord (`KeysInv`).  The press of a
  drag is there only on a screen that may send and is owned by the drag, as long as the
  session runs (`TouchInv`).  `MovesGoForward`, `PressesAreAccounted`,
  `OnlyBlockedLinger` and `TouchPressesAreOwned` follow for any keys, blocked
  letters, chords and positions.
* `ViewerProofs`, video.  A renderer that has decoded began with a key frame, through
  every reset, close and reconfiguration (`DecoderStartsOnKey`); an index entry
  points at a chunk that was written whole, and so is the chunk that waits for its
  entry (`RecordingsAreExact`), for recordings of any length.

Assumptions on the constants are the `ASSUME`s of the modules: finite sets
where something is counted, capacities of at least one, tables with the right domain.

Only model-checked are the liveness properties (`DownEndsOrDeadlocks`, `SlotsAreFreed`,
`CancelledLeaves`, `ReplacedThreadExits`, `ViewerGoneIsNoticed`,
`NobodyWaitsForEver`, `CancelIsHeard`, `RequestsAreAnswered`, `PictureComes`):
fairness and ENABLED are outside what the prover handles.  Every invariant, action
property and refinement of a run is also a theorem.

## 6. Where the code and its documents disagree

Five of these can be seen with TLC, which refutes the property under the
configuration (`tlc -config <cfg> <module>`); they are not among the runs of
`PROJECT.json`.

| configuration, module, property | what happens | text |
|---|---|---|
| `RendezvousStall.cfg`, `MCRendezvous`, `CleanupNeverStalls` | a map reference held across a send to a full channel (`miru-signal/src/main.rs:526`), and the cleanup that waits for it, block each other for ever | comment `main.rs:218-221` |
| `RendezvousReconnect.cfg`, `MCRendezvous`, `AckedIsReachable` | the cleanup of an old connection removes the registration of the new one (`main.rs:273`) | `CHANGELOG.md:150-151` |
| `ViewerSessionStale.cfg`, `ViewerSession`, `OkMeansUserOrHost` | a superseded task clears its successor's slot and thereby ends it (`state.rs:169`) | comment `state.rs:172` |
| `CaptureLoopTeardown.cfg`, `CaptureLoop`, `ThreadExitsAfterTeardown` | a session that ends with its window full leaves its capture thread running (`capture_loop.rs:95`) | `CHANGELOG.md:146` |
| `AuditLogFork.cfg`, `AuditLog`, `LogVerifies` | the audit chain forks after a failed append or when two agent sessions overlap (`audit.rs:157`) | doc `audit.rs:113` |

Contained in the models, without a configuration of their own:

* refused calls of `encrypt` still move the counter, which wraps behind its guard: a
  caller that ignores two errors reuses nonce 0, while `crypto.rs:94-101` says that the
  counter "never wraps to 0" and a nonce is "never reused" (`FetchAdd`,
  `ReuseTakesTwoRefusals`);
* a packet that fails authentication consumes its number in the replay window
  (`DecryptDamaged`);
* registrations that race exceed `max_devices` (theorem `OvershootBounded`), and
  `Connect` makes relay slots without looking at `max_relay_sessions`;
* an unsigned registration that passed the lock check overwrites a locked entry
  that was inserted after the check (`RegisterCheck`, `RegisterInsert`);
* the relay discards the frames of the peer that came first until the other has
  joined (`WaitFrame`);
* a relay lost in mid-session ends the viewer's session as a clean exit, which is
  not retried (`RelayLost`);
* a revocation whose write failed is in memory, so the retry returns Ok with
  nothing on disk and the token is valid again after a restart (`RevokeFails`,
  `RevokeAgain`, `Restart`); the comment at `revocation.rs:129` only looks at a
  crash between flush and sync;
* a call that waits at its prompt is allowed although its token was revoked or
  expired meanwhile (`Confirm`), while `revocation.rs:15` says that revocations
  "apply immediately to all in-flight token verifications";
* the host and the MCP server open agent sessions without a revocation list
  (`miru-host/src/session.rs:410`, `miru-mcp/src/main.rs:210`; `OpenSession`), and only
  tests call `open_with_revocation`, so in production only the session's own flag and the
  lifetime of the token bite; the restrictions of `AgentScope` (`token.rs:160`)
  are signed and never looked at;
* a receive error skips the removal of a session's temp files (`EndError`);
* a viewer that joins the relay before the host loses its Hello, and both ends wait
  for their timeout (`SessionLink`); a viewer that only receives is not told that
  the host left until it sends; an upload against media fills both directions and
  only the relay's send timeout breaks the circle (`NobodyWaitsForEver`);
* a crash between the creation and the write of the identity file makes every later
  start stop, and one between those of `device_id` leaves an empty id for ever
  (`LoadIdentity`, `LoadDevice`); an `acl.json` that cannot be read counts as an
  empty store, which the next save writes over it (`LoadAclFails`); the result of
  a save is ignored (`SaveEnds`); an agent that is refused for its token has been
  pinned already (`Admit`); a mouse button that is down when its viewer leaves
  stays down (`Pointer`), as does the one of a touch drag (`SessionOver`) or of an MCP
  click (`LinkLost`) whose session is lost: the host remembers keys only
  (`input_handler.rs:27`, `131-139`);
* a chord of the MCP server on its own machine whose release cannot be injected
  stays half pressed (`InjectFails`), although `server.rs` lifts everything "so nothing
  is left latched";
* on a screen that does not change (`windows.rs:221-235`, `linux.rs:391-401` of the
  capture crate) a replaced capture thread never comes to send and stays, while
  `miru-host/src/session.rs:647` says that it "sees send fail and exits" (`NoFrame`);
  and a screen mounted, or fallen back, over a session whose host has no keyframe to
  send stays blank (`KeyFramesKeepComing`);
* `read_clipboard` may return a push that was under way, or the late answer to a
  read that timed out (`Received`), which the comment at
  `remote_bridge.rs:214-216` excludes; the daily window of the limiter tumbles
  where its comment says it slides (`RolledUse`); a refusal by the limiter leaves no
  audit entry, though `rate_limit.rs:164-166` says so (`Limited`);
* the keyup of a blocked letter is swallowed while Ctrl is down, so the host keeps
  the letter down until blur, unmount or the next keyup of it (`KeyReleased`, compare
  `key-tracker.ts:83`); two toolbar chords at once lift Ctrl under each other
  (`ChordSends`); there is no listener for `touchcancel`, so a cancelled drag keeps the button down
  until the next finger or the unmount (`TouchCancelled`), though `cancel` of
  `touch-gestures.ts:133` is for "Teardown or a cancelled touch";
* "recording forces the Rust/JPEG path" (`SessionScreen.tsx:82-84`) does not hold on
  a screen that is mounted while a recording runs, or when the probe answers after
  its start (`Mount`, `ProbeAnswers`); two clicks in a row start twice, and the
  first recording gets no `meta.json` (`RecordingStarts`); the Rust decoder shows
  and records broken frames after a switch back until the next keyframe (`Whole`);
  an index entry that is cut short misaligns the ones after it (`IndexWrite`).

Met while reading, outside the models: with bandwidth below 715 kbit/s the Smooth
mode of `qos_bbr.rs` calls `clamp(500, bw * 0.7)` with its bounds crossed, which
panics, and the release build aborts; the backoff of the host's signal loop
is reset by every connection that succeeds, so a server that accepts and drops is
never backed off from; `check_replay` of the handshake and `set_displays` are called
by tests only; the viewer's audit view reads `agent-audit.log`
(`state.rs:365`) where the host writes `agent_audit.log`; the host's recorder says
it stops at its size limit and goes on with frames that fit.

## 7. Plan

Done: cipher, rendezvous, relay, viewer session, capture loop, file transfer,
audit log, agent gate, host process, session link, MCP server with its limiter,
viewer input, viewer video and recording; proofs of all safety properties of the
runs.  In this order from here:

1. Proofs: the safety facts the liveness arguments rest on, such as that a task of
   `SessionLink` that waits for room has a peer task that can still take; the link's
   frames as a refinement of the channel of `OnceChannel`.
2. The bandwidth controller of `miru-host/src/qos_bbr.rs` as a state machine with
   the widths of its integers, composed with the frame controller.
3. The host's recorder with its size limit; torn lines of the audit log.
4. Algorithms against reference definitions: display mapping, Merkle proofs,
   the connect-rate buckets.
5. The fingerprint log and constellation, once something calls them.

## 8. Not modelled

* Cryptographic primitives, key derivation, codecs inside their libraries, screen
  capture, sound devices, the sandbox and mDNS: platform or library code behind
  thin wrappers.  Of input injection the shared keyboard of the Linux build is
  modelled, with the rows of the key table as a constant, not the other platforms;
  of audio, that a session has sound to send between everything else.
* QUIC and NAT traversal in `miru-transport`, the fingerprint log with its Argon2
  store, `check_replay` and the device groups of constellation: no session uses them.
* Session transparency: hashes and Merkle proofs.  Its one effect on a session, the
  upload after its end that may fail or take its time, is `Attest`.
* The bandwidth controller: arithmetic on measured rates; planned.
* Audit redaction: a pure function on strings.
* Of the React interface, everything but the handlers of input, video and
  recording: presentation.

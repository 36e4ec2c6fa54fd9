------------------------------ MODULE McpServer ------------------------------
(***************************************************************************)
(* The MCP server an AI client talks to over stdin and stdout              *)
(* (crates/miru-mcp): main, the JSON-RPC loop of lib.rs, the tools of      *)
(* server.rs, and the bridge to the host they act on - remote_bridge.rs    *)
(* over a session of its own, local_bridge.rs on the same machine, or the  *)
(* stub of main.rs.                                                        *)
(*                                                                         *)
(* Lines are numbered in the order they are read.  The host's clipboard    *)
(* holds a version number that grows at every change; a picture is just    *)
(* there or not.  The limiter is the one of RateLimiter; what authorize    *)
(* decides is modelled in AgentGate and is a choice here.                  *)
(***************************************************************************)
EXTENDS RateLimiter, Sequences, FiniteSets

CONSTANTS
  MaxLines,    \* lines the client writes
  MaxClip,     \* changes of the host's clipboard
  Cap128       \* messages a channel of the transport holds, 128 in the code

ASSUME McpAssumption == MaxLines \in Nat /\ MaxClip \in Nat \ {0} /\ Cap128 \in Nat \ {0}

VARIABLES
  stage,        \* how far main is: start, register, offer, handshake, serving, exited
  bridge,       \* none, remote, local or stub
  lines,        \* lines read so far
  call,         \* the request being handled, or NoCall
  answered,     \* lines that were answered
  link,         \* the remote bridge's session: up or down
  to_host,      \* messages under way to the host
  from_host,    \* messages under way from the host
  latest_png,   \* a picture has been received
  latest_clipboard,   \* the clipboard text last received, or 0
  news,         \* that text came after the read that waits for it began
  held,         \* keys and buttons that are down at the host
  host_clip,    \* version of the host's clipboard
  missed        \* what is down because its release got lost

mcpVars == <<stage, bridge, lines, call, answered, link, to_host, from_host,
             latest_png, latest_clipboard, news, held, host_clip, missed>>
vars == <<limiterVars, mcpVars>>

NoCall == [n |-> 0, tool |-> "-", owed |-> FALSE, pc |-> "-", todo |-> << >>]

\* The capability each tool asks the gate for.
CapOf ==
  [miru_screen_capture |-> "ScreenRead", miru_mouse_move |-> "PointerMove",
   miru_mouse_click |-> "PointerClick", miru_scroll |-> "PointerMove",
   miru_key_type |-> "KeyType", miru_key_combo |-> "KeyCombo",
   miru_clipboard_read |-> "ClipboardRead", miru_clipboard_write |-> "ClipboardWrite",
   miru_open_url |-> "OpenUrl"]

\* dispatch: miru_status needs no capability.
Gated == DOMAIN CapOf
Tools == Gated \cup {"miru_status"}

Down(k) == [kind |-> "down", key |-> k]
Up(k) == [kind |-> "up", key |-> k]
Message(k) == [kind |-> k, key |-> "-"]

\* From the host come frames and versions of its clipboard.
Picture == 0

\* Mutant: a chord ends with its key.
ChordLatched(k) == <<Down("Mod"), Down(k), Up(k)>>

\* Modifiers go down first and come up last.
Chord(k) == <<Down("Mod"), Down(k), Up(k), Up("Mod")>>

\* What a tool sends once it is admitted: a click is one or two presses, a
\* chord presses its modifiers, then the key, and lifts them in reverse.
EventsOf(tool) ==
  CASE tool = "miru_mouse_click" ->
         {<<Down("Button"), Up("Button")>>,
          <<Down("Button"), Up("Button"), Down("Button"), Up("Button")>>}
    [] tool = "miru_key_combo" -> {<<Down("Key"), Up("Key")>>, Chord("Key")}
    [] tool \in {"miru_mouse_move", "miru_scroll", "miru_key_type"} -> {<<Message("input")>>}
    [] tool = "miru_clipboard_write" -> {<<Message("clipboard")>>}
    [] tool = "miru_open_url" -> {<<Message("open_url")>>}
    [] tool = "miru_clipboard_read" -> {<<Message("request_clipboard")>>}
    [] OTHER -> {<< >>}

-----------------------------------------------------------------------------
McpInit ==
  /\ stage = "start" /\ bridge = "none"
  /\ lines = 0 /\ call = NoCall /\ answered = {}
  /\ link = "down" /\ to_host = << >> /\ from_host = << >>
  /\ latest_png = FALSE /\ latest_clipboard = 0 /\ news = FALSE
  /\ held = {} /\ host_clip = 1 /\ missed = {}

hostVars == <<to_host, from_host, held, host_clip, link>>
cacheVars == <<latest_png, latest_clipboard, news>>
idleVars == <<lines, call, answered>>

\* check_parent: the program that started the server is not on the list and the
\* check is not bypassed.  An unknown parent is refused the same way.
ParentRefused ==
  /\ stage = "start" /\ stage' = "exited"
  /\ UNCHANGED <<bridge, idleVars, hostVars, cacheVars, missed, limiterVars>>

\* main refuses for another reason: no token, one whose issuer is not known or
\* that does not verify, no audit log, or no bridge to use.
Refuse ==
  /\ stage = "start" /\ stage' = "exited"
  /\ UNCHANGED <<bridge, idleVars, hostVars, cacheVars, missed, limiterVars>>

\* main has its session and chooses the bridge.
Choose(b) ==
  /\ stage = "start"
  /\ bridge' = b
  /\ stage' = IF b = "remote" THEN "register" ELSE "serving"
  /\ UNCHANGED <<idleVars, hostVars, cacheVars, missed, limiterVars>>

\* RemoteBridge::connect: Registered, or the end of the events, ends the first
\* wait; any other event is skipped.
Registered ==
  /\ stage = "register" /\ stage' = "offer"
  /\ UNCHANGED <<bridge, idleVars, hostVars, cacheVars, missed, limiterVars>>

\* IncomingConnection: nothing else ends the second wait, not even an Error.
Offered ==
  /\ stage = "offer" /\ stage' = "handshake"
  /\ UNCHANGED <<bridge, idleVars, hostVars, cacheVars, missed, limiterVars>>

\* The handshake succeeds, the ciphers are installed and recv_loop starts.
Established ==
  /\ stage = "handshake" /\ stage' = "serving" /\ link' = "up"
  /\ UNCHANGED <<bridge, idleVars, to_host, from_host, held, host_clip, cacheVars, missed,
                 limiterVars>>

\* The server is not reached, goes away, or the handshake fails or takes 15 s.
ConnectFails ==
  /\ stage \in {"register", "offer", "handshake"} /\ stage' = "exited"
  /\ UNCHANGED <<bridge, idleVars, hostVars, cacheVars, missed, limiterVars>>

-----------------------------------------------------------------------------
Ready == stage = "serving" /\ call = NoCall /\ lines < MaxLines

Take(tool, owed, pc) ==
  /\ lines' = lines + 1
  /\ call' = [n |-> lines + 1, tool |-> tool, owed |-> owed, pc |-> pc, todo |-> << >>]
  /\ UNCHANGED <<stage, bridge, answered, hostVars, cacheVars, missed, limiterVars>>

\* handle_request, a method that is no tool call: initialize, tools/list and
\* ping answer a request; a line that does not parse, a method that is not
\* known and bad parameters are answered even without an id.
ReadOther(owed) == Ready /\ Take("-", owed, "answer")

\* tools/call with parameters that parse.
ReadToolCall(tool, owed) ==
  Ready /\ Take(tool, owed, IF tool \in Gated THEN "gate" ELSE "answer")

\* The client closes stdin.
StdinClosed ==
  /\ stage = "serving" /\ call = NoCall /\ stage' = "exited"
  /\ UNCHANGED <<bridge, idleVars, hostVars, cacheVars, missed, limiterVars>>

\* The answer is written; a notification gets none.
Answer ==
  /\ call.pc = "answer"
  /\ answered' = IF call.owed THEN answered \cup {call.n} ELSE answered
  /\ call' = NoCall
  /\ UNCHANGED <<stage, bridge, lines, hostVars, cacheVars, missed, limiterVars>>

\* stdout is closed: run_stdio returns the error.
WriteFails ==
  /\ call.pc = "answer" /\ call.owed
  /\ call' = NoCall /\ stage' = "exited"
  /\ UNCHANGED <<bridge, lines, answered, hostVars, cacheVars, missed, limiterVars>>

\* What follows admission: events to send, a picture to wait for, or a text.
Begin(tool, todo) ==
  call' = [call EXCEPT !.pc = IF tool = "miru_screen_capture" THEN "picture" ELSE "send",
                       !.todo = todo]

\* Arguments that are refused before the gate.
BadArguments ==
  /\ call.pc = "gate"
  /\ call' = [call EXCEPT !.pc = "answer"]
  /\ UNCHANGED <<stage, bridge, lines, answered, hostVars, cacheVars, missed, limiterVars>>

\* gate, first half.  A bucket that is not among Caps may answer anything.
LimiterRefuses(c) ==
  IF c \in Caps THEN DailyCapReached(c) \/ BucketEmpty(c) ELSE UNCHANGED limiterVars

LimiterGrants(c) ==
  IF c \in Caps THEN Consumed(c) ELSE UNCHANGED limiterVars

\* gate: the limiter says no, and nothing reaches authorize.
Limited ==
  /\ call.pc = "gate"
  /\ LimiterRefuses(CapOf[call.tool])
  /\ call' = [call EXCEPT !.pc = "answer"]
  /\ UNCHANGED <<stage, bridge, lines, answered, hostVars, cacheVars, missed>>

\* gate: the limiter counts the call, authorize refuses it.
Denied ==
  /\ call.pc = "gate"
  /\ LimiterGrants(CapOf[call.tool])
  /\ call' = [call EXCEPT !.pc = "answer"]
  /\ UNCHANGED <<stage, bridge, lines, answered, hostVars, cacheVars, missed>>

\* tool_key_combo reads the chord only after the gate: a key that parse_key
\* does not know, or too many parts, and nothing is sent.
BadChord ==
  /\ call.pc = "gate" /\ call.tool = "miru_key_combo"
  /\ LimiterGrants(CapOf[call.tool])
  /\ call' = [call EXCEPT !.pc = "answer"]
  /\ UNCHANGED <<stage, bridge, lines, answered, hostVars, cacheVars, missed>>

\* Mutant: what an earlier answer left in the cache is kept.
CacheKept(tool) == UNCHANGED latest_clipboard

\* read_clipboard forgets what it has before it asks.
CacheCleared(tool) ==
  latest_clipboard' = IF tool = "miru_clipboard_read" /\ bridge = "remote"
                        THEN 0 ELSE latest_clipboard

Admitted ==
  /\ call.pc = "gate"
  /\ LimiterGrants(CapOf[call.tool])
  /\ \E todo \in EventsOf(call.tool) : Begin(call.tool, todo)
  /\ CacheCleared(call.tool)
  /\ news' = FALSE
  /\ UNCHANGED <<stage, bridge, lines, answered, hostVars, latest_png, missed>>

-----------------------------------------------------------------------------
Applied(e) ==
  CASE e.kind = "down" -> held \cup {e.key}
    [] e.kind = "up" -> held \ {e.key}
    [] OTHER -> held

\* What s would have lifted and is down: it stays down when s is not done.
NotLifted(s) == {k \in held : \E i \in DOMAIN s : s[i] = Up(k)}

\* What the call has still to send.
Unsent(c) == IF c.pc = "send" THEN c.todo ELSE << >>

\* After the last event a read of the clipboard waits, any other tool is done.
Sent ==
  call' = [call EXCEPT !.todo = Tail(@),
             !.pc = IF Len(call.todo) > 1 THEN "send"
                    ELSE IF call.tool = "miru_clipboard_read" /\ bridge = "remote"
                           THEN "text" ELSE "answer"]

\* send_msg waits for room in the channel.
SendRemote ==
  /\ call.pc = "send" /\ bridge = "remote" /\ link = "up"
  /\ Len(to_host) < Cap128
  /\ to_host' = Append(to_host, Head(call.todo))
  /\ Sent
  /\ UNCHANGED <<stage, bridge, lines, answered, from_host, held, host_clip, link, cacheVars,
                 missed, limiterVars>>

\* The channel takes a message that the writer will never put on the wire: it
\* has not yet noticed that the session is over.
SendLost ==
  /\ call.pc = "send" /\ bridge = "remote" /\ link = "down"
  /\ Sent
  /\ UNCHANGED <<stage, bridge, lines, answered, hostVars, cacheVars, missed, limiterVars>>

\* The channel is closed, and the rest of the events is not sent.
SendFails ==
  /\ call.pc = "send" /\ bridge = "remote" /\ link = "down"
  /\ call' = [call EXCEPT !.pc = "answer", !.todo = << >>]
  /\ UNCHANGED <<stage, bridge, lines, answered, hostVars, cacheVars, missed, limiterVars>>

\* LocalBridge injects on this machine.
SendLocal ==
  /\ call.pc = "send" /\ bridge = "local"
  /\ held' = Applied(Head(call.todo)) /\ missed' = missed \ {Head(call.todo).key}
  /\ Sent
  /\ UNCHANGED <<stage, bridge, lines, answered, to_host, from_host, host_clip, link, cacheVars,
                 limiterVars>>

\* StubBridge logs the event and says that it was done.
SendStub ==
  /\ call.pc = "send" /\ bridge = "stub"
  /\ Sent
  /\ UNCHANGED <<stage, bridge, lines, answered, hostVars, cacheVars, missed, limiterVars>>

\* One injection fails; the rest of the events is not sent, and nothing on this
\* machine knows which keys are down.
InjectFails ==
  /\ call.pc = "send" /\ bridge = "local"
  /\ missed' = missed \cup NotLifted(call.todo)
  /\ call' = [call EXCEPT !.pc = "answer", !.todo = << >>]
  /\ UNCHANGED <<stage, bridge, lines, answered, hostVars, cacheVars, limiterVars>>

\* capture_screen of the remote bridge returns what it has, however old.  A
\* region that is out of bounds is refused only now.
PictureTaken ==
  /\ call.pc = "picture" /\ bridge = "remote" /\ latest_png
  /\ call' = [call EXCEPT !.pc = "answer"]
  /\ UNCHANGED <<stage, bridge, lines, answered, hostVars, cacheVars, missed, limiterVars>>

\* The local bridge grabs a frame and makes a picture of it, or fails to; the
\* stub has one ready.
PictureGrabbed ==
  /\ call.pc = "picture" /\ bridge # "remote"
  /\ call' = [call EXCEPT !.pc = "answer"]
  /\ UNCHANGED <<stage, bridge, lines, answered, hostVars, cacheVars, missed, limiterVars>>

\* read_clipboard polls until there is a text.
TextTaken ==
  /\ call.pc = "text" /\ latest_clipboard # 0
  /\ call' = [call EXCEPT !.pc = "answer", !.todo = <<latest_clipboard>>]
  /\ UNCHANGED <<stage, bridge, lines, answered, hostVars, cacheVars, missed, limiterVars>>

\* Mutant: the loop that waits has no deadline.
WaitForEver == FALSE /\ UNCHANGED vars

\* capture_screen gives up after 3 s, read_clipboard after 2 s.
TimedOut ==
  /\ call.pc \in {"picture", "text"}
  /\ call' = [call EXCEPT !.pc = "answer"]
  /\ UNCHANGED <<stage, bridge, lines, answered, hostVars, cacheVars, missed, limiterVars>>

-----------------------------------------------------------------------------
\* recv_loop: a text that fits and a picture that decodes are kept.
Received ==
  /\ link = "up" /\ from_host # << >>
  /\ from_host' = Tail(from_host)
  /\ LET m == Head(from_host)
     IN  IF m = Picture
           THEN latest_png' = TRUE /\ UNCHANGED <<latest_clipboard, news>>
           ELSE latest_clipboard' = m /\ news' = TRUE /\ UNCHANGED latest_png
  /\ UNCHANGED <<stage, bridge, idleVars, to_host, held, host_clip, link, missed, limiterVars>>

\* recv_loop: what it cannot use is dropped (a frame that does not decode, a
\* text over 1 MiB or not UTF-8, any other message).
Skipped ==
  /\ link = "up" /\ from_host # << >>
  /\ from_host' = Tail(from_host)
  /\ UNCHANGED <<stage, bridge, idleVars, to_host, held, host_clip, link, cacheVars, missed,
                 limiterVars>>

\* The session's other end: the host does what a message says; a request for
\* the clipboard is answered unless there is nothing to read.  That an injection
\* fails at the host is modelled in HostSession.
HostTakes ==
  /\ link = "up" /\ to_host # << >>
  /\ LET e == Head(to_host)
     IN  /\ held' = Applied(e) /\ missed' = missed \ {e.key}
         /\ \/ e.kind = "request_clipboard" /\ Len(from_host) < Cap128
               /\ from_host' = Append(from_host, host_clip)
            \/ UNCHANGED from_host
         /\ host_clip' = IF e.kind = "clipboard" /\ host_clip < MaxClip THEN host_clip + 1 ELSE host_clip
  /\ to_host' = Tail(to_host)
  /\ UNCHANGED <<stage, bridge, idleVars, link, cacheVars, limiterVars>>

\* The host drops a message: the permission does not allow it, gate_input of the
\* agent's session says no, or there were too many events in this second.
HostRefuses ==
  /\ link = "up" /\ to_host # << >>
  /\ missed' = missed \cup NotLifted(<<Head(to_host)>>)
  /\ to_host' = Tail(to_host)
  /\ UNCHANGED <<stage, bridge, idleVars, from_host, held, host_clip, link, cacheVars, limiterVars>>

\* The host sends a frame, or the clipboard that has changed.
HostPushes(m) ==
  /\ link = "up" /\ Len(from_host) < Cap128
  /\ from_host' = Append(from_host, m)
  /\ UNCHANGED <<stage, bridge, idleVars, to_host, held, host_clip, link, cacheVars, missed,
                 limiterVars>>

HostCopies ==
  /\ link = "up" /\ host_clip < MaxClip
  /\ host_clip' = host_clip + 1
  /\ UNCHANGED <<stage, bridge, idleVars, to_host, from_host, held, link, cacheVars, missed,
                 limiterVars>>

\* The session ends: what is under way is lost.  release_all_keys lifts every
\* key; a mouse button is not among what the host remembers, and stays down.
LinkLost ==
  /\ link = "up"
  /\ link' = "down" /\ to_host' = << >> /\ from_host' = << >>
  /\ held' = held \cap {"Button"}
  /\ missed' = (missed \cup NotLifted(to_host \o Unsent(call))) \cap {"Button"}
  /\ UNCHANGED <<stage, bridge, idleVars, host_clip, cacheVars, limiterVars>>

\* Only the gate looks at the clock, so time passes when a call has come to it.
Passes ==
  /\ call.pc = "gate" /\ CapOf[call.tool] \in Caps /\ Tick
  /\ UNCHANGED mcpVars

Serve ==
  \/ Answer \/ BadArguments \/ Limited \/ Denied \/ BadChord \/ Admitted
  \/ SendRemote \/ SendFails \/ SendLocal \/ SendStub \/ InjectFails
  \/ PictureTaken \/ PictureGrabbed \/ TextTaken \/ TimedOut

McpNext ==
  \/ Refuse \/ ParentRefused \/ Registered \/ Offered \/ Established \/ ConnectFails
  \/ \E b \in {"remote", "local", "stub"} : Choose(b)
  \/ \E owed \in BOOLEAN : ReadOther(owed)
  \/ \E owed \in BOOLEAN, tool \in Tools : ReadToolCall(tool, owed)
  \/ StdinClosed \/ WriteFails \/ SendLost
  \/ Serve
  \/ Received \/ Skipped \/ HostTakes \/ HostRefuses \/ HostCopies \/ LinkLost
  \/ HostPushes(Picture) \/ HostPushes(host_clip)
  \/ Passes

Init == LimiterInit /\ McpInit

\* The server runs until it has answered, the host reads what it is sent or
\* the session breaks.  Nothing makes the signal server send an offer.
Spec ==
  /\ Init /\ [][McpNext]_vars
  /\ WF_vars(Serve)
  /\ WF_vars(HostTakes \/ HostRefuses \/ LinkLost)

-----------------------------------------------------------------------------
McpTypeOK ==
  /\ stage \in {"start", "register", "offer", "handshake", "serving", "exited"}
  /\ bridge \in {"none", "remote", "local", "stub"}
  /\ lines \in 0..MaxLines /\ answered \subseteq 1..lines
  /\ call.pc \in {"-", "gate", "send", "picture", "text", "answer"}
  /\ link \in {"up", "down"} /\ Len(to_host) <= Cap128 /\ Len(from_host) <= Cap128
  /\ latest_clipboard \in 0..MaxClip /\ host_clip \in 1..MaxClip
  /\ held \subseteq {"Mod", "Key", "Button"} /\ missed \subseteq held

\* A chord or a click lifts what it presses ("so nothing is left latched on the
\* host", server.rs).  Once a call is over and the host has taken what was sent,
\* what is still down is down for one reason only: its release was sent and
\* refused by the host, or failed on this machine, or was cut off with the
\* session - and no later call has pressed or lifted it since.  A session that
\* is over leaves at most the mouse button down (release_all_keys).
NothingLeftPressed ==
  /\ call = NoCall /\ to_host = << >> => held \subseteq missed
  /\ bridge = "remote" /\ link = "down" => held \subseteq {"Button"}

\* A clipboard_read over a session never returns what was in the cache before
\* it was called: the text arrived while it waited (read_clipboard clears the
\* cache).  It may still be older than
\* the question, when a push or the answer to a read that timed out is under way.
ReadIsNews ==
  call.pc = "answer" /\ call.tool = "miru_clipboard_read" /\ call.todo # << >> => news

\* A request is answered, whatever the host, the session and the limiter do,
\* unless the server exits (the deadlines of capture_screen and read_clipboard).
RequestsAreAnswered ==
  \A n \in 1..MaxLines :
    (call.n = n /\ call.owed) ~> (n \in answered \/ stage = "exited")
=============================================================================

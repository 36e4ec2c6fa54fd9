----------------------------- MODULE ViewerVideo -----------------------------
(***************************************************************************)
(* The picture on the viewer's screen and the viewer's own recording.       *)
(* The session task takes each frame of the host either to the web view as  *)
(* it is, for a WebCodecs decoder there, or through its own decoder and on   *)
(* as a JPEG, which is also what a recording stores.  The screen picks the   *)
(* path, by a flag it sets across the process boundary, while frames are     *)
(* under way; screens come and go, and the session and the recording        *)
(* outlive them.                                                            *)
(***************************************************************************)
EXTENDS Naturals, Sequences

CONSTANTS
    InFlight,    \* events that may be on their way to the web view
    MaxFrames,   \* attempts to store a frame in one recording
    MaxClicks    \* clicks on the recording button

ASSUME VideoAssumption == InFlight \in Nat \ {0} /\ MaxFrames \in Nat /\ MaxClicks \in Nat

VARIABLES
    supported,   \* what the probe of this web view answers
    works,       \* whether its decoder can decode the real stream
    streaming,   \* a session receives frames
    keyed,       \* it has received its first, a key frame
    webcodecs,   \* AppState's flag: frames go to the web view as they are
    rust,        \* the session's decoder: "none", "ok" or "broken" (frames are missing)
    events,      \* events on their way to the web view
    mounted,     \* a SessionScreen is there
    probe,       \* its probe: "pending" or "done"
    failed,      \* its wcFailedRef
    renderer,    \* its WebCodecsRenderer
    pendingFrame,     \* its pendingFrameRef
    canvas,      \* whether a whole picture is on its canvas
    recFlag,     \* its recording flag
    click,       \* how many start and stop commands of its recording button are under way
    clicks,      \* how often it was clicked
    rec          \* AppState's recording: the two files and the count

screenVars == <<mounted, probe, failed, renderer, pendingFrame, canvas, recFlag, click, clicks>>
sessionVars == <<streaming, keyed, rust>>
videoVars == <<supported, works, sessionVars, webcodecs, events, screenVars, rec>>

\* A renderer: whether its decoder is configured, its gotKey, what that decoder was given first and
\* whether it was given everything since a key frame.
NoRenderer == [exists |-> FALSE, configured |-> FALSE, gotKey |-> FALSE, first |-> "none", intact |-> FALSE]
\* reset()
Closed(r) == [NoRenderer EXCEPT !.exists = r.exists]
\* ensureDecoder()
Ensured(r) == IF r.configured THEN r ELSE [Closed(r) EXCEPT !.configured = TRUE]

\* A recording: what is in frames.bin, the chunk each entry of offsets.bin points at, whether an
\* entry was cut short, the count, and the chunk that waits for its entry.
NoRecording == [active |-> FALSE, data |-> <<>>, index |-> <<>>, torn |-> FALSE, count |-> 0, writing |-> FALSE]

Idle == [start |-> 0, stop |-> 0]

\* What the probe will answer, and what it cannot foresee.
webcodecsVp9Supported == supported \in BOOLEAN /\ works \in {TRUE, ~supported}

VideoInit ==
    /\ webcodecsVp9Supported
    /\ streaming = FALSE /\ keyed = FALSE /\ rust = "none"
    /\ webcodecs = FALSE /\ events = <<>>
    /\ mounted = FALSE /\ probe = "pending" /\ failed = FALSE
    /\ renderer = NoRenderer /\ pendingFrame = "none" /\ canvas = FALSE
    /\ recFlag = FALSE /\ click = Idle /\ clicks = 0
    /\ rec = NoRecording

-----------------------------------------------------------------------------
(* The session task *)

SessionStarts ==
    /\ ~streaming
    /\ streaming' = TRUE
    /\ UNCHANGED <<supported, works, keyed, rust, webcodecs, events, screenVars, rec>>
SessionEnds ==
    /\ streaming /\ ~rec.writing
    /\ streaming' = FALSE /\ keyed' = FALSE /\ rust' = "none"
    /\ UNCHANGED <<supported, works, webcodecs, events, screenVars, rec>>

\* Events go to whoever listens.
Emit(e) == events' = IF mounted THEN Append(events, e) ELSE events

\* A frame in WebCodecs mode: passed on, not decoded, not recorded.
Forward(key) ==
    /\ webcodecs
    /\ Emit([kind |-> "packet", key |-> key, good |-> TRUE])
    /\ rust' = IF rust = "none" THEN rust ELSE "broken"
    /\ UNCHANGED rec

\* Mutant: an error of the write is not looked at.
DataAssumed(r, all) == [r EXCEPT !.data = Append(@, all), !.writing = TRUE]
\* write_recording_frame, up to the entry: the data, all of it or a part.
DataWritten(r, all) == [r EXCEPT !.data = Append(@, all), !.writing = all]

\* VpxDecoder: whether it makes a whole picture of a frame, which takes a key frame or every frame
\* since the last one.
Whole(key) == key \/ rust = "ok"

\* A frame in JPEG mode: decoded, encoded again, recorded and passed on.  A decoder that misses
\* frames gives an error or a broken picture until the next key frame.
Decode(key) ==
    LET ok == Whole(key) IN
    /\ ~webcodecs
    /\ rust' = IF ok THEN "ok" ELSE "broken"
    /\ \/ ~ok /\ UNCHANGED <<events, rec>>
       \/ /\ Emit([kind |-> "frame", key |-> FALSE, good |-> ok])
          /\ IF rec.active /\ Len(rec.data) < MaxFrames
             THEN \E all \in BOOLEAN : rec' = DataWritten(rec, all)
             ELSE UNCHANGED rec

FrameComes(key) ==
    /\ streaming /\ ~rec.writing /\ Len(events) < InFlight
    /\ key \/ keyed
    /\ keyed' = TRUE
    /\ Forward(key) \/ Decode(key)
    /\ UNCHANGED <<supported, works, streaming, webcodecs, screenVars>>

\* The entry and the count.
EntryWritten(r) == [r EXCEPT !.index = Append(@, Len(r.data)), !.count = @ + 1, !.writing = FALSE]

\* The entry of a whole frame is written; or not at all, or cut short, and the frame is dropped.
IndexWrite ==
    /\ rec.writing
    /\ \/ rec' = EntryWritten(rec)
       \/ rec' = [rec EXCEPT !.writing = FALSE]
       \/ rec' = [rec EXCEPT !.writing = FALSE, !.torn = TRUE]
    /\ UNCHANGED <<supported, works, sessionVars, webcodecs, events, screenVars>>

\* get_recording_frame: whether the i-th entry leads to a whole frame.
get_recording_frame(r, i) == i \in 1..Len(r.index) /\ r.index[i] \in 1..Len(r.data) /\ r.data[r.index[i]]

-----------------------------------------------------------------------------
(* The screen *)

\* A command of the screen before it has been answered by then.
Mount ==
    /\ ~mounted /\ click = Idle
    /\ mounted' = TRUE /\ probe' = "pending" /\ failed' = FALSE
    /\ UNCHANGED <<supported, works, sessionVars, webcodecs, events, renderer, pendingFrame, canvas, recFlag, click, clicks, rec>>

\* The listeners are removed, the renderer is destroyed and the screen's state is gone; the mode
\* and the recording stay as they are, and a command under way goes on.
ScreenUnmounts ==
    /\ mounted
    /\ mounted' = FALSE /\ renderer' = NoRenderer /\ events' = <<>>
    /\ pendingFrame' = "none" /\ canvas' = FALSE /\ recFlag' = FALSE
    /\ UNCHANGED <<supported, works, sessionVars, webcodecs, probe, failed, click, clicks, rec>>

\* syncDecodeMode
SyncDecodeMode(isRecording, r) ==
    LET use == supported /\ probe' = "done" /\ ~failed /\ ~isRecording IN
    /\ webcodecs' = use
    /\ renderer' = IF use THEN r ELSE Closed(r)

ProbeAnswers ==
    /\ mounted /\ probe = "pending"
    /\ probe' = "done"
    /\ IF supported
       THEN SyncDecodeMode(FALSE, [NoRenderer EXCEPT !.exists = TRUE])
       ELSE UNCHANGED <<webcodecs, renderer>>
    /\ UNCHANGED <<supported, works, sessionVars, events, mounted, failed, pendingFrame, canvas, recFlag, click, clicks, rec>>

\* Mutant: the backend is not told.
FallBackAlone ==
    /\ failed' = TRUE
    /\ renderer' = Closed(renderer)
    /\ UNCHANGED webcodecs
\* onError: the Rust path for the rest of the session.
FallBack ==
    /\ failed' = TRUE
    /\ renderer' = Closed(renderer)
    /\ webcodecs' = FALSE

\* Mutant: a decoder may start anywhere.
decodeAnything(key, gotKey, full) == key \/ ~full
\* shouldDecode
shouldDecode(key, gotKey, full) == key \/ (gotKey /\ ~full)

\* The decoder takes the packet: the picture is good if nothing is missing before it.
Fed(r, key) ==
    [r EXCEPT !.gotKey = @ \/ key,
              !.first = IF @ = "none" THEN (IF key THEN "key" ELSE "delta") ELSE @,
              !.intact = @ \/ key]

\* push: a decoder whose queue is full skips what is not a key frame.
PacketArrives ==
    /\ mounted /\ events # <<>> /\ Head(events).kind = "packet"
    /\ events' = Tail(events)
    /\ LET key == Head(events).key
           r == Ensured(renderer)
       IN  \/ /\ ~renderer.exists
              /\ UNCHANGED <<renderer, canvas>>
           \/ /\ renderer.exists
              /\ \E full \in BOOLEAN :
                   IF shouldDecode(key, r.gotKey, full)
                   THEN /\ renderer' = Fed(r, key)
                        /\ canvas' = IF works THEN Fed(r, key).intact ELSE canvas
                   ELSE /\ renderer' = [r EXCEPT !.intact = FALSE]
                        /\ UNCHANGED canvas
    /\ UNCHANGED <<supported, works, sessionVars, webcodecs, mounted, probe, failed, pendingFrame, recFlag, click, clicks, rec>>

\* The decoder reports an error of its own, or push met one; so does, sooner or later, a decoder
\* that cannot decode the stream.
DecoderFails ==
    /\ mounted /\ renderer.configured
    /\ FallBack
    /\ UNCHANGED <<supported, works, sessionVars, events, mounted, probe, pendingFrame, canvas, recFlag, click, clicks, rec>>

\* A JPEG: only the latest waits to be drawn.
FrameArrives ==
    /\ mounted /\ events # <<>> /\ Head(events).kind = "frame"
    /\ events' = Tail(events)
    /\ pendingFrame' = IF Head(events).good THEN "good" ELSE "broken"
    /\ UNCHANGED <<supported, works, sessionVars, webcodecs, mounted, probe, failed, renderer, canvas, recFlag, click, clicks, rec>>
Draw ==
    /\ mounted /\ pendingFrame # "none"
    /\ canvas' = (pendingFrame = "good")
    /\ pendingFrame' = "none"
    /\ UNCHANGED <<supported, works, sessionVars, webcodecs, events, mounted, probe, failed, renderer, recFlag, click, clicks, rec>>

\* handleToggleRecording, again if it is clicked before it is done.
ClickRecord ==
    /\ mounted /\ clicks < MaxClicks
    /\ clicks' = clicks + 1
    /\ UNCHANGED probe
    /\ \/ /\ recFlag
          /\ click' = [click EXCEPT !.stop = @ + 1]
          /\ UNCHANGED <<webcodecs, renderer>>
       \/ /\ ~recFlag
          /\ click' = [click EXCEPT !.start = @ + 1]
          /\ SyncDecodeMode(TRUE, renderer)
    /\ UNCHANGED <<supported, works, sessionVars, events, mounted, failed, pendingFrame, canvas, recFlag, rec>>

\* start_recording: a recording that is under way is dropped; or it fails.
RecordingStarts ==
    /\ click.start > 0 /\ ~rec.writing
    /\ click' = [click EXCEPT !.start = @ - 1]
    /\ UNCHANGED probe
    /\ \/ /\ rec' = [NoRecording EXCEPT !.active = TRUE]
          /\ recFlag' = mounted
          /\ UNCHANGED <<webcodecs, renderer>>
       \/ /\ UNCHANGED <<rec, recFlag>>
          /\ SyncDecodeMode(FALSE, renderer)
    /\ UNCHANGED <<supported, works, sessionVars, events, mounted, failed, pendingFrame, canvas, clicks>>

\* stop_recording, with or without its meta.json: nobody writes the files any more.
RecordingStops ==
    /\ click.stop > 0 /\ ~rec.writing
    /\ click' = [click EXCEPT !.stop = @ - 1] /\ recFlag' = FALSE
    /\ UNCHANGED probe
    /\ rec' = NoRecording
    /\ SyncDecodeMode(FALSE, renderer)
    /\ UNCHANGED <<supported, works, sessionVars, events, mounted, failed, pendingFrame, canvas, clicks>>

-----------------------------------------------------------------------------
VideoNext ==
    \/ SessionStarts \/ SessionEnds \/ (\E key \in BOOLEAN : FrameComes(key)) \/ IndexWrite
    \/ Mount \/ ScreenUnmounts \/ ProbeAnswers \/ PacketArrives \/ DecoderFails \/ FrameArrives \/ Draw
    \/ ClickRecord \/ RecordingStarts \/ RecordingStops

\* The tasks of the viewer go on and its web view answers; nothing is assumed of the host's frames.
VideoSpec ==
    /\ VideoInit /\ [][VideoNext]_videoVars
    /\ WF_videoVars(IndexWrite) /\ WF_videoVars(ProbeAnswers)
    /\ WF_videoVars(PacketArrives) /\ WF_videoVars(~works /\ DecoderFails) /\ WF_videoVars(FrameArrives) /\ WF_videoVars(Draw)
    /\ WF_videoVars(RecordingStarts) /\ WF_videoVars(RecordingStops)

-----------------------------------------------------------------------------
(* Properties *)

\* Each variable has its type.
VideoTypeOK ==
    /\ {supported, works, streaming, keyed, webcodecs, mounted, failed, canvas, recFlag} \subseteq BOOLEAN
    /\ rust \in {"none", "ok", "broken"} /\ probe \in {"pending", "done"}
    /\ pendingFrame \in {"none", "good", "broken"}
    /\ click.start + click.stop <= clicks /\ clicks <= MaxClicks
    /\ Len(events) <= InFlight /\ Len(rec.data) <= MaxFrames

\* What the web view's decoder is given first is a key frame, however often it is reset, replaced
\* or left alone while another path is in use and late packets arrive (push, reset, ensureDecoder).
FirstIsKey == renderer.first # "delta"

\* While there is a session, the host goes on sending key frames.  Its encoder makes one for so many
\* frames (kf_max_dist), not for so much time, and a screen that does not change gives no frame.
KeyFramesKeepComing == SF_videoVars(FrameComes(TRUE))

\* A screen that stays, over a session that goes on and whose host goes on sending key frames, comes
\* to show a good picture: on a new screen over an old flag, after skipped frames, a decoder that
\* fails, a recording that switches paths in the middle of the stream (set_decode_mode, onError).
\* Without the key frames it may stay blank: the viewer has no way to ask for one.
PictureComes ==
    KeyFramesKeepComing =>
        ((mounted /\ streaming /\ ~canvas) ~> (canvas \/ ~mounted \/ ~streaming))

\* Every entry of a recording's index leads to a whole frame, and the count says how many there
\* are, whatever writes failed before and however much of them reached the disk, unless an entry
\* itself was cut short (write_recording_frame, get_recording_frame).
IndexIsExact ==
    ~rec.torn => rec.count = Len(rec.index) /\ \A i \in 1..rec.count : get_recording_frame(rec, i)
=============================================================================

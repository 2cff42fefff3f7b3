----------------------------- MODULE MediaSession -----------------------------
(***************************************************************************)
(* The local media of one call in the browser (client/src):                *)
(*                                                                         *)
(*   webrtc_room.rs   WebRtcRoomSession: capture, replaceTrack, offers     *)
(*   app.rs           the effects that start, change and close it          *)
(*   components/      room.rs, screen_share_pick.rs: the screen picker     *)
(*                                                                         *)
(* Every method takes the next media_generation and spawns a task that     *)
(* awaits promises of the browser: an operation is named by its generation *)
(* and so is the stream it captures.  An operation asks is_stale after     *)
(* getUserMedia and never again.  What an RTCPeerConnection is asked to do *)
(* (replaceTrack, createOffer) settles in the order of the calls: "chain"  *)
(* is its operations chain, an external.  On a closed connection all of it *)
(* is rejected.                                                            *)
(*                                                                         *)
(* The three senders are made with the connection (addTransceiver), so the *)
(* branches that add a missing one are left out.  A device change is an    *)
(* apply with unchanged switches.                                          *)
(*                                                                         *)
(* A stream of camera and microphone stands for the tracks the code keeps  *)
(* of it.  Behind a gain graph the microphone's own track is not one of    *)
(* them: the stream has the track of the AudioContext's destination in its *)
(* place, and nothing can stop the microphone any more (raw_mics).  The    *)
(* browser ends the track of a display by itself (ended), and nothing in   *)
(* the client listens for it; a lost camera or microphone is left out.     *)
(***************************************************************************)
EXTENDS Naturals, Sequences

CONSTANTS
    MaxGen,         \* bound on the operations of a call
    MaxPickers      \* bound on screen pickers open at a time

ASSUME MaxGenAssumption == MaxGen \in Nat
ASSUME MaxPickersAssumption == MaxPickers \in Nat

VARIABLES
    call,           \* webrtc_session: none yet, open, or closed
    mic, cam,       \* settings_state: mic_enabled, camera_enabled
    media_generation,
    ops,            \* the operations begun, by generation
    chain,          \* operations of the connection not settled, in order
    live,           \* streams with live tracks
    raw_mics,       \* captures whose microphone is on but in no stream
    ended,          \* display streams the browser has ended
    local_stream,   \* the stream of the preview
    screen_stream,  \* the display stream of the session
    audio, video, screen,   \* the stream whose track each sender carries
    graph,          \* the stream behind mic_audio_ctx and mic_gain_param
    offered,        \* an offer was sent
    pickers,        \* Room: start_display_capture under way
    shared,         \* Room: screen_share_stream; None is screen_sharing off
    mishaps         \* history: what the properties make exceptions for

vars == <<call, mic, cam, media_generation, ops, chain, live, raw_mics, ended,
          local_stream, screen_stream, audio, video, screen, graph, offered,
          pickers, shared, mishaps>>

None == 0
Gens == 1..MaxGen
Streams == 1..(MaxGen + 2)

Op == [kind : {"start", "apply", "share", "unshare"}, mic : BOOLEAN, cam : BOOLEAN,
       at : {"capture", "resume", "audio", "video", "screen", "offer", "over"}]

\* An operation that has not begun, or has ended.
NoOp == [kind |-> "start", mic |-> FALSE, cam |-> FALSE, at |-> "over"]

\* refused: the browser said no.  hurried: an operation began while start was
\* capturing.  overtaken: one began, or the call ended, in the window of an
\* older one after its last check.  late: a picker answered after the call.
Mishaps == {"refused", "hurried", "overtaken", "late"}

Under(g) == ops[g].at # "over"
Idle == \A g \in Gens : ~Under(g)
At(g, place) == ops[g].at = place

TypeOK ==
    /\ call \in {"none", "open", "closed"}
    /\ mic \in BOOLEAN /\ cam \in BOOLEAN
    /\ media_generation \in 0..(MaxGen + 1)
    /\ ops \in [Gens -> Op]
    /\ chain \in Seq(Gens)
    /\ live \subseteq Streams /\ raw_mics \subseteq Gens /\ ended \subseteq Streams
    /\ {local_stream, screen_stream, audio, video, screen, graph} \subseteq Gens \cup {None}
    /\ offered \in BOOLEAN
    /\ pickers \in 0..MaxPickers
    /\ shared \in Streams \cup {None}
    /\ mishaps \subseteq Mishaps

Init ==
    /\ call = "none"
    /\ mic \in BOOLEAN /\ cam \in BOOLEAN
    /\ media_generation = 0
    /\ ops = [g \in Gens |-> NoOp]
    /\ chain = <<>>
    /\ live = {} /\ raw_mics = {} /\ ended = {}
    /\ local_stream = None /\ screen_stream = None
    /\ audio = None /\ video = None /\ screen = None
    /\ graph = None
    /\ offered = FALSE
    /\ pickers = 0
    /\ shared = None
    /\ mishaps = {}
-----------------------------------------------------------------------------
(* Beginning an operation *)

\* The window of an operation after its last check, where a newer operation
\* does not stop it: while AudioContext.resume is awaited.
Window(g) == At(g, "resume")

\* A rejection by the closed connection does not make this operation give up
\* its stream: it stores it after close.
Outlives(g) ==
    \/ ops[g].kind = "start" /\ ops[g].at \in {"resume", "audio", "video"}
    \/ ops[g].kind = "apply" /\ At(g, "video") /\ ~ops[g].cam

\* What the beginning of a screen operation, or of a media one, disturbs.
Disturbed(kind) ==
    (IF \E g \in Gens : At(g, "capture") /\ ops[g].kind = "start" THEN {"hurried"} ELSE {})
      \cup
    (IF \E g \in Gens : IF kind = "apply" THEN Window(g) ELSE At(g, "capture")
     THEN {"overtaken"} ELSE {})

\* get_user_media fails at once with both switches off: start goes on to its
\* offer, and apply does not ask for it.
FirstAwait(kind, m, c) ==
    IF m \/ c THEN "capture" ELSE IF kind = "start" THEN "offer" ELSE "audio"

\* stop_all_tracks, which stops what is in the streams; and
\* teardown_mic_graph, which closes the context and leaves the microphone on.
StopTracks(streams) == live' = live \ streams
TeardownMicGraph == graph' = None

\* next_generation, and the task up to its first await.
Begin(kind, m, c, place) ==
    /\ media_generation < MaxGen
    /\ media_generation' = media_generation + 1
    /\ ops' = [ops EXCEPT ![media_generation + 1] =
                 [kind |-> kind, mic |-> m, cam |-> c, at |-> place]]
    /\ chain' = IF place = "capture" THEN chain
                                     ELSE Append(chain, media_generation + 1)
    /\ mishaps' = mishaps \cup Disturbed(kind)

\* Without the skip flag the settings effect applies again what start captures.
StartSession_Mutant ==
    /\ call = "none"
    /\ MaxGen >= 2
    /\ call' = "open"
    /\ media_generation' = 2
    /\ LET op(kind) == [kind |-> kind, mic |-> mic, cam |-> cam, at |-> "capture"]
       IN ops' = [ops EXCEPT ![1] = op("start"), ![2] = op("apply")]
    /\ mic \/ cam
    /\ UNCHANGED <<mic, cam, chain, live, local_stream, screen_stream, audio, video,
                   screen, graph, offered, pickers, shared, mishaps, raw_mics, ended>>

\* The lifecycle effect; the settings effect of the same render meets
\* skip_media_apply and only resets it.
StartSession ==
    /\ call = "none"
    /\ call' = "open"
    /\ Begin("start", mic, cam, FirstAwait("start", mic, cam))
    /\ UNCHANGED <<mic, cam, live, local_stream, screen_stream, audio, video, screen,
                   graph, offered, pickers, shared, raw_mics, ended>>

\* on_toggle_mic and on_toggle_camera; neither, for a change of device.
Toggled(m, c) == (m = mic \/ c = cam) /\ mic' = m /\ cam' = c

\* The graph of the microphone stays when everything is switched off.
ApplyLocalMedia_Mutant(m, c) ==
    Begin("apply", m, c, FirstAwait("apply", m, c)) /\ UNCHANGED graph

\* apply_local_media: with both switches off nothing is captured and the graph
\* of the microphone goes at once.
ApplyLocalMedia(m, c) ==
    /\ Begin("apply", m, c, FirstAwait("apply", m, c))
    /\ IF m \/ c THEN UNCHANGED graph ELSE TeardownMicGraph

\* The settings effect.
SettingsChanged(m, c) ==
    /\ call = "open"
    /\ Toggled(m, c)
    /\ ApplyLocalMedia(m, c)
    /\ UNCHANGED <<call, live, local_stream, screen_stream, audio, video, screen,
                   offered, pickers, shared, raw_mics, ended>>

\* on_toggle_screen with sharing off: the browser's picker opens.
OpenPicker ==
    /\ call = "open" /\ shared = None
    /\ pickers < MaxPickers
    /\ pickers' = pickers + 1
    /\ UNCHANGED <<call, mic, cam, media_generation, ops, chain, live, local_stream,
                   screen_stream, audio, video, screen, graph, offered, shared,
                   mishaps, raw_mics, ended>>

PublishScreenShare == Begin("share", FALSE, FALSE, "screen")

\* The picker answered with a stream: on_screen_share_started, which finds the
\* session (publish_screen_share) or, after the call, nobody who takes it.
Picked ==
    /\ pickers > 0
    /\ pickers' = pickers - 1
    /\ live' = live \cup {media_generation + 1}
    /\ shared' = media_generation + 1
    /\ IF call = "open"
       THEN PublishScreenShare
       ELSE mishaps' = mishaps \cup {"late"} /\ UNCHANGED <<media_generation, ops, chain>>
    /\ UNCHANGED <<call, mic, cam, local_stream, screen_stream, audio, video, screen,
                   graph, offered, raw_mics, ended>>

PickerFails ==
    /\ pickers > 0
    /\ pickers' = pickers - 1
    /\ UNCHANGED <<call, mic, cam, media_generation, ops, chain, live, local_stream,
                   screen_stream, audio, video, screen, graph, offered, shared,
                   mishaps, raw_mics, ended>>

StopScreenShare == Begin("unshare", FALSE, FALSE, "screen")

\* on_toggle_screen with sharing on: the component stops the tracks it shows,
\* then stop_screen_share.
StopSharing ==
    /\ call = "open" /\ shared # None
    /\ StopTracks({shared})
    /\ shared' = None
    /\ StopScreenShare
    /\ UNCHANGED <<call, mic, cam, local_stream, screen_stream, audio, video, screen,
                   graph, offered, pickers, raw_mics, ended>>

\* The display streams somebody has.
Displays == {shared, screen_stream} \cup {g \in Gens : Under(g) /\ ops[g].kind = "share"}

\* The user stops sharing in the browser's own bar, or closes the window that
\* is shared.  No handler of the client is told: the room goes on showing the
\* share and the sender keeps its dead track.
DisplayEnds(s) ==
    /\ s \in Displays \cap live
    /\ StopTracks({s})
    /\ ended' = ended \cup {s}
    /\ UNCHANGED <<call, mic, cam, media_generation, ops, chain, local_stream,
                   screen_stream, audio, video, screen, graph, offered, pickers, shared,
                   mishaps, raw_mics>>

\* A close that forgets the display stream.
Close_Mutant ==
    /\ call = "open"
    /\ call' = "closed"
    /\ media_generation' = media_generation + 1
    /\ live' = live \ {local_stream}
    /\ audio' = None /\ video' = None /\ screen' = None
    /\ graph' = None
    /\ mishaps' = mishaps \cup
         IF \E g \in Gens : Outlives(g) THEN {"overtaken"} ELSE {}
    /\ UNCHANGED <<mic, cam, ops, chain, local_stream, screen_stream, offered,
                   pickers, shared, raw_mics, ended>>

\* A cleanup that does not take the session out of its cell closes it twice.
Close_Twice ==
    /\ call # "none"
    /\ call' = "closed"
    /\ media_generation' = media_generation + 1
    /\ UNCHANGED <<mic, cam, ops, chain, live, local_stream, screen_stream, audio,
                   video, screen, graph, offered, pickers, shared, mishaps, raw_mics,
                   ended>>

\* The cleanup of the lifecycle effect: close.  The call's component is gone
\* too, but an open picker stays open.
Close ==
    /\ call = "open"
    /\ call' = "closed"
    /\ media_generation' = media_generation + 1
    /\ StopTracks({local_stream, screen_stream})
    /\ audio' = None /\ video' = None /\ screen' = None
    /\ TeardownMicGraph
    /\ mishaps' = mishaps \cup
         IF \E g \in Gens : Outlives(g) THEN {"overtaken"} ELSE {}
    /\ UNCHANGED <<mic, cam, ops, chain, local_stream, screen_stream, offered,
                   pickers, shared, raw_mics, ended>>
-----------------------------------------------------------------------------
(* Capture *)

Moved(g, place) == [ops EXCEPT ![g].at = place]
Over(g) == [ops EXCEPT ![g] = NoOp]

\* A check that looks only at the closed flag.
IsStale_Mutant(g) == call = "closed"

IsStale(g) == call = "closed" \/ media_generation # g

\* The kinds start has tracks of, in the order of its loop; apply goes through
\* both kinds.
AfterCapture(g) ==
    IF ops[g].mic THEN "resume"
    ELSE IF ops[g].kind = "apply" THEN "audio" ELSE "video"

\* getUserMedia settled with a stream.  A stale operation stops it and is over;
\* else the old graph is torn down, and a stream with a microphone waits for
\* its AudioContext.
Captured(g) ==
    /\ At(g, "capture")
    /\ IF IsStale(g)
       THEN ops' = Over(g) /\ UNCHANGED <<chain, live, graph>>
       ELSE /\ ops' = Moved(g, AfterCapture(g))
            /\ live' = live \cup {g}
            /\ TeardownMicGraph
            /\ chain' = IF ops[g].mic THEN chain ELSE Append(chain, g)
    /\ UNCHANGED <<call, mic, cam, media_generation, local_stream, screen_stream,
                   audio, video, screen, offered, pickers, shared, mishaps, raw_mics,
                   ended>>

\* getUserMedia failed: start offers without media, stale or not; apply ends.
CaptureFails(g) ==
    /\ At(g, "capture")
    /\ IF ops[g].kind = "start"
       THEN ops' = Moved(g, "offer") /\ chain' = Append(chain, g)
       ELSE ops' = Over(g) /\ UNCHANGED chain
    /\ mishaps' = mishaps \cup {"refused"}
    /\ UNCHANGED <<call, mic, cam, media_generation, live, local_stream,
                   screen_stream, audio, video, screen, graph, offered, pickers,
                   shared, raw_mics, ended>>

\* The rest of process_local_media_for_send.  The graph is stored, and the
\* stream goes on with the destination's track and the camera's; or one of its
\* steps is missing in this browser and the stream keeps the raw tracks.
Resumed(g) ==
    /\ Window(g)
    /\ ops' = Moved(g, "audio")
    /\ chain' = Append(chain, g)
    /\ \/ graph' = g /\ raw_mics' = raw_mics \cup {g}
       \/ UNCHANGED <<graph, raw_mics>>
    /\ UNCHANGED <<call, mic, cam, media_generation, live, local_stream, screen_stream,
                   audio, video, screen, offered, pickers, shared, mishaps, ended>>
-----------------------------------------------------------------------------
(* What the connection settles *)

Head1 == Head(chain)
Settles(place) == chain # <<>> /\ ops[Head1].at = place

\* The operation goes on with its next call to the connection, or is over.
GoesOn(place) == ops' = Moved(Head1, place) /\ chain' = Append(Tail(chain), Head1)
Ends == ops' = Over(Head1) /\ chain' = Tail(chain)

Refused == mishaps' = IF call = "open" THEN mishaps \cup {"refused"} ELSE mishaps

\* The audio sender has its track, or none.
ReplaceAudio ==
    /\ Settles("audio") /\ call = "open"
    /\ audio' = IF ops[Head1].mic THEN Head1 ELSE None
    /\ IF ops[Head1].kind = "apply" \/ ops[Head1].cam
       THEN GoesOn("video") /\ UNCHANGED local_stream
       ELSE GoesOn("offer") /\ local_stream' = Head1
    /\ UNCHANGED <<call, mic, cam, media_generation, live, screen_stream, video,
                   screen, graph, offered, pickers, shared, mishaps, raw_mics, ended>>

\* start takes no notice; apply gives up its stream, unless it was muting.
ReplaceAudioFails ==
    /\ Settles("audio")
    /\ IF ops[Head1].kind = "start"
       THEN IF ops[Head1].cam THEN GoesOn("video") /\ UNCHANGED local_stream
                              ELSE GoesOn("offer") /\ local_stream' = Head1
       ELSE UNCHANGED local_stream
            /\ IF ops[Head1].mic THEN Ends ELSE GoesOn("video")
    /\ live' = IF ops[Head1].kind = "apply" /\ ops[Head1].mic THEN live \ {Head1} ELSE live
    /\ Refused
    /\ UNCHANGED <<call, mic, cam, media_generation, screen_stream, audio, video,
                   screen, graph, offered, pickers, shared, raw_mics, ended>>

\* The new stream is stored before the old one is stopped.
Stored_Mutant ==
    IF ops[Head1].kind = "start"
    THEN GoesOn("offer") /\ local_stream' = Head1 /\ UNCHANGED live
    ELSE /\ Ends
         /\ IF ops[Head1].mic \/ ops[Head1].cam
            THEN local_stream' = Head1 /\ live' = live \ {Head1}
            ELSE local_stream' = None /\ live' = live \ {local_stream}

\* start overwrites the stream of the preview; apply stops the old one first,
\* and with both switches off leaves none.
Stored ==
    IF ops[Head1].kind = "start"
    THEN GoesOn("offer") /\ local_stream' = Head1 /\ UNCHANGED live
    ELSE /\ Ends
         /\ StopTracks({local_stream})
         /\ local_stream' = IF ops[Head1].mic \/ ops[Head1].cam THEN Head1 ELSE None

ReplaceVideo ==
    /\ Settles("video") /\ call = "open"
    /\ video' = IF ops[Head1].cam THEN Head1 ELSE None
    /\ Stored
    /\ UNCHANGED <<call, mic, cam, media_generation, screen_stream, audio, screen,
                   graph, offered, pickers, shared, mishaps, raw_mics, ended>>

ReplaceVideoFails ==
    /\ Settles("video")
    /\ IF ops[Head1].kind = "apply" /\ ops[Head1].cam
       THEN Ends /\ StopTracks({Head1}) /\ UNCHANGED local_stream
       ELSE Stored
    /\ Refused
    /\ UNCHANGED <<call, mic, cam, media_generation, screen_stream, audio, video,
                   screen, graph, offered, pickers, shared, raw_mics, ended>>

\* A stopped share stays on the sender.
ReplaceScreen_Mutant ==
    /\ Settles("screen") /\ call = "open"
    /\ IF ops[Head1].kind = "share"
       THEN Ends /\ screen' = Head1 /\ screen_stream' = Head1
       ELSE GoesOn("offer") /\ screen_stream' = None /\ UNCHANGED screen
    /\ StopTracks({screen_stream})
    /\ UNCHANGED <<call, mic, cam, media_generation, local_stream, audio, video,
                   graph, offered, pickers, shared, mishaps, raw_mics, ended>>

\* publish_screen_share and stop_screen_share after replaceTrack.
ReplaceScreen ==
    /\ Settles("screen") /\ call = "open"
    /\ IF ops[Head1].kind = "share"
       THEN Ends /\ screen' = Head1 /\ screen_stream' = Head1
       ELSE GoesOn("offer") /\ screen' = None /\ screen_stream' = None
    /\ StopTracks({screen_stream})
    /\ UNCHANGED <<call, mic, cam, media_generation, local_stream, audio, video,
                   graph, offered, pickers, shared, mishaps, raw_mics, ended>>

ReplaceScreenFails ==
    /\ Settles("screen")
    /\ IF ops[Head1].kind = "share"
       THEN Ends /\ StopTracks({Head1}) /\ UNCHANGED screen_stream
       ELSE GoesOn("offer") /\ StopTracks({screen_stream}) /\ screen_stream' = None
    /\ Refused
    /\ UNCHANGED <<call, mic, cam, media_generation, local_stream, audio, video,
                   screen, graph, offered, pickers, shared, raw_mics, ended>>

\* send_local_offer, the last thing start and stop_screen_share do.
SendLocalOffer ==
    /\ Settles("offer") /\ call = "open"
    /\ offered' = TRUE
    /\ Ends
    /\ UNCHANGED <<call, mic, cam, media_generation, live, local_stream,
                   screen_stream, audio, video, screen, graph, pickers, shared,
                   mishaps, raw_mics, ended>>

OfferFails ==
    /\ Settles("offer")
    /\ Ends
    /\ Refused
    /\ UNCHANGED <<call, mic, cam, media_generation, live, local_stream,
                   screen_stream, audio, video, screen, graph, offered, pickers,
                   shared, raw_mics, ended>>

Next ==
    \/ StartSession \/ Close
    \/ \E m, c \in BOOLEAN : SettingsChanged(m, c)
    \/ OpenPicker \/ Picked \/ PickerFails \/ StopSharing
    \/ \E s \in Streams : DisplayEnds(s)
    \/ \E g \in Gens : Captured(g) \/ CaptureFails(g) \/ Resumed(g)
    \/ ReplaceAudio \/ ReplaceAudioFails \/ ReplaceVideo \/ ReplaceVideoFails
    \/ ReplaceScreen \/ ReplaceScreenFails \/ SendLocalOffer \/ OfferFails

Spec == Init /\ [][Next]_vars
-----------------------------------------------------------------------------
(* Properties *)

\* The preview never shows a stopped stream during a call: apply_local_media
\* stops the old stream and stores its own whatever other operations did
\* while it waited (local_stream of webrtc_room.rs).
PreviewAlive == call = "open" /\ local_stream # None => local_stream \in live

\* No stream is left on that nobody will stop: a stream with live tracks is
\* the preview or the shared screen of the open call, or an operation under way
\* still has it; so after a call no camera, no display and no track that was
\* sent stays on.  The exceptions are start, which stores its stream over
\* another or after close, and a picker answered after the call.  A microphone
\* behind a gain graph is in no stream and outside of this: it stays on
\* (raw_mics), whatever is muted, changed or closed.
CaptureOwned ==
    mishaps \cap {"overtaken", "late"} = {} =>
        live \subseteq {g \in Gens : Under(g)}
                     \cup (IF call = "open" THEN {local_stream, screen_stream} ELSE {})

\* What is sent follows the switches: with nothing under way the senders carry
\* the tracks of the preview, exactly for the switches that are on, in whatever
\* order the captures were granted.  The exceptions are a refusal of the
\* browser, an operation overtaken while it awaited its AudioContext, and a
\* change of the switches dropped by a screen share.
MuteSettles ==
    call = "open" /\ Idle /\ mishaps \cap {"refused", "overtaken"} = {} =>
        /\ audio = IF mic THEN local_stream ELSE None
        /\ video = IF cam THEN local_stream ELSE None
        /\ (local_stream # None) = (mic \/ cam)

\* The input level slider moves the gain of the microphone that is sent, never
\* of an older capture (mic_gain_param, set_input_level).
GainFollowsMic ==
    call = "open" /\ Idle /\ mishaps \cap {"refused", "overtaken"} = {} =>
        graph \in {None, audio}

\* What the room shows as shared is what is sent: with nothing under way the
\* screen sender and the session hold the stream of the last picker, or nothing
\* after the user stopped in the room; and the client has not stopped that
\* stream itself, whatever older shares it has stopped.  The browser may have
\* ended it: then the room goes on showing it and a dead track stays sent.
ScreenSettles ==
    call = "open" /\ Idle /\ "refused" \notin mishaps =>
        /\ screen = shared
        /\ screen_stream = shared
        /\ shared # None => shared \in live \cup ended

\* A call is negotiated: once nothing is under way an offer was sent, unless
\* the browser refused or the user acted while start was still capturing,
\* which drops start with its offer (steps 2 and 3 of the flow in
\* webrtc_room.rs).
OfferSent ==
    call = "open" /\ Idle /\ mishaps \cap {"refused", "hurried"} = {} => offered
=============================================================================

------------------------------ MODULE ClientApp ------------------------------
(***************************************************************************)
(* The browser client as a state machine (client/src):                     *)
(*                                                                         *)
(*   app.rs             screens, session, socket, room and their effects   *)
(*   signaling.rs       the web socket and the messages of the server      *)
(*   connector_api.rs   the HTTP requests and their answers                *)
(*   components/        nickname entry, main menu, join form, room         *)
(*                                                                         *)
(* An event handler sets any number of yew states; the render that follows *)
(* and the effects whose dependencies changed run before the next event,   *)
(* so a handler with its effects (Rendered) is one action.  What awaits    *)
(* an answer is not: a request outlives the screen that made it, and its   *)
(* answer calls on_signaling_ready whatever the user has done since.       *)
(*                                                                         *)
(* A dropped SignalingClient takes its handlers along (Drop), so only the  *)
(* current socket can speak; the server is free to answer anything its     *)
(* protocol allows.  Texts, themes, levels and errors shown are left out;  *)
(* the media session is only its room and the socket it sends through      *)
(* (MediaSession models its inside).                                       *)
(***************************************************************************)
EXTENDS RoomView, FiniteSets

CONSTANTS
    Sessions,       \* session ids the connector hands out
    Rooms,
    Me,             \* the user's nickname
    Peers,          \* the nicknames of the others
    Requests,       \* slots for HTTP requests under way
    None,
    MaxSockets      \* bound on the sockets opened in a run

ASSUME MaxSocketsAssumption == MaxSockets \in Nat
ASSUME PeersFiniteAssumption == IsFiniteSet(Peers)

VARIABLES
    screen,         \* AppScreen
    session,        \* session_id
    issued,         \* sessions handed out so far
    reqs,           \* HTTP requests under way
    start,          \* signaling_start
    client,         \* signaling_client with its socket and the server's end
    ws_connected,   \* signaling_ws_connected
    active_room,    \* active_room: its id and its participants
    media,          \* webrtc_session: its room and its transport's socket
    screens,        \* remote_streams: publishers with a screen stream
    page_index,     \* Room: the page asked for
    sharing,        \* Room: screen_sharing
    opened,         \* sockets opened so far
    diverted        \* history: an answer came after its form was left

vars == <<screen, session, issued, reqs, start, client, ws_connected,
          active_room, media, screens, page_index, sharing, opened, diverted>>

Nicks == Peers \cup {Me}

\* "mounted": the component that waits for the answer is still on the page,
\* so its busy flag disables its buttons.
Request == [kind : {"auth", "create", "join"}, session : Sessions \cup {None},
            room : Rooms \cup {None}, mounted : BOOLEAN]

Start == [serial : 1..MaxSockets, session : Sessions, room : Rooms \cup {None}]

\* "at" is where the conversation with the server is; "room" the room the
\* server has put this connection into.
Client == [serial : 1..MaxSockets, socket : {"connecting", "open", "closed"},
           at : {"new", "attach", "asked", "in room", "refused"},
           room : Rooms \cup {None}]

ActiveRoom == [room : Rooms, participants : SUBSET Nicks]
Media == [room : Rooms, transport : 1..MaxSockets]

ASSUME ClientNoneAssumption ==
    None \notin Sessions \cup Rooms \cup Request \cup Start \cup Client \cup ActiveRoom \cup Media

RoomId(room) == IF room = None THEN None ELSE room.room
Count(room) == IF room = None THEN 0 ELSE Cardinality(room.participants)

\* The Room component is on the page.
Mounted(scr, room) == scr = "Room" /\ room # None

Presenting(share, scrs, room) ==
    share \/ (room # None /\ scrs \cap room.participants \cap Peers # {})

\* is_submitting, action_busy
Busy == \E i \in Requests : reqs[i] # None /\ reqs[i].mounted

TypeOK ==
    /\ screen \in {"Nickname", "MainMenu", "JoinRoom", "Room"}
    /\ session \in Sessions \cup {None}
    /\ issued \subseteq Sessions
    /\ reqs \in [Requests -> Request \cup {None}]
    /\ start \in Start \cup {None}
    /\ client \in Client \cup {None}
    /\ ws_connected \in BOOLEAN
    /\ active_room \in ActiveRoom \cup {None}
    /\ media \in Media \cup {None}
    /\ screens \subseteq Peers
    /\ page_index \in Nat
    /\ sharing \in BOOLEAN
    /\ opened \in 0..MaxSockets
    /\ diverted \in BOOLEAN

Init ==
    /\ screen = "Nickname"
    /\ session = None
    /\ issued = {}
    /\ reqs = [i \in Requests |-> None]
    /\ start = None
    /\ client = None
    /\ ws_connected = FALSE
    /\ active_room = None
    /\ media = None
    /\ screens = {}
    /\ page_index = 0
    /\ sharing = FALSE
    /\ opened = 0
    /\ diverted = FALSE
-----------------------------------------------------------------------------
(* Effects *)

\* A component that leaves the page takes its busy flag with it.
Unmounted(rs) ==
    [i \in Requests |->
        IF rs[i] = None THEN None ELSE [rs[i] EXCEPT !.mounted = FALSE]]

RequestsKept(rs) == reqs' = IF screen' = screen THEN rs ELSE Unmounted(rs)

\* The cleanup of the effect is forgotten when the call ends.
MediaLifecycle_Mutant ==
    IF RoomId(active_room') = RoomId(active_room) \/ active_room' = None \/ client' = None
    THEN UNCHANGED <<media, screens>>
    ELSE /\ screens' = {}
         /\ media' = [room |-> active_room'.room, transport |-> client'.serial]

\* The WebRTC lifecycle effect, keyed by the room id: cleanup closes the old
\* session, then a new one starts if there is a socket to send through and
\* RTCPeerConnection can be created.
MediaLifecycle ==
    IF RoomId(active_room') = RoomId(active_room)
    THEN UNCHANGED <<media, screens>>
    ELSE /\ screens' = {}
         /\ \/ /\ active_room' # None
               /\ client' # None
               /\ media' = [room |-> active_room'.room, transport |-> client'.serial]
            \/ media' = None

\* The Room component: fresh state when it is mounted; else what the handler
\* set, and the clamp effect keyed by the mode and the number of pages.
RoomComponent(index, share) ==
    IF ~(Mounted(screen, active_room) /\ Mounted(screen', active_room'))
    THEN page_index' = 0 /\ sharing' = FALSE
    ELSE LET was == Presenting(sharing, screens, active_room)
             is == Presenting(share, screens', active_room')
             pages == PageCount(is, Count(active_room'))
         IN /\ sharing' = share
            /\ page_index' =
                 IF <<is, pages>> = <<was, PageCount(was, Count(active_room))>>
                 THEN index
                 ELSE ClampPage(index, pages)

Rendered(rs) ==
    /\ RequestsKept(rs)
    /\ MediaLifecycle
    /\ RoomComponent(page_index, sharing)

\* Drop: without its handlers the old socket is never heard of again.
ClientDropped == client' = None

\* The states every way out of a call sets; the start effect drops the client.
CallOver ==
    /\ start' = None
    /\ ClientDropped
    /\ active_room' = None
    /\ ws_connected' = FALSE

\* The interval effect: the session is renewed over HTTP while no web socket is
\* said to be connected.
Renews == session # None /\ ~ws_connected
-----------------------------------------------------------------------------
(* The user *)

\* validate_nickname and is_uuid_like refuse bad input before any request.
Ask(kind, sess, room) ==
    \E i \in Requests :
        /\ reqs[i] = None
        /\ reqs' = [reqs EXCEPT ![i] = [kind |-> kind, session |-> sess,
                                        room |-> room, mounted |-> TRUE]]
        /\ UNCHANGED <<screen, session, issued, start, client, ws_connected,
                       active_room, media, screens, page_index, sharing, opened, diverted>>

SubmitNickname == screen = "Nickname" /\ ~Busy /\ Ask("auth", None, None)
ClickCreate == screen = "MainMenu" /\ ~Busy /\ Ask("create", session, None)
SubmitJoin(room) == screen = "JoinRoom" /\ ~Busy /\ Ask("join", session, room)

OnOpenJoinRoom ==
    /\ screen = "MainMenu" /\ ~Busy
    /\ screen' = "JoinRoom"
    /\ UNCHANGED <<session, issued, start, client, ws_connected, active_room, opened, diverted>>
    /\ Rendered(reqs)

\* The session is forgotten, the socket made for it is not.
OnBackToNickname_Mutant ==
    /\ screen = "MainMenu"
    /\ session' = None
    /\ active_room' = None
    /\ ws_connected' = FALSE
    /\ screen' = "Nickname"
    /\ UNCHANGED <<start, client, issued, opened, diverted>>
    /\ Rendered(reqs)

\* "Go Back" of the main menu is enabled while a request is under way.
OnBackToNickname ==
    /\ screen = "MainMenu"
    /\ session' = None
    /\ CallOver
    /\ screen' = "Nickname"
    /\ UNCHANGED <<issued, opened, diverted>>
    /\ Rendered(reqs)

\* The user ends the call but the socket stays.
OnBackToMainMenu_Mutant ==
    /\ screen = "JoinRoom" \/ Mounted(screen, active_room)
    /\ active_room' = None
    /\ ws_connected' = FALSE
    /\ screen' = "MainMenu"
    /\ UNCHANGED <<start, client, session, issued, opened, diverted>>
    /\ Rendered(reqs)

\* "Back" of the join form and "End call".  The Leave that is sent first
\* reaches the server before the close of the dropped socket.
OnBackToMainMenu ==
    /\ screen = "JoinRoom" \/ Mounted(screen, active_room)
    /\ CallOver
    /\ screen' = "MainMenu"
    /\ UNCHANGED <<session, issued, opened, diverted>>
    /\ Rendered(reqs)

\* The arrows are there with more than one page, and end at the last.
TurnPage ==
    LET is == Presenting(sharing, screens, active_room)
        pages == PageCount(is, Count(active_room))
    IN /\ Mounted(screen, active_room)
       /\ pages > 1
       /\ \/ /\ page_index > 0
             /\ page_index' = SaturatingSub(page_index, 1)
          \/ /\ page_index + 1 < pages
             /\ page_index' = Least(page_index + 1, SaturatingSub(pages, 1))
       /\ UNCHANGED <<screen, session, issued, reqs, start, client, ws_connected,
                      active_room, media, screens, sharing, opened, diverted>>

\* The screen picker answered, or the user stopped sharing.
OnToggleScreen ==
    /\ Mounted(screen, active_room)
    /\ UNCHANGED <<screen, session, issued, reqs, start, client, ws_connected,
                   active_room, media, screens, opened, diverted>>
    /\ RoomComponent(page_index, ~sharing)
-----------------------------------------------------------------------------
(* Answers of the connector *)

Answered(i) == [reqs EXCEPT ![i] = None]

\* on_nickname_success; also from a screen the user has been taken away from.
AuthOk(i) ==
    /\ reqs[i] # None /\ reqs[i].kind = "auth"
    /\ \E s \in Sessions \ issued :
         /\ session' = s
         /\ issued' = issued \cup {s}
    /\ CallOver
    /\ screen' = "MainMenu"
    /\ UNCHANGED <<opened, diverted>>
    /\ Rendered(Answered(i))

\* The error is shown by the component, if it is still there.
RequestFails(i) ==
    /\ reqs[i] # None
    /\ reqs' = Answered(i)
    /\ UNCHANGED <<screen, session, issued, start, client, ws_connected,
                   active_room, media, screens, page_index, sharing, opened, diverted>>

\* The start effect: the old client is dropped, the new socket connects or
\* WebSocket::new fails.
Connect(serial) ==
    \/ /\ client' = [serial |-> serial, socket |-> "connecting", at |-> "new", room |-> None]
       /\ screen' = screen
    \/ /\ ClientDropped
       /\ screen' = "MainMenu"

\* on_signaling_ready.  Nothing else is reset.  The connector refuses an empty
\* session id.
OnSignalingReady(i) ==
    /\ reqs[i] # None /\ reqs[i].kind # "auth" /\ reqs[i].session # None
    /\ opened < MaxSockets
    /\ opened' = opened + 1
    /\ diverted' = (diverted \/ ~reqs[i].mounted)
    /\ start' = [serial |-> opened + 1, session |-> reqs[i].session,
                 room |-> reqs[i].room]
    /\ Connect(opened + 1)
    /\ UNCHANGED <<session, issued, ws_connected, active_room>>
    /\ Rendered(Answered(i))
-----------------------------------------------------------------------------
(* Events of the socket *)

Quiet ==
    UNCHANGED <<screen, session, issued, reqs, start, ws_connected, active_room,
                media, screens, page_index, sharing, opened, diverted>>

\* on_open: Connected, then Attach.
SocketOpens ==
    /\ client # None /\ client.socket = "connecting"
    /\ client' = [client EXCEPT !.socket = "open", !.at = "attach"]
    /\ ws_connected' = TRUE
    /\ UNCHANGED <<screen, session, issued, reqs, start, active_room,
                   media, screens, page_index, sharing, opened, diverted>>

\* Disconnected ignored in a call.
SocketCloses_Mutant ==
    /\ client # None /\ client.socket # "closed"
    /\ IF active_room = None
       THEN start' = None /\ client' = None /\ screen' = "MainMenu" /\ ws_connected' = FALSE
       ELSE /\ client' = [client EXCEPT !.socket = "closed", !.at = "refused",
                                        !.room = None]
            /\ UNCHANGED <<start, screen, ws_connected>>
    /\ UNCHANGED <<session, issued, active_room, opened, diverted>>
    /\ Rendered(reqs)

\* on_close: Disconnected.  In a call the room stays on the screen.
SocketCloses ==
    /\ client # None /\ client.socket # "closed"
    /\ ws_connected' = FALSE
    /\ IF active_room = None
       THEN start' = None /\ ClientDropped /\ screen' = "MainMenu"
       ELSE /\ client' = [client EXCEPT !.socket = "closed", !.at = "refused",
                                        !.room = None]
            /\ UNCHANGED <<start, screen>>
    /\ UNCHANGED <<session, issued, active_room, opened, diverted>>
    /\ Rendered(reqs)

\* The server answers on an open socket at this point of the conversation.
Says(at) == client # None /\ client.socket = "open" /\ client.at = at

\* Attached: the client asks for its room.
Attached ==
    /\ Says("attach")
    /\ client' = [client EXCEPT !.at = "asked"]
    /\ Quiet

\* Any other error than the two below is only shown: the socket stays open.
OtherError ==
    /\ Says("attach") \/ Says("asked")
    /\ client' = [client EXCEPT !.at = "refused"]
    /\ Quiet

\* Created or Joined: RoomReady.  A created room has only its creator; the
\* client adds itself to a Joined list without it.
RoomReady(room, others) ==
    /\ Says("asked")
    /\ IF start.room = None THEN others = {} ELSE room = start.room
    /\ client' = [client EXCEPT !.at = "in room", !.room = room]
    /\ active_room' = [room |-> room, participants |-> others \cup {Me}]
    /\ screen' = "Room"
    /\ UNCHANGED <<session, issued, start, ws_connected, opened, diverted>>
    /\ Rendered(reqs)

\* InvalidRoomAssignment, SfuCapacityExhausted.
FatalError ==
    /\ Says("asked") \/ Says("in room")
    /\ CallOver
    /\ screen' = "MainMenu"
    /\ UNCHANGED <<session, issued, opened, diverted>>
    /\ Rendered(reqs)

\* RoomClosed, ServiceUnavailable, Left.
RoomGone ==
    /\ Says("in room")
    /\ CallOver
    /\ screen' = "MainMenu"
    /\ UNCHANGED <<session, issued, opened, diverted>>
    /\ Rendered(reqs)

\* active_room_with_participant, active_room_without_participant.
ParticipantJoined(nick) ==
    /\ Says("in room")
    /\ active_room' = [active_room EXCEPT !.participants = @ \cup {nick}]
    /\ UNCHANGED <<screen, session, issued, start, client, ws_connected, opened, diverted>>
    /\ Rendered(reqs)

ParticipantLeft(nick) ==
    /\ Says("in room")
    /\ active_room' = [active_room EXCEPT !.participants = @ \ {nick}]
    /\ UNCHANGED <<screen, session, issued, start, client, ws_connected, opened, diverted>>
    /\ Rendered(reqs)

\* ontrack of a screen track of this publisher.
RemoteScreen(nick) ==
    /\ media # None
    /\ screens' = screens \cup {nick}
    /\ UNCHANGED <<screen, session, issued, reqs, start, client, ws_connected,
                   active_room, media, opened, diverted>>
    /\ RoomComponent(page_index, sharing)

Next ==
    \/ SubmitNickname \/ ClickCreate \/ OnOpenJoinRoom
    \/ \E r \in Rooms : SubmitJoin(r)
    \/ OnBackToNickname \/ OnBackToMainMenu
    \/ TurnPage \/ OnToggleScreen
    \/ \E i \in Requests : AuthOk(i) \/ RequestFails(i) \/ OnSignalingReady(i)
    \/ SocketOpens \/ SocketCloses \/ Attached \/ OtherError
    \/ \E r \in Rooms, others \in SUBSET Peers : RoomReady(r, others)
    \/ FatalError \/ RoomGone
    \/ \E n \in Nicks : ParticipantJoined(n) \/ ParticipantLeft(n)
    \/ \E n \in Peers : RemoteScreen(n)

Spec == Init /\ [][Next]_vars
-----------------------------------------------------------------------------
(* Properties *)

\* The server never believes this connection to be in a room the user is not
\* shown: while the server holds the client in a room, the room screen is on
\* and shows that room (RoomReady, every way out of a call and the start
\* effect of app.rs).
NoGhost ==
    (client # None /\ client.at = "in room") =>
        /\ screen = "Room"
        /\ active_room # None
        /\ client.room = active_room.room

\* The media session is the one of the call: there is none without a call, and
\* after any order of events, answers and clicks it is the session made for the
\* room of the call, never an older room's (the effect keyed by room_id).  Which
\* tracks a session leaves on when it closes is in MediaSession.
MediaFollowsRoom ==
    media # None => active_room # None /\ media.room = active_room.room

\* The HTTP renewal of the session lease is off only while a socket that may
\* still speak is expected to renew it (the interval effect of app.rs keyed by
\* signaling_ws_connected): a socket that told of its close never keeps it off,
\* and after a call it is on again.
DeadSocketRenews ==
    session # None /\ ~Renews =>
        /\ start # None
        /\ ~(client # None /\ client.socket = "closed")

\* Only an answer of the connector that comes after its form was left can
\* divert the user: until then a room exists exactly while it is shown, the
\* socket carries the user's own session, and the media session of the call
\* sends through the socket of the call.
OnlyLateAnswersDivert ==
    ~diverted =>
        /\ (active_room # None) <=> (screen = "Room")
        /\ client # None => start.session = session
        /\ (client # None /\ client.at = "in room" /\ media # None) =>
              media.transport = client.serial

\* Whatever the mode and the list, the arrows of room.rs lead to every
\* participant: each is on exactly one of the pages.
PagesPartition ==
    Mounted(screen, active_room) =>
        LET is == Presenting(sharing, screens, active_room)
            n == Count(active_room)
            OnPage(k, p) == FirstTile(is, n, p) <= k /\ k < EndTile(is, n, p)
        IN \A k \in 0..(n - 1) :
             \E p \in 0..(PageCount(is, n) - 1) :
               /\ OnPage(k, p)
               /\ \A q \in 0..(PageCount(is, n) - 1) : OnPage(k, q) => q = p

\* A render that finds the list or the mode changed under the page the user is
\* on comes before the clamp effect, and still takes a legal slice of the
\* participants (&props.participants[start..end] of room.rs).
SliceInBounds ==
    [][Mounted(screen, active_room) /\ Mounted(screen', active_room') =>
         LET is == Presenting(sharing', screens', active_room')
             n == Count(active_room')
         IN /\ FirstTile(is, n, page_index) <= EndTile(is, n, page_index)
            /\ EndTile(is, n, page_index) <= n]_vars
=============================================================================

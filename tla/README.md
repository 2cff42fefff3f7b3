# Callifornia2 in TLA+

Callifornia2 is a video-call service. A browser client logs in at the **connector**, is sent to a
**signaling** node over a web socket, and is given a peer on an **SFU** that forwards media. A
**supervisor** watches nodes and SFUs and cleans up. All shared state is in **Redis**, changed by every
service with single commands and a few scripts. These modules model that state and everyone who changes
it, the negotiation of a participant with its SFU, and the browser client; TLC checks them on small
instances and TLAPS proves the main properties for every instance.

Paths below are relative to the repository's root.

## 1. Inventory

| component | state | operations | talks to |
|---|---|---|---|
| connector (`services/connector/src`) | none of its own; `nick:*` leases and `signaling:session:*` hashes in Redis | `auth`, `create`, `join`, `logout`, `session_renew` | Redis; hands tokens to the client |
| signaling web socket (`services/signaling/src/websocket.rs`) | one `ConnectionContext` per connection | `Attach`, `Create`, `Join`, `Leave`, `Logout`, `Sdp`, `Candidate`, `cleanup_connection`, lease renewer | Redis, session and peer registry, SFU client |
| session registry (`session_registry.rs`) | `by_session_id`, `by_room_id` | `upsert`, `remove`, `set_room`, `clear_room`, `clear` | called by the handlers and by the loss of an SFU |
| peer registry (`peer_registry.rs`) | room -> nickname -> outbound channel | `register`, `unregister`, `broadcast_to_room`, `snapshot_rooms` | the handlers; a full channel yields stale peers |
| room state (`redis.rs`, `state.rs`) | binding, member set, SFU load and SFU record in Redis | assign script, `join_room`, `leave_room`, `close_room_binding`, `detach_peer`, `close_rooms_due_to_sfu_addr` | Redis, SFU |
| SFU client (`sfu.rs`) | channels, listeners, SDP mutexes, last ICE ufrag | `ensure_peer`, `delete_peer`, `handle_sdp`, `run_event_listener` | gRPC to the SFU |
| purge, admin (`state.rs`, `admin.rs`) | `purging` flag | `Ping`, `Purge`, `CloseRoomsBySfu` | supervisor |
| supervisor (`services/supervisor/src/probes.rs`) | heartbeats and SFU records in Redis | signaling probe, SFU probe, janitor, own heartbeat | Redis, admin service, SFU |
| control store (`common/control_store`) | - | Redis operations of supervisor and connector | Redis |
| SFU runtime (`sfu/src/sfu_runtime.cpp`, `room.cpp`) | `m_rooms`, `m_signalingPeers` | `addPeer`, `removePeer`, `removePeersBySignaling` | event router, peer sessions |
| SFU service, event router | subscribers, pending events | `CreatePeer`, `DeletePeer`, `HandleSDP`, `AddICECandidate`, `SubscribeEvents` | signaling |
| SFU peer session (`peer_session.cpp`) | peer connection, negotiation flag, tracks | `applyRemoteOffer`, `initPeerConnection`, `shutdownPeerConnection` | libdatachannel |
| client app (`client/src/app.rs`, `signaling.rs`, `connector_api.rs`) | screen, session, requests, socket, room; effects keyed by them | log in, create, join, back, end call, every message of the server | connector, signaling, media session |
| client media (`webrtc_room.rs`, `screen_share_pick.rs`) | streams, senders, microphone graph, `media_generation`, `closed` | start, apply settings, share and stop sharing, close, offer, answer, candidates | the browser, the socket |
| client room screen (`components/room.rs`, `room/layout.rs`) | page index, sharing | turn the page, share, leave | client app |

What is hard here:

* **No transactions.** A handler awaits between its Redis commands, so the handlers of other connections
  and other nodes, and the supervisor's loops, run there. Reads are stale when they are used.
* **Partial failure.** Every call has a timeout, after which it may or may not have taken effect; each
  handler compensates for some of its steps, and the compensations can fail too.
* **Crashes.** What a dead node leaves in Redis and on the SFUs is found only by the janitor, by the
  probes and by the end of an event stream.
* **Unlocked halves.** The SFU drops its lock to close a peer connection and then takes out whatever is in
  the slot by that time.
* **Promises that outlive their caller.** A request of the client outlives the form that made it, a capture
  outlives the call it was made for, a HandleSDP thread of the SFU outlives the call that started it, and a
  local description outlives the promise it was meant for.
* **Two ways for one conversation.** Answers come back through the call, candidates through the event
  stream; only the loop of the socket puts them in order.

What makes the components correct: a nickname belongs to one session; a session that was forgotten is not
accepted again; the registry's two maps agree; a room is opened once, in one place, and closed once; it does
not outlive its members, its node or its SFU; no SFU peer escapes the cleanup of its node. The load of a node
counts its connections, and an outage of Redis empties every node. An answer answers
its own offer, candidates arrive after the description they need, and a peer can always negotiate again. The
client shows the room it is in; the media session is the one of that room; a captured stream is stopped by
whoever holds it; what is sent follows the switches; every participant is on one page, and no page is out of
bounds. (That the microphone is off after the call is not among them: the code leaves it on, see section 3.)
`PROJECT.json` lists the hazards line by line.

## 2. Modules

| module | models | state and actions |
|---|---|---|
| `SessionRegistry` | `session_registry.rs` | the two maps; one action per method, because each runs under the write lock |
| `SessionMap` | what the registry promises | one map from sessions to rooms |
| `NickSession` | logins: `auth`, `logout`, `session_renew` of the connector; `Attach`, `Logout`, the writes of the room field, disconnect, the lease renewer of signaling; key expiry; the janitor's session sweep | `lease` and `hash` are the Redis keys, `auth`, `clog` and `job` the handlers under way |
| `RoomPlane` | rooms: `create`, `join`, `leave`, disconnect, stale peers, loss of an SFU; the assign script; `close_room_binding` and the read-then-write decrement; `sfu_probe_loop`, `handle_dead_sfu` and the janitor | `bind`, `members`, `load`, `sroom`, `ready`, `seen` in Redis; `peers` and `local` in the nodes' memory; `pc` and `req` of the handlers; `dec` for decrements and `sweep` for the supervisor |
| `RoomLifecycle` | what the room plane promises of a room | unused, open in one place, closed |
| `SfuRuntime` | `sfu_runtime.cpp`, the life of a `SubscribeEvents` call, the subscriber table | `peer`, `rooms`, `index`, and the threads `stream` and `call` |
| `Admission` | the connector's choice of a node for create and join; `ws_upgrade`; the instance load of `Attach`, `Logout` and `cleanup_connection`; `run_purge` and the purging flag; the supervisor's check of Redis, heartbeats and load sweep | `load`, `seen`, `hash` in Redis; the context of each user's connection and where its handler is; per node the step of the purge and the two registries; the supervisor's `redis_was_down`, purge calls and janitor |
| `Negotiation` | one participant's offers, answers and candidates: `send_local_offer`, `handle_remote_*` (`webrtc_room.rs`), the `Sdp` and `Candidate` handlers, `handle_sdp`, `add_ice_candidate`, `run_rpc` (`sfu.rs`), `applyRemoteOffer` and its callbacks (`peer_session.cpp`), `event_router.cpp`, `send_to_peer` | the browser's descriptions, the two directions of the socket, the offer a handler awaits, a thread per HandleSDP, promise and negotiation flag, backlog, flush, stream and channel |
| `ClientApp` | `app.rs`, `signaling.rs`, `connector_api.rs` and the forms | screen, session, the requests under way, the socket with the server's end of the conversation, the room, and what belongs to the media session; one action per event handler with its render and effects |
| `RoomView` | the pages of `room.rs` and `layout.rs` | pure operators |
| `MediaSession` | `webrtc_room.rs`: start, apply, share, unshare, close | the operations by generation and where each awaits, the live streams, the microphones no stream holds any more, the displays the browser has ended, what the senders carry, the microphone graph, the pickers |
| `MCNickSession`, `MCRoomPlane`, `MCClientApp` | - | symmetry sets for TLC |
| `*Proofs` | - | the theorems and their lemmas |

An action of `NickSession` and `RoomPlane` is one Redis round trip together with what the handler does in
memory before its next one. Where two round trips are one action, nothing can tell them apart, and a comment
says why: HGET and DEL of `close_room_binding` (a binding that is gone stays gone, which is part of what is
proved), and the reads of `session_renew` before its EXPIRE.

A call that fails is a *fault*: it costs one of `MaxFaults`, and the action offers both outcomes, taken
effect or not. A crash drops the node's memory and stops its handlers where they stand.

Abstractions:

* The session lock of create and join is not an exclusion in the model. It expires after five seconds, which
  is less than the calls under it may take, and leave, logout and disconnect do not take it. Handlers of one
  session may overlap; this only adds behaviours.
* `detach_stale_peers` runs inside the handler that broadcast. Which peers are stale depends on their
  channels, so a stale peer is detached by a handler of its own, at any time.
* `NickSession` has one connection per session and node; `RoomPlane` has as many as there are handlers.
* `NickSession` knows of a room only whether the session is in one; `RoomPlane` knows of a session only its
  room. Tokens and the load of the signaling nodes are left to `Admission`, messages and SDP to `Negotiation`.
* `Admission` gives a user one connection and one session, and a token is asked for only without a call, as the
  client does. Round trips that concern the session, the room or the SFU are part of the step next to them.
  A token is spent by `Attach` (its jti); that tokens and jti expire is left out, as is the supervisor's
  freshness, which only makes the connector refuse. A node told to stop runs a purge and exits: here it
  crashes. The purge's DeletePeer calls change nothing in this module.
* The SFU peers of a room are in `SfuRuntime`, and `RoomPlane` has only the outcome of `ensure_peer`.
* `Negotiation` follows one participant on one connection. Its handlers run one after the other (the loop of
  `handle_ws` awaits each), so the per-peer mutex of `sfu.rs` is never contended and is left out. An offer is
  its number, and an answer is named by the offer the peer connection made it for; neither the browser nor
  signaling can see that name. Timeouts are steps that may happen at any moment of the wait.
* `ClientApp`: yew's state handles read the current value, a handler with the render it causes and the effects
  whose dependencies changed runs before the next event, so it is one action (`Rendered`). The server
  answers whatever its protocol allows at that point of the conversation. A dropped `SignalingClient` takes
  its handlers along, so an old socket is silent.
* `MediaSession` follows one call. What an `RTCPeerConnection` is asked to do settles in the order of the
  calls, which the WebRTC specification demands (its operations chain); captures settle in any order, or are
  refused. The senders exist from the start (`addTransceiver`), so the branches that add a missing one are
  dead and left out. A stream stands for the tracks the code keeps of it. `process_local_media_for_send` either
  copies the raw tracks, or makes the gain graph: then the stream has the track of the AudioContext's destination
  in the place of the microphone's, and the microphone's own track moves to `raw_mics`, out of the reach of every
  `stop_all_tracks`. `DisplayEnds` is the browser's own end of a display. A camera or microphone that is
  unplugged during a call is left out.
* Left out of `RoomPlane`: the copy of the session `check_session` has put into memory when the handler then
  refuses the request, and a failed write of an SFU's health, after which the probe leaves that SFU to its next
  round. Left out of `Negotiation`: a branch of `onLocalDescription` that cannot be taken
  (`peer_session.cpp:247`).
* Where the code has a window in which a property does not hold, the model does not close it: a history
  variable (`mishaps`, `diverted`, `drifted`, `missed`) records that the window was met, and the property names it.

## 3. Runs

| run | bounds | shows |
|---|---|---|
| `SessionRegistry` | 3 sessions, 2 rooms | the index is exact, and the registry implements `SessionMap` |
| `NickSession` | 2 sessions, 1 nickname, 1 node, 1 fault | `NicknameUnique`, `LoggedOutStaysOut` |
| `NickJanitor` | 1 session, 2 nodes, 1 fault | `DeadOwnerReclaimed` |
| `SfuRuntime` | 1 room, 2 participants, 1 node, 2 streams, 2 DeletePeer calls, 3 CreatePeer requests | `PeersReclaimable`, `NoDeadPeer`, `RoomsExact`, `StreamLossReclaims` |
| `RoomPlane` | 2 users, 1 room, 1 node, 1 SFU, 2 handlers, no fault | `LoweredOnce`, `NoEmptyRoomStays` |
| `Negotiation` | 2 offers, 2 candidates, a backlog of 1, a channel of 1 | `AnswerMatches`, `Converges`, `CandidatesUsable`, `EventsExact`, `OfferReplied`, `NegotiableAgain` |
| `ClientApp` | 2 sessions, 2 rooms, 2 other participants, 2 requests, 3 sockets, pages of 2 and 1 | `NoGhost`, `MediaFollowsRoom`, `DeadSocketRenews`, `OnlyLateAnswersDivert`, `PagesPartition`, `SliceInBounds` |
| `MediaSession` | 3 operations, 2 pickers | `PreviewAlive`, `CaptureOwned`, `MuteSettles`, `GainFollowsMic`, `ScreenSettles`, `OfferSent` |
| `Admission` | 1 user, 1 node, attach up to a load of 2, 3 faults | `LoadExact`, `DeadLoadReclaimed`, `OutagePurges` |
| `RoomSweeps` | 1 user, 1 room, 1 node, 1 SFU, 1 handler, both supervisor loops, 1 fault | `RefinesLifecycle`, `DeadNodeReclaimed`, `DeadSfuReclaimed`, `OrphansReclaimed` |

Why the bounds are enough to be interesting: two sessions and one nickname are what a race for a nickname
takes; two streams are an old one not yet noticed and its successor; three creations let a slot be filled,
emptied and filled again during a removal; two handlers are a leaver and a joiner, or two closers; one fault
is one step of several failing. Two offers are an offer and its retry, or two that overlap; two candidates
overflow a backlog and a channel of one. Two requests and three sockets let an answer come late into
another call; two other participants make three tiles, which is more than a page in both modes. Three
operations are a start, a change and a change of that change, in every order in which the browser can settle
them. Three faults are an outage, a crash and a second outage, or a call that fails in each. `LoadExact` was
also checked with 2 users and 1 fault (3.3 million states), where a ZADD overwrites the other connection's
change, and `OutagePurges` with 2 nodes. `Negotiation` was also checked with 3 offers, a backlog of 2 and a channel of 2
(3.5 million states, safety only), and `MediaSession` with 4 operations (33.9 million states), with the same
results. The room runs have one node, so that a join through a node other than the room's own does not happen
in them; the safety properties are proved for all bounds, that join included
(section 5).

`SfuRuntime`, `RoomSweeps`, `MediaSession` and `Admission` also check the type invariant of their module; those
of all modules are proved.

Two runs show where the code does not do what a line of the repository says:

* `LogoutFreesNick`: `services/connector/src/redis.rs:77` says the nickname is reserved "until
  [`release_nick_lease`] or logout". After the session hash has expired, logout answers 204 and releases
  nothing, and the nickname has no TTL.
* `CrashLeavesNoPeer`: `sfu/src/sfu_service_impl.cpp:135` says the cleanup at the end of a stream covers a
  crash of the signaling process. A node that crashes before its listener has subscribed, or whose
  CreatePeer is handled after the cleanup, leaves a peer.

The other modules have windows too; the property of the run names each as its exception:

* `OnlyLateAnswersDivert`: a request whose form was left still calls `on_signaling_ready`. It opens a socket
  for a session that may be logged out, or replaces the socket of a call that goes on with media but without
  signaling.
* `MuteSettles`, `GainFollowsMic`, `CaptureOwned`: `is_stale` is not asked again after
  `AudioContext.resume`, so an overtaken operation can leave the microphone on the sender after a mute, and
  `start` can store its stream after `close`. A picker answered after the call leaves the display on.
* `CaptureOwned` speaks of streams. Once the gain graph is made, which is the usual case, the microphone's own
  track is in none (`webrtc_room.rs:1020-1039`): mute, change of device and `close` stop the destination's track
  and close the context, and the microphone stays on, with no race and no failure needed. `webrtc_room.rs:16` says
  that `close()` stops local tracks. In the model `raw_mics` only grows.
* `ScreenSettles`: nobody listens for the end of a display track. After the browser's "Stop sharing" bar, or the
  end of the shared window, the room goes on showing the share and the sender keeps a dead track, until the
  user stops sharing in the room too. The property says that the client never stops what it shows.
* `DeadSocketRenews` is about sockets that told of their close; when `WebSocket::new` fails after a late answer
  the flag can be up with no socket at all.
* `OfferSent`: a toggle or a share during the first capture drops `start` together with the only offer.
* `Converges`: a second offer before the first answer leaves the two ends with different descriptions.
* `AnswerMatches`: a local description that comes after the 15 second wait is given to the next offer.
* `EventsExact`: a backlog that overflows, and an event routed during the flush.
* `LoadExact`: ZSCORE and ZADD of two connections overlap and one change is lost; a call that failed or met an
  outage; a crash; a session that is in neither memory nor Redis when its connection is cleaned up; a late
  ZREM of the janitor for a node that is back. A node that restarts before its heartbeat is stale keeps the
  load of its dead connections for good.
* `OutagePurges`: a purge call that fails is not repeated, and a node that starts before the supervisor has
  noticed the end of one outage is not purged in the next.

Other behaviours the models reach, which no run states: an HSET
re-creates a session hash that is gone, without a TTL; the janitor deletes a session that has just attached
elsewhere; the end of an old stream takes peers created since the node subscribed again; a lost increment
lets an SFU have more than `max_rooms` rooms; a join between the last leaver's SCARD and its close ends up
in a room without a binding; a room created between the janitor's two scans has a binding and loses its
members all the same; the purging flag is never reset (`try_begin_purge` sets it), so a node refuses every
connection from its first purge, for which one failed ping of Redis is enough, to its restart, although its
heartbeat goes on and the connector sends users there; and a purge tells the peers of rooms, not a session that
is attached and in none.

## 4. Fairness

* `NickSession`: weak fairness of the janitor. `janitor_loop` always starts another iteration, each of its
  calls has a timeout, and an error ends only the iteration.
* `SfuRuntime`: weak fairness of the threads that end a stream and of the second half of a `DeletePeer`.
  The stream loop polls its cancellation once a second; both then run to their end on their own thread. That a
  stream is lost, that a node subscribes or that a request is sent is not assumed.
* `RoomPlane`: weak fairness of the handlers under way, of the decrements and of the sweeps; strong fairness
  of the ping of each SFU, because `sfu_probe_loop` visits every SFU in every round, and the ping is not
  enabled while a dead SFU is being handled. No fairness of requests, restarts or heartbeats.
* `Negotiation`: weak fairness of the socket's loop, which takes the next message once a handler is done; of
  the end of a call, because `run_rpc` has a timer; and of every HandleSDP thread, whose only wait is
  bounded by 15 seconds. Nothing is assumed of the peer connection, the event stream or the browser.
* `Admission`: weak fairness of the check of Redis, of the janitor's steps, of the purge calls, and of the
  ageing of a heartbeat whose node is down: the supervisor's loops always come round, and time passes.
  Nothing is assumed of users, of Redis or of restarts.
* `ClientApp` and `MediaSession` state safety only: nothing obliges a user, a server or a permission
  prompt to act.

## 5. Proofs

All theorems hold for every value of the constants under the named assumptions: `None` (`NoRoom`) is none of
the other values, the bounds are natural numbers, the users of `Admission` are finitely many, and the
supervisor's loops are two named threads other than the handlers. Every strengthening was an invariant of a
TLC run before it was proved.

* `SessionRegistryProofs`: `TypeCorrect`, `IndexAgrees`, `RegistryRefinesMap`. The index is exact: a room has
  an entry if and only if some session is in it, and the entry is the set of those sessions. That is
  inductive with the type invariant, and it is what makes `clear_room`, which reads only the index, a
  `ClearRoom` of the abstract map.
* `NickSessionProofs`: `NickTypeCorrect`, `NicknamesAreUnique`, `ForgottenForGood`. The strengthening `NickInv`:
  a session that holds its nickname (its auth is past the reservation and neither given up nor followed by a
  release) has the lease of the nickname it asked for (`LeaseHeld`), and a hash carries no other nickname than
  that one (`NickFromAuth`). Two holders of one lease are the same session; and only `session_create`, which
  runs before the session id is issued, writes a nickname.
* `SfuRuntimeProofs`: `SfuTypeCorrect`, `NoPeerEscapes`, `NoDeadPeerStays`, `RoomsStayExact`, from
  `InvariantHolds`. The three properties need each other, and what
  the fields of a thread mean at each step (`Threads`). A removal that finds its room gone changes nothing,
  which is right because `m_rooms` lists every room that has a peer; a session whose connection was closed
  keeps its slot until the call that closed it returns, so a new session in a free slot is an open one.
* `RoomPlaneProofs`: `RoomTypeCorrect`, `RoomsKeepLifecycle`, `RoomLoweredOnce`, `EmptyRoomsClose`.
  * `Linked`: every room a handler, a sweep, a session or a binding names has been drawn, and `create` draws
    an id once. So a binding that is gone stays gone: the reason why HGET and DEL may be one step, why no
    room is opened twice, and why of several closers one sees its DEL succeed.
  * `NextIsRoomStep` reduces every action to its footprint on bindings and members, from which
    `RoomsKeepLifecycle` follows action by action.
  * `CalmInv` strengthens `NoEmptyRoomStays`: while nothing has failed and no janitor runs, all SFUs are up,
    the sweeps are idle, no join takes its member out again, and a handler deletes members without a look at
    them only after the room was closed. So a member set becomes empty only by the SREM of a leaver, who
    then counts it.

* `ClientAppProofs`: `ClientTypes`, `ClientNoGhost`, `ClientMediaFollowsRoom`, `ClientDeadSocketRenews`,
  `ClientOnlyLateAnswersDivert`, `ClientPagesPartition`, `ClientSliceInBounds`.
  * The page lemmas: both layouts have the rounded up quotient of pages (`PageCountExact`), from which the
    slice is legal for every index (`SliceLegal`) and each tile is on one page (`TileOnOnePage`), for every
    number of participants and both page sizes.
  * `RenderedFacts` says once what a render does to requests and media session; `CallOverKeeps` covers
    every way out of a call.
  * The strengthening `IInv` adds `Wired` (a client has its start, a connecting socket has said nothing, the
    flag is up only without a closed socket) and `Settled`: while no answer came late, a login has its form
    on the screen, at most one form waits, and a client on its way to a room comes from no room.
* `NegotiationProofs`: `NegotiationTypes`, `AnswersMatch`, `AnswersConverge`, `CandidatesUseful`,
  `EventsStayExact`. `Wire` says what travels on the socket.
  * `AnswerMatches` needs three more facts: an offer in the socket is there once and has no thread yet
    (`OffersOnce`), so a thread begins without an answer; `m_negotiationInProgress` admits one thread into
    `applyRemoteOffer` (`OneNegotiates`); and the promise belongs to the thread that waits, with no other
    description under way than its own until a wait was given up (`PromiseKept`).
  * `Converges` speaks of the states with nothing under way only. `Rounds` says where the last offer is in
    between: in the socket, with the handler, or as its answer in the socket, in one of them and once; else
    the browser has set the answer. That the answer is the one to this offer needs `AnswerMatches` and that,
    until a call timed out or was refused, the handler waits for every thread that is not through
    (`Attended`): a thread that gave up its wait can only end in an error.
  * `CandidatesUsable` is a statement about the history. `InOrder`: a candidate of the browser has its offer
    ahead of it in the socket, or the offer's thread has begun; with no handler at work that thread has ended
    well, so the connection has a description. `OutOrder`: a candidate of the SFU has an answer ahead of it, or
    the browser has a remote description. What `WriteOutbound` relies on is in `WrittenBehind`: a candidate in
    the channel means an answered description (`Progress`), and without a handler at work its answer was
    written before.
  * `EventsExact` numbers the candidates: the browser has the first ones (`Carried`), the socket holds the
    following ones once and in order, and channel, stream, flush and backlog each go on where the one before
    ends (`Queued`). That one of flush and backlog is empty (`OneQueue`) is what a routed event needs to come
    last.
* `AdmissionProofs`: `AdmissionTypes`, `LoadsExact`. The load is compared with the cardinality of the set of
  connections that are counted, so that each attach and each decrement is one element more or less. Which
  connections have the flag `instance_load_registered` is `Flagged` (only connected ones; every one between
  ZSCORE and ZADD) and `Rebound` (one that can still attach, or is about to be counted, has it only where the
  count is already off). Without `Rebound` a second attach on a connection could count twice.
* `MediaSessionProofs`: `MediaTypes`, `PreviewStaysAlive`, `CapturesOwned`, `MutesSettle`, `GainsFollow`,
  `ScreensSettle`, `OffersSent`, for any number of operations and pickers.
  * The properties about a call at rest say nothing of the operations under way; their strengthening is about
    order. Older operations that still have an effect are in the chain of the connection and not behind
    (`InLine`, `MediaOrdered`, `ScreenOrdered`), so the newest has the last word: it has the switches as they
    are, and what it has replaced already is right (`LatestRules`, and `Settled` when none is left; `Screens`
    for the display; `Offering` for the offer of `start`).
  * `PreviewAlive` needs that streams of the display and of the camera never take each other's place (`Apart`),
    and `CaptureOwned` who holds each live stream (`Holders`) and that `start` finds nothing to overwrite
    (`StartFirst`). `Apart` is also why the browser's end of a display (`DisplayEndsKeeps`) touches neither the
    preview nor a capture under way. Nothing is proved of `raw_mics` but its type.
  * `Chained` and `OpShape` say which operations wait in the chain and what an operation can be at each place;
    every step's proof uses them.

Only model-checked: the liveness properties (`DeadOwnerReclaimed`, `StreamLossReclaims`,
`DeadNodeReclaimed`, `DeadSfuReclaimed`, `OrphansReclaimed`, `OfferReplied`, `NegotiableAgain`,
`DeadLoadReclaimed`, `OutagePurges`), because the prover does not handle fairness. Every invariant and every
action property the passing runs check is proved.

## 6. Not modelled, and the plan

Not modelled, and why:

* tracks and relays between peers (`room.cpp`, the forwarding half of `peer_session.cpp`): what they do is
  libdatachannel's; the code only connects callbacks. That a relay is made for the subscribers present when a
  track arrives, and for a publisher that may be gone, is seen in the code and not checked here;
* rewriting of mids in the SDP, parsing and validation of messages: text without state;
* tile geometry, rendering, themes, the settings panel, texts of errors;
* signatures, and the expiry of tokens and jti; the supervisor's own heartbeat, which only makes the connector
  refuse; `seed_sfu_inventory`, which runs once at the start;
* two listeners of one SFU in one node, and two connections of one session negotiating at once;
* the logout a closed page sends (`pagehide`), and a media session that outlives its call into the next one
  through an open picker: `MediaSession` follows one call;
* configuration and start-up, generated protocol code, deployment files.

Next, in this order:

1. the safety half of the liveness properties, as invariants that can be proved: who is left to act while a
   dead node's rooms, sessions or load, or an unanswered offer, are still there;
2. the composition of `RoomPlane` and `SfuRuntime`, for what a lost SFU does to both;
3. two listeners of one SFU in one node.

----------------------------- MODULE Negotiation -----------------------------
(***************************************************************************)
(* The offers, answers and candidates of one participant of a room:        *)
(*                                                                         *)
(*   client/src/webrtc_room.rs         send_local_offer, handle_remote_*   *)
(*   services/signaling/websocket.rs   one message of a socket at a time   *)
(*   services/signaling/sfu.rs         HandleSDP with a timeout, events    *)
(*   sfu/src/peer_session.cpp          applyRemoteOffer, callbacks         *)
(*   sfu/src/event_router.cpp          events and their backlog            *)
(*                                                                         *)
(* An offer is named by its number, an answer by the offer it was made     *)
(* for, an event (a candidate of the SFU) by its number.  A call of        *)
(* HandleSDP is a thread of the SFU that goes on after the caller gave up. *)
(* The mutex of the peer in sfu.rs is left out: the handlers of a socket   *)
(* run one after the other.  Events that reach nobody's browser, and the   *)
(* end of the connection (RoomPlane), are left out; an error is only shown *)
(* by the browser, and not a message here.                                 *)
(***************************************************************************)
EXTENDS Naturals, Sequences

CONSTANTS
    MaxOffers,      \* bound on the offers of the browser
    MaxEvents,      \* bound on the candidates of the SFU
    MaxPending,     \* maxPendingEvents
    Capacity        \* peer_outbound_capacity

ASSUME NegotiationAssumption ==
    MaxOffers \in Nat /\ MaxEvents \in Nat /\ MaxPending \in Nat /\ Capacity \in Nat

VARIABLES
    \* the browser
    local,          \* the last offer set as local description
    have_local,     \* signaling state have-local-offer
    remote,         \* the answer set as remote description
    trickled,       \* the last offer a candidate was sent for
    got,            \* candidates of the SFU taken
    \* the socket
    inbox, outbox,
    \* signaling
    handling,       \* the offer whose handler awaits the SFU
    replied,        \* offers with an answer or an error written
    registered,     \* PeerRegistry: the participant's entry
    outbound,       \* its channel
    \* the SFU
    alive,          \* the peer is there with its PeerConnection
    negotiating,    \* m_negotiationInProgress
    promise,        \* the thread behind m_answerPromise
    descriptions,   \* offers the connection has to answer
    applied,        \* the last offer it has answered
    thread,         \* by offer: where its HandleSDP is
    answer,         \* by offer: what its promise was given
    \* the event stream
    emitted, subscribed, pending, batch, stream,
    mishaps         \* history: what the properties make exceptions for

browser == <<local, have_local, remote, trickled, got>>
server == <<handling, replied>>
delivery == <<registered, outbound>>
peer == <<alive, negotiating, promise, descriptions, applied, thread, answer>>
events == <<emitted, subscribed, pending, batch, stream>>
vars == <<browser, inbox, outbox, server, delivery, peer, events, mishaps>>

None == 0
Offers == 1..MaxOffers
Events == 1..MaxEvents

Message == [kind : {"offer", "answer", "candidate"}, id : Nat]
Msg(kind, id) == [kind |-> kind, id |-> id]

Mishaps == {"overlap", "timeout", "refused", "removed", "stuck",
            "overflow", "overtook", "useless"}

TypeOK ==
    /\ local \in Offers \cup {None} /\ remote \in Offers \cup {None}
    /\ trickled \in Offers \cup {None}
    /\ have_local \in BOOLEAN
    /\ inbox \in Seq(Message) /\ outbox \in Seq(Message)
    /\ handling \in Offers \cup {None}
    /\ replied \subseteq Offers
    /\ registered \in BOOLEAN /\ alive \in BOOLEAN /\ negotiating \in BOOLEAN
    /\ promise \in Offers \cup {None} /\ applied \in Offers \cup {None}
    /\ thread \in [Offers -> {"none", "enter", "apply", "wait", "ok", "failed"}]
    /\ answer \in [Offers -> Offers \cup {None}]
    /\ descriptions \in Seq(Offers)
    /\ emitted \in Events \cup {0}
    /\ subscribed \in BOOLEAN
    /\ {got, outbound, pending, batch, stream} \subseteq Seq(Events)
    /\ Len(pending) <= MaxPending /\ Len(outbound) <= Capacity
    /\ mishaps \subseteq Mishaps

Init ==
    /\ local = None /\ have_local = FALSE /\ remote = None /\ trickled = None
    /\ got = <<>>
    /\ inbox = <<>> /\ outbox = <<>>
    /\ handling = None /\ replied = {}
    /\ registered = TRUE /\ outbound = <<>>
    /\ alive = TRUE /\ negotiating = FALSE /\ promise = None
    /\ descriptions = <<>> /\ applied = None
    /\ thread = [n \in Offers |-> "none"]
    /\ answer = [n \in Offers |-> None]
    /\ emitted = 0 /\ subscribed = FALSE
    /\ pending = <<>> /\ batch = <<>> /\ stream = <<>>
    /\ mishaps = {}

Note(what) == mishaps' = mishaps \cup what
If(condition, what) == IF condition THEN {what} ELSE {}
-----------------------------------------------------------------------------
(* The browser *)

\* An offer that is sent and never set as the local description.
SendLocalOffer_Mutant ==
    /\ local < MaxOffers
    /\ local' = local + 1
    /\ inbox' = Append(inbox, Msg("offer", local + 1))
    /\ Note(If(have_local, "overlap"))
    /\ UNCHANGED <<have_local, remote, trickled, got, outbox, server, delivery, peer, events>>

\* send_local_offer; nothing keeps a second offer back until the first is
\* answered.
SendLocalOffer ==
    /\ local < MaxOffers
    /\ local' = local + 1
    /\ have_local' = TRUE
    /\ inbox' = Append(inbox, Msg("offer", local + 1))
    /\ Note(If(have_local, "overlap"))
    /\ UNCHANGED <<remote, trickled, got, outbox, server, delivery, peer, events>>

\* onicecandidate: candidates are gathered for the local description.
SendIceCandidate ==
    /\ trickled < local
    /\ trickled' = local
    /\ inbox' = Append(inbox, Msg("candidate", local))
    /\ UNCHANGED <<local, have_local, remote, got, outbox, server, delivery, peer, events,
                   mishaps>>

\* handle_remote_sdp: the browser takes an answer while it has an offer out and
\* cannot tell which one it answers; else set_remote_description fails.
HandleRemoteSdp ==
    /\ outbox # <<>> /\ Head(outbox).kind = "answer"
    /\ outbox' = Tail(outbox)
    /\ IF have_local THEN remote' = Head(outbox).id /\ have_local' = FALSE
                     ELSE UNCHANGED <<remote, have_local>>
    /\ UNCHANGED <<local, trickled, got, inbox, server, delivery, peer, events, mishaps>>

\* handle_remote_ice_candidate: refused without a remote description.
HandleRemoteIceCandidate ==
    /\ outbox # <<>> /\ Head(outbox).kind = "candidate"
    /\ outbox' = Tail(outbox)
    /\ got' = Append(got, Head(outbox).id)
    /\ Note(If(remote = None, "useless"))
    /\ UNCHANGED <<local, have_local, remote, trickled, inbox, server, delivery, peer, events>>
-----------------------------------------------------------------------------
(* The handlers of the socket *)

\* ClientMessage::Sdp up to the call of HandleSDP.
HandleSdp ==
    /\ handling = None
    /\ inbox # <<>> /\ Head(inbox).kind = "offer"
    /\ inbox' = Tail(inbox)
    /\ handling' = Head(inbox).id
    /\ thread' = [thread EXCEPT ![Head(inbox).id] = "enter"]
    /\ UNCHANGED <<browser, outbox, replied, delivery, alive, negotiating, promise,
                   descriptions, applied, answer, events, mishaps>>

\* The session is gone, the room has no route, the SFU does not answer.
RefuseSdp ==
    /\ handling = None
    /\ inbox # <<>> /\ Head(inbox).kind = "offer"
    /\ inbox' = Tail(inbox)
    /\ replied' = replied \cup {Head(inbox).id}
    /\ Note({"refused"})
    /\ UNCHANGED <<browser, outbox, handling, delivery, peer, events>>

Reply(messages) ==
    /\ outbox' = outbox \o messages
    /\ replied' = replied \cup {handling}
    /\ handling' = None
    /\ UNCHANGED <<browser, inbox, delivery, peer, events>>

ReplyAnswer ==
    /\ handling # None /\ thread[handling] = "ok"
    /\ Reply(<<Msg("answer", answer[handling])>>)
    /\ UNCHANGED mishaps

\* ensure_success: SFU rejected SDP.
ReplyRejected ==
    /\ handling # None /\ thread[handling] = "failed"
    /\ Reply(<<>>)
    /\ Note({"refused"})

\* The caller gives up without a word to the browser.
RpcTimeout_Mutant ==
    /\ handling # None /\ thread[handling] \notin {"ok", "failed"}
    /\ handling' = None
    /\ Note({"timeout"})
    /\ UNCHANGED <<browser, inbox, outbox, replied, delivery, peer, events>>

\* run_rpc: the timeout of the caller, or the connection to the SFU is lost.
\* The thread of the SFU knows nothing of it.
RpcTimeout ==
    /\ handling # None /\ thread[handling] \notin {"ok", "failed"}
    /\ Reply(<<>>)
    /\ Note({"timeout"})

\* ClientMessage::Candidate: AddICECandidate, which fails without a remote
\* description or a peer, or times out.
HandleCandidate ==
    /\ handling = None
    /\ inbox # <<>> /\ Head(inbox).kind = "candidate"
    /\ inbox' = Tail(inbox)
    /\ \/ alive /\ applied # None /\ UNCHANGED mishaps
       \/ ~(alive /\ applied # None) /\ Note({"useless"})
       \/ Note({"timeout"})
    /\ UNCHANGED <<browser, outbox, server, delivery, peer, events>>
-----------------------------------------------------------------------------
(* HandleSDP in the SFU *)

\* A peer without the flag: every thread enters.
EnterHandleSdp_Mutant(n) ==
    /\ thread[n] = "enter"
    /\ thread' = [thread EXCEPT ![n] = IF alive THEN "apply" ELSE "failed"]
    /\ UNCHANGED <<browser, inbox, outbox, server, delivery, alive, negotiating, promise,
                   descriptions, applied, answer, events, mishaps>>

\* findPeerSession, hasPeerConnection, and the flag of applyRemoteOffer.
EnterHandleSdp(n) ==
    /\ thread[n] = "enter"
    /\ thread' = [thread EXCEPT ![n] = IF alive /\ ~negotiating THEN "apply" ELSE "failed"]
    /\ negotiating' = (negotiating \/ alive)
    /\ UNCHANGED <<browser, inbox, outbox, server, delivery, alive, promise, descriptions,
                   applied, answer, events, mishaps>>

\* applyRemoteOffer takes a promise and sets the offer.
ApplyRemoteOffer(n) ==
    /\ thread[n] = "apply" /\ alive
    /\ thread' = [thread EXCEPT ![n] = "wait"]
    /\ promise' = n
    /\ descriptions' = Append(descriptions, n)
    /\ UNCHANGED <<browser, inbox, outbox, server, delivery, alive, negotiating, applied,
                   answer, events, mishaps>>

\* validateFixedSlotsOffer refuses the offer, the connection has gone meanwhile,
\* or it does not take the offer: the promise is withdrawn.
RefuseRemoteOffer(n) ==
    /\ thread[n] = "apply"
    /\ thread' = [thread EXCEPT ![n] = "failed"]
    /\ negotiating' = FALSE
    /\ promise' = IF alive THEN None ELSE promise
    /\ UNCHANGED <<browser, inbox, outbox, server, delivery, alive, descriptions, applied,
                   answer, events, mishaps>>

\* The callback of the connection: whatever promise is there gets the answer.
OnLocalDescription ==
    /\ alive /\ descriptions # <<>>
    /\ descriptions' = Tail(descriptions)
    /\ applied' = Head(descriptions)
    /\ promise' = None
    /\ answer' = IF promise = None THEN answer
                 ELSE [answer EXCEPT ![promise] = Head(descriptions)]
    /\ UNCHANGED <<browser, inbox, outbox, server, delivery, alive, negotiating, thread,
                   events, mishaps>>

AnswerReady(n) ==
    /\ thread[n] = "wait" /\ answer[n] # None
    /\ thread' = [thread EXCEPT ![n] = "ok"]
    /\ negotiating' = FALSE
    /\ UNCHANGED <<browser, inbox, outbox, server, delivery, alive, promise, descriptions,
                   applied, answer, events, mishaps>>

\* A timeout that leaves the flag set.
AnswerWaitOver_Mutant(n) ==
    /\ thread[n] = "wait" /\ answer[n] = None
    /\ thread' = [thread EXCEPT ![n] = "failed"]
    /\ promise' = None
    /\ Note({"stuck"})
    /\ UNCHANGED <<browser, inbox, outbox, server, delivery, alive, negotiating, descriptions,
                   applied, answer, events>>

\* 15 seconds without a local description: the next promise may be given the
\* answer that comes too late.
AnswerWaitOver(n) ==
    /\ thread[n] = "wait" /\ answer[n] = None
    /\ thread' = [thread EXCEPT ![n] = "failed"]
    /\ promise' = None
    /\ negotiating' = FALSE
    /\ Note({"stuck"})
    /\ UNCHANGED <<browser, inbox, outbox, server, delivery, alive, descriptions, applied,
                   answer, events>>

\* shutdownPeerConnection and removePeer: no callback comes any more.
Shutdown ==
    /\ alive' = FALSE
    /\ promise' = None
    /\ descriptions' = <<>>
    /\ UNCHANGED <<negotiating, applied, thread, answer>>

\* DeletePeer, on behalf of another task of the node.
RemovePeer ==
    /\ alive
    /\ Shutdown
    /\ registered' = FALSE
    /\ Note({"removed"})
    /\ UNCHANGED <<browser, inbox, outbox, server, outbound, events>>
-----------------------------------------------------------------------------
(* Events *)

\* routeEvent: written to the stream, past a backlog that is being flushed; or
\* kept, the oldest dropped for it.
RouteEvent(e) ==
    IF subscribed
    THEN stream' = Append(stream, e) /\ Note(If(batch # <<>>, "overtook")) /\ UNCHANGED pending
    ELSE LET q == Append(pending, e)
             full == Len(q) > MaxPending
         IN /\ pending' = IF full THEN Tail(q) ELSE q
            /\ Note(If(full, "overflow"))
            /\ UNCHANGED stream

\* onLocalCandidate, after the description was answered.
EmitIceCandidate ==
    /\ alive /\ applied # None
    /\ emitted < MaxEvents
    /\ emitted' = emitted + 1
    /\ RouteEvent(emitted + 1)
    /\ UNCHANGED <<browser, inbox, outbox, server, delivery, peer, subscribed, batch>>

\* A stream that begins with the next event.
RegisterSignaling_Mutant ==
    /\ ~subscribed
    /\ subscribed' = TRUE
    /\ pending' = <<>>
    /\ UNCHANGED <<browser, inbox, outbox, server, delivery, peer, emitted, batch, stream, mishaps>>

\* SubscribeEvents: the stream is published before the backlog is flushed.
RegisterSignaling ==
    /\ ~subscribed
    /\ subscribed' = TRUE
    /\ batch' = pending
    /\ pending' = <<>>
    /\ UNCHANGED <<browser, inbox, outbox, server, delivery, peer, emitted, stream, mishaps>>

FlushPending ==
    /\ batch # <<>>
    /\ stream' = Append(stream, Head(batch))
    /\ batch' = Tail(batch)
    /\ UNCHANGED <<browser, inbox, outbox, server, delivery, peer, emitted, subscribed, pending,
                   mishaps>>

\* The stream breaks: unregisterSignaling and removePeersBySignaling; the node
\* closes the room.
StreamLost ==
    /\ subscribed
    /\ subscribed' = FALSE
    /\ batch' = <<>> /\ stream' = <<>>
    /\ Shutdown
    /\ registered' = FALSE
    /\ Note({"removed"})
    /\ UNCHANGED <<browser, inbox, outbox, server, outbound, emitted, pending>>

\* PeerRegistry::send_to_peer: a channel that has no room makes the peer stale.
DeliveryStatus ==
    IF ~registered THEN "Missing"
    ELSE IF Len(outbound) < Capacity THEN "Delivered" ELSE "Stale"

\* Into the channel; nobody there; or the participant is detached.
SendToPeer(e) ==
    \/ /\ DeliveryStatus = "Delivered"
       /\ outbound' = Append(outbound, e)
       /\ UNCHANGED <<registered, peer, mishaps>>
    \/ /\ DeliveryStatus = "Missing"
       /\ UNCHANGED <<delivery, peer, mishaps>>
    \/ /\ DeliveryStatus = "Stale"
       /\ registered' = FALSE
       /\ Shutdown
       /\ Note({"removed"})
       /\ UNCHANGED outbound

HandleSfuEvent ==
    /\ stream # <<>>
    /\ stream' = Tail(stream)
    /\ SendToPeer(Head(stream))
    /\ UNCHANGED <<browser, inbox, outbox, server, emitted, subscribed, pending, batch>>

\* Candidates are written while a handler awaits the SFU.
WriteOutbound_Mutant ==
    /\ outbound # <<>>
    /\ outbox' = Append(outbox, Msg("candidate", Head(outbound)))
    /\ outbound' = Tail(outbound)
    /\ UNCHANGED <<browser, inbox, server, registered, peer, events, mishaps>>

\* The branch of the loop that writes the channel: not while a handler runs.
WriteOutbound ==
    /\ handling = None
    /\ outbound # <<>>
    /\ outbox' = Append(outbox, Msg("candidate", Head(outbound)))
    /\ outbound' = Tail(outbound)
    /\ UNCHANGED <<browser, inbox, server, registered, peer, events, mishaps>>

Socket == HandleSdp \/ RefuseSdp \/ HandleCandidate
Rpc == ReplyAnswer \/ ReplyRejected \/ RpcTimeout
Thread(n) ==
    \/ EnterHandleSdp(n) \/ ApplyRemoteOffer(n) \/ RefuseRemoteOffer(n)
    \/ AnswerReady(n) \/ AnswerWaitOver(n)

Next ==
    \/ SendLocalOffer \/ SendIceCandidate
    \/ HandleRemoteSdp \/ HandleRemoteIceCandidate
    \/ Socket \/ Rpc
    \/ \E n \in Offers : Thread(n)
    \/ OnLocalDescription \/ RemovePeer
    \/ EmitIceCandidate \/ RegisterSignaling \/ FlushPending \/ StreamLost
    \/ HandleSfuEvent \/ WriteOutbound

Spec == Init /\ [][Next]_vars

\* The loop of the socket goes on, the timer of run_rpc fires, and the threads
\* of the SFU end their bounded wait; nothing is assumed of the connections.
FairSpec ==
    /\ Spec
    /\ WF_vars(Socket) /\ WF_vars(Rpc)
    /\ \A n \in Offers : WF_vars(Thread(n))
-----------------------------------------------------------------------------
(* Properties *)

\* An answer answers its offer: the promise of a HandleSDP is never given the
\* description of another offer, whatever callers gave up and offered again,
\* until a thread gave up its 15 second wait (applyRemoteOffer,
\* onLocalDescription).
AnswerMatches ==
    "stuck" \notin mishaps => \A n \in Offers : answer[n] \in {None, n}

\* The two ends agree when all is said: with no message under way the browser
\* has set the answer to its last offer.  The exceptions are an offer that got
\* an error and one sent while another was unanswered (send_local_offer does
\* not wait).
Converges ==
    inbox = <<>> /\ outbox = <<>> /\ handling = None
      /\ mishaps \cap {"overlap", "timeout", "refused"} = {}
    => ~have_local /\ remote = local

\* Candidates never overtake the description they need, in either direction:
\* the event stream is faster than the answer of HandleSDP, but the loop of the
\* socket writes no event while the handler of the offer runs.  A candidate is
\* of no use only after a failure.
CandidatesUsable ==
    "useless" \in mishaps => mishaps \cap {"timeout", "refused", "removed"} # {}

\* Every candidate of the SFU is on its way to the browser, once and in order,
\* through backlog, flush, stream, channel and socket: taken up to Len(got), in
\* the socket up to written, the rest still in the queues; unless the backlog
\* overflowed, an event was routed during a flush, or the peer was removed.
EventsExact ==
    mishaps \cap {"overflow", "overtook", "removed"} = {} =>
        LET way == outbound \o stream \o batch \o pending
            written == emitted - Len(way)
            sent == {i \in 1..Len(outbox) : outbox[i].kind = "candidate"}
        IN /\ Len(got) <= written
           /\ \A i \in 1..Len(got) : got[i] = i
           /\ {outbox[i].id : i \in sent} = (Len(got) + 1)..written
           /\ \A i, j \in sent : i < j => outbox[i].id < outbox[j].id
           /\ \A i \in 1..Len(way) : way[i] = written + i

\* The browser hears of every offer, an answer or an error, even from an SFU
\* that never responds (run_rpc, handle_client_message).
OfferReplied == \A n \in Offers : (local >= n) ~> (n \in replied)

\* A peer of the SFU can negotiate again: no end of applyRemoteOffer leaves the
\* flag set (NegotiationGuard).
NegotiableAgain == negotiating ~> ~negotiating
=============================================================================

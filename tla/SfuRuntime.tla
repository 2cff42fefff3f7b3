------------------------------ MODULE SfuRuntime ------------------------------
(***************************************************************************)
(* The peers an SFU process holds, and who removes them (sfu/src):         *)
(*                                                                         *)
(*   sfu_runtime.cpp        m_rooms and m_signalingPeers under m_mutex     *)
(*   room.cpp               the m_peers map of a room                      *)
(*   sfu_service_impl.cpp   CreatePeer, DeletePeer, SubscribeEvents        *)
(*   event_router.cpp       m_subscribers                                  *)
(*                                                                         *)
(* gRPC runs every call on its own thread.  addPeer is one critical        *)
(* section; removePeer and removePeersBySignaling find the session, drop   *)
(* the lock to close its peer connection, and lock again to take out       *)
(* whatever session is then in the slot, so they are two actions.          *)
(*                                                                         *)
(* A slot is a <<room, participant>>.  Of a session only its signalingId   *)
(* and whether its connection was shut down matter.  The vector of slots   *)
(* kept for a signaling node is a bag: how often each slot is in it.       *)
(***************************************************************************)
EXTENDS Naturals

CONSTANTS
    Rooms,
    Parts,          \* participant ids
    Sigs,           \* signaling ids
    Streams,        \* SubscribeEvents calls
    Calls,          \* DeletePeer calls
    None,
    MaxCreates      \* bound on the CreatePeer requests of a run

ASSUME NoneAssumption == None \notin Sigs \cup Streams \cup (Rooms \X Parts)
ASSUME MaxCreatesAssumption == MaxCreates \in Nat

Slots == Rooms \X Parts

VARIABLES
    peer,       \* slot -> signalingId of the session in it, or None
    shut,       \* slots whose session has had its connection closed
    rooms,      \* keys of m_rooms
    index,      \* m_signalingPeers: signaling id -> bag of slots
    sub,        \* m_subscribers: signaling id -> stream
    stream,     \* SubscribeEvents threads
    call,       \* DeletePeer threads
    sent,       \* CreatePeer requests on their way: <<signaling id, slot>>
    up,         \* running signaling processes
    creates     \* CreatePeer requests so far

vars == <<peer, shut, rooms, index, sub, stream, call, sent, up, creates>>

Bags == [Slots -> Nat]
EmptyBag == [x \in Slots |-> 0]

\* A SubscribeEvents thread: its signaling id, toRemove, and the slot between
\* the two halves of a removal.
Thread == [at : {"idle", "open", "cancelled", "ended", "bulk", "relock"},
           sig : Sigs \cup {None}, todo : Bags, slot : Slots \cup {None}]

StreamAt(at, sig, todo, slot) ==
    [at |-> at, sig |-> sig, todo |-> todo, slot |-> slot]

\* A DeletePeer thread between the halves: the slot and the signalingId of the
\* session it found there.
CallAt(at, slot, found) == [at |-> at, slot |-> slot, found |-> found]

\* The types of the tables of the SFU and of its threads.
TypeOK ==
    /\ peer \in [Slots -> Sigs \cup {None}]
    /\ shut \subseteq Slots
    /\ rooms \subseteq Rooms
    /\ index \in [Sigs -> Bags]
    /\ sub \in [Sigs -> Streams \cup {None}]
    /\ stream \in [Streams -> Thread]
    /\ call \in [Calls -> [at : {"idle", "relock"}, slot : Slots \cup {None},
                           found : Sigs \cup {None}]]
    /\ sent \subseteq Sigs \X Slots
    /\ up \subseteq Sigs
    /\ creates \in 0..MaxCreates

Init ==
    /\ peer = [x \in Slots |-> None]
    /\ shut = {}
    /\ rooms = {}
    /\ index = [g \in Sigs |-> EmptyBag]
    /\ sub = [g \in Sigs |-> None]
    /\ stream = [k \in Streams |-> StreamAt("idle", None, EmptyBag, None)]
    /\ call = [c \in Calls |-> CallAt("idle", None, None)]
    /\ sent = {}
    /\ up = Sigs
    /\ creates = 0

-----------------------------------------------------------------------------
(* CreatePeer *)

\* ensure_peer on the signaling node sends the request at once, whether or not
\* the listener task it spawned has subscribed.
SendCreate(g, x) ==
    /\ g \in up
    /\ creates < MaxCreates
    /\ <<g, x>> \notin sent
    /\ sent' = sent \cup {<<g, x>>}
    /\ creates' = creates + 1
    /\ UNCHANGED <<peer, shut, rooms, index, sub, stream, call, up>>

\* SfuRuntime::addPeer: "peer already exists", or the session is added and
\* indexed.
CreatePeer(g, x) ==
    /\ <<g, x>> \in sent
    /\ sent' = sent \ {<<g, x>>}
    /\ IF peer[x] # None
       THEN UNCHANGED <<peer, rooms, index>>
       ELSE /\ peer' = [peer EXCEPT ![x] = g]
            /\ rooms' = rooms \cup {x[1]}
            /\ index' = [index EXCEPT ![g][x] = @ + 1]
    /\ UNCHANGED <<shut, sub, stream, call, up, creates>>

\* initPeerConnection throws: the session and an emptied room are taken out
\* under the same lock.  The request may also be lost on the way.
CreateFails(g, x) ==
    /\ <<g, x>> \in sent
    /\ sent' = sent \ {<<g, x>>}
    /\ UNCHANGED <<peer, shut, rooms, index, sub, stream, call, up, creates>>

-----------------------------------------------------------------------------
(* Removal *)

\* Room::removePeer in slot x.
Vacated(x) == [peer EXCEPT ![x] = None]

\* Mutant: a room is kept when its last peer goes.
RoomsKeptAfter(x) == rooms

\* m_rooms once the peer in x is gone: an empty room is erased.
RoomsAfter(x) ==
    IF \E p \in Parts : <<x[1], p>> # x /\ peer[<<x[1], p>>] # None
    THEN rooms
    ELSE rooms \ {x[1]}

\* Mutant: the index entry goes before the session does.
DeleteFindUnindexes(c, x) ==
    /\ call[c].at = "idle"
    /\ x[1] \in rooms
    /\ call' = [call EXCEPT ![c] = CallAt("relock", x, peer[x])]
    /\ shut' = IF peer[x] = None THEN shut ELSE shut \cup {x}
    /\ index' = [g \in Sigs |-> IF g = peer[x] THEN [index[g] EXCEPT ![x] = 0]
                                               ELSE index[g]]
    /\ UNCHANGED <<peer, rooms, sub, stream, sent, up, creates>>

\* SfuRuntime::removePeer, first half: find the session, then close its
\* connection.
DeleteFind(c, x) ==
    /\ call[c].at = "idle"
    /\ x[1] \in rooms
    /\ call' = [call EXCEPT ![c] = CallAt("relock", x, peer[x])]
    /\ shut' = IF peer[x] = None THEN shut ELSE shut \cup {x}
    /\ UNCHANGED <<peer, rooms, index, sub, stream, sent, up, creates>>

\* Second half: if the room is still there, take out the session now in the
\* slot, and the slot from the index of the session found before.
DeleteRemove(c) ==
    LET x == call[c].slot
        g == call[c].found
    IN  /\ call[c].at = "relock"
        /\ call' = [call EXCEPT ![c] = CallAt("idle", None, None)]
        /\ IF x[1] \notin rooms
           THEN UNCHANGED <<peer, shut, rooms, index>>
           ELSE /\ peer' = Vacated(x)
                /\ shut' = shut \ {x}
                /\ rooms' = RoomsAfter(x)
                /\ index' = IF g = None THEN index
                            ELSE [index EXCEPT ![g][x] = 0]
        /\ UNCHANGED <<sub, stream, sent, up, creates>>

-----------------------------------------------------------------------------
(* SubscribeEvents *)

\* The listener of a running node subscribes; registerSignaling replaces any
\* earlier subscriber.  A node runs one stream at a time.
Subscribe(k, g) ==
    /\ g \in up
    /\ stream[k].at = "idle"
    /\ \A j \in Streams : ~(stream[j].at = "open" /\ stream[j].sig = g)
    /\ stream' = [stream EXCEPT ![k] = StreamAt("open", g, EmptyBag, None)]
    /\ sub' = [sub EXCEPT ![g] = k]
    /\ UNCHANGED <<peer, shut, rooms, index, call, sent, up, creates>>

\* The connection is lost: the client end is gone, the thread has not noticed.
StreamLost(k) ==
    /\ stream[k].at = "open"
    /\ stream' = [stream EXCEPT ![k] =
                     StreamAt("cancelled", stream[k].sig, EmptyBag, None)]
    /\ UNCHANGED <<peer, shut, rooms, index, sub, call, sent, up, creates>>

\* IsCancelled, polled once a second; unregisterSignaling leaves a newer
\* subscriber alone.
StreamEnds(k) ==
    LET g == stream[k].sig
    IN  /\ stream[k].at = "cancelled"
        /\ stream' = [stream EXCEPT ![k] = StreamAt("ended", g, EmptyBag, None)]
        /\ sub' = IF sub[g] = k THEN [sub EXCEPT ![g] = None] ELSE sub
        /\ UNCHANGED <<peer, shut, rooms, index, call, sent, up, creates>>

\* Mutant: cleanup is left to the newer subscriber, if there is one.
BulkTakeUnlessReplaced(k) ==
    LET g == stream[k].sig
    IN  /\ stream[k].at = "ended"
        /\ IF sub[g] = None
           THEN /\ stream' = [stream EXCEPT ![k] =
                                 StreamAt("bulk", g, index[g], None)]
                /\ index' = [index EXCEPT ![g] = EmptyBag]
           ELSE /\ stream' = [stream EXCEPT ![k] =
                                 StreamAt("idle", None, EmptyBag, None)]
                /\ UNCHANGED index
        /\ UNCHANGED <<peer, shut, rooms, sub, call, sent, up, creates>>

\* removePeersBySignaling: move the node's list out of the index.
BulkTake(k) ==
    LET g == stream[k].sig
    IN  /\ stream[k].at = "ended"
        /\ stream' = [stream EXCEPT ![k] = StreamAt("bulk", g, index[g], None)]
        /\ index' = [index EXCEPT ![g] = EmptyBag]
        /\ UNCHANGED <<peer, shut, rooms, sub, call, sent, up, creates>>

\* Mutant: the connection is closed, and on to the next entry.
BulkFindOnly(k, x) ==
    /\ stream[k].at = "bulk" /\ stream[k].todo[x] > 0
    /\ stream' = [stream EXCEPT ![k] =
                     StreamAt("bulk", stream[k].sig,
                              [stream[k].todo EXCEPT ![x] = @ - 1], None)]
    /\ shut' = IF peer[x] = None THEN shut ELSE shut \cup {x}
    /\ UNCHANGED <<peer, rooms, index, sub, call, sent, up, creates>>

\* Mutant: the loop runs one entry too far.
BulkFindPastEnd(k, x) ==
    /\ stream[k].at = "bulk" /\ stream[k].todo[x] >= 0
    /\ LET rest == [stream[k].todo EXCEPT ![x] = @ - 1]
           g == stream[k].sig
       IN  IF x[1] \in rooms
           THEN /\ stream' = [stream EXCEPT ![k] = StreamAt("relock", g, rest, x)]
                /\ shut' = IF peer[x] = None THEN shut ELSE shut \cup {x}
           ELSE /\ stream' = [stream EXCEPT ![k] = StreamAt("bulk", g, rest, None)]
                /\ UNCHANGED shut
    /\ UNCHANGED <<peer, rooms, index, sub, call, sent, up, creates>>

\* The next entry, first half; an entry whose room is gone is skipped.
BulkFind(k, x) ==
    /\ stream[k].at = "bulk" /\ stream[k].todo[x] > 0
    /\ LET rest == [stream[k].todo EXCEPT ![x] = @ - 1]
           g == stream[k].sig
       IN  IF x[1] \in rooms
           THEN /\ stream' = [stream EXCEPT ![k] = StreamAt("relock", g, rest, x)]
                /\ shut' = IF peer[x] = None THEN shut ELSE shut \cup {x}
           ELSE /\ stream' = [stream EXCEPT ![k] = StreamAt("bulk", g, rest, None)]
                /\ UNCHANGED shut
    /\ UNCHANGED <<peer, rooms, index, sub, call, sent, up, creates>>

\* Second half: the session now in the slot is taken out; the index is not
\* touched.
BulkRemove(k) ==
    LET x == stream[k].slot
    IN  /\ stream[k].at = "relock"
        /\ stream' = [stream EXCEPT ![k] =
                         StreamAt("bulk", stream[k].sig, stream[k].todo, None)]
        /\ IF x[1] \notin rooms
           THEN UNCHANGED <<peer, shut, rooms>>
           ELSE /\ peer' = Vacated(x)
                /\ shut' = shut \ {x}
                /\ rooms' = RoomsAfter(x)
        /\ UNCHANGED <<index, sub, call, sent, up, creates>>

BulkDone(k) ==
    /\ stream[k].at = "bulk" /\ stream[k].todo = EmptyBag
    /\ stream' = [stream EXCEPT ![k] = StreamAt("idle", None, EmptyBag, None)]
    /\ UNCHANGED <<peer, shut, rooms, index, sub, call, sent, up, creates>>

-----------------------------------------------------------------------------
(* The signaling process, as the SFU sees it *)

\* It dies: its streams are lost, requests already sent still arrive.
Crash(g) ==
    /\ g \in up
    /\ up' = up \ {g}
    /\ stream' = [k \in Streams |->
                     IF stream[k].at = "open" /\ stream[k].sig = g
                     THEN StreamAt("cancelled", g, EmptyBag, None)
                     ELSE stream[k]]
    /\ UNCHANGED <<peer, shut, rooms, index, sub, call, sent, creates>>

Restart(g) ==
    /\ g \notin up
    /\ up' = up \cup {g}
    /\ UNCHANGED <<peer, shut, rooms, index, sub, stream, call, sent, creates>>

StreamNext(k) ==
    \/ StreamEnds(k) \/ BulkTake(k)
    \/ \E x \in Slots : BulkFind(k, x)
    \/ BulkRemove(k) \/ BulkDone(k)

Next ==
    \/ \E g \in Sigs, x \in Slots :
          SendCreate(g, x) \/ CreatePeer(g, x) \/ CreateFails(g, x)
    \/ \E c \in Calls : DeleteRemove(c) \/ \E x \in Slots : DeleteFind(c, x)
    \/ \E k \in Streams : \/ StreamLost(k) \/ StreamNext(k)
                          \/ \E g \in Sigs : Subscribe(k, g)
    \/ \E g \in Sigs : Crash(g) \/ Restart(g)

Spec == Init /\ [][Next]_vars

\* The threads that clean up and the DeletePeer calls under way keep running.
FairSpec ==
    /\ Spec
    /\ \A k \in Streams : WF_vars(StreamNext(k))
    /\ \A c \in Calls : WF_vars(DeleteRemove(c))

-----------------------------------------------------------------------------
(* Properties *)

\* The slots some bulk removal still has to visit for signaling id g.
InBulk(g, x) ==
    \E k \in Streams :
        /\ stream[k].at \in {"bulk", "relock"} /\ stream[k].sig = g
        /\ stream[k].todo[x] > 0 \/ stream[k].slot = x

\* No peer escapes the cleanup of its signaling node: the index, or the list of
\* a cleanup under way, has its slot, whatever removals and re-creations of the
\* same slot race in the unlocked part of removePeer and
\* removePeersBySignaling.
PeersReclaimable ==
    \A x \in Slots :
        peer[x] # None => index[peer[x]][x] > 0 \/ InBulk(peer[x], x)

\* A session whose connection was closed does not stay registered: a call is
\* under way that will take it out.
NoDeadPeer ==
    \A x \in shut :
        /\ peer[x] # None
        /\ \/ \E c \in Calls : call[c].at = "relock" /\ call[c].slot = x
           \/ \E k \in Streams : stream[k].at = "relock" /\ stream[k].slot = x

\* m_rooms holds exactly the rooms that have a peer, so an SFU that has lost
\* all its peers holds no room.
RoomsExact ==
    rooms = {r \in Rooms : \E p \in Parts : peer[<<r, p>>] # None}

\* A peer that is registered when the stream of its node is lost is removed,
\* even if the node has subscribed again by then.
StreamLossReclaims ==
    \A k \in Streams, g \in Sigs, x \in Slots :
        (stream[k].at = "cancelled" /\ stream[k].sig = g /\ peer[x] = g)
            ~> peer[x] = None

\* What sfu_service_impl.cpp:135 says of the cleanup at the end of a stream:
\* it "covers the case where the signaling process crashed without sending
\* explicit DeletePeer RPCs", so once a crashed node has no stream and no
\* request left, it has no peer left.
CrashLeavesNoPeer ==
    \A g \in Sigs :
        (/\ g \notin up
         /\ \A k \in Streams : stream[k].sig # g
         /\ \A x \in Slots : <<g, x>> \notin sent)
        => \A x \in Slots : peer[x] # g
=============================================================================

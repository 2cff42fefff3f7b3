----------------------------- MODULE NickSession -----------------------------
(***************************************************************************)
(* Logins: the nickname lease and the session hash in Redis, and everyone  *)
(* who touches them.                                                       *)
(*                                                                         *)
(*   connector/src/main.rs      auth, logout, session_renew                *)
(*   signaling/src/websocket.rs Attach, Logout, the handlers that write    *)
(*                              the room field, cleanup_connection, the    *)
(*                              lease renewer                              *)
(*   supervisor/src/probes.rs   the janitor's session sweep                *)
(*                                                                         *)
(* Each action is one Redis round trip, because every handler awaits       *)
(* between its round trips and other handlers run there.  A call that      *)
(* times out may or may not have taken effect.                             *)
(***************************************************************************)
EXTENDS Naturals

CONSTANTS
    Sessions,       \* session ids; auth draws each one once (Uuid::new_v4)
    Nicks,
    Nodes,          \* signaling nodes
    None,           \* no session, no nickname, no node
    MaxFaults       \* bound on failed Redis calls, dropped requests, crashes
                    \* and heartbeats lost by a running node

ASSUME NoneAssumption == None \notin Sessions \cup Nicks \cup Nodes
ASSUME FaultsAssumption == MaxFaults \in Nat

VARIABLES
    lease,      \* nick:* keys, which have no TTL: nickname -> session
    hash,       \* signaling:session:* hashes
    auth,       \* progress of the auth request that drew the session id
    want,       \* the nickname that request asked for: session_create is the
                \* only writer of the nickname field, so whatever nickname a
                \* handler reads for the session is this one
    clog,       \* progress of connector logout; "done" once answered with 204
    job,        \* progress of the signaling handler for a session on a node
    conn,       \* <<session, node>> with a connection bound to the session
    localRoom,  \* <<session, node>> whose in-memory session is in a room
    up,         \* running signaling nodes
    seen,       \* nodes with a fresh heartbeat in Redis
    jan,        \* the janitor: step, alive_set, sessions left, victim
    released,   \* history: sessions whose logout reached release_nick_lease
    faults      \* faults so far

vars == <<lease, hash, auth, want, clog, job, conn, localRoom, up, seen,
          jan, released, faults>>

connector == <<auth, want, clog>>
signaling == <<job, conn, localRoom, up>>

AuthSteps == {"new", "nick", "room", "ttl", "undo", "failed", "issued"}
JobSteps == {"idle", "own", "ownIn", "enter", "exit", "logoutExit",
             "cleanup", "release", "delete"}

Hash == [live : BOOLEAN, nick : Nicks \cup {None}, owner : Nodes \cup {None},
         ttl : BOOLEAN, room : BOOLEAN]
Absent == [live |-> FALSE, nick |-> None, owner |-> None, ttl |-> FALSE,
           room |-> FALSE]

\* The janitor at a step, with its alive_set, what is left to do and a victim.
JanitorAt(at, snap, todo, victim) ==
    [at |-> at, snap |-> snap, todo |-> todo, victim |-> victim]

\* The types of the Redis keys and of the handlers under way.
TypeOK ==
    /\ lease \in [Nicks -> Sessions \cup {None}]
    /\ hash \in [Sessions -> Hash]
    /\ auth \in [Sessions -> AuthSteps]
    /\ want \in [Sessions -> Nicks \cup {None}]
    /\ clog \in [Sessions -> {"idle", "delete", "release", "done"}]
    /\ job \in [Sessions \X Nodes -> JobSteps]
    /\ conn \subseteq Sessions \X Nodes
    /\ localRoom \subseteq Sessions \X Nodes
    /\ up \subseteq Nodes
    /\ seen \subseteq Nodes
    /\ jan \in [at : {"idle", "scan", "sweep", "delete"}, snap : SUBSET Nodes,
                todo : SUBSET Sessions, victim : Sessions \cup {None}]
    /\ released \subseteq Sessions
    /\ faults \in 0..MaxFaults

-----------------------------------------------------------------------------
(* Redis *)

\* session_create's first write; HSET on a missing key creates it, with no TTL.
SetNick(s, n) == [hash EXCEPT ![s].live = TRUE, ![s].nick = n]

\* Mutant: the room is stored by writing the whole SessionState back.
SetRoomWhole(s, inRoom) ==
    [hash EXCEPT ![s].live = TRUE, ![s].room = inRoom, ![s].nick = want[s]]

\* session_set_room, an HSET too
SetRoom(s, inRoom) == [hash EXCEPT ![s].live = TRUE, ![s].room = inRoom]

\* session_set_owner
SetOwner(s, nd) == [hash EXCEPT ![s].live = TRUE, ![s].owner = nd]

\* EXPIRE does nothing to a missing key.
Expiring(s) == [hash EXCEPT ![s].ttl = hash[s].live]

\* DEL
Deleted(s) == [hash EXCEPT ![s] = Absent]

\* COMPARE_AND_DEL_LUA: the lease goes only if the session holds it.
Released(s, n) ==
    IF lease[n] = s THEN [lease EXCEPT ![n] = None] ELSE lease

\* A call answers, or it is one of the bounded number of faults.
Answers == UNCHANGED faults
Fault == faults < MaxFaults /\ faults' = faults + 1

\* A hash as session_get followed by the non-empty nickname check sees it.
LoggedIn(s) == hash[s].live /\ hash[s].nick # None

-----------------------------------------------------------------------------
Init ==
    /\ lease = [n \in Nicks |-> None]
    /\ hash = [s \in Sessions |-> Absent]
    /\ auth = [s \in Sessions |-> "new"]
    /\ want = [s \in Sessions |-> None]
    /\ clog = [s \in Sessions |-> "idle"]
    /\ job = [c \in Sessions \X Nodes |-> "idle"]
    /\ conn = {}
    /\ localRoom = {}
    /\ up = Nodes
    /\ seen = Nodes
    /\ jan = JanitorAt("idle", {}, {}, None)
    /\ released = {}
    /\ faults = 0

-----------------------------------------------------------------------------
(* connector: auth *)

\* Mutant: SET without NX.
ReserveAlways(s, n) ==
    /\ auth[s] = "new"
    /\ want' = [want EXCEPT ![s] = n]
    /\ lease' = [lease EXCEPT ![n] = s]
    /\ auth' = [auth EXCEPT ![s] = "nick"]
    /\ Answers
    /\ UNCHANGED <<hash, clog, signaling, seen, jan, released>>

\* reserve_nickname: SET NX.  If the call times out the request fails with no
\* compensation, although the lease may have been taken.
Reserve(s, n) ==
    /\ auth[s] = "new"
    /\ want' = [want EXCEPT ![s] = n]
    /\ LET taken == IF lease[n] = None THEN [lease EXCEPT ![n] = s] ELSE lease
           next == IF lease[n] = None THEN "nick" ELSE "failed"
       IN  \/ Answers /\ lease' = taken /\ auth' = [auth EXCEPT ![s] = next]
           \/ /\ Fault
              /\ lease' \in {lease, taken}
              /\ auth' = [auth EXCEPT ![s] = "failed"]
    /\ UNCHANGED <<hash, clog, signaling, seen, jan, released>>

\* One write of session_create: h is the table after it, next the step after.
\* All three writes share one timeout; an error anywhere leads to "undo".
StoreStep(s, at, h, next) ==
    /\ auth[s] = at
    /\ \/ Answers /\ hash' = h /\ auth' = [auth EXCEPT ![s] = next]
       \/ Fault /\ hash' \in {hash, h} /\ auth' = [auth EXCEPT ![s] = "undo"]
    /\ UNCHANGED <<lease, want, clog, signaling, seen, jan, released>>

StoreNick(s) == StoreStep(s, "nick", SetNick(s, want[s]), "room")

StoreRoom(s) == StoreStep(s, "room", SetRoom(s, FALSE), "ttl")

StoreTtl(s) == StoreStep(s, "ttl", Expiring(s), "issued")

\* session_create failed: give the nickname back; that too may fail.
UndoReserve(s) ==
    /\ auth[s] = "undo"
    /\ auth' = [auth EXCEPT ![s] = "failed"]
    /\ \/ Answers /\ lease' = Released(s, want[s])
       \/ Fault /\ UNCHANGED lease
    /\ UNCHANGED <<hash, want, clog, signaling, seen, jan, released>>

-----------------------------------------------------------------------------
(* connector: logout and session_renew *)

\* session_get: with no session there is nothing to do and the answer is 204.
LogoutGet(s) ==
    /\ auth[s] = "issued" /\ clog[s] \in {"idle", "done"}
    /\ clog' = [clog EXCEPT ![s] = IF LoggedIn(s) THEN "delete" ELSE "done"]
    /\ UNCHANGED <<lease, hash, auth, want, signaling, seen, jan,
                   released, faults>>

\* session_delete, its error ignored
LogoutDelete(s) ==
    /\ clog[s] = "delete"
    /\ clog' = [clog EXCEPT ![s] = "release"]
    /\ \/ Answers /\ hash' = Deleted(s)
       \/ Fault /\ UNCHANGED hash
    /\ UNCHANGED <<lease, auth, want, signaling, seen, jan, released>>

\* release_nick_lease, its error ignored
LogoutRelease(s) ==
    /\ clog[s] = "release"
    /\ clog' = [clog EXCEPT ![s] = "done"]
    /\ \/ Answers /\ lease' = Released(s, want[s])
       \/ Fault /\ UNCHANGED lease
    /\ released' = released \cup {s}
    /\ UNCHANGED <<hash, auth, want, signaling, seen, jan>>

\* session_renew: the hash must be there and hold the nickname's lease.  Its
\* reads and its EXPIRE are one step: EXPIRE touches nothing but the TTL of a
\* hash that exists.
Renew(s) ==
    /\ auth[s] = "issued"
    /\ LoggedIn(s) /\ lease[want[s]] = s
    /\ hash' = Expiring(s)
    /\ UNCHANGED <<lease, auth, want, clog, signaling, seen, jan, released,
                   faults>>

\* The HTTP client goes away or the connector stops: the request's future is
\* dropped where it stands and nothing is compensated.
AbortAuth(s) ==
    /\ auth[s] \in {"nick", "room", "ttl", "undo"}
    /\ Fault
    /\ auth' = [auth EXCEPT ![s] = "failed"]
    /\ UNCHANGED <<lease, hash, want, clog, signaling, seen, jan,
                   released>>

AbortLogout(s) ==
    /\ clog[s] \in {"delete", "release"}
    /\ Fault
    /\ clog' = [clog EXCEPT ![s] = "idle"]
    /\ UNCHANGED <<lease, hash, auth, want, signaling, seen, jan,
                   released>>

-----------------------------------------------------------------------------
(* signaling *)

Goto(s, nd, step) == job' = [job EXCEPT ![<<s, nd>>] = step]

\* A connection serves one message at a time; the message names an issued
\* session that Redis still knows.
CanServe(s, nd) ==
    /\ nd \in up
    /\ auth[s] = "issued"
    /\ job[<<s, nd>>] = "idle"
    /\ LoggedIn(s)

\* The in-memory sessions once this one is known to be in a room or not.
InMemory(s, nd, inRoom) ==
    IF inRoom THEN localRoom \cup {<<s, nd>>} ELSE localRoom \ {<<s, nd>>}

\* Attach, up to session_get: whether the session was in a room is read here
\* and stored in memory one step later.
AttachGet(s, nd) ==
    /\ CanServe(s, nd)
    /\ <<s, nd>> \notin conn
    /\ Goto(s, nd, IF hash[s].room THEN "ownIn" ELSE "own")
    /\ UNCHANGED <<lease, hash, connector, conn, localRoom, up, seen, jan,
                   released, faults>>

\* Attach: session_set_owner, then the connection is bound, its renewer
\* started and the session stored in memory.
AttachSetOwner(s, nd) ==
    /\ job[<<s, nd>>] \in {"own", "ownIn"}
    /\ Goto(s, nd, "idle")
    /\ \/ /\ Answers
          /\ hash' = SetOwner(s, nd)
          /\ conn' = conn \cup {<<s, nd>>}
          /\ localRoom' = InMemory(s, nd, job[<<s, nd>>] = "ownIn")
       \/ /\ Fault
          /\ hash' \in {hash, SetOwner(s, nd)}
          /\ UNCHANGED <<conn, localRoom>>
       \/ \* increment_instance_load fails: bound, but not stored in memory
          /\ Fault
          /\ hash' = SetOwner(s, nd)
          /\ conn' = conn \cup {<<s, nd>>}
          /\ UNCHANGED localRoom
    /\ UNCHANGED <<lease, connector, up, seen, jan, released>>

\* check_session binds the connection, attached or not, and refreshes the
\* in-memory session; the handler goes on with the given step.
Check(s, nd, step) ==
    /\ CanServe(s, nd)
    /\ conn' = conn \cup {<<s, nd>>}
    /\ localRoom' = InMemory(s, nd, hash[s].room)
    /\ Goto(s, nd, step)
    /\ UNCHANGED <<lease, hash, connector, up, seen, jan, released, faults>>

\* Create, Join: AlreadyInRoom is an error.
EnterCheck(s, nd) == Check(s, nd, IF hash[s].room THEN "idle" ELSE "enter")

\* Leave: NotInRoom is an error.
LeaveCheck(s, nd) == Check(s, nd, IF hash[s].room THEN "exit" ELSE "idle")

\* Logout leaves the room first.
LogoutCheck(s, nd) ==
    Check(s, nd, IF hash[s].room THEN "logoutExit" ELSE "release")

\* Create, Join: no SFU capacity, room gone, SFU refuses the peer...
EnterRefused(s, nd) ==
    /\ job[<<s, nd>>] = "enter"
    /\ Goto(s, nd, "idle")
    /\ UNCHANGED <<lease, hash, connector, conn, localRoom, up, seen, jan,
                   released, faults>>

\* session_set_room and sessions.set_room of Create, Join, Leave, Logout and
\* cleanup_connection; only the last goes on after an error.
RoomWrite(s, nd) ==
    LET step == job[<<s, nd>>]
        written == SetRoom(s, step = "enter")
    IN  /\ step \in {"enter", "exit", "logoutExit", "cleanup"}
        /\ \/ /\ Answers
              /\ hash' = written
              /\ localRoom' = InMemory(s, nd, step = "enter")
              /\ Goto(s, nd, IF step = "logoutExit" THEN "release" ELSE "idle")
           \/ /\ Fault
              /\ hash' \in {hash, written}
              /\ localRoom' = IF step = "cleanup" THEN localRoom \ {<<s, nd>>}
                                                  ELSE localRoom
              /\ Goto(s, nd, "idle")
        /\ UNCHANGED <<lease, connector, conn, up, seen, jan, released>>

\* Logout: release_nick_lease comes first; an error ends the handler.
LogoutReleaseNick(s, nd) ==
    /\ job[<<s, nd>>] = "release"
    /\ \/ Answers /\ lease' = Released(s, want[s]) /\ Goto(s, nd, "delete")
       \/ /\ Fault
          /\ lease' \in {lease, Released(s, want[s])}
          /\ Goto(s, nd, "idle")
    /\ released' = released \cup {s}
    /\ UNCHANGED <<hash, connector, conn, localRoom, up, seen, jan>>

\* Logout, before release_nick_lease: decrement_instance_load fails and ends the
\* handler; or Redis cannot be reached and only the node forgets the session.
LogoutFails(s, nd) ==
    /\ job[<<s, nd>>] = "release"
    /\ Fault
    /\ Goto(s, nd, "idle")
    /\ \/ UNCHANGED <<conn, localRoom>>
       \/ conn' = conn \ {<<s, nd>>} /\ localRoom' = localRoom \ {<<s, nd>>}
    /\ UNCHANGED <<lease, hash, connector, up, seen, jan, released>>

\* Logout: session_delete, then the connection forgets the session.
LogoutDeleteSession(s, nd) ==
    /\ job[<<s, nd>>] = "delete"
    /\ Goto(s, nd, "idle")
    /\ \/ /\ Answers
          /\ hash' = Deleted(s)
          /\ conn' = conn \ {<<s, nd>>}
          /\ localRoom' = localRoom \ {<<s, nd>>}
       \/ /\ Fault
          /\ hash' \in {hash, Deleted(s)}
          /\ UNCHANGED <<conn, localRoom>>
    /\ UNCHANGED <<lease, connector, up, seen, jan, released>>

\* The socket closes: cleanup_connection stops the renewer, writes the room
\* field if the session is in a room, and neither releases the nickname nor
\* deletes the session.  It looks at the in-memory session, or in Redis when
\* the node has none.
Disconnect(s, nd) ==
    /\ <<s, nd>> \in conn
    /\ job[<<s, nd>>] = "idle"
    /\ conn' = conn \ {<<s, nd>>}
    /\ \/ <<s, nd>> \notin localRoom /\ Goto(s, nd, "idle")
       \/ (<<s, nd>> \in localRoom \/ hash[s].room) /\ Goto(s, nd, "cleanup")
    /\ UNCHANGED <<lease, hash, connector, localRoom, up, seen, jan, released,
                   faults>>

\* spawn_lease_renewer: EXPIRE while the connection lives.  A connection that
\* check_session has bound without an Attach has no renewer; letting it renew
\* adds nothing that session_renew may not do as well.
LeaseRenew(s, nd) ==
    /\ <<s, nd>> \in conn
    /\ hash' = Expiring(s)
    /\ UNCHANGED <<lease, connector, signaling, seen, jan, released, faults>>

\* The process dies; its handlers stop between two round trips.
Crash(nd) ==
    /\ nd \in up
    /\ Fault
    /\ up' = up \ {nd}
    /\ job' = [c \in Sessions \X Nodes |-> IF c[2] = nd THEN "idle" ELSE job[c]]
    /\ conn' = {c \in conn : c[2] # nd}
    /\ localRoom' = {c \in localRoom : c[2] # nd}
    /\ UNCHANGED <<lease, hash, connector, seen, jan, released>>

Restart(nd) ==
    /\ nd \notin up
    /\ up' = up \cup {nd}
    /\ UNCHANGED <<lease, hash, connector, job, conn, localRoom, seen, jan,
                   released, faults>>

-----------------------------------------------------------------------------
(* Redis time and the supervisor *)

\* The TTL of a hash runs out.
SessionExpires(s) ==
    /\ hash[s].ttl
    /\ hash' = Deleted(s)
    /\ UNCHANGED <<lease, connector, signaling, seen, jan, released, faults>>

\* probe_signaling_instance: a node that answers is fresh again.
ProbeOk(nd) ==
    /\ nd \in up /\ nd \notin seen
    /\ seen' = seen \cup {nd}
    /\ UNCHANGED <<lease, hash, connector, signaling, jan, released, faults>>

\* The last heartbeat passes the stale threshold: the node is down, or the
\* probes of a running node have failed for that long.
HeartbeatStale(nd) ==
    /\ nd \in seen
    /\ IF nd \in up THEN Fault ELSE Answers
    /\ seen' = seen \ {nd}
    /\ UNCHANGED <<lease, hash, connector, signaling, jan, released>>

\* run_janitor_iteration: alive_set is read once, at the start.
JanitorAlive ==
    /\ jan.at = "idle"
    /\ jan' = JanitorAt("scan", seen, {}, None)
    /\ UNCHANGED <<lease, hash, connector, signaling, seen, released, faults>>

\* scan_signaling_session_ids
JanitorScan ==
    /\ jan.at = "scan"
    /\ jan' = JanitorAt("sweep", jan.snap, {s \in Sessions : hash[s].live}, None)
    /\ UNCHANGED <<lease, hash, connector, signaling, seen, released, faults>>

\* Mutant: get_session_owner's answer is not compared with alive_set.
JanitorOwnerSkips(s) ==
    /\ jan.at = "sweep" /\ s \in jan.todo
    /\ jan' = JanitorAt("sweep", jan.snap, jan.todo \ {s}, None)
    /\ UNCHANGED <<lease, hash, connector, signaling, seen, released, faults>>

\* get_session_owner: sessions without an owner, or with one in alive_set,
\* are kept.
JanitorOwner(s) ==
    /\ jan.at = "sweep" /\ s \in jan.todo
    /\ jan' = IF hash[s].owner \in jan.snap \cup {None}
              THEN JanitorAt("sweep", jan.snap, jan.todo \ {s}, None)
              ELSE JanitorAt("delete", jan.snap, jan.todo \ {s}, s)
    /\ UNCHANGED <<lease, hash, connector, signaling, seen, released, faults>>

\* delete_signaling_session, its error ignored; the lease is left alone.
JanitorDelete ==
    /\ jan.at = "delete"
    /\ \/ Answers /\ hash' = Deleted(jan.victim)
       \/ Fault /\ UNCHANGED hash
    /\ jan' = JanitorAt("sweep", jan.snap, jan.todo, None)
    /\ UNCHANGED <<lease, connector, signaling, seen, released>>

\* The iteration ends; an error of one of its reads ends it early.
JanitorEnd ==
    /\ \/ jan.at = "sweep" /\ jan.todo = {} /\ Answers
       \/ jan.at \in {"scan", "sweep"} /\ Fault
    /\ jan' = JanitorAt("idle", {}, {}, None)
    /\ UNCHANGED <<lease, hash, connector, signaling, seen, released>>

-----------------------------------------------------------------------------
ConnectorNext(s) ==
    \/ \E n \in Nicks : Reserve(s, n)
    \/ StoreNick(s) \/ StoreRoom(s) \/ StoreTtl(s) \/ UndoReserve(s)
    \/ LogoutGet(s) \/ LogoutDelete(s) \/ LogoutRelease(s)
    \/ Renew(s)
    \/ AbortAuth(s) \/ AbortLogout(s)

SignalingNext(s, nd) ==
    \/ AttachGet(s, nd) \/ AttachSetOwner(s, nd)
    \/ EnterCheck(s, nd) \/ EnterRefused(s, nd) \/ LeaveCheck(s, nd)
    \/ RoomWrite(s, nd)
    \/ LogoutCheck(s, nd) \/ LogoutReleaseNick(s, nd)
    \/ LogoutFails(s, nd) \/ LogoutDeleteSession(s, nd)
    \/ Disconnect(s, nd) \/ LeaseRenew(s, nd)

JanitorNext ==
    \/ JanitorAlive \/ JanitorScan
    \/ \E s \in Sessions : JanitorOwner(s)
    \/ JanitorDelete \/ JanitorEnd

NodeNext(nd) ==
    Crash(nd) \/ Restart(nd) \/ ProbeOk(nd) \/ HeartbeatStale(nd)

Next ==
    \/ \E s \in Sessions : ConnectorNext(s) \/ SessionExpires(s)
    \/ \E s \in Sessions, nd \in Nodes : SignalingNext(s, nd)
    \/ \E nd \in Nodes : NodeNext(nd)
    \/ JanitorNext

Spec == Init /\ [][Next]_vars

\* janitor_loop never ends: it always starts another iteration, and each
\* iteration runs to its end.
FairSpec == Spec /\ WF_vars(JanitorNext)

-----------------------------------------------------------------------------
(* Properties *)

\* Users are told apart by nickname alone once they are in a room, so two
\* issued sessions that are still logged in never carry the same nickname,
\* whatever expires, crashes or times out, unless one of them has already
\* run its own release_nick_lease (a logout that failed before or at its
\* session_delete).  About reserve_nickname, release_nick_lease and every
\* order in which auth, both logouts and the janitor interleave.
NicknameUnique ==
    \A s, t \in Sessions :
        /\ s # t
        /\ auth[s] = "issued" /\ LoggedIn(s) /\ s \notin released
        /\ auth[t] = "issued" /\ LoggedIn(t) /\ t \notin released
        => hash[s].nick # hash[t].nick

\* A session that Redis has forgotten (logout, expiry, janitor) is never
\* accepted again, although a handler that was under way may still re-create
\* its hash with session_set_room or session_set_owner.
LoggedOutStaysOut ==
    [][\A s \in Sessions :
          auth[s] = "issued" /\ ~LoggedIn(s) => ~LoggedIn(s)']_vars

\* run_janitor_iteration: a session does not stay for ever with an owner whose
\* heartbeat is stale.
DeadOwnerReclaimed ==
    \A s \in Sessions :
        []<>(hash[s].owner \in seen \cup {None})

\* What connector/src/redis.rs:77 says of the reservation: it lasts "until
\* [`release_nick_lease`] or logout", so a session whose logout was answered
\* holds no nickname.
LogoutFreesNick ==
    \A s \in Sessions, n \in Nicks : clog[s] = "done" => lease[n] # s
=============================================================================

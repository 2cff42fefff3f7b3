------------------------------ MODULE Admission ------------------------------
(***************************************************************************)
(* How a user comes to a signaling node and is counted there, and how an   *)
(* outage of Redis empties the nodes:                                      *)
(*                                                                         *)
(*   connector/src/main.rs       create, join: the choice of a node        *)
(*   signaling/src/websocket.rs  ws_upgrade, Attach, Logout,               *)
(*                               cleanup_connection: the instance load     *)
(*   signaling/src/state.rs      run_purge and the purging flag            *)
(*   supervisor/src/main.rs      the check of Redis                        *)
(*   supervisor/src/probes.rs    heartbeats, purge calls, and the loads of *)
(*                               stale nodes                               *)
(*                                                                         *)
(* A user has one connection and one session.  Round trips that only       *)
(* concern the session (NickSession), the room (RoomPlane) or the SFU      *)
(* (SfuRuntime) are part of the step next to them.  A call that times out  *)
(* may or may not have taken effect.                                       *)
(***************************************************************************)
EXTENDS Naturals, FiniteSets

CONSTANTS
    Nodes,          \* signaling nodes, as configured everywhere
    Users,
    None,           \* no node
    MaxLoad,        \* bound on the load at which a user still attaches
    MaxFaults       \* bound on crashes, outages, failed calls, lost probes

ASSUME AdmissionAssumption ==
    None \notin Nodes /\ IsFiniteSet(Users) /\ MaxLoad \in Nat /\ MaxFaults \in Nat

VARIABLES
    \* Redis
    redis_up,
    load,           \* signaling:instance_load; no entry counts as 0
    seen,           \* nodes with a fresh heartbeat
    hash,           \* users whose session hash is there
    \* a user's connection
    token,          \* the node its unused token is for
    node,           \* the node it is connected to
    at,             \* where the handler of the connection is
    session_id,     \* users with the connection bound to the session
    allowed,        \* users with the intent of a token (allowed_intent)
    registered,     \* instance_load_registered
    score,          \* what ZSCORE answered
    \* a node
    up,
    purge,          \* where run_purge is; the purging flag is never reset
    peers, sessions,    \* PeerRegistry and SessionRegistry, by their users
    \* the supervisor
    redis_was_down,
    calls,          \* nodes still to be asked to purge
    janitor,        \* step, alive_set and loads left to remove
    \* history
    drifted,        \* nodes whose load met one of the windows of the code
    missed,         \* nodes the purge of this outage did not reach
    faults

store == <<redis_up, load, seen, hash>>
context == <<token, node, at, session_id, allowed, registered, score>>
local == <<up, purge, peers, sessions>>
supervisor == <<redis_was_down, calls, janitor>>
history == <<drifted, missed>>
vars == <<store, context, local, supervisor, history, faults>>

Steps == {"out", "open", "attach", "logout", "logoutSet", "cleanup", "cleanupSet"}
PurgeSteps == {"idle", "notify", "clear", "done"}
Janitor(step, alive, todo) == [step |-> step, alive |-> alive, todo |-> todo]

TypeOK ==
    /\ redis_up \in BOOLEAN
    /\ load \in [Nodes -> Nat]
    /\ seen \subseteq Nodes
    /\ hash \subseteq Users
    /\ token \in [Users -> Nodes \cup {None}]
    /\ node \in [Users -> Nodes \cup {None}]
    /\ at \in [Users -> Steps]
    /\ \A u \in Users : at[u] = "out" <=> node[u] = None
    /\ session_id \subseteq Users /\ allowed \subseteq Users /\ registered \subseteq Users
    /\ score \in [Users -> Nat]
    /\ up \subseteq Nodes
    /\ purge \in [Nodes -> PurgeSteps]
    /\ peers \in [Nodes -> SUBSET Users] /\ sessions \in [Nodes -> SUBSET Users]
    /\ redis_was_down \in BOOLEAN
    /\ calls \subseteq Nodes
    /\ janitor \in [step : {"idle", "scan", "remove"}, alive : SUBSET Nodes,
                    todo : SUBSET Nodes]
    /\ drifted \subseteq Nodes /\ missed \subseteq Nodes
    /\ faults \in 0..MaxFaults

Init ==
    /\ redis_up = TRUE
    /\ load = [n \in Nodes |-> 0]
    /\ seen = Nodes
    /\ hash = Users
    /\ token = [u \in Users |-> None] /\ node = [u \in Users |-> None]
    /\ at = [u \in Users |-> "out"]
    /\ session_id = {} /\ allowed = {} /\ registered = {}
    /\ score = [u \in Users |-> 0]
    /\ up = Nodes
    /\ purge = [n \in Nodes |-> "idle"]
    /\ peers = [n \in Nodes |-> {}] /\ sessions = [n \in Nodes |-> {}]
    /\ redis_was_down = FALSE /\ calls = {}
    /\ janitor = Janitor("idle", {}, {})
    /\ drifted = {} /\ missed = {}
    /\ faults = 0

\* A call answers, or it is one of the bounded number of faults.
Answers == redis_up /\ UNCHANGED faults
Fault == faults < MaxFaults /\ faults' = faults + 1
\* A call that fails: at once while Redis is down, else by its timeout.
Fails == IF redis_up THEN Fault ELSE UNCHANGED faults

Goto(u, step) == at' = [at EXCEPT ![u] = step]
Counted(n) == {u \in registered : node[u] = n}
Drift(n, condition) == drifted' = IF condition THEN drifted \cup {n} ELSE drifted
-----------------------------------------------------------------------------
(* The connector *)

\* select_least_loaded_signaling
LeastLoaded == {n \in seen : \A m \in seen : load[n] <= load[m]}

\* A token for a node goes to a user whose session is there; the client asks for
\* one when it has no call.
Issue(u, n) ==
    /\ redis_up
    /\ u \in hash \ session_id
    /\ token[u] = None
    /\ token' = [token EXCEPT ![u] = n]
    /\ UNCHANGED <<store, node, at, session_id, allowed, registered, score, local, supervisor,
                   history, faults>>

Create(u) == \E n \in LeastLoaded : Issue(u, n)

\* The node of the room's route, alive or not.
Join(u) == \E n \in Nodes : Issue(u, n)

\* auth; or the session expires, is deleted or logged out over HTTP.
SessionChanges(u) ==
    /\ redis_up
    /\ hash' = IF u \in hash THEN hash \ {u} ELSE hash \cup {u}
    /\ UNCHANGED <<redis_up, load, seen, context, local, supervisor, history, faults>>
-----------------------------------------------------------------------------
(* The connection *)

\* is_purging
purging == {n \in Nodes : purge[n] # "idle"}

\* ws_upgrade
Upgrade(u) ==
    /\ at[u] = "out" /\ token[u] \in up \ purging
    /\ node' = [node EXCEPT ![u] = token[u]]
    /\ Goto(u, "open")
    /\ UNCHANGED <<store, token, session_id, allowed, registered, score, local, supervisor,
                   history, faults>>

\* ws_upgrade of a node with its purging flag set
Refuse(u) ==
    /\ at[u] = "out" /\ token[u] \in up \cap purging
    /\ token' = [token EXCEPT ![u] = None]
    /\ UNCHANGED <<store, node, at, session_id, allowed, registered, score, local, supervisor,
                   history, faults>>

\* The node of the token is not there.
ConnectFails(u) ==
    /\ at[u] = "out" /\ token[u] \in Nodes \ up
    /\ token' = [token EXCEPT ![u] = None]
    /\ UNCHANGED <<store, node, at, session_id, allowed, registered, score, local, supervisor,
                   history, faults>>

\* Attach up to session_set_owner: the token is spent and the session bound.
AttachBind(u) ==
    /\ at[u] = "open" /\ u \notin session_id
    /\ token[u] = node[u]
    /\ load[node[u]] < MaxLoad
    /\ token' = [token EXCEPT ![u] = None]
    /\ \/ /\ Answers /\ u \in hash
          /\ session_id' = session_id \cup {u} /\ allowed' = allowed \cup {u}
          /\ Goto(u, "attach")
       \/ /\ Answers /\ u \notin hash
          /\ UNCHANGED <<session_id, allowed, at>>
       \/ /\ Fails
          /\ UNCHANGED <<session_id, allowed, at>>
    /\ UNCHANGED <<store, node, registered, score, local, supervisor, history>>

\* ZINCRBY
Incremented(n) == [load EXCEPT ![n] = @ + 1]

\* Attach: increment_instance_load.  When it fails the connection stays bound,
\* without the flag and without a session in memory.
AttachLoad(u) ==
    /\ at[u] = "attach"
    /\ Goto(u, "open")
    /\ \/ /\ Answers
          /\ load' = Incremented(node[u])
          /\ registered' = registered \cup {u}
          /\ sessions' = [sessions EXCEPT ![node[u]] = @ \cup {u}]
          /\ UNCHANGED drifted
       \/ /\ Fails
          /\ load' \in {load} \cup (IF redis_up THEN {Incremented(node[u])} ELSE {})
          /\ Drift(node[u], load' # load)
          /\ UNCHANGED <<registered, sessions>>
    /\ UNCHANGED <<redis_up, seen, hash, token, node, session_id, allowed, score, up, purge,
                   peers, supervisor, missed>>

\* check_session, for Logout and for every handler that enters a room: it binds
\* the connection, attached or not.
CheckSession(u) ==
    /\ at[u] = "open"
    /\ redis_up /\ u \in hash
    /\ session_id' = session_id \cup {u}
    /\ sessions' = [sessions EXCEPT ![node[u]] = @ \cup {u}]

\* Create and Join: the peer is registered, or the room cannot be entered.
EnterRoom(u) ==
    /\ CheckSession(u)
    /\ \/ u \in allowed /\ peers' = [peers EXCEPT ![node[u]] = @ \cup {u}]
       \/ UNCHANGED peers
    /\ UNCHANGED <<store, token, node, at, allowed, registered, score, up, purge, supervisor,
                   history, faults>>

LeaveRoom(u) == peers' = [peers EXCEPT ![node[u]] = @ \ {u}]
-----------------------------------------------------------------------------
(* decrement_instance_load: ZSCORE, then ZADD *)

\* A count that can go below zero.
Lowered_Mutant(current) == IF current = 0 THEN 0 - 1 ELSE current - 1

Lowered(current) == IF current <= 1 THEN 0 ELSE current - 1

\* ZADD takes effect.  A score that has changed since ZSCORE is overwritten.
WriteLoad(u) ==
    /\ load' = [load EXCEPT ![node[u]] = Lowered(score[u])]
    /\ Drift(node[u], load[node[u]] # score[u])

\* ZADD failed, and may have been executed all the same.
WriteFails(u, drift) ==
    /\ Fails
    /\ load' \in {load} \cup
                 (IF redis_up THEN {[load EXCEPT ![node[u]] = Lowered(score[u])]} ELSE {})
    /\ Drift(node[u], drift \/ load' # load)

ReadLoad(u, step) ==
    /\ score' = [score EXCEPT ![u] = load[node[u]]]
    /\ Goto(u, step)
-----------------------------------------------------------------------------
(* Logout *)

\* check_session and leave_room
Logout(u) ==
    /\ CheckSession(u)
    /\ LeaveRoom(u)
    /\ Goto(u, "logout")
    /\ UNCHANGED <<store, token, node, allowed, registered, score, up, purge, supervisor,
                   history, faults>>

\* The session is forgotten; the hash with it if Redis could be asked.
LoggedOut(u) ==
    /\ session_id' = session_id \ {u}
    /\ sessions' = [sessions EXCEPT ![node[u]] = @ \ {u}]
    /\ Goto(u, "open")

\* ZSCORE, or nothing to do in Redis because it is not there: the flag stays
\* up on a connection that is bound to no session.
LogoutGet(u) ==
    /\ at[u] = "logout"
    /\ \/ /\ Answers /\ u \in registered
          /\ ReadLoad(u, "logoutSet")
          /\ UNCHANGED <<hash, session_id, sessions, drifted>>
       \/ /\ Answers /\ u \notin registered
          /\ hash' = hash \ {u}
          /\ LoggedOut(u)
          /\ UNCHANGED <<score, drifted>>
       \/ /\ Fails
          /\ LoggedOut(u)
          /\ Drift(node[u], u \in registered)
          /\ UNCHANGED <<hash, score>>
       \/ \* a failed call ends the handler with an error
          /\ Fails
          /\ Goto(u, "open")
          /\ UNCHANGED <<hash, session_id, sessions, score, drifted>>
    /\ UNCHANGED <<redis_up, load, seen, token, node, allowed, registered, up, purge, peers,
                   supervisor, missed>>

\* A flag that stays up.
LogoutSet_Mutant(u) ==
    /\ at[u] = "logoutSet" /\ Answers
    /\ WriteLoad(u)
    /\ hash' = hash \ {u}
    /\ LoggedOut(u)
    /\ score' = [score EXCEPT ![u] = 0]
    /\ UNCHANGED <<redis_up, seen, registered, token, node, allowed, up, purge, peers,
                   supervisor, missed>>

\* ZADD, then the nickname and the hash, each of which may fail.
LogoutSet(u) ==
    /\ at[u] = "logoutSet"
    /\ score' = [score EXCEPT ![u] = 0]
    /\ \/ /\ Answers
          /\ WriteLoad(u)
          /\ registered' = registered \ {u}
          /\ hash' = hash \ {u}
          /\ LoggedOut(u)
       \/ /\ redis_up /\ Fault
          /\ WriteLoad(u)
          /\ registered' = registered \ {u}
          /\ Goto(u, "open")
          /\ hash' \in {hash, hash \ {u}}
          /\ UNCHANGED <<session_id, sessions>>
       \/ /\ WriteFails(u, FALSE)
          /\ Goto(u, "open")
          /\ UNCHANGED <<registered, hash, session_id, sessions>>
    /\ UNCHANGED <<redis_up, seen, token, node, allowed, up, purge, peers, supervisor,
                   missed>>
-----------------------------------------------------------------------------
(* cleanup_connection *)

\* The context goes with the connection.
Gone(u) ==
    /\ node' = [node EXCEPT ![u] = None]
    /\ Goto(u, "out")
    /\ session_id' = session_id \ {u} /\ allowed' = allowed \ {u}
    /\ registered' = registered \ {u}
    /\ score' = [score EXCEPT ![u] = 0]
    /\ sessions' = [sessions EXCEPT ![node[u]] = @ \ {u}]

\* The loop of handle_ws ends.
Disconnect(u) ==
    /\ at[u] = "open"
    /\ IF u \in session_id
       THEN Goto(u, "cleanup") /\ UNCHANGED <<node, allowed, registered, score>>
       ELSE /\ node' = [node EXCEPT ![u] = None] /\ Goto(u, "out")
            /\ allowed' = allowed \ {u} /\ registered' = registered \ {u}
            /\ score' = [score EXCEPT ![u] = 0]
    /\ UNCHANGED <<store, token, session_id, local, supervisor, drifted, missed, faults>>

\* Without Redis, or without a session to be found, the load stays as it is.
CleanupGet(u) ==
    /\ at[u] = "cleanup"
    /\ \/ /\ Answers
          /\ u \in sessions[node[u]] \cup hash
          /\ LeaveRoom(u)
          /\ IF u \in registered
             THEN ReadLoad(u, "cleanupSet")
                  /\ UNCHANGED <<node, session_id, allowed, registered, sessions>>
             ELSE Gone(u)
          /\ UNCHANGED drifted
       \/ /\ Answers
          /\ u \notin sessions[node[u]] \cup hash
          /\ Gone(u)
          /\ Drift(node[u], u \in registered)
          /\ UNCHANGED peers
       \/ /\ Fails
          /\ Gone(u)
          /\ Drift(node[u], u \in registered)
          /\ \/ redis_up /\ u \in sessions[node[u]] \cup hash /\ LeaveRoom(u)
             \/ ~(redis_up /\ u \in sessions[node[u]]) /\ UNCHANGED peers
    /\ UNCHANGED <<store, token, up, purge, supervisor, missed>>

CleanupSet(u) ==
    /\ at[u] = "cleanupSet"
    /\ Gone(u)
    /\ \/ Answers /\ WriteLoad(u)
       \/ WriteFails(u, TRUE)
    /\ UNCHANGED <<redis_up, seen, hash, token, up, purge, peers, supervisor, missed>>
-----------------------------------------------------------------------------
(* run_purge *)

\* try_begin_purge; a second caller returns.
BeginPurge(n) ==
    /\ n \in up
    /\ purge' = [purge EXCEPT ![n] = IF n \in purging THEN @ ELSE "notify"]

\* ServiceUnavailable to everyone registered in a room, and to no other session.
PurgeNotify(n) ==
    /\ purge[n] = "notify"
    /\ purge' = [purge EXCEPT ![n] = "clear"]
    /\ UNCHANGED <<store, context, up, peers, sessions, supervisor, drifted, missed,
                   faults>>

\* delete_peer for everyone of the snapshot, whatever the SFU answers; the
\* registries are cleared and the flag stays.
PurgeClear(n) ==
    /\ purge[n] = "clear"
    /\ purge' = [purge EXCEPT ![n] = "done"]
    /\ peers' = [peers EXCEPT ![n] = {}]
    /\ sessions' = [sessions EXCEPT ![n] = {}]
    /\ UNCHANGED <<store, context, up, supervisor, history, faults>>
-----------------------------------------------------------------------------
(* The supervisor *)

\* Ping answered: write_signaling_node_seen.
Probe(n) ==
    /\ redis_up /\ n \in up
    /\ seen' = seen \cup {n}
    /\ UNCHANGED <<redis_up, load, hash, context, local, supervisor, history, faults>>

\* The last heartbeat has become too old.
Stale(n) ==
    /\ n \in seen
    /\ IF n \in up /\ redis_up THEN Fault ELSE UNCHANGED faults
    /\ seen' = seen \ {n}
    /\ UNCHANGED <<redis_up, load, hash, context, local, supervisor, history>>

\* An outage that is never over.
RedisCheck_Mutant ==
    /\ calls = {}
    /\ \/ Answers /\ missed' = {} /\ UNCHANGED <<redis_was_down, calls>>
       \/ /\ Fails
          /\ redis_was_down' = TRUE
          /\ calls' = IF redis_was_down THEN {} ELSE Nodes
          /\ UNCHANGED missed
    /\ UNCHANGED <<store, context, local, janitor, drifted>>

\* The check of Redis: a purge of every node once per outage.
RedisCheck ==
    /\ calls = {}
    /\ \/ /\ Answers
          /\ redis_was_down' = FALSE
          /\ missed' = {}
          /\ UNCHANGED calls
       \/ /\ Fails
          /\ redis_was_down' = TRUE
          /\ calls' = IF redis_was_down THEN {} ELSE Nodes
          /\ UNCHANGED missed
    /\ UNCHANGED <<store, context, local, janitor, drifted>>

\* purge_signaling; a call that fails is logged.
PurgeCall(n) ==
    /\ n \in calls
    /\ calls' = calls \ {n}
    /\ \/ BeginPurge(n) /\ UNCHANGED <<missed, faults>>
       \/ n \notin up /\ UNCHANGED <<purge, missed, faults>>
       \/ n \in up /\ Fault /\ missed' = missed \cup {n} /\ UNCHANGED purge
    /\ UNCHANGED <<store, context, up, peers, sessions, redis_was_down, janitor, drifted>>

\* run_janitor_iteration: alive_signaling_nodes comes first
JanitorAlive ==
    /\ redis_up /\ janitor.step = "idle"
    /\ janitor' = Janitor("scan", seen, {})
    /\ UNCHANGED <<store, context, local, redis_was_down, calls, history, faults>>

\* Loads of living nodes are taken for those of the dead.
JanitorLoads_Mutant ==
    /\ redis_up /\ janitor.step = "scan"
    /\ janitor' = Janitor("remove", janitor.alive, {n \in janitor.alive : load[n] > 0})
    /\ UNCHANGED <<store, context, local, redis_was_down, calls, history, faults>>

\* signaling_load_members
JanitorLoads ==
    /\ redis_up /\ janitor.step = "scan"
    /\ janitor' = Janitor("remove", janitor.alive, {n \in Nodes \ janitor.alive : load[n] > 0})
    /\ UNCHANGED <<store, context, local, redis_was_down, calls, history, faults>>

\* remove_signaling_load, for a node that may be back by now.  With nobody
\* connected the load is exact again.
JanitorRemove(n) ==
    /\ redis_up /\ n \in janitor.todo
    /\ janitor' = [janitor EXCEPT !.todo = @ \ {n}]
    /\ \/ /\ Answers \/ Fault
          /\ load' = [load EXCEPT ![n] = 0]
          /\ drifted' = IF Counted(n) = {} THEN drifted \ {n} ELSE drifted \cup {n}
       \/ Fault /\ UNCHANGED <<load, drifted>>
    /\ UNCHANGED <<redis_up, seen, hash, context, local, redis_was_down, calls, missed>>

\* The end of an iteration, or an error that ends it.
JanitorEnd ==
    /\ \/ janitor.step = "remove" /\ (janitor.todo = {} \/ ~redis_up) /\ UNCHANGED faults
       \/ janitor.step = "scan" /\ Fails
    /\ janitor' = Janitor("idle", {}, {})
    /\ UNCHANGED <<store, context, local, redis_was_down, calls, history>>
-----------------------------------------------------------------------------
(* Faults *)

\* The process of a node ends, and every connection with it.  (A node that is
\* told to stop runs a purge first.)
Crash(n) ==
    /\ n \in up /\ Fault
    /\ up' = up \ {n}
    /\ purge' = [purge EXCEPT ![n] = "idle"]
    /\ peers' = [peers EXCEPT ![n] = {}] /\ sessions' = [sessions EXCEPT ![n] = {}]
    /\ LET lost == {u \in Users : node[u] = n} IN
       /\ node' = [u \in Users |-> IF u \in lost THEN None ELSE node[u]]
       /\ at' = [u \in Users |-> IF u \in lost THEN "out" ELSE at[u]]
       /\ score' = [u \in Users |-> IF u \in lost THEN 0 ELSE score[u]]
       /\ session_id' = session_id \ lost /\ allowed' = allowed \ lost
       /\ registered' = registered \ lost
       /\ Drift(n, Counted(n) # {})
    /\ UNCHANGED <<store, token, supervisor, missed>>

\* A node does not start without Redis.  One that starts before the supervisor
\* has noticed the end of an outage is not purged in the next.
Start(n) ==
    /\ n \notin up /\ redis_up
    /\ up' = up \cup {n}
    /\ missed' = IF redis_was_down /\ n \notin calls THEN missed \cup {n} ELSE missed
    /\ UNCHANGED <<store, context, purge, peers, sessions, supervisor, drifted,
                   faults>>

RedisFails ==
    /\ redis_up /\ Fault
    /\ redis_up' = FALSE
    /\ UNCHANGED <<load, seen, hash, context, local, supervisor, history>>

RedisRecovers ==
    /\ ~redis_up
    /\ redis_up' = TRUE
    /\ UNCHANGED <<load, seen, hash, context, local, supervisor, history, faults>>

User(u) ==
    \/ Create(u) \/ Join(u) \/ SessionChanges(u)
    \/ Upgrade(u) \/ Refuse(u) \/ ConnectFails(u)
    \/ AttachBind(u) \/ AttachLoad(u) \/ EnterRoom(u)
    \/ Logout(u) \/ LogoutGet(u) \/ LogoutSet(u)
    \/ Disconnect(u) \/ CleanupGet(u) \/ CleanupSet(u)

Node(n) ==
    \/ PurgeNotify(n) \/ PurgeClear(n)
    \/ Probe(n) \/ Stale(n) \/ PurgeCall(n) \/ JanitorRemove(n)
    \/ Crash(n) \/ Start(n)

Next ==
    \/ \E u \in Users : User(u)
    \/ \E n \in Nodes : Node(n)
    \/ RedisCheck \/ JanitorAlive \/ JanitorLoads \/ JanitorEnd
    \/ RedisFails \/ RedisRecovers

Spec == Init /\ [][Next]_vars

\* The supervisor's loops go on; a heartbeat nobody renews becomes too old.
Fairness ==
    /\ WF_vars(RedisCheck) /\ WF_vars(JanitorAlive) /\ WF_vars(JanitorLoads) /\ WF_vars(JanitorEnd)
    /\ \A n \in Nodes :
         /\ WF_vars(PurgeCall(n)) /\ WF_vars(JanitorRemove(n))
         /\ WF_vars(n \notin up /\ Stale(n))

FairSpec == Spec /\ Fairness
-----------------------------------------------------------------------------
(* Properties *)

\* The load the connector ranks a node by is the number of its attached
\* connections, through logout, second attach, loss of the connection and purge,
\* as long as the node met none of the windows of the code: a write of ZADD that
\* overwrites another change, a failed call, an outage, a crash, a session gone
\* from memory and Redis, a late ZREM of the janitor.
LoadExact == \A n \in Nodes \ drifted : load[n] = Cardinality(Counted(n))

\* A node that stays away does not keep its load: the janitor removes it, so
\* that the node starts from zero when it comes back.
DeadLoadReclaimed ==
    \A n \in Nodes : <>[](redis_up /\ n \notin up) => <>[](load[n] = 0)

\* While Redis stays down every node that runs is purged, unless the purge call
\* failed or the node started before the supervisor knew of the last recovery.
OutagePurges ==
    \A n \in Nodes : <>[](~redis_up /\ n \in up /\ n \notin missed) => <>(n \in purging)
=============================================================================

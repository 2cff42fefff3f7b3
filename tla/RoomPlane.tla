------------------------------ MODULE RoomPlane ------------------------------
(***************************************************************************)
(* Rooms: their binding to a signaling node and an SFU, their member sets  *)
(* and the room counts of the SFUs, all in Redis, and everyone who changes *)
(* them.                                                                   *)
(*                                                                         *)
(*   signaling/src/websocket.rs  create, join, leave, disconnect           *)
(*   signaling/src/state.rs      detach_peer, close_rooms_due_to_sfu_addr  *)
(*   signaling/src/redis.rs      the Redis commands those send             *)
(*   supervisor/src/probes.rs    sfu_probe_loop and the janitor            *)
(*                                                                         *)
(* A step of a handler is one Redis round trip, together with what the     *)
(* handler does in memory before the next one.  Handlers of one session    *)
(* can overlap: two connections of it run independently, and the session   *)
(* lock of create and join expires after five seconds, which is less than  *)
(* the calls inside may take.                                              *)
(***************************************************************************)
EXTENDS Naturals, FiniteSets

CONSTANTS
    Users,          \* nicknames, one per session
    Rooms,          \* room ids; create draws each one once (Uuid::new_v4)
    Nodes,          \* signaling nodes
    Sfus,
    Procs,          \* handlers that run at the same time
    Sweepers,       \* supervisor loops that run: "probe", "janitor"
    None,
    MaxRooms,       \* max_rooms of every SFU
    MaxFaults       \* bound on timeouts, refused peers, lost pings and crashes

Threads == Procs \cup Sweepers
Bindings == Nodes \X Sfus

ASSUME NoneAssumption ==
    None \notin Users \cup Rooms \cup Nodes \cup Sfus \cup Bindings
ASSUME ThreadAssumption ==
    Sweepers \subseteq {"probe", "janitor"} /\ Procs \cap Sweepers = {}
ASSUME BoundAssumption == MaxRooms \in Nat /\ MaxFaults \in Nat

VARIABLES
    \* Redis
    bind,       \* room:*:binding: room -> <<owner node, SFU>> or None
    members,    \* room -> users
    load,       \* SFU room counts
    sroom,      \* the room field of a session
    ready,      \* SFUs whose record says alive, ready and recently pinged
    seen,       \* signaling nodes with a fresh heartbeat
    \* signaling processes
    used,       \* room ids drawn
    peers,      \* PeerRegistry: <<node, room, user>>
    local,      \* SessionRegistry: <<node, user>> -> room
    pc, req,    \* the handlers: step and request
    who,        \* users a close_rooms_due_to_sfu_addr still has to handle
    dec,        \* decrement_sfu_room_load, per caller
    sweep,      \* the supervisor loops
    \* environment
    up, sfuUp, faults

redis == <<bind, members, load, sroom>>
procs == <<pc, req, who>>
memory == <<peers, local>>
env == <<ready, seen, up, sfuUp>>
vars == <<redis, used, memory, procs, dec, sweep, env, faults>>

Ops == {"create", "join", "leave", "cleanup", "stale", "close"}
Steps == {"idle", "assign", "route", "exists", "taken", "add", "peer", "undo",
          "enter", "register", "detach", "lexists", "lsrem", "lscard", "ldel",
          "close", "clear", "croute", "cmembers", "csess"}
SweepSteps == {"idle", "scan", "loop", "unbind", "members", "orphans"}

Request(op, u, r, n, s) ==
    [op |-> op, user |-> u, room |-> r, node |-> n, sfu |-> s]
NoRequest == Request("create", None, None, None, None)

DecAt(at, s, cur, ok) == [at |-> at, sfu |-> s, cur |-> cur, ok |-> ok]
NoDec == DecAt("no", None, 0, FALSE)

\* A supervisor loop at a step: the rooms it has left, the one in hand, the SFU
\* it pinged, alive_set and binding_set.
SweepAt(at, todo, r, s, alive, bound) ==
    [at |-> at, todo |-> todo, room |-> r, sfu |-> s, alive |-> alive,
     bound |-> bound]
NoSweep == SweepAt("idle", {}, None, None, {}, {})

Requests == [op : Ops, user : Users \cup {None}, room : Rooms \cup {None},
             node : Nodes \cup {None}, sfu : Sfus \cup {None}]
Decs == [at : {"no", "read", "write", "iget", "iset"}, sfu : Sfus \cup {None},
         cur : Nat, ok : BOOLEAN]
SweepStates == [at : SweepSteps, todo : SUBSET Rooms, room : Rooms \cup {None},
                sfu : Sfus \cup {None}, alive : SUBSET Nodes,
                bound : SUBSET Rooms]

\* The types of the Redis keys, of the memory of the nodes and of the threads; the
\* room count of an SFU is never negative (decrement_sfu_room_load).
TypeOK ==
    /\ bind \in [Rooms -> Bindings \cup {None}]
    /\ members \in [Rooms -> SUBSET Users]
    /\ load \in [Sfus -> Nat]
    /\ sroom \in [Users -> Rooms \cup {None}]
    /\ ready \subseteq Sfus
    /\ seen \subseteq Nodes
    /\ used \subseteq Rooms
    /\ peers \subseteq Nodes \X Rooms \X Users
    /\ local \in [Nodes \X Users -> Rooms \cup {None}]
    /\ pc \in [Procs -> Steps]
    /\ req \in [Procs -> Requests]
    /\ who \in [Procs -> SUBSET Users]
    /\ dec \in [Threads -> Decs]
    /\ sweep \in [Sweepers -> SweepStates]
    /\ up \subseteq Nodes
    /\ sfuUp \subseteq Sfus
    /\ faults \in 0..MaxFaults

Init ==
    /\ bind = [r \in Rooms |-> None]
    /\ members = [r \in Rooms |-> {}]
    /\ load = [s \in Sfus |-> 0]
    /\ sroom = [u \in Users |-> None]
    /\ ready = Sfus        \* seeded, and the first pings answered
    /\ seen = Nodes
    /\ used = {}
    /\ peers = {}
    /\ local = [c \in Nodes \X Users |-> None]
    /\ pc = [p \in Procs |-> "idle"]
    /\ req = [p \in Procs |-> NoRequest]
    /\ who = [p \in Procs |-> {}]
    /\ dec = [t \in Threads |-> NoDec]
    /\ sweep = [w \in Sweepers |-> NoSweep]
    /\ up = Nodes
    /\ sfuUp = Sfus
    /\ faults = 0

-----------------------------------------------------------------------------
(* Where a handler goes *)

Fault == faults < MaxFaults /\ faults' = faults + 1

At(p, step) == pc[p] = step /\ dec[p].at = "no"

\* create closes the room it has just assigned, join only reports.
GiveUp(p) == IF req[p].op = "create" THEN "close" ELSE "idle"

\* The end of detach_peer: leave_room and cleanup_connection go on to clear the
\* session's room, detach_stale_peers does not.
Detached(p) == IF req[p].op = "stale" THEN "idle" ELSE "clear"

\* The end of close_room_binding, by its caller.
AfterClose(p) ==
    CASE req[p].op = "create" -> "idle"
      [] req[p].op = "close" -> "cmembers"
      [] OTHER -> Detached(p)

\* Where the handler goes on when the Redis call it is at fails.
OnError(p) ==
    CASE pc[p] \in {"exists", "taken", "add", "undo"} -> GiveUp(p)
      [] pc[p] \in {"lexists", "lsrem", "lscard", "ldel"} -> Detached(p)
      [] pc[p] = "close" -> AfterClose(p)
      [] pc[p] = "cmembers" -> "csess"
      [] OTHER -> "idle"

\* A call that took effect answers, or times out on the way back.
Goes(p, step) ==
    \/ pc' = [pc EXCEPT ![p] = step] /\ UNCHANGED faults
    \/ pc' = [pc EXCEPT ![p] = OnError(p)] /\ Fault

\* A call that took no effect; an unreachable Redis makes
\* close_rooms_due_to_sfu_addr skip the rest of the room.
Lost(p) ==
    /\ dec[p].at = "no"
    /\ pc[p] \in {"assign", "route", "exists", "taken", "add", "undo", "lexists",
                  "lsrem", "lscard", "ldel", "croute", "close", "cmembers"}
    /\ Fault
    /\ \/ pc' = [pc EXCEPT ![p] = OnError(p)]
       \/ /\ pc[p] = "close" /\ req[p].op = "close"
          /\ pc' = [pc EXCEPT ![p] = "idle"]
    /\ UNCHANGED <<redis, used, memory, req, who, dec, sweep, env>>

-----------------------------------------------------------------------------
(* create and join *)

\* check_session reads the session and refreshes the in-memory one.
CreateBegin(p, u, n) ==
    /\ At(p, "idle") /\ n \in up
    /\ sroom[u] = None
    /\ local' = [local EXCEPT ![<<n, u>>] = None]
    /\ pc' = [pc EXCEPT ![p] = "assign"]
    /\ req' = [req EXCEPT ![p] = Request("create", u, None, n, None)]
    /\ UNCHANGED <<redis, used, peers, who, dec, sweep, env, faults>>

\* The SFUs the script may pick.
Best ==
    LET open == {s \in ready : load[s] < MaxRooms}
    IN  {s \in open : \A t \in open : load[s] <= load[t]}

\* ASSIGN_ROOM_TO_SFU_LUA, atomic
Assign(p, r, s) ==
    /\ At(p, "assign") /\ r \notin used /\ s \in Best
    /\ bind[r] = None
    /\ used' = used \cup {r}
    /\ bind' = [bind EXCEPT ![r] = <<req[p].node, s>>]
    /\ load' = [load EXCEPT ![s] = @ + 1]
    /\ req' = [req EXCEPT ![p] = Request("create", req[p].user, r, req[p].node, s)]
    /\ Goes(p, "exists")
    /\ UNCHANGED <<members, sroom, memory, who, dec, sweep, env>>

\* No ready SFU has room for it.  A model out of room ids answers the same.
NoCapacity(p) ==
    /\ At(p, "assign") /\ (Best = {} \/ used = Rooms)
    /\ pc' = [pc EXCEPT ![p] = "idle"]
    /\ UNCHANGED <<redis, used, memory, req, who, dec, sweep, env, faults>>

JoinBegin(p, u, r, n) ==
    /\ At(p, "idle") /\ n \in up /\ r \in used
    /\ sroom[u] = None
    /\ local' = [local EXCEPT ![<<n, u>>] = None]
    /\ pc' = [pc EXCEPT ![p] = "route"]
    /\ req' = [req EXCEPT ![p] = Request("join", u, r, n, None)]
    /\ UNCHANGED <<redis, used, peers, who, dec, sweep, env, faults>>

\* get_room_route and is_local_target
JoinRoute(p) ==
    /\ At(p, "route")
    /\ LET b == bind[req[p].room]
       IN  IF b # None /\ b[1] = req[p].node
           THEN /\ req' = [req EXCEPT ![p] =
                             Request("join", req[p].user, req[p].room, b[1], b[2])]
                /\ pc' = [pc EXCEPT ![p] = "exists"]
           ELSE /\ pc' = [pc EXCEPT ![p] = "idle"]
                /\ UNCHANGED req
    /\ UNCHANGED <<redis, used, memory, who, dec, sweep, env, faults>>

\* join_room: EXISTS, SISMEMBER and SADD, one after the other
JoinExists(p) ==
    /\ At(p, "exists")
    /\ pc' = [pc EXCEPT ![p] = IF bind[req[p].room] = None THEN GiveUp(p)
                                                          ELSE "taken"]
    /\ UNCHANGED <<redis, used, memory, req, who, dec, sweep, env, faults>>

JoinTaken(p) ==
    /\ At(p, "taken")
    /\ pc' = [pc EXCEPT ![p] = IF req[p].user \in members[req[p].room]
                               THEN GiveUp(p) ELSE "add"]
    /\ UNCHANGED <<redis, used, memory, req, who, dec, sweep, env, faults>>

\* Mutant: a join refreshes the binding with an HSET.
JoinAddRebinds(p) ==
    /\ At(p, "add")
    /\ members' = [members EXCEPT ![req[p].room] = @ \cup {req[p].user}]
    /\ bind' = [bind EXCEPT ![req[p].room] = <<req[p].node, req[p].sfu>>]
    /\ Goes(p, "peer")
    /\ UNCHANGED <<load, sroom, used, memory, req, who, dec, sweep, env>>

JoinAdd(p) ==
    /\ At(p, "add")
    /\ members' = [members EXCEPT ![req[p].room] = @ \cup {req[p].user}]
    /\ Goes(p, "peer")
    /\ UNCHANGED <<bind, load, sroom, used, memory, req, who, dec, sweep, env>>

\* ensure_peer
PeerCreated(p) ==
    /\ At(p, "peer") /\ req[p].sfu \in sfuUp
    /\ pc' = [pc EXCEPT ![p] = "enter"]
    /\ UNCHANGED <<redis, used, memory, req, who, dec, sweep, env, faults>>

\* The SFU is down; or it refuses the peer, or the call times out.
PeerFails(p) ==
    /\ At(p, "peer")
    /\ IF req[p].sfu \in sfuUp THEN Fault ELSE UNCHANGED faults
    /\ pc' = [pc EXCEPT ![p] = "undo"]
    /\ UNCHANGED <<redis, used, memory, req, who, dec, sweep, env>>

\* srem_member
Undo(p) ==
    /\ At(p, "undo")
    /\ members' = [members EXCEPT ![req[p].room] = @ \ {req[p].user}]
    /\ Goes(p, GiveUp(p))
    /\ UNCHANGED <<bind, load, sroom, used, memory, req, who, dec, sweep, env>>

\* session_set_room; if it fails, the member and the peer are left behind.
\* sessions.set_room does nothing if the cleanup of another connection has
\* removed the session from memory.
Enter(p) ==
    LET u == req[p].user
        c == <<req[p].node, u>>
        entered == [sroom EXCEPT ![u] = req[p].room]
    IN  /\ At(p, "enter")
        /\ \/ /\ sroom' = entered
              /\ \/ local' = [local EXCEPT ![c] = req[p].room]
                 \/ local[c] = None /\ UNCHANGED local
              /\ pc' = [pc EXCEPT ![p] = "register"]
              /\ UNCHANGED faults
           \/ /\ sroom' \in {sroom, entered}
              /\ pc' = [pc EXCEPT ![p] = "idle"]
              /\ Fault
              /\ UNCHANGED local
        /\ UNCHANGED <<bind, members, load, used, peers, req, who, dec, sweep, env>>

\* The answer is written to the socket; only then the peer is registered.
Register(p) ==
    /\ At(p, "register")
    /\ pc' = [pc EXCEPT ![p] = "idle"]
    /\ \/ /\ peers' = peers \cup {<<req[p].node, req[p].room, req[p].user>>}
          /\ UNCHANGED faults
       \/ Fault /\ UNCHANGED peers
    /\ UNCHANGED <<redis, used, local, req, who, dec, sweep, env>>

-----------------------------------------------------------------------------
(* leave, disconnect and stale peers: detach_peer *)

LeaveBegin(p, u, n) ==
    /\ At(p, "idle") /\ n \in up
    /\ sroom[u] # None
    /\ local' = [local EXCEPT ![<<n, u>>] = sroom[u]]
    /\ pc' = [pc EXCEPT ![p] = "detach"]
    /\ req' = [req EXCEPT ![p] = Request("leave", u, sroom[u], n, None)]
    /\ UNCHANGED <<redis, used, peers, who, dec, sweep, env, faults>>

\* cleanup_connection takes the room of the in-memory session, and asks Redis
\* only when the node has no such session; local is None then, as it is for a
\* session in no room.
CleanupBegin(p, u, n) ==
    LET r == IF local[<<n, u>>] # None THEN local[<<n, u>>] ELSE sroom[u]
    IN  /\ At(p, "idle") /\ n \in up
        /\ r # None
        /\ pc' = [pc EXCEPT ![p] = "detach"]
        /\ req' = [req EXCEPT ![p] = Request("cleanup", u, r, n, None)]
        /\ UNCHANGED <<redis, used, memory, who, dec, sweep, env, faults>>

\* A peer whose outbound channel is full or closed
StaleBegin(p, u, r, n) ==
    /\ At(p, "idle") /\ n \in up /\ <<n, r, u>> \in peers
    /\ pc' = [pc EXCEPT ![p] = "detach"]
    /\ req' = [req EXCEPT ![p] = Request("stale", u, r, n, None)]
    /\ UNCHANGED <<redis, used, memory, who, dec, sweep, env, faults>>

\* Redis cannot be reached: leave_room returns the error, cleanup_connection
\* forgets the session and leaves the room to others.
Unreachable(p) ==
    LET c == <<req[p].node, req[p].user>>
    IN  /\ At(p, "detach") /\ req[p].op \in {"leave", "cleanup"}
        /\ Fault
        /\ pc' = [pc EXCEPT ![p] = "idle"]
        /\ local' = IF req[p].op = "cleanup" THEN [local EXCEPT ![c] = None] ELSE local
        /\ UNCHANGED <<redis, used, peers, req, who, dec, sweep, env>>

\* peers.unregister, after a look at the route
Detach(p) ==
    /\ At(p, "detach")
    /\ peers' = peers \ {<<req[p].node, req[p].room, req[p].user>>}
    /\ pc' = [pc EXCEPT ![p] = "lexists"]
    /\ UNCHANGED <<redis, used, local, req, who, dec, sweep, env, faults>>

\* redis leave_room: EXISTS, SREM, SCARD and DEL, one after the other
LeaveExists(p) ==
    /\ At(p, "lexists")
    /\ pc' = [pc EXCEPT ![p] = IF bind[req[p].room] = None THEN Detached(p)
                                                          ELSE "lsrem"]
    /\ UNCHANGED <<redis, used, memory, req, who, dec, sweep, env, faults>>

LeaveRemove(p) ==
    LET u == req[p].user
        r == req[p].room
    IN  /\ At(p, "lsrem")
        /\ members' = [members EXCEPT ![r] = @ \ {u}]
        /\ Goes(p, IF u \in members[r] THEN "lscard" ELSE Detached(p))
        /\ UNCHANGED <<bind, load, sroom, used, memory, req, who, dec, sweep, env>>

LeaveCount(p) ==
    /\ At(p, "lscard")
    /\ pc' = [pc EXCEPT ![p] = IF members[req[p].room] = {} THEN "ldel"
                                                            ELSE Detached(p)]
    /\ UNCHANGED <<redis, used, memory, req, who, dec, sweep, env, faults>>

\* Mutant: the member set is deleted, the binding is forgotten.
LeaveDeleteOnly(p) ==
    /\ At(p, "ldel")
    /\ members' = [members EXCEPT ![req[p].room] = {}]
    /\ Goes(p, Detached(p))
    /\ UNCHANGED <<bind, load, sroom, used, memory, req, who, dec, sweep, env>>

LeaveDelete(p) ==
    /\ At(p, "ldel")
    /\ members' = [members EXCEPT ![req[p].room] = {}]
    /\ Goes(p, "close")
    /\ UNCHANGED <<bind, load, sroom, used, memory, req, who, dec, sweep, env>>

\* session_set_room(None).  leave_room returns its error; cleanup_connection
\* forgets the session in any case.
Clear(p) ==
    LET u == req[p].user
        cleared == [sroom EXCEPT ![u] = None]
        forgotten == [local EXCEPT ![<<req[p].node, u>>] = None]
    IN  /\ At(p, "clear")
        /\ pc' = [pc EXCEPT ![p] = "idle"]
        /\ \/ sroom' = cleared /\ local' = forgotten /\ UNCHANGED faults
           \/ /\ sroom' \in {sroom, cleared} /\ Fault
              /\ local' = IF req[p].op = "cleanup" THEN forgotten ELSE local
        /\ UNCHANGED <<bind, members, load, used, peers, req, who, dec, sweep, env>>

-----------------------------------------------------------------------------
(* close_rooms_due_to_sfu_addr, for one room of its snapshot *)

RoomPeers(n, r) == {u \in Users : <<n, r, u>> \in peers}

\* The event stream of the SFU broke, or the supervisor asked.
CloseBegin(p, r, n) ==
    /\ At(p, "idle") /\ n \in up
    /\ RoomPeers(n, r) # {}
    /\ pc' = [pc EXCEPT ![p] = "croute"]
    /\ req' = [req EXCEPT ![p] = Request("close", None, r, n, None)]
    /\ who' = [who EXCEPT ![p] = RoomPeers(n, r)]
    /\ UNCHANGED <<redis, used, memory, dec, sweep, env, faults>>

\* The peers of the snapshot and those that cannot be told are unregistered;
\* sessions.clear_room yields the sessions to update.
CloseRoute(p) ==
    LET n == req[p].node
        r == req[p].room
    IN  /\ At(p, "croute")
        /\ IF bind[r] = None
           THEN /\ pc' = [pc EXCEPT ![p] = "idle"]
                /\ UNCHANGED <<peers, local, who>>
           ELSE /\ \E stale \in SUBSET RoomPeers(n, r) :
                     peers' = peers \ {<<n, r, u>> : u \in who[p] \cup stale}
                /\ who' = [who EXCEPT ![p] =
                              {u \in Users : local[<<n, u>>] = r}]
                /\ local' = [c \in Nodes \X Users |->
                                IF c[1] = n /\ local[c] = r THEN None
                                                          ELSE local[c]]
                /\ pc' = [pc EXCEPT ![p] = "close"]
        /\ UNCHANGED <<redis, used, req, dec, sweep, env, faults>>

\* delete_room
CloseMembers(p) ==
    /\ At(p, "cmembers")
    /\ members' = [members EXCEPT ![req[p].room] = {}]
    /\ Goes(p, "csess")
    /\ UNCHANGED <<bind, load, sroom, used, memory, req, who, dec, sweep, env>>

CloseSession(p, u) ==
    /\ At(p, "csess") /\ u \in who[p]
    /\ who' = [who EXCEPT ![p] = @ \ {u}]
    /\ \/ sroom' = [sroom EXCEPT ![u] = None] /\ UNCHANGED faults
       \/ Fault /\ UNCHANGED sroom
    /\ UNCHANGED <<bind, members, load, used, memory, pc, req, dec, sweep, env>>

CloseDone(p) ==
    /\ At(p, "csess") /\ who[p] = {}
    /\ pc' = [pc EXCEPT ![p] = "idle"]
    /\ UNCHANGED <<redis, used, memory, req, who, dec, sweep, env, faults>>

-----------------------------------------------------------------------------
(* close_room_binding and decrement_sfu_room_load *)

\* Mutant: the answer of HGET is used although DEL removed nothing.
CloseBindingBlind(p) ==
    LET r == req[p].room
    IN  /\ At(p, "close")
        /\ pc' = [pc EXCEPT ![p] = AfterClose(p)]
        /\ bind' = [bind EXCEPT ![r] = None]
        /\ \E s \in Sfus :
              /\ bind[r] # None => s = bind[r][2]
              /\ dec' = [dec EXCEPT ![p] = DecAt("read", s, 0, FALSE)]
        /\ UNCHANGED <<members, load, sroom, used, memory, req, who, sweep, env,
                       faults>>

\* HGET and DEL, as one step: a binding that is gone stays gone, so nothing can
\* happen between them that the DEL does not see.  If the call times out, the
\* binding may be gone and the load is not lowered.
CloseBinding(p) ==
    LET r == req[p].room
    IN  /\ At(p, "close")
        /\ pc' = [pc EXCEPT ![p] = AfterClose(p)]
        /\ bind' = [bind EXCEPT ![r] = None]
        /\ \/ /\ dec' = IF bind[r] = None THEN dec
                       ELSE [dec EXCEPT ![p] = DecAt("read", bind[r][2], 0, FALSE)]
              /\ UNCHANGED faults
           \/ Fault /\ UNCHANGED dec
        /\ UNCHANGED <<members, load, sroom, used, memory, req, who, sweep, env>>

DecRead(t) ==
    /\ dec[t].at = "read"
    /\ dec' = [dec EXCEPT ![t] = DecAt("write", dec[t].sfu, load[dec[t].sfu], FALSE)]
    /\ UNCHANGED <<redis, used, memory, procs, sweep, env, faults>>

\* Mutant: the count is not kept from going below zero.
DecWriteBelow(t) ==
    LET next == dec[t].cur - 1
    IN  /\ dec[t].at = "write"
        /\ load' = [load EXCEPT ![dec[t].sfu] = next]
        /\ dec' = [dec EXCEPT ![t] = NoDec]
        /\ UNCHANGED <<bind, members, sroom, used, memory, procs, sweep, env, faults>>

DecWrite(t) ==
    LET next == IF dec[t].cur <= 1 THEN 0 ELSE dec[t].cur - 1
    IN  /\ dec[t].at = "write"
        /\ load' = [load EXCEPT ![dec[t].sfu] = next]
        /\ \/ /\ dec' = [dec EXCEPT ![t] =
                          IF next = 0 THEN DecAt("iget", dec[t].sfu, 0, FALSE)
                                      ELSE NoDec]
              /\ UNCHANGED faults
           \/ dec' = [dec EXCEPT ![t] = NoDec] /\ Fault
        /\ UNCHANGED <<bind, members, sroom, used, memory, procs, sweep, env>>

\* update_sfu_idle_since reads the whole record of the SFU and writes it back,
\* whatever was written to it meanwhile.
IdleGet(t) ==
    /\ dec[t].at = "iget"
    /\ dec' = [dec EXCEPT ![t] = DecAt("iset", dec[t].sfu, 0, dec[t].sfu \in ready)]
    /\ UNCHANGED <<redis, used, memory, procs, sweep, env, faults>>

IdleSet(t) ==
    /\ dec[t].at = "iset"
    /\ dec' = [dec EXCEPT ![t] = NoDec]
    /\ ready' = IF dec[t].ok THEN ready \cup {dec[t].sfu}
                             ELSE ready \ {dec[t].sfu}
    /\ UNCHANGED <<redis, used, memory, procs, sweep, seen, up, sfuUp, faults>>

DecLost(t) ==
    /\ dec[t].at # "no"
    /\ dec' = [dec EXCEPT ![t] = NoDec]
    /\ Fault
    /\ UNCHANGED <<redis, used, memory, procs, sweep, env>>

-----------------------------------------------------------------------------
(* supervisor *)

SweepIs(w, at) == w \in Sweepers /\ sweep[w].at = at /\ dec[w].at = "no"

\* One loop moves on; everything but its state and the named parts is left alone.
SweepTo(w, next) == sweep' = [sweep EXCEPT ![w] = next]

OpenRooms == {r \in Rooms : bind[r] # None}

\* The loop in hand, at another step and with other rooms left.
With(w, at, todo, r) ==
    SweepAt(at, todo, r, sweep[w].sfu, sweep[w].alive, sweep[w].bound)

\* sfu_probe_loop: ping and update_sfu_health
ProbePing(s) ==
    /\ SweepIs("probe", "idle")
    /\ \/ s \in sfuUp /\ ready' = ready \cup {s} /\ UNCHANGED <<sweep, faults>>
       \/ /\ IF s \in sfuUp THEN Fault ELSE UNCHANGED faults
          /\ ready' = ready \ {s}
          /\ SweepTo("probe", SweepAt("scan", {}, None, s, {}, {}))
    /\ UNCHANGED <<redis, used, memory, procs, dec, seen, up, sfuUp>>

\* handle_dead_sfu; the CloseRoomsBySfu call it makes only starts a
\* close_rooms_due_to_sfu_addr task on the owner.
ProbeScan ==
    /\ SweepIs("probe", "scan")
    /\ SweepTo("probe", With("probe", "loop", OpenRooms, None))
    /\ UNCHANGED <<redis, used, memory, procs, dec, env, faults>>

\* run_janitor_iteration: alive_signaling_nodes
JanitorAlive ==
    /\ SweepIs("janitor", "idle")
    /\ SweepTo("janitor", SweepAt("scan", {}, None, None, seen, {}))
    /\ UNCHANGED <<redis, used, memory, procs, dec, env, faults>>

JanitorScan ==
    /\ SweepIs("janitor", "scan")
    /\ SweepTo("janitor", SweepAt("loop", OpenRooms, None, None,
                                  sweep["janitor"].alive, OpenRooms))
    /\ UNCHANGED <<redis, used, memory, procs, dec, env, faults>>

\* Mutant: both loops look at the SFU.
DoomedBySfu(w, b) == b # None /\ b[2] = sweep[w].sfu

\* Is the binding one the loop is after?
Doomed(w, b) ==
    /\ b # None
    /\ IF w = "probe" THEN b[2] = sweep[w].sfu ELSE b[1] \notin sweep[w].alive

\* Mutant: a room whose node can be reached is left to the node.
SweepGetTrusting(w, r) ==
    /\ SweepIs(w, "loop") /\ r \in sweep[w].todo
    /\ IF Doomed(w, bind[r]) /\ ~(w = "probe" /\ bind[r][1] \in up)
       THEN /\ SweepTo(w, With(w, "unbind", sweep[w].todo \ {r}, r))
            /\ dec' = [dec EXCEPT ![w] = DecAt("read", bind[r][2], 0, FALSE)]
       ELSE /\ SweepTo(w, With(w, "loop", sweep[w].todo \ {r}, None))
            /\ UNCHANGED dec
    /\ UNCHANGED <<redis, used, memory, procs, env, faults>>

\* get_room_assignment, then the unconditional decrement
SweepGet(w, r) ==
    /\ SweepIs(w, "loop") /\ r \in sweep[w].todo
    /\ IF Doomed(w, bind[r])
       THEN /\ SweepTo(w, With(w, "unbind", sweep[w].todo \ {r}, r))
            /\ dec' = [dec EXCEPT ![w] = DecAt("read", bind[r][2], 0, FALSE)]
       ELSE /\ SweepTo(w, With(w, "loop", sweep[w].todo \ {r}, None))
            /\ UNCHANGED dec
    /\ UNCHANGED <<redis, used, memory, procs, env, faults>>

\* delete_room_assignment
SweepUnbind(w) ==
    /\ SweepIs(w, "unbind")
    /\ bind' = [bind EXCEPT ![sweep[w].room] = None]
    /\ SweepTo(w, With(w, "members", sweep[w].todo, sweep[w].room))
    /\ UNCHANGED <<members, load, sroom, used, memory, procs, dec, env, faults>>

\* delete_signaling_room_members
SweepMembers(w) ==
    /\ SweepIs(w, "members")
    /\ members' = [members EXCEPT ![sweep[w].room] = {}]
    /\ SweepTo(w, With(w, "loop", sweep[w].todo, None))
    /\ UNCHANGED <<bind, load, sroom, used, memory, procs, dec, env, faults>>

ProbeDone ==
    /\ SweepIs("probe", "loop") /\ sweep["probe"].todo = {}
    /\ SweepTo("probe", NoSweep)
    /\ UNCHANGED <<redis, used, memory, procs, dec, env, faults>>

\* Mutant: the member sets of the rooms that were bound.
JanitorOrphansBound ==
    LET w == "janitor"
    IN  /\ SweepIs(w, "loop") /\ sweep[w].todo = {}
        /\ SweepTo(w, With(w, "orphans",
                           {r \in Rooms : members[r] # {}} \cap sweep[w].bound, None))
        /\ UNCHANGED <<redis, used, memory, procs, dec, env, faults>>

\* Member sets whose room was not in the earlier scan of the bindings
JanitorOrphans ==
    LET w == "janitor"
    IN  /\ SweepIs(w, "loop") /\ sweep[w].todo = {}
        /\ SweepTo(w, With(w, "orphans",
                           {r \in Rooms : members[r] # {}} \ sweep[w].bound, None))
        /\ UNCHANGED <<redis, used, memory, procs, dec, env, faults>>

JanitorDelete(r) ==
    LET w == "janitor"
    IN  /\ SweepIs(w, "orphans") /\ r \in sweep[w].todo
        /\ members' = [members EXCEPT ![r] = {}]
        /\ SweepTo(w, With(w, "orphans", sweep[w].todo \ {r}, None))
        /\ UNCHANGED <<bind, load, sroom, used, memory, procs, dec, env, faults>>

JanitorDone ==
    /\ SweepIs("janitor", "orphans") /\ sweep["janitor"].todo = {}
    /\ SweepTo("janitor", NoSweep)
    /\ UNCHANGED <<redis, used, memory, procs, dec, env, faults>>

\* A failed delete is logged and the loop goes on, and so does handle_dead_sfu
\* when it cannot read a binding; any other failure ends the iteration.
SweepLost(w) ==
    LET at == sweep[w].at
        todo == sweep[w].todo
    IN  /\ w \in Sweepers /\ dec[w].at = "no"
        /\ Fault
        /\ \/ /\ at = "scan" \/ (at = "loop" /\ w = "janitor")
              /\ SweepTo(w, NoSweep)
           \/ /\ at = "orphans" \/ (at = "loop" /\ w = "probe")
              /\ \E r \in todo : SweepTo(w, With(w, at, todo \ {r}, None))
           \/ at = "unbind" /\ SweepTo(w, With(w, "members", todo, sweep[w].room))
           \/ at = "members" /\ SweepTo(w, With(w, "loop", todo, None))
        /\ UNCHANGED <<redis, used, memory, procs, dec, env>>

-----------------------------------------------------------------------------
(* Failures and heartbeats *)

Crash(n) ==
    /\ n \in up /\ Fault
    /\ up' = up \ {n}
    /\ peers' = {x \in peers : x[1] # n}
    /\ local' = [c \in Nodes \X Users |-> IF c[1] = n THEN None ELSE local[c]]
    /\ pc' = [p \in Procs |-> IF req[p].node = n THEN "idle" ELSE pc[p]]
    /\ dec' = [t \in Threads |-> IF t \in Procs /\ req[t].node = n THEN NoDec
                                                                 ELSE dec[t]]
    /\ UNCHANGED <<redis, used, req, who, sweep, ready, seen, sfuUp>>

Restart(n) ==
    /\ n \notin up
    /\ up' = up \cup {n}
    /\ UNCHANGED <<redis, used, memory, procs, dec, sweep, ready, seen, sfuUp, faults>>

\* probe_signaling_instance answers, or has not for the stale time.
Beat(n) ==
    /\ n \in up /\ n \notin seen
    /\ seen' = seen \cup {n}
    /\ UNCHANGED <<redis, used, memory, procs, dec, sweep, ready, up, sfuUp, faults>>

Expire(n) ==
    /\ n \in seen
    /\ IF n \in up THEN Fault ELSE UNCHANGED faults
    /\ seen' = seen \ {n}
    /\ UNCHANGED <<redis, used, memory, procs, dec, sweep, ready, up, sfuUp>>

SfuDown(s) ==
    /\ s \in sfuUp /\ Fault
    /\ sfuUp' = sfuUp \ {s}
    /\ UNCHANGED <<redis, used, memory, procs, dec, sweep, ready, seen, up>>

SfuRestart(s) ==
    /\ s \notin sfuUp
    /\ sfuUp' = sfuUp \cup {s}
    /\ UNCHANGED <<redis, used, memory, procs, dec, sweep, ready, seen, up, faults>>

\* No ping for 30 seconds
PingStale(s) ==
    /\ s \in ready /\ Fault
    /\ ready' = ready \ {s}
    /\ UNCHANGED <<redis, used, memory, procs, dec, sweep, seen, up, sfuUp>>

-----------------------------------------------------------------------------
Begins(p) ==
    \E n \in Nodes :
        \/ \E u \in Users : \/ CreateBegin(p, u, n) \/ LeaveBegin(p, u, n)
                            \/ CleanupBegin(p, u, n)
                            \/ \E r \in Rooms : \/ JoinBegin(p, u, r, n)
                                                \/ StaleBegin(p, u, r, n)
        \/ \E r \in Rooms : CloseBegin(p, r, n)

Handles(p) ==
    \/ \E r \in Rooms, s \in Sfus : Assign(p, r, s)
    \/ NoCapacity(p) \/ JoinRoute(p) \/ JoinExists(p) \/ JoinTaken(p)
    \/ JoinAdd(p) \/ PeerCreated(p) \/ PeerFails(p) \/ Undo(p) \/ Enter(p)
    \/ Register(p) \/ Unreachable(p) \/ Detach(p) \/ LeaveExists(p) \/ LeaveRemove(p)
    \/ LeaveCount(p) \/ LeaveDelete(p) \/ Clear(p) \/ CloseRoute(p)
    \/ CloseBinding(p) \/ CloseMembers(p) \/ CloseDone(p) \/ Lost(p)
    \/ \E u \in Users : CloseSession(p, u)

Decrements(t) == DecRead(t) \/ DecWrite(t) \/ IdleGet(t) \/ IdleSet(t) \/ DecLost(t)

Sweeps(w) ==
    \/ \E r \in Rooms : SweepGet(w, r)
    \/ SweepUnbind(w) \/ SweepMembers(w) \/ SweepLost(w)

Probes == ProbeScan \/ ProbeDone \/ \E s \in Sfus : ProbePing(s)

Janitors ==
    \/ JanitorAlive \/ JanitorScan \/ JanitorOrphans \/ JanitorDone
    \/ \E r \in Rooms : JanitorDelete(r)

Next ==
    \/ \E p \in Procs : Begins(p) \/ Handles(p)
    \/ \E t \in Threads : Decrements(t)
    \/ \E w \in Sweepers : Sweeps(w)
    \/ Probes \/ Janitors
    \/ \E n \in Nodes : Crash(n) \/ Restart(n) \/ Beat(n) \/ Expire(n)
    \/ \E s \in Sfus : SfuDown(s) \/ SfuRestart(s) \/ PingStale(s)

Spec == Init /\ [][Next]_vars

\* Handlers and decrements under way run on, the janitor keeps iterating, and
\* the probe loop visits every SFU in each of its rounds.
FairSpec ==
    /\ Spec
    /\ \A p \in Procs : WF_vars(Handles(p))
    /\ \A t \in Threads : WF_vars(Decrements(t))
    /\ \A w \in Sweepers : WF_vars(Sweeps(w))
    /\ WF_vars(Janitors)
    /\ WF_vars(ProbeScan \/ ProbeDone)
    /\ \A s \in Sfus : SF_vars(ProbePing(s))

-----------------------------------------------------------------------------
(* Properties *)

Closing(p) == dec[p].at \in {"read", "write"}

\* However many handlers close a room at once, the last leaver, the compensation
\* of create and close_rooms_due_to_sfu_addr, one of them lowers the load of its
\* SFU: close_room_binding trusts the count that DEL returns.
LoweredOnce ==
    \A p, q \in Procs :
        Closing(p) =>
            /\ bind[req[p].room] = None
            /\ Closing(q) /\ req[q].room = req[p].room => p = q

\* Someone is about to fill room r or to find it empty.
Attended(r) ==
    \E p \in Procs :
        req[p].room = r /\ pc[p] \in {"exists", "taken", "add", "lscard", "ldel",
                                     "close"}

\* A room does not outlive its members: as long as nothing has failed and no
\* janitor has run, a room that is bound and empty has a handler at work on it
\* that will see so, however SREM, SCARD, DEL and SADD of leavers and joiners
\* interleave.
NoEmptyRoomStays ==
    (faults = 0 /\ "janitor" \notin Sweepers) =>
        \A r \in Rooms : bind[r] # None /\ members[r] = {} => Attended(r)

stage == [r \in Rooms |-> IF r \notin used THEN "unused"
                          ELSE IF bind[r] = None THEN "closed" ELSE "open"]

Lifecycle == INSTANCE RoomLifecycle WITH place <- bind, Places <- Bindings,
                                         Nowhere <- None

\* Every handler, sweep and failure together keep to the life cycle of a room:
\* opened once, on one node and one SFU, never moved and never opened again.
RefinesLifecycle == Lifecycle!Spec

\* A room whose node the supervisor has lost is closed, unless the node returns.
DeadNodeReclaimed ==
    \A r \in Rooms, b \in Bindings :
        bind[r] = b /\ b[1] \notin seen ~> bind[r] = None \/ b[1] \in seen

\* A room on a dead SFU is closed, unless the SFU returns.
DeadSfuReclaimed ==
    \A r \in Rooms, b \in Bindings :
        bind[r] = b /\ b[2] \notin sfuUp ~> bind[r] = None \/ b[2] \in sfuUp

\* The members left behind by a join that raced with the close are removed.
OrphansReclaimed ==
    \A r \in Rooms :
        r \in used /\ bind[r] = None /\ members[r] # {} ~> members[r] = {}
=============================================================================

--------------------------- MODULE RoomPlaneProofs ---------------------------
(***************************************************************************)
(* Proofs about RoomPlane, for any number of users, rooms, nodes, SFUs and  *)
(* handlers, with and without the supervisor loops.                        *)
(*                                                                         *)
(* Everything rests on Linked: whatever names a room, a key in Redis, an   *)
(* entry in a node's memory, a handler or a sweep, names one that create   *)
(* drew.  Create draws an id once, so a binding that is gone stays gone.   *)
(***************************************************************************)
EXTENDS RoomPlane, TLAPS

\* Steps at which a handler has a room, and those at which it has a user.
RoomSteps == Steps \ {"idle", "assign"}
UserSteps == Steps \ {"idle", "croute", "close", "cmembers", "csess"}

\* Redis names only drawn rooms.
LinkedKeys == \A r \in Rooms : bind[r] # None \/ members[r] # {} => r \in used

LinkedSessions ==
    /\ \A u \in Users : sroom[u] \in used \cup {None}
    /\ \A c \in Nodes \X Users : local[c] \in used \cup {None}
    /\ \A n \in Nodes, r \in Rooms, u \in Users : <<n, r, u>> \in peers => r \in used

\* A handler has the room, the user and the node that its step needs.
LinkedProc(p) ==
    /\ pc[p] \in RoomSteps \/ dec[p].at # "no" => req[p].room \in used
    /\ pc[p] \in UserSteps => req[p].user \in Users
    /\ pc[p] # "idle" => req[p].node \in Nodes
    /\ pc[p] = "croute" => req[p].op = "close"
    /\ pc[p] = "close" /\ req[p].op # "create" /\ req[p].op # "close"
         => req[p].user \in Users

LinkedThreads ==
    /\ \A t \in Threads : dec[t].at # "no" => dec[t].sfu \in Sfus
    /\ \A w \in Sweepers :
        sweep[w].at \in {"unbind", "members"} => sweep[w].room \in used

\* Every room named anywhere has been drawn.
Linked ==
    LinkedKeys /\ LinkedSessions /\ (\A p \in Procs : LinkedProc(p)) /\ LinkedThreads

-----------------------------------------------------------------------------
\* The helpers that say where a handler goes name a step.
LEMMA StepTypes ==
    ASSUME NEW p \in Procs
    PROVE  /\ GiveUp(p) \in {"close", "idle"}
           /\ Detached(p) \in {"idle", "clear"}
           /\ AfterClose(p) \in {"idle", "cmembers", "clear"}
           /\ OnError(p) \in {"idle", "close", "clear", "cmembers", "csess"}
<1>1. GiveUp(p) \in {"close", "idle"} /\ Detached(p) \in {"idle", "clear"}
  BY DEF GiveUp, Detached
<1>2. AfterClose(p) \in {"idle", "cmembers", "clear"}
  BY <1>1 DEF AfterClose
<1> QED
  BY <1>1, <1>2 DEF OnError

\* What Goes does to pc and faults.
LEMMA GoesTypes ==
    ASSUME TypeOK, NEW p \in Procs, NEW step \in Steps, Goes(p, step)
    PROVE  pc' \in [Procs -> Steps] /\ faults' \in 0..MaxFaults
<1>1. OnError(p) \in Steps
  BY StepTypes DEF Steps
<1> QED
  BY <1>1, BoundAssumption DEF Goes, Fault, TypeOK

LEMMA FaultType ==
    ASSUME TypeOK, Fault
    PROVE  faults' \in 0..MaxFaults
BY BoundAssumption DEF Fault, TypeOK

\* The records the actions build.
LEMMA RequestType ==
    ASSUME NEW op \in Ops, NEW u \in Users \cup {None},
           NEW r \in Rooms \cup {None}, NEW n \in Nodes \cup {None},
           NEW s \in Sfus \cup {None}
    PROVE  Request(op, u, r, n, s) \in Requests
BY DEF Request, Requests

LEMMA DecType ==
    ASSUME NEW at \in {"no", "read", "write", "iget", "iset"},
           NEW s \in Sfus \cup {None}, NEW cur \in Nat, NEW ok \in BOOLEAN
    PROVE  DecAt(at, s, cur, ok) \in Decs
BY DEF DecAt, Decs

LEMMA NoDecType == NoDec \in Decs
BY DecType DEF NoDec

LEMMA SweepType ==
    ASSUME NEW at \in SweepSteps, NEW todo \in SUBSET Rooms,
           NEW r \in Rooms \cup {None}, NEW s \in Sfus \cup {None},
           NEW alive \in SUBSET Nodes, NEW bound \in SUBSET Rooms
    PROVE  SweepAt(at, todo, r, s, alive, bound) \in SweepStates
BY DEF SweepAt, SweepStates

LEMMA NoSweepType == NoSweep \in SweepStates
<1>1. "idle" \in SweepSteps
  BY DEF SweepSteps
<1> QED
  BY <1>1, SweepType DEF NoSweep

LEMMA WithType ==
    ASSUME TypeOK, NEW w \in Sweepers, NEW at \in SweepSteps,
           NEW todo \in SUBSET Rooms, NEW r \in Rooms \cup {None}
    PROVE  With(w, at, todo, r) \in SweepStates
<1>1. /\ sweep[w].sfu \in Sfus \cup {None}
      /\ sweep[w].alive \in SUBSET Nodes
      /\ sweep[w].bound \in SUBSET Rooms
  BY DEF TypeOK, SweepStates
<1> QED
  BY <1>1, SweepType DEF With

\* The parts of a binding.
LEMMA BindingParts ==
    ASSUME NEW b \in Bindings
    PROVE  b[1] \in Nodes /\ b[2] \in Sfus /\ b = <<b[1], b[2]>>
BY DEF Bindings

-----------------------------------------------------------------------------
LEMMA InitLinked == Init => TypeOK /\ Linked
<1> SUFFICES ASSUME Init PROVE TypeOK /\ Linked
  OBVIOUS
<1>1. NoRequest \in Requests
  BY DEF NoRequest, Request, Requests, Ops
<1>2. "idle" \in Steps
  BY DEF Steps
<1>3. TypeOK
  BY <1>1, <1>2, NoDecType, NoSweepType, BoundAssumption DEF Init, TypeOK
<1>4. Linked
  BY DEF Init, Linked, LinkedKeys, LinkedSessions, LinkedProc, LinkedThreads, NoDec, DecAt, NoSweep, SweepAt, RoomSteps, UserSteps,
         Threads
<1> QED
  BY <1>3, <1>4

-----------------------------------------------------------------------------
(* Types *)

\* A step of a handler that starts a request.
LEMMA BeginTypes ==
    ASSUME TypeOK, Linked, NEW p \in Procs, Begins(p)
    PROVE  TypeOK'
<1> USE DEF TypeOK
<1>0. "assign" \in Steps /\ "route" \in Steps /\ "detach" \in Steps
      /\ "croute" \in Steps
  BY DEF Steps
<1>1. ASSUME NEW u \in Users, NEW n \in Nodes, CreateBegin(p, u, n)
      PROVE  TypeOK'
  <2>1. Request("create", u, None, n, None) \in Requests
    BY RequestType DEF Ops
  <2> QED
    BY <1>0, <1>1, <2>1 DEF CreateBegin, redis, env
<1>2. ASSUME NEW u \in Users, NEW n \in Nodes, LeaveBegin(p, u, n)
      PROVE  TypeOK'
  <2>1. Request("leave", u, sroom[u], n, None) \in Requests
    BY RequestType DEF Ops
  <2> QED
    BY <1>0, <1>2, <2>1 DEF LeaveBegin, redis, env
<1>3. ASSUME NEW u \in Users, NEW n \in Nodes, CleanupBegin(p, u, n)
      PROVE  TypeOK'
  <2> DEFINE r == IF local[<<n, u>>] # None THEN local[<<n, u>>] ELSE sroom[u]
  <2>1. r \in Rooms \cup {None}
    OBVIOUS
  <2>2. Request("cleanup", u, r, n, None) \in Requests
    BY <2>1, RequestType DEF Ops
  <2> QED
    BY <1>0, <1>3, <2>2 DEF CleanupBegin, redis, memory, env
<1>4. ASSUME NEW u \in Users, NEW r \in Rooms, NEW n \in Nodes,
             JoinBegin(p, u, r, n)
      PROVE  TypeOK'
  <2>1. Request("join", u, r, n, None) \in Requests
    BY RequestType DEF Ops
  <2> QED
    BY <1>0, <1>4, <2>1 DEF JoinBegin, redis, env
<1>5. ASSUME NEW u \in Users, NEW r \in Rooms, NEW n \in Nodes,
             StaleBegin(p, u, r, n)
      PROVE  TypeOK'
  <2>1. Request("stale", u, r, n, None) \in Requests
    BY RequestType DEF Ops
  <2> QED
    BY <1>0, <1>5, <2>1 DEF StaleBegin, redis, memory, env
<1>6. ASSUME NEW r \in Rooms, NEW n \in Nodes, CloseBegin(p, r, n)
      PROVE  TypeOK'
  <2>1. Request("close", None, r, n, None) \in Requests
    BY RequestType DEF Ops
  <2>2. RoomPeers(n, r) \in SUBSET Users
    BY DEF RoomPeers
  <2> QED
    BY <1>0, <1>6, <2>1, <2>2 DEF CloseBegin, redis, memory, env
<1> QED
  BY <1>1, <1>2, <1>3, <1>4, <1>5, <1>6 DEF Begins
\* The handler in hand: what its request names.
LEMMA HandlerNames ==
    ASSUME TypeOK, Linked, NEW p \in Procs
    PROVE  /\ pc[p] \in RoomSteps => req[p].room \in used /\ req[p].room \in Rooms
           /\ pc[p] \in UserSteps => req[p].user \in Users
           /\ pc[p] # "idle" => req[p].node \in Nodes
           /\ req[p].op \in Ops /\ req[p].user \in Users \cup {None}
           /\ req[p].node \in Nodes \cup {None} /\ req[p].sfu \in Sfus \cup {None}
           /\ req[p].room \in Rooms \cup {None}
BY DEF TypeOK, Linked, LinkedProc, Requests

\* A step of create or join.
LEMMA JoinTypes ==
    ASSUME TypeOK, Linked, NEW p \in Procs,
           \/ \E r \in Rooms, s \in Sfus : Assign(p, r, s)
           \/ NoCapacity(p) \/ JoinRoute(p) \/ JoinExists(p) \/ JoinTaken(p)
           \/ JoinAdd(p) \/ PeerCreated(p) \/ PeerFails(p) \/ Undo(p) \/ Enter(p)
           \/ Register(p)
    PROVE  TypeOK'
<1> USE DEF TypeOK
<1>0. /\ GiveUp(p) \in Steps
      /\ {"idle", "exists", "taken", "add", "peer", "undo", "enter", "register"}
            \subseteq Steps
  BY StepTypes DEF Steps
<1>1. ASSUME NEW r \in Rooms, NEW s \in Sfus, Assign(p, r, s) PROVE TypeOK'
  <2>1. req[p].node \in Nodes /\ req[p].user \in Users
    BY <1>1, HandlerNames DEF Assign, At, UserSteps, Steps
  <2>2. Request("create", req[p].user, r, req[p].node, s) \in Requests
    BY <2>1, RequestType DEF Ops
  <2>3. <<req[p].node, s>> \in Bindings
    BY <2>1 DEF Bindings
  <2>4. pc' \in [Procs -> Steps] /\ faults' \in 0..MaxFaults
    BY <1>0, <1>1, GoesTypes DEF Assign
  <2>5. req' \in [Procs -> Requests]
    BY <1>1, <2>2 DEF Assign
  <2>6. /\ bind' \in [Rooms -> Bindings \cup {None}]
        /\ load' \in [Sfus -> Nat] /\ used' \subseteq Rooms
    BY <1>1, <2>3 DEF Assign
  <2> QED
    BY <1>1, <2>4, <2>5, <2>6 DEF Assign, env, memory
<1>2. ASSUME NoCapacity(p) PROVE TypeOK'
  BY <1>0, <1>2 DEF NoCapacity, redis, memory, env
<1>3. ASSUME JoinRoute(p) PROVE TypeOK'
  <2>1. req[p].room \in Rooms /\ req[p].user \in Users
    BY <1>3, HandlerNames DEF JoinRoute, At, UserSteps, RoomSteps, Steps
  <2> DEFINE b == bind[req[p].room]
  <2>2. CASE b # None /\ b[1] = req[p].node
    <3>1. b \in Bindings
      BY <2>1, <2>2
    <3>2. Request("join", req[p].user, req[p].room, b[1], b[2]) \in Requests
      BY <2>1, <3>1, BindingParts, RequestType DEF Ops
    <3> QED
      BY <1>0, <1>3, <2>2, <3>2 DEF JoinRoute, redis, memory, env
  <2>3. CASE ~(b # None /\ b[1] = req[p].node)
    BY <1>0, <1>3, <2>3 DEF JoinRoute, redis, memory, env
  <2> QED
    BY <2>2, <2>3
<1>4. ASSUME JoinExists(p) \/ JoinTaken(p) PROVE TypeOK'
  BY <1>0, <1>4 DEF JoinExists, JoinTaken, redis, memory, env
<1>5. ASSUME JoinAdd(p) PROVE TypeOK'
  <2>1. req[p].room \in Rooms /\ req[p].user \in Users
    BY <1>5, HandlerNames DEF JoinAdd, At, UserSteps, RoomSteps, Steps
  <2>2. pc' \in [Procs -> Steps] /\ faults' \in 0..MaxFaults
    BY <1>0, <1>5, GoesTypes DEF JoinAdd
  <2> QED
    BY <1>5, <2>1, <2>2 DEF JoinAdd, memory, env
<1>6. ASSUME PeerCreated(p) PROVE TypeOK'
  BY <1>0, <1>6 DEF PeerCreated, redis, memory, env
<1>7. ASSUME PeerFails(p) PROVE TypeOK'
  <2>1. faults' \in 0..MaxFaults
    BY <1>7, FaultType DEF PeerFails
  <2> QED
    BY <1>0, <1>7, <2>1 DEF PeerFails, redis, memory, env
<1>8. ASSUME Undo(p) PROVE TypeOK'
  <2>1. req[p].room \in Rooms
    BY <1>8, HandlerNames DEF Undo, At, RoomSteps, Steps
  <2>2. pc' \in [Procs -> Steps] /\ faults' \in 0..MaxFaults
    BY <1>0, <1>8, GoesTypes DEF Undo
  <2> QED
    BY <1>8, <2>1, <2>2 DEF Undo, memory, env
<1>9. ASSUME Enter(p) PROVE TypeOK'
  <2>1. /\ req[p].room \in Rooms /\ req[p].user \in Users
        /\ req[p].node \in Nodes
    BY <1>9, HandlerNames DEF Enter, At, UserSteps, RoomSteps, Steps
  <2>2. faults' \in 0..MaxFaults
    BY <1>9, FaultType DEF Enter
  <2>3. sroom' \in [Users -> Rooms \cup {None}]
    BY <1>9, <2>1 DEF Enter
  <2>4. local' \in [Nodes \X Users -> Rooms \cup {None}]
    BY <1>9, <2>1 DEF Enter
  <2>5. pc' \in [Procs -> Steps]
    BY <1>0, <1>9 DEF Enter
  <2>6. UNCHANGED <<bind, members, load, used, peers, req, who, dec, sweep, env>>
    BY <1>9 DEF Enter
  <2> QED
    BY <2>2, <2>3, <2>4, <2>5, <2>6 DEF env
<1>10. ASSUME Register(p) PROVE TypeOK'
  <2>1. /\ req[p].room \in Rooms /\ req[p].user \in Users
        /\ req[p].node \in Nodes
    BY <1>10, HandlerNames DEF Register, At, UserSteps, RoomSteps, Steps
  <2>2. faults' \in 0..MaxFaults
    BY <1>10, FaultType DEF Register
  <2> QED
    BY <1>0, <1>10, <2>1, <2>2 DEF Register, redis, env
<1> QED
  BY <1>1, <1>2, <1>3, <1>4, <1>5, <1>6, <1>7, <1>8, <1>9, <1>10

\* A step of detach_peer or close_rooms_due_to_sfu_addr.
LEMMA LeaveTypes ==
    ASSUME TypeOK, Linked, NEW p \in Procs,
           \/ Detach(p) \/ LeaveExists(p) \/ LeaveRemove(p) \/ LeaveCount(p)
           \/ LeaveDelete(p) \/ Clear(p) \/ CloseRoute(p) \/ CloseBinding(p)
           \/ CloseMembers(p) \/ CloseDone(p) \/ Lost(p) \/ Unreachable(p)
           \/ \E u \in Users : CloseSession(p, u)
    PROVE  TypeOK'
<1> USE DEF TypeOK
<1>0. /\ {GiveUp(p), Detached(p), AfterClose(p), OnError(p)} \subseteq Steps
      /\ {"idle", "lexists", "lsrem", "lscard", "ldel", "close", "csess"}
            \subseteq Steps
  BY StepTypes DEF Steps
<1>1. ASSUME Detach(p) \/ LeaveExists(p) \/ CloseDone(p) \/ LeaveCount(p)
      PROVE  TypeOK'
  BY <1>0, <1>1 DEF Detach, LeaveExists, CloseDone, LeaveCount, redis, memory, env
<1>2. ASSUME LeaveRemove(p) \/ LeaveDelete(p) \/ CloseMembers(p) PROVE TypeOK'
  <2>1. req[p].room \in Rooms
    BY <1>2, HandlerNames
       DEF LeaveRemove, LeaveDelete, CloseMembers, At, RoomSteps, Steps
  <2>2. pc' \in [Procs -> Steps] /\ faults' \in 0..MaxFaults
    BY <1>0, <1>2, GoesTypes DEF LeaveRemove, LeaveDelete, CloseMembers
  <2> QED
    BY <1>2, <2>1, <2>2 DEF LeaveRemove, LeaveDelete, CloseMembers, memory, env
<1>3. ASSUME Clear(p) \/ Unreachable(p) PROVE TypeOK'
  <2>1. req[p].user \in Users /\ req[p].node \in Nodes
    BY <1>3, HandlerNames DEF Clear, Unreachable, At, UserSteps, Steps
  <2>2. faults' \in 0..MaxFaults
    BY <1>3, FaultType DEF Clear, Unreachable
  <2> QED
    BY <1>0, <1>3, <2>1, <2>2 DEF Clear, Unreachable, redis, env
<1>4. ASSUME CloseRoute(p) PROVE TypeOK'
  <2>1. CASE bind[req[p].room] = None
    BY <1>0, <1>4, <2>1 DEF CloseRoute, redis, env
  <2>2. CASE bind[req[p].room] # None
    <3>1. peers' \subseteq Nodes \X Rooms \X Users
      BY <1>4, <2>2 DEF CloseRoute
    <3>2. who' \in [Procs -> SUBSET Users]
      <4> DEFINE told == {u \in Users : local[<<req[p].node, u>>] = req[p].room}
      <4>1. who' = [who EXCEPT ![p] = told]
        BY <1>4, <2>2 DEF CloseRoute
      <4>2. told \in SUBSET Users
        OBVIOUS
      <4> HIDE DEF told
      <4> QED
        BY <4>1, <4>2
    <3>3. local' \in [Nodes \X Users -> Rooms \cup {None}]
      <4>1. \A c \in Nodes \X Users : local[c] \in Rooms \cup {None}
        OBVIOUS
      <4> QED
        BY <1>4, <2>2, <4>1 DEF CloseRoute
    <3>4. pc' \in [Procs -> Steps]
      BY <1>0, <1>4, <2>2 DEF CloseRoute
    <3> QED
      BY <1>4, <3>1, <3>2, <3>3, <3>4 DEF CloseRoute, redis, env
  <2> QED
    BY <2>1, <2>2
<1>5. ASSUME CloseBinding(p) PROVE TypeOK'
  <2>1. req[p].room \in Rooms
    BY <1>5, HandlerNames DEF CloseBinding, At, RoomSteps, Steps
  <2>2. bind' \in [Rooms -> Bindings \cup {None}] /\ pc' \in [Procs -> Steps]
    BY <1>0, <1>5, <2>1 DEF CloseBinding
  <2>3. dec' \in [Threads -> Decs]
    <3>1. bind[req[p].room] # None => bind[req[p].room] \in Bindings
      BY <2>1
    <3>2. bind[req[p].room] # None
            => DecAt("read", bind[req[p].room][2], 0, FALSE) \in Decs
      BY <3>1, BindingParts, DecType
    <3> QED
      BY <1>5, <3>2 DEF CloseBinding
  <2>4. faults' \in 0..MaxFaults
    BY <1>5, FaultType DEF CloseBinding
  <2> QED
    BY <1>5, <2>2, <2>3, <2>4 DEF CloseBinding, memory, env
<1>6. ASSUME Lost(p) PROVE TypeOK'
  <2>1. faults' \in 0..MaxFaults
    BY <1>6, FaultType DEF Lost
  <2> QED
    BY <1>0, <1>6, <2>1 DEF Lost, redis, memory, env
<1>7. ASSUME NEW u \in Users, CloseSession(p, u) PROVE TypeOK'
  <2>1. faults' \in 0..MaxFaults
    BY <1>7, FaultType DEF CloseSession
  <2> QED
    BY <1>7, <2>1 DEF CloseSession, memory, env
<1> QED
  BY <1>1, <1>2, <1>3, <1>4, <1>5, <1>6, <1>7
\* A step of decrement_sfu_room_load.
LEMMA DecrementTypes ==
    ASSUME TypeOK, Linked, NEW t \in Threads, Decrements(t)
    PROVE  TypeOK'
<1> USE DEF TypeOK
<1>0. /\ dec[t].at # "no" => dec[t].sfu \in Sfus
      /\ dec[t].cur \in Nat /\ dec[t].sfu \in Sfus \cup {None}
  BY DEF Linked, LinkedThreads, Decs
<1>1. ASSUME DecRead(t) PROVE TypeOK'
  <2>1. load[dec[t].sfu] \in Nat
    BY <1>0, <1>1 DEF DecRead
  <2>2. DecAt("write", dec[t].sfu, load[dec[t].sfu], FALSE) \in Decs
    BY <1>0, <2>1, DecType
  <2> QED
    BY <1>1, <2>2 DEF DecRead, redis, memory, procs, env
<1>2. ASSUME DecWrite(t) PROVE TypeOK'
  <2> DEFINE next == IF dec[t].cur <= 1 THEN 0 ELSE dec[t].cur - 1
  <2>1. next \in Nat
    BY <1>0
  <2>2. DecAt("iget", dec[t].sfu, 0, FALSE) \in Decs
    BY <1>0, DecType
  <2>3. load' = [load EXCEPT ![dec[t].sfu] = next]
    BY <1>2 DEF DecWrite
  <2>4. \E d \in Decs : dec' = [dec EXCEPT ![t] = d]
    BY <1>2, <2>2, NoDecType DEF DecWrite
  <2>5. faults' \in 0..MaxFaults
    BY <1>2, FaultType DEF DecWrite
  <2> HIDE DEF next
  <2>6. load' \in [Sfus -> Nat] /\ dec' \in [Threads -> Decs]
    BY <2>1, <2>3, <2>4
  <2> QED
    BY <1>2, <2>5, <2>6 DEF DecWrite, memory, procs, env
<1>3. ASSUME IdleGet(t) PROVE TypeOK'
  <2> DEFINE ok == dec[t].sfu \in ready
  <2>1. ok \in BOOLEAN
    OBVIOUS
  <2>2. dec' = [dec EXCEPT ![t] = DecAt("iset", dec[t].sfu, 0, ok)]
    BY <1>3 DEF IdleGet
  <2> HIDE DEF ok
  <2>3. DecAt("iset", dec[t].sfu, 0, ok) \in Decs
    BY <1>0, <2>1, DecType
  <2> QED
    BY <1>3, <2>2, <2>3 DEF IdleGet, redis, memory, procs, env
<1>4. ASSUME IdleSet(t) PROVE TypeOK'
  BY <1>0, <1>4, NoDecType DEF IdleSet, redis, memory, procs
<1>5. ASSUME DecLost(t) PROVE TypeOK'
  BY <1>5, FaultType, NoDecType DEF DecLost, redis, memory, procs, env
<1> QED
  BY <1>1, <1>2, <1>3, <1>4, <1>5 DEF Decrements

\* A step of either supervisor loop.
LEMMA SweepTypes ==
    ASSUME TypeOK, Linked, NEW w \in Sweepers, Sweeps(w)
    PROVE  TypeOK'
<1> USE DEF TypeOK
<1>0. /\ sweep[w].todo \in SUBSET Rooms /\ sweep[w].room \in Rooms \cup {None}
      /\ {"unbind", "loop", "members"} \subseteq SweepSteps
  BY DEF SweepStates, SweepSteps
<1>1. ASSUME NEW r \in Rooms, SweepGet(w, r) PROVE TypeOK'
  <2>1. /\ With(w, "unbind", sweep[w].todo \ {r}, r) \in SweepStates
        /\ With(w, "loop", sweep[w].todo \ {r}, None) \in SweepStates
    BY <1>0, WithType
  <2>2. Doomed(w, bind[r]) => bind[r] \in Bindings
    BY DEF Doomed
  <2>3. Doomed(w, bind[r]) => DecAt("read", bind[r][2], 0, FALSE) \in Decs
    BY <2>2, BindingParts, DecType
  <2> QED
    BY <1>1, <2>1, <2>3 DEF SweepGet, SweepTo, redis, memory, procs, env
<1>2. ASSUME SweepUnbind(w) PROVE TypeOK'
  <2>1. With(w, "members", sweep[w].todo, sweep[w].room) \in SweepStates
    BY <1>0, WithType
  <2> QED
    BY <1>2, <2>1 DEF SweepUnbind, SweepTo, memory, procs, env
<1>3. ASSUME SweepMembers(w) PROVE TypeOK'
  <2>1. With(w, "loop", sweep[w].todo, None) \in SweepStates
    BY <1>0, WithType
  <2> QED
    BY <1>3, <2>1 DEF SweepMembers, SweepTo, memory, procs, env
<1>4. ASSUME SweepLost(w) PROVE TypeOK'
  <2>1. /\ With(w, "members", sweep[w].todo, sweep[w].room) \in SweepStates
        /\ With(w, "loop", sweep[w].todo, None) \in SweepStates
    BY <1>0, WithType
  <2>2. ASSUME NEW r \in sweep[w].todo
        PROVE  With(w, sweep[w].at, sweep[w].todo \ {r}, None) \in SweepStates
    <3>1. sweep[w].at \in SweepSteps
      BY DEF SweepStates
    <3>2. sweep[w].todo \ {r} \in SUBSET Rooms
      BY <1>0
    <3> QED
      BY <3>1, <3>2, WithType
  <2>3. \E x \in SweepStates : sweep' = [sweep EXCEPT ![w] = x]
    BY <1>4, <2>1, <2>2, NoSweepType DEF SweepLost, SweepTo
  <2>4. faults' \in 0..MaxFaults
    BY <1>4, FaultType DEF SweepLost
  <2> QED
    BY <1>4, <2>3, <2>4 DEF SweepLost, redis, memory, procs, env
<1> QED
  BY <1>1, <1>2, <1>3, <1>4 DEF Sweeps

\* A step that only one of the two loops takes.
LEMMA LoopTypes ==
    ASSUME TypeOK, Linked, Probes \/ Janitors
    PROVE  TypeOK'
<1> USE DEF TypeOK
<1>0. {"idle", "scan", "loop", "orphans"} \subseteq SweepSteps
  BY DEF SweepSteps
<1>1. OpenRooms \in SUBSET Rooms
  BY DEF OpenRooms
<1>2. ASSUME ProbeScan \/ ProbeDone PROVE TypeOK'
  <2>1. "probe" \in Sweepers
    BY <1>2 DEF ProbeScan, ProbeDone, SweepIs
  <2>2. With("probe", "loop", OpenRooms, None) \in SweepStates
    BY <1>0, <1>1, <2>1, WithType
  <2> QED
    BY <1>2, <2>2, NoSweepType
       DEF ProbeScan, ProbeDone, SweepTo, redis, memory, procs, env
<1>3. ASSUME NEW s \in Sfus, ProbePing(s) PROVE TypeOK'
  <2>1. SweepAt("scan", {}, None, s, {}, {}) \in SweepStates
    BY <1>0, SweepType
  <2>2. faults' \in 0..MaxFaults
    BY <1>3, FaultType DEF ProbePing
  <2> QED
    BY <1>3, <2>1, <2>2 DEF ProbePing, SweepTo, redis, memory, procs
<1>4. ASSUME JanitorAlive \/ JanitorScan \/ JanitorOrphans \/ JanitorDone
      PROVE  TypeOK'
  <2>1. "janitor" \in Sweepers
    BY <1>4 DEF JanitorAlive, JanitorScan, JanitorOrphans, JanitorDone, SweepIs
  <2>2. sweep["janitor"].alive \in SUBSET Nodes
    BY <2>1 DEF SweepStates
  <2>3. /\ SweepAt("scan", {}, None, None, seen, {}) \in SweepStates
        /\ SweepAt("loop", OpenRooms, None, None, sweep["janitor"].alive, OpenRooms)
             \in SweepStates
    BY <1>0, <1>1, <2>2, SweepType
  <2> DEFINE todo == {r \in Rooms : members[r] # {}} \ sweep["janitor"].bound
  <2>4. With("janitor", "orphans", todo, None) \in SweepStates
    BY <1>0, <2>1, WithType
  <2>5. \E x \in SweepStates : sweep' = [sweep EXCEPT !["janitor"] = x]
    BY <1>4, <2>3, <2>4, NoSweepType
       DEF JanitorAlive, JanitorScan, JanitorOrphans, JanitorDone, SweepTo
  <2> QED
    BY <1>4, <2>5
       DEF JanitorAlive, JanitorScan, JanitorOrphans, JanitorDone,
           redis, memory, procs, env
<1>5. ASSUME NEW r \in Rooms, JanitorDelete(r) PROVE TypeOK'
  <2>1. "janitor" \in Sweepers
    BY <1>5 DEF JanitorDelete, SweepIs
  <2>2. sweep["janitor"].todo \ {r} \in SUBSET Rooms
    BY <2>1 DEF SweepStates
  <2>3. With("janitor", "orphans", sweep["janitor"].todo \ {r}, None) \in SweepStates
    BY <1>0, <2>1, <2>2, WithType
  <2> QED
    BY <1>5, <2>3 DEF JanitorDelete, SweepTo, memory, procs, env
<1> QED
  BY <1>2, <1>3, <1>4, <1>5 DEF Probes, Janitors

\* A step of the environment.
LEMMA EnvTypes ==
    ASSUME TypeOK, Linked,
           \/ \E n \in Nodes : Crash(n) \/ Restart(n) \/ Beat(n) \/ Expire(n)
           \/ \E s \in Sfus : SfuDown(s) \/ SfuRestart(s) \/ PingStale(s)
    PROVE  TypeOK'
<1> USE DEF TypeOK
<1>1. ASSUME NEW n \in Nodes, Crash(n) PROVE TypeOK'
  <2>1. local' \in [Nodes \X Users -> Rooms \cup {None}]
    <3>1. \A c \in Nodes \X Users : local[c] \in Rooms \cup {None}
      OBVIOUS
    <3> QED
      BY <1>1, <3>1 DEF Crash
  <2>2. pc' \in [Procs -> Steps]
    BY <1>1 DEF Crash, Steps
  <2>3. dec' \in [Threads -> Decs]
    BY <1>1, NoDecType DEF Crash
  <2>4. faults' \in 0..MaxFaults
    BY <1>1, FaultType DEF Crash
  <2>5. peers' \subseteq Nodes \X Rooms \X Users
    BY <1>1 DEF Crash
  <2> QED
    BY <1>1, <2>1, <2>2, <2>3, <2>4, <2>5 DEF Crash, redis
<1>2. ASSUME NEW n \in Nodes, Restart(n) \/ Beat(n) \/ Expire(n) PROVE TypeOK'
  <2>1. faults' \in 0..MaxFaults
    BY <1>2, FaultType DEF Restart, Beat, Expire
  <2> QED
    BY <1>2, <2>1 DEF Restart, Beat, Expire, redis, memory, procs
<1>3. ASSUME NEW s \in Sfus, SfuDown(s) \/ SfuRestart(s) \/ PingStale(s)
      PROVE  TypeOK'
  <2>1. faults' \in 0..MaxFaults
    BY <1>3, FaultType DEF SfuDown, SfuRestart, PingStale
  <2> QED
    BY <1>3, <2>1 DEF SfuDown, SfuRestart, PingStale, redis, memory, procs
<1> QED
  BY <1>1, <1>2, <1>3

LEMMA NextTypes ==
    ASSUME TypeOK, Linked, [Next]_vars
    PROVE  TypeOK'
<1>1. CASE UNCHANGED vars
  BY <1>1 DEF TypeOK, vars, redis, memory, procs, env
<1>2. ASSUME NEW p \in Procs, Handles(p) PROVE TypeOK'
  BY <1>2, JoinTypes, LeaveTypes DEF Handles
<1>3. CASE Next
  BY <1>2, <1>3, BeginTypes, DecrementTypes, SweepTypes, LoopTypes, EnvTypes
     DEF Next
<1> QED
  BY <1>1, <1>3
-----------------------------------------------------------------------------
(* What a step does to the rooms *)

RoomOpens ==
    \E r \in Rooms, b \in Bindings :
        /\ r \notin used /\ bind[r] = None
        /\ used' = used \cup {r}
        /\ bind' = [bind EXCEPT ![r] = b]
        /\ UNCHANGED members

RoomCloses ==
    \E r \in used :
        /\ bind' = [bind EXCEPT ![r] = None]
        /\ UNCHANGED <<used, members>>

MemberAdded ==
    \E r \in used, u \in Users :
        /\ members' = [members EXCEPT ![r] = @ \cup {u}]
        /\ UNCHANGED <<used, bind>>

MembersRemoved ==
    \E r \in Rooms, us \in SUBSET Users :
        /\ members' = [members EXCEPT ![r] = @ \ us]
        /\ UNCHANGED <<used, bind>>

RoomStep ==
    \/ RoomOpens \/ RoomCloses \/ MemberAdded \/ MembersRemoved
    \/ UNCHANGED <<used, bind, members>>

\* Every step of the system opens a room, closes one, changes its members or
\* leaves the rooms alone.
LEMMA NextIsRoomStep ==
    ASSUME TypeOK, Linked, [Next]_vars
    PROVE  RoomStep
<1>0. ASSUME NEW r \in Rooms, members' = [members EXCEPT ![r] = {}],
             UNCHANGED <<used, bind>>
      PROVE  RoomStep
  <2>1. members' = [members EXCEPT ![r] = @ \ Users]
    BY <1>0 DEF TypeOK
  <2> QED
    BY <1>0, <2>1 DEF RoomStep, MembersRemoved
<1>1. ASSUME NEW p \in Procs, NEW r \in Rooms, NEW s \in Sfus, Assign(p, r, s)
      PROVE  RoomStep
  <2>1. req[p].node \in Nodes
    BY <1>1, HandlerNames DEF Assign, At
  <2>2. <<req[p].node, s>> \in Bindings
    BY <2>1 DEF Bindings
  <2> QED
    BY <1>1, <2>2 DEF Assign, RoomStep, RoomOpens
<1>2. ASSUME NEW p \in Procs, CloseBinding(p) PROVE RoomStep
  <2>1. req[p].room \in used
    BY <1>2, HandlerNames DEF CloseBinding, At, RoomSteps, Steps
  <2> QED
    BY <1>2, <2>1 DEF CloseBinding, RoomStep, RoomCloses
<1>3. ASSUME NEW w \in Sweepers, SweepUnbind(w) PROVE RoomStep
  <2>1. sweep[w].room \in used
    BY <1>3 DEF SweepUnbind, SweepIs, Linked, LinkedThreads
  <2> QED
    BY <1>3, <2>1 DEF SweepUnbind, RoomStep, RoomCloses
<1>4. ASSUME NEW p \in Procs, JoinAdd(p) PROVE RoomStep
  <2>1. req[p].room \in used /\ req[p].user \in Users
    BY <1>4, HandlerNames DEF JoinAdd, At, RoomSteps, UserSteps, Steps
  <2> QED
    BY <1>4, <2>1 DEF JoinAdd, RoomStep, MemberAdded
<1>5. ASSUME NEW p \in Procs, Undo(p) \/ LeaveRemove(p) PROVE RoomStep
  <2>1. req[p].room \in Rooms /\ {req[p].user} \in SUBSET Users
    BY <1>5, HandlerNames DEF Undo, LeaveRemove, At, RoomSteps, UserSteps, Steps
  <2> QED
    BY <1>5, <2>1 DEF Undo, LeaveRemove, RoomStep, MembersRemoved
<1>6. ASSUME NEW p \in Procs, LeaveDelete(p) \/ CloseMembers(p) PROVE RoomStep
  <2>1. req[p].room \in Rooms
    BY <1>6, HandlerNames DEF LeaveDelete, CloseMembers, At, RoomSteps, Steps
  <2> QED
    BY <1>0, <1>6, <2>1 DEF LeaveDelete, CloseMembers
<1>7. ASSUME NEW w \in Sweepers, SweepMembers(w) PROVE RoomStep
  <2>1. sweep[w].room \in used
    BY <1>7 DEF SweepMembers, SweepIs, Linked, LinkedThreads
  <2>2. sweep[w].room \in Rooms
    BY <2>1 DEF TypeOK
  <2> QED
    BY <1>0, <1>7, <2>2 DEF SweepMembers
<1>8. ASSUME NEW r \in Rooms, JanitorDelete(r) PROVE RoomStep
  BY <1>0, <1>8 DEF JanitorDelete
<1>9. ASSUME NEW p \in Procs, Begins(p) PROVE RoomStep
  <2>1. PICK n \in Nodes :
          \/ \E u \in Users : \/ CreateBegin(p, u, n) \/ LeaveBegin(p, u, n)
                              \/ CleanupBegin(p, u, n)
                              \/ \E r \in Rooms : \/ JoinBegin(p, u, r, n)
                                                  \/ StaleBegin(p, u, r, n)
          \/ \E r \in Rooms : CloseBegin(p, r, n)
    BY <1>9 DEF Begins
  <2>2. UNCHANGED <<used, bind, members>>
    BY <2>1 DEF CreateBegin, LeaveBegin, CleanupBegin, JoinBegin, StaleBegin,
                CloseBegin, redis
  <2> QED
    BY <2>2 DEF RoomStep
<1>10. ASSUME NEW p \in Procs,
              \/ NoCapacity(p) \/ JoinRoute(p) \/ JoinExists(p) \/ JoinTaken(p)
              \/ PeerCreated(p) \/ PeerFails(p) \/ Enter(p) \/ Register(p)
              \/ Detach(p) \/ LeaveExists(p) \/ LeaveCount(p)
       PROVE  RoomStep
  BY <1>10 DEF NoCapacity, JoinRoute, JoinExists, JoinTaken, PeerCreated, PeerFails,
               Enter, Register, Detach, LeaveExists, LeaveCount, redis, RoomStep
<1>11. ASSUME NEW p \in Procs,
              \/ Clear(p) \/ CloseRoute(p) \/ CloseDone(p) \/ Lost(p)
              \/ Unreachable(p) \/ \E u \in Users : CloseSession(p, u)
       PROVE  RoomStep
  BY <1>11 DEF Unreachable, Clear, CloseRoute, CloseDone, Lost, CloseSession, redis, RoomStep
<1>12. ASSUME NEW p \in Procs, Handles(p) PROVE RoomStep
  BY <1>1, <1>2, <1>4, <1>5, <1>6, <1>10, <1>11, <1>12 DEF Handles
<1>13. ASSUME NEW t \in Threads, Decrements(t) PROVE RoomStep
  BY <1>13 DEF Decrements, DecRead, DecWrite, IdleGet, IdleSet, DecLost, redis,
               RoomStep
<1>14. ASSUME NEW w \in Sweepers, Sweeps(w) PROVE RoomStep
  <2>1. ASSUME SweepLost(w) \/ \E r \in Rooms : SweepGet(w, r) PROVE RoomStep
    BY <2>1 DEF SweepLost, SweepGet, redis, RoomStep
  <2> QED
    BY <1>3, <1>7, <1>14, <2>1 DEF Sweeps
<1>15. ASSUME Probes \/ Janitors PROVE RoomStep
  <2>1. ASSUME ~ \E r \in Rooms : JanitorDelete(r) PROVE RoomStep
    BY <1>15, <2>1
       DEF Probes, ProbeScan, ProbeDone, ProbePing, Janitors, JanitorAlive,
           JanitorScan, JanitorOrphans, JanitorDone, redis, RoomStep
  <2> QED
    BY <1>8, <2>1
<1>16. ASSUME \/ \E n \in Nodes : Crash(n) \/ Restart(n) \/ Beat(n) \/ Expire(n)
              \/ \E s \in Sfus : SfuDown(s) \/ SfuRestart(s) \/ PingStale(s)
       PROVE  RoomStep
  BY <1>16 DEF Crash, Restart, Beat, Expire, SfuDown, SfuRestart, PingStale, redis,
               RoomStep
<1>17. CASE UNCHANGED vars
  BY <1>17 DEF vars, redis, RoomStep
<1>18. CASE Next
  BY <1>9, <1>12, <1>13, <1>14, <1>15, <1>16, <1>18 DEF Next
<1> QED
  BY <1>17, <1>18

\* Rooms stay drawn, and one that is gone stays gone.
LEMMA RoomStepFacts ==
    ASSUME TypeOK, Linked, RoomStep
    PROVE  /\ used \subseteq used'
           /\ LinkedKeys'
           /\ \A r \in used : bind[r] = None => bind'[r] = None
<1> USE DEF TypeOK, Linked, LinkedKeys
<1>1. CASE RoomOpens
  BY <1>1 DEF RoomOpens
<1>2. CASE RoomCloses
  BY <1>2 DEF RoomCloses
<1>3. CASE MemberAdded
  BY <1>3 DEF MemberAdded
<1>4. CASE MembersRemoved
  BY <1>4 DEF MembersRemoved
<1>5. CASE UNCHANGED <<used, bind, members>>
  BY <1>5
<1> QED
  BY <1>1, <1>2, <1>3, <1>4, <1>5 DEF RoomStep
-----------------------------------------------------------------------------
(* What a step does to the handlers *)

Kept(p) == pc'[p] = pc[p] /\ req'[p] = req[p] /\ dec'[p] = dec[p]

\* A handler changes nobody else's state.
LEMMA OthersKept ==
    ASSUME TypeOK, NEW p \in Procs, NEW q \in Procs, p # q, Begins(p) \/ Handles(p)
    PROVE  Kept(q)
<1> USE DEF TypeOK
<1>1. ASSUME Begins(p) PROVE Kept(q)
  <2>1. PICK n \in Nodes :
          \/ \E u \in Users : \/ CreateBegin(p, u, n) \/ LeaveBegin(p, u, n)
                              \/ CleanupBegin(p, u, n)
                              \/ \E r \in Rooms : \/ JoinBegin(p, u, r, n)
                                                  \/ StaleBegin(p, u, r, n)
          \/ \E r \in Rooms : CloseBegin(p, r, n)
    BY <1>1 DEF Begins
  <2>2. /\ UNCHANGED dec
        /\ \E x : req' = [req EXCEPT ![p] = x]
        /\ \E y : pc' = [pc EXCEPT ![p] = y]
    BY <2>1 DEF CreateBegin, LeaveBegin, CleanupBegin, JoinBegin, StaleBegin,
                CloseBegin
  <2> QED
    BY <2>2 DEF Kept
<1>2. ASSUME \/ \E r \in Rooms, s \in Sfus : Assign(p, r, s)
             \/ NoCapacity(p) \/ JoinRoute(p) \/ JoinExists(p) \/ JoinTaken(p)
             \/ JoinAdd(p) \/ PeerCreated(p) \/ PeerFails(p) \/ Undo(p) \/ Enter(p)
             \/ Register(p)
      PROVE  Kept(q)
  <2>1. UNCHANGED dec
    BY <1>2 DEF Assign, NoCapacity, JoinRoute, JoinExists, JoinTaken, JoinAdd,
                PeerCreated, PeerFails, Undo, Enter, Register
  <2>2. req'[q] = req[q]
    BY <1>2 DEF Assign, NoCapacity, JoinRoute, JoinExists, JoinTaken, JoinAdd,
                PeerCreated, PeerFails, Undo, Enter, Register
  <2>3. pc'[q] = pc[q]
    BY <1>2 DEF Assign, NoCapacity, JoinRoute, JoinExists, JoinTaken, JoinAdd,
                PeerCreated, PeerFails, Undo, Enter, Register, Goes
  <2> QED
    BY <2>1, <2>2, <2>3 DEF Kept
<1>3. ASSUME \/ Detach(p) \/ LeaveExists(p) \/ LeaveRemove(p) \/ LeaveCount(p)
             \/ LeaveDelete(p) \/ Clear(p) \/ CloseRoute(p) \/ CloseBinding(p)
             \/ CloseMembers(p) \/ CloseDone(p) \/ Lost(p) \/ Unreachable(p)
             \/ \E u \in Users : CloseSession(p, u)
      PROVE  Kept(q)
  <2>1. UNCHANGED req
    BY <1>3 DEF Detach, LeaveExists, LeaveRemove, LeaveCount, LeaveDelete, Clear,
                CloseRoute, CloseBinding, CloseMembers, CloseDone, Lost, Unreachable,
                CloseSession
  <2>2. dec'[q] = dec[q]
    <3>1. q \in Threads
      BY DEF Threads
    <3> QED
      BY <1>3, <3>1
         DEF Detach, LeaveExists, LeaveRemove, LeaveCount, LeaveDelete, Clear,
             CloseRoute, CloseBinding, CloseMembers, CloseDone, Lost, Unreachable,
             CloseSession
  <2>3. pc'[q] = pc[q]
    BY <1>3 DEF Detach, LeaveExists, LeaveRemove, LeaveCount, LeaveDelete, Clear,
                CloseRoute, CloseBinding, CloseMembers, CloseDone, Lost, Unreachable,
                CloseSession,
                Goes
  <2> QED
    BY <2>1, <2>2, <2>3 DEF Kept
<1> QED
  BY <1>1, <1>2, <1>3 DEF Handles

\* The sweeps and the environment change a handler only by crashing it.
LEMMA SweepsKeep ==
    ASSUME TypeOK, NEW q \in Procs,
           \/ \E w \in Sweepers : Sweeps(w)
           \/ Probes \/ Janitors
           \/ \E n \in Nodes : Restart(n) \/ Beat(n) \/ Expire(n)
           \/ \E s \in Sfus : SfuDown(s) \/ SfuRestart(s) \/ PingStale(s)
           \/ UNCHANGED vars
    PROVE  Kept(q)
<1>1. ASSUME \E w \in Sweepers : Sweeps(w) PROVE Kept(q)
  <2>1. PICK w \in Sweepers : Sweeps(w)
    BY <1>1
  <2>2. w # q /\ q \in Threads
    BY ThreadAssumption DEF Threads
  <2>3. dec'[q] = dec[q]
    BY <2>1, <2>2 DEF Sweeps, SweepGet, SweepUnbind, SweepMembers, SweepLost, TypeOK
  <2>4. UNCHANGED procs
    BY <2>1 DEF Sweeps, SweepGet, SweepUnbind, SweepMembers, SweepLost
  <2> QED
    BY <2>3, <2>4 DEF Kept, procs
<1>2. ASSUME Probes \/ Janitors PROVE Kept(q)
  BY <1>2 DEF Probes, ProbeScan, ProbeDone, ProbePing, Janitors, JanitorAlive,
              JanitorScan, JanitorOrphans, JanitorDone, JanitorDelete, procs, Kept
<1>3. ASSUME \/ \E n \in Nodes : Restart(n) \/ Beat(n) \/ Expire(n)
             \/ \E s \in Sfus : SfuDown(s) \/ SfuRestart(s) \/ PingStale(s)
             \/ UNCHANGED vars
      PROVE  Kept(q)
  BY <1>3 DEF Restart, Beat, Expire, SfuDown, SfuRestart, PingStale, vars, procs, Kept
<1> QED
  BY <1>1, <1>2, <1>3

\* A crashed handler is idle and owes no decrement.
LEMMA CrashKeeps ==
    ASSUME TypeOK, NEW q \in Procs, NEW n \in Nodes, Crash(n)
    PROVE  \/ Kept(q)
           \/ pc'[q] = "idle" /\ dec'[q].at = "no" /\ req'[q] = req[q]
<1>1. q \in Threads
  BY DEF Threads
<1> QED
  BY <1>1 DEF Crash, Kept, NoDec, DecAt, TypeOK

\* decrement_sfu_room_load changes only its caller's record, and goes on with the
\* SFU it has.
LEMMA DecrementKeeps ==
    ASSUME TypeOK, NEW t \in Threads, Decrements(t), NEW q \in Threads
    PROVE  /\ UNCHANGED <<pc, req, who, sweep>>
           /\ \/ dec'[q] = dec[q]
              \/ dec[q].at # "no" /\ dec'[q].at = "no"
              \/ /\ q = t /\ dec[q].at # "no" /\ dec'[q].sfu = dec[q].sfu
                 /\ \/ dec[q].at = "read" /\ dec'[q].at = "write"
                    \/ dec'[q].at \in {"iget", "iset"}
<1> USE DEF TypeOK
<1>1. UNCHANGED <<pc, req, who, sweep>>
  BY DEF Decrements, DecRead, DecWrite, IdleGet, IdleSet, DecLost, procs
<1>2. CASE q # t
  BY <1>1, <1>2 DEF Decrements, DecRead, DecWrite, IdleGet, IdleSet, DecLost
<1>3. CASE q = t
  BY <1>1, <1>3 DEF Decrements, DecRead, DecWrite, IdleGet, IdleSet, DecLost,
                    NoDec, DecAt
<1> QED
  BY <1>2, <1>3
-----------------------------------------------------------------------------
(* Linked is preserved *)

\* The handler that begins a request.
LEMMA BeginLinked ==
    ASSUME TypeOK, Linked, NEW p \in Procs, Begins(p)
    PROVE  LinkedProc(p)' /\ dec' = dec /\ sweep' = sweep /\ LinkedSessions'
<1> USE DEF TypeOK
<1>1. ASSUME NEW u \in Users, NEW n \in Nodes, NEW r \in Rooms \cup {None},
             NEW op \in {"create", "join", "leave", "cleanup", "stale"},
             NEW step \in {"assign", "route", "detach"},
             step # "assign" => r \in used,
             dec[p].at = "no", dec' = dec,
             pc' = [pc EXCEPT ![p] = step],
             req' = [req EXCEPT ![p] = Request(op, u, r, n, None)],
             used' = used
      PROVE  LinkedProc(p)'
  BY <1>1 DEF LinkedProc, Request, RoomSteps, UserSteps
<1> DEFINE Done == LinkedProc(p)' /\ dec' = dec /\ sweep' = sweep /\ LinkedSessions'
<1>2. ASSUME NEW u \in Users, NEW n \in Nodes, CreateBegin(p, u, n) PROVE Done
  <2>1. LinkedProc(p)'
    BY <1>1, <1>2 DEF CreateBegin, At
  <2>2. LinkedSessions'
    BY <1>2 DEF CreateBegin, redis, Linked, LinkedSessions
  <2> QED
    BY <1>2, <2>1, <2>2 DEF CreateBegin
<1>3. ASSUME NEW u \in Users, NEW n \in Nodes, LeaveBegin(p, u, n) PROVE Done
  <2>0. sroom[u] \in used
    BY <1>3 DEF LeaveBegin, Linked, LinkedSessions
  <2>1. LinkedProc(p)'
    BY <1>1, <1>3, <2>0 DEF LeaveBegin, At
  <2>2. LinkedSessions'
    BY <1>3, <2>0 DEF LeaveBegin, redis, Linked, LinkedSessions
  <2> QED
    BY <1>3, <2>1, <2>2 DEF LeaveBegin
<1>4. ASSUME NEW u \in Users, NEW n \in Nodes, CleanupBegin(p, u, n) PROVE Done
  <2> DEFINE r == IF local[<<n, u>>] # None THEN local[<<n, u>>] ELSE sroom[u]
  <2>0. r \in used
    BY <1>4 DEF CleanupBegin, Linked, LinkedSessions
  <2>1. LinkedProc(p)'
    <3>1. req' = [req EXCEPT ![p] = Request("cleanup", u, r, n, None)]
      BY <1>4 DEF CleanupBegin
    <3> HIDE DEF r
    <3> QED
      BY <1>1, <1>4, <2>0, <3>1 DEF CleanupBegin, At
  <2>2. LinkedSessions'
    BY <1>4 DEF CleanupBegin, redis, memory, Linked, LinkedSessions
  <2> QED
    BY <1>4, <2>1, <2>2 DEF CleanupBegin
<1>5. ASSUME NEW u \in Users, NEW n \in Nodes, NEW r \in Rooms, JoinBegin(p, u, r, n)
      PROVE  Done
  <2>1. LinkedProc(p)'
    BY <1>1, <1>5 DEF JoinBegin, At
  <2>2. LinkedSessions'
    BY <1>5 DEF JoinBegin, redis, Linked, LinkedSessions
  <2> QED
    BY <1>5, <2>1, <2>2 DEF JoinBegin
<1>6. ASSUME NEW u \in Users, NEW n \in Nodes, NEW r \in Rooms, StaleBegin(p, u, r, n)
      PROVE  Done
  <2>0. r \in used
    BY <1>6 DEF StaleBegin, Linked, LinkedSessions
  <2>1. LinkedProc(p)'
    BY <1>1, <1>6, <2>0 DEF StaleBegin, At
  <2>2. LinkedSessions'
    BY <1>6 DEF StaleBegin, redis, memory, Linked, LinkedSessions
  <2> QED
    BY <1>6, <2>1, <2>2 DEF StaleBegin
<1>7. ASSUME NEW n \in Nodes, NEW r \in Rooms, CloseBegin(p, r, n) PROVE Done
  <2>0. r \in used
    BY <1>7 DEF CloseBegin, RoomPeers, Linked, LinkedSessions
  <2>1. LinkedProc(p)'
    BY <1>7, <2>0 DEF CloseBegin, At, LinkedProc, Request, RoomSteps, UserSteps
  <2>2. LinkedSessions'
    BY <1>7 DEF CloseBegin, redis, memory, Linked, LinkedSessions
  <2> QED
    BY <1>7, <2>1, <2>2 DEF CloseBegin
<1> QED
  BY <1>2, <1>3, <1>4, <1>5, <1>6, <1>7 DEF Begins
\* A handler that keeps its request is linked wherever it goes, as long as it has
\* the user that the next step needs.
LEMMA GoesOn ==
    ASSUME TypeOK, Linked, NEW p \in Procs, used \subseteq used',
           pc[p] \in RoomSteps, req'[p] = req[p],
           pc'[p] \notin {"croute", "assign"},
           \/ pc[p] \in UserSteps
           \/ pc'[p] \in {"idle", "cmembers", "csess"}
           \/ pc'[p] = "close" /\ req[p].op = "close"
           \/ req[p].user \in Users
    PROVE  LinkedProc(p)'
BY HandlerNames DEF LinkedProc, RoomSteps, UserSteps, Steps

\* The handler that takes a step of create or join.
LEMMA JoinLinked ==
    ASSUME TypeOK, Linked, NEW p \in Procs, used \subseteq used',
           \/ \E r \in Rooms, s \in Sfus : Assign(p, r, s)
           \/ NoCapacity(p) \/ JoinRoute(p) \/ JoinExists(p) \/ JoinTaken(p)
           \/ JoinAdd(p) \/ PeerCreated(p) \/ PeerFails(p) \/ Undo(p) \/ Enter(p)
           \/ Register(p)
    PROVE  LinkedProc(p)' /\ dec' = dec /\ sweep' = sweep /\ LinkedSessions'
<1> USE DEF TypeOK
<1>0. /\ GiveUp(p) \in {"close", "idle"}
      /\ OnError(p) \in {"idle", "close", "clear", "cmembers", "csess"}
  BY StepTypes
<1>1. ASSUME NEW r \in Rooms, NEW s \in Sfus, Assign(p, r, s) PROVE LinkedProc(p)'
  <2>1. req[p].node \in Nodes /\ req[p].user \in Users
    BY <1>1, HandlerNames DEF Assign, At, UserSteps, Steps
  <2>2. pc'[p] \in {"exists", "idle"}
    BY <1>1 DEF Assign, Goes, At, OnError
  <2>3. req'[p] = Request("create", req[p].user, r, req[p].node, s) /\ r \in used'
    BY <1>1 DEF Assign
  <2>4. dec'[p].at = "no"
    BY <1>1 DEF Assign, At
  <2> QED
    BY <2>1, <2>2, <2>3, <2>4 DEF LinkedProc, Request
<1>2. ASSUME NoCapacity(p) PROVE LinkedProc(p)'
  BY <1>2 DEF NoCapacity, At, LinkedProc, RoomSteps, UserSteps
<1>3. ASSUME JoinRoute(p) PROVE LinkedProc(p)'
  <2>1. /\ req[p].room \in used /\ req[p].user \in Users
        /\ req[p].node \in Nodes
    BY <1>3, HandlerNames DEF JoinRoute, At, UserSteps, RoomSteps, Steps
  <2>2. pc'[p] \in {"exists", "idle"} /\ dec'[p].at = "no"
    BY <1>3 DEF JoinRoute, At
  <2>3. /\ req'[p].room = req[p].room /\ req'[p].user = req[p].user
        /\ req'[p].node = req[p].node
    BY <1>3 DEF JoinRoute, Request
  <2> QED
    BY <2>1, <2>2, <2>3 DEF LinkedProc
<1>4. ASSUME \/ JoinExists(p) \/ JoinTaken(p) \/ JoinAdd(p) \/ PeerCreated(p)
             \/ PeerFails(p) \/ Undo(p) \/ Enter(p) \/ Register(p)
      PROVE  LinkedProc(p)'
  <2>1. pc[p] \in RoomSteps /\ pc[p] \in UserSteps
    BY <1>4 DEF JoinExists, JoinTaken, JoinAdd, PeerCreated, PeerFails, Undo, Enter,
                Register, At, RoomSteps, UserSteps, Steps
  <2>2. req'[p] = req[p]
    BY <1>4 DEF JoinExists, JoinTaken, JoinAdd, PeerCreated, PeerFails, Undo, Enter,
                Register
  <2>3. pc'[p] \notin {"croute", "assign"}
    BY <1>0, <1>4 DEF JoinExists, JoinTaken, JoinAdd, PeerCreated, PeerFails, Undo,
                      Enter, Register, Goes
  <2> QED
    BY <2>1, <2>2, <2>3, GoesOn
<1>5. dec' = dec /\ sweep' = sweep
  BY DEF Assign, NoCapacity, JoinRoute, JoinExists, JoinTaken, JoinAdd, PeerCreated,
         PeerFails, Undo, Enter, Register
<1>6. LinkedSessions'
  <2>1. CASE Enter(p)
    <3>1. /\ req[p].room \in used /\ req[p].user \in Users
          /\ req[p].node \in Nodes
      BY <2>1, HandlerNames DEF Enter, At, UserSteps, RoomSteps, Steps
    <3>2. \A u \in Users : sroom'[u] \in used' \cup {None}
      BY <2>1, <3>1 DEF Enter, Linked, LinkedSessions
    <3>3. \A c \in Nodes \X Users : local'[c] \in used' \cup {None}
      BY <2>1, <3>1 DEF Enter, Linked, LinkedSessions
    <3> QED
      BY <2>1, <3>2, <3>3 DEF Enter, Linked, LinkedSessions
  <2>2. CASE Register(p)
    <3>1. req[p].room \in used
      BY <2>2, HandlerNames DEF Register, At, RoomSteps, Steps
    <3> QED
      BY <2>2, <3>1 DEF Register, redis, Linked, LinkedSessions
  <2>3. CASE ~Enter(p) /\ ~Register(p)
    <3>1. UNCHANGED <<sroom, memory>>
      BY <2>3 DEF Assign, NoCapacity, JoinRoute, JoinExists, JoinTaken, JoinAdd,
                  PeerCreated, PeerFails, Undo, redis
    <3> QED
      BY <3>1 DEF memory, Linked, LinkedSessions
  <2> QED
    BY <2>1, <2>2, <2>3
<1> QED
  BY <1>1, <1>2, <1>3, <1>4, <1>5, <1>6

\* The handler that takes a step of detach_peer or close_rooms_due_to_sfu_addr.
LEMMA LeaveLinked ==
    ASSUME TypeOK, Linked, NEW p \in Procs, used \subseteq used',
           \/ Detach(p) \/ LeaveExists(p) \/ LeaveRemove(p) \/ LeaveCount(p)
           \/ LeaveDelete(p) \/ Clear(p) \/ CloseRoute(p) \/ CloseBinding(p)
           \/ CloseMembers(p) \/ CloseDone(p) \/ Lost(p) \/ Unreachable(p)
           \/ \E u \in Users : CloseSession(p, u)
    PROVE  LinkedProc(p)' /\ LinkedSessions' /\ LinkedThreads'
<1> USE DEF TypeOK
<1>0. /\ GiveUp(p) \in {"close", "idle"} /\ Detached(p) \in {"idle", "clear"}
      /\ AfterClose(p) \in {"idle", "cmembers", "clear"}
      /\ OnError(p) \in {"idle", "close", "clear", "cmembers", "csess"}
  BY StepTypes
<1>1. ASSUME \/ Detach(p) \/ LeaveExists(p) \/ LeaveRemove(p) \/ LeaveCount(p)
             \/ LeaveDelete(p) \/ Clear(p) \/ Unreachable(p)
      PROVE  LinkedProc(p)'
  <2>1. pc[p] \in RoomSteps /\ pc[p] \in UserSteps
    BY <1>1 DEF Detach, LeaveExists, LeaveRemove, LeaveCount, LeaveDelete, Clear,
                Unreachable, At, RoomSteps, UserSteps, Steps
  <2>2. req'[p] = req[p]
    BY <1>1 DEF Detach, LeaveExists, LeaveRemove, LeaveCount, LeaveDelete, Clear,
                Unreachable
  <2>3. pc'[p] \notin {"croute", "assign"}
    BY <1>0, <1>1 DEF Detach, LeaveExists, LeaveRemove, LeaveCount, LeaveDelete,
                      Clear, Unreachable, Goes
  <2> QED
    BY <2>1, <2>2, <2>3, GoesOn
<1>2. AfterClose(p) = "clear" => req[p].op # "create" /\ req[p].op # "close"
  BY DEF AfterClose
<1>3. ASSUME CloseRoute(p) PROVE LinkedProc(p)'
  <2>1. pc[p] \in RoomSteps /\ req[p].op = "close"
    BY <1>3 DEF CloseRoute, At, RoomSteps, Steps, Linked, LinkedProc
  <2>2. req'[p] = req[p] /\ pc'[p] \in {"idle", "close"}
    BY <1>3 DEF CloseRoute
  <2> QED
    BY <2>1, <2>2, GoesOn
<1>4. ASSUME CloseBinding(p) PROVE LinkedProc(p)'
  <2>1. pc[p] = "close" /\ req' = req /\ pc'[p] = AfterClose(p)
    BY <1>4 DEF CloseBinding, At
  <2>2. AfterClose(p) = "clear" => req[p].user \in Users
    BY <1>2, <2>1 DEF Linked, LinkedProc
  <2> QED
    BY <1>0, <2>1, <2>2, GoesOn DEF RoomSteps, Steps
<1>5. ASSUME CloseMembers(p) \/ CloseDone(p) PROVE LinkedProc(p)'
  <2>1. /\ pc[p] \in {"cmembers", "csess"} /\ req' = req
        /\ pc'[p] \in {"csess", "idle"}
    BY <1>5 DEF CloseMembers, CloseDone, At, Goes, OnError
  <2> QED
    BY <2>1, GoesOn DEF RoomSteps, Steps
<1>6. ASSUME NEW u \in Users, CloseSession(p, u) PROVE LinkedProc(p)'
  BY <1>6 DEF CloseSession, Linked, LinkedProc
<1>7. ASSUME Lost(p) PROVE LinkedProc(p)'
  <2>1. req' = req /\ dec' = dec /\ dec[p].at = "no"
    BY <1>7 DEF Lost
  <2>2. CASE pc[p] \in {"assign", "croute"}
    <3>1. pc'[p] = "idle"
      BY <1>7, <2>2 DEF Lost, OnError
    <3> QED
      BY <2>1, <3>1 DEF LinkedProc, RoomSteps, UserSteps
  <2>3. CASE pc[p] = "close"
    <3>1. pc'[p] \in {AfterClose(p), "idle"}
      BY <1>7, <2>3 DEF Lost, OnError
    <3>2. AfterClose(p) = "clear" => req[p].user \in Users
      BY <1>2, <2>3 DEF Linked, LinkedProc
    <3> QED
      BY <1>0, <2>1, <2>3, <3>1, <3>2, GoesOn DEF RoomSteps, Steps
  <2>4. CASE pc[p] = "cmembers"
    <3>1. pc'[p] = "csess"
      BY <1>7, <2>4 DEF Lost, OnError
    <3> QED
      BY <2>1, <2>4, <3>1, GoesOn DEF RoomSteps, Steps
  <2>5. CASE pc[p] \in {"route", "exists", "taken", "add", "undo", "lexists",
                       "lsrem", "lscard", "ldel"}
    <3>1. pc'[p] = OnError(p)
      BY <1>7, <2>5 DEF Lost
    <3> QED
      BY <1>0, <2>1, <2>5, <3>1, GoesOn DEF RoomSteps, UserSteps, Steps
  <2> QED
    BY <1>7, <2>2, <2>3, <2>4, <2>5 DEF Lost
<1>8. LinkedSessions'
  <2>1. CASE Clear(p) \/ \E u \in Users : CloseSession(p, u)
    <3>1. \A u \in Users : sroom'[u] \in {sroom[u], None}
      BY <2>1 DEF Clear, CloseSession
    <3>2. \A c \in Nodes \X Users : local'[c] \in {local[c], None}
      BY <2>1 DEF Clear, CloseSession, memory
    <3>3. peers' = peers
      BY <2>1 DEF Clear, CloseSession, memory
    <3> QED
      BY <3>1, <3>2, <3>3 DEF Linked, LinkedSessions
  <2>2. CASE Detach(p) \/ CloseRoute(p) \/ Unreachable(p)
    <3>1. peers' \subseteq peers /\ sroom' = sroom
      BY <2>2 DEF Detach, CloseRoute, Unreachable, redis
    <3>2. \A c \in Nodes \X Users : local'[c] \in {local[c], None}
      <4>1. CASE Detach(p)
        BY <4>1 DEF Detach
      <4>2. CASE CloseRoute(p)
        BY <4>2 DEF CloseRoute
      <4>3. CASE Unreachable(p)
        BY <4>3 DEF Unreachable
      <4> QED
        BY <2>2, <4>1, <4>2, <4>3
    <3> QED
      BY <3>1, <3>2 DEF Linked, LinkedSessions
  <2>3. CASE \/ LeaveExists(p) \/ LeaveRemove(p) \/ LeaveCount(p) \/ LeaveDelete(p)
             \/ CloseBinding(p) \/ CloseMembers(p) \/ CloseDone(p) \/ Lost(p)
    <3>1. UNCHANGED <<sroom, memory>>
      BY <2>3 DEF LeaveExists, LeaveRemove, LeaveCount, LeaveDelete, CloseBinding,
                  CloseMembers, CloseDone, Lost, redis
    <3> QED
      BY <3>1 DEF memory, Linked, LinkedSessions
  <2> QED
    BY <2>1, <2>2, <2>3
<1>9. LinkedThreads'
  <2>1. sweep' = sweep
    BY DEF Detach, LeaveExists, LeaveRemove, LeaveCount, LeaveDelete, Clear,
           CloseRoute, CloseBinding, CloseMembers, CloseDone, Lost, Unreachable,
           CloseSession
  <2>2. CASE CloseBinding(p)
    <3>1. req[p].room \in Rooms
      BY <2>2, HandlerNames DEF CloseBinding, At, RoomSteps, Steps
    <3>2. bind[req[p].room] # None => bind[req[p].room][2] \in Sfus
      BY <3>1, BindingParts
    <3>3. \A t \in Threads : dec'[t].at # "no" => dec'[t].sfu \in Sfus
      BY <2>2, <3>2 DEF CloseBinding, DecAt, Linked, LinkedThreads
    <3> QED
      BY <2>1, <3>3 DEF Linked, LinkedThreads
  <2>3. CASE ~CloseBinding(p)
    <3>1. dec' = dec
      BY <2>3 DEF Detach, LeaveExists, LeaveRemove, LeaveCount, LeaveDelete, Clear,
                  CloseRoute, CloseMembers, CloseDone, Lost, Unreachable, CloseSession
    <3> QED
      BY <2>1, <3>1 DEF Linked, LinkedThreads
  <2> QED
    BY <2>2, <2>3
<1> QED
  BY <1>1, <1>3, <1>4, <1>5, <1>6, <1>7, <1>8, <1>9
LEMMA NextLinked ==
    ASSUME TypeOK, Linked, TypeOK', [Next]_vars
    PROVE  Linked'
<1> USE DEF TypeOK
<1>0. used \subseteq used' /\ LinkedKeys'
  BY NextIsRoomStep, RoomStepFacts
<1>1. ASSUME NEW q \in Procs, Kept(q) PROVE LinkedProc(q)'
  BY <1>0, <1>1 DEF Kept, Linked, LinkedProc
<1>2. ASSUME dec' = dec, sweep' = sweep PROVE LinkedThreads'
  BY <1>0, <1>2 DEF Linked, LinkedThreads
<1>3. ASSUME UNCHANGED <<sroom, memory>> PROVE LinkedSessions'
  BY <1>0, <1>3 DEF memory, Linked, LinkedSessions
<1>4. ASSUME NEW p \in Procs, Begins(p) \/ Handles(p) PROVE Linked'
  <2>1. LinkedProc(p)' /\ LinkedSessions' /\ LinkedThreads'
    BY <1>0, <1>2, <1>4, BeginLinked, JoinLinked, LeaveLinked DEF Handles
  <2>2. \A q \in Procs : q # p => LinkedProc(q)'
    BY <1>1, <1>4, OthersKept
  <2> QED
    BY <1>0, <2>1, <2>2 DEF Linked
<1>5. ASSUME NEW t \in Threads, Decrements(t) PROVE Linked'
  <2>1. UNCHANGED <<used, sroom, memory>>
    BY <1>5 DEF Decrements, DecRead, DecWrite, IdleGet, IdleSet, DecLost, redis
  <2>2. \A q \in Threads : dec'[q].at # "no"
                             => dec[q].at # "no" /\ dec'[q].sfu = dec[q].sfu
    BY <1>5, DecrementKeeps
  <2>3. UNCHANGED <<pc, req, sweep>>
    BY <1>5, DecrementKeeps
  <2>4. LinkedThreads'
    BY <2>1, <2>2, <2>3 DEF Linked, LinkedThreads
  <2>5. ASSUME NEW q \in Procs PROVE LinkedProc(q)'
    <3>1. q \in Threads
      BY DEF Threads
    <3> QED
      BY <2>1, <2>2, <2>3, <3>1 DEF Linked, LinkedProc
  <2> QED
    BY <1>0, <1>3, <2>1, <2>4, <2>5 DEF Linked
<1>6. ASSUME NEW w \in Sweepers, Sweeps(w) PROVE Linked'
  <2>1. UNCHANGED <<sroom, memory>>
    BY <1>6 DEF Sweeps, SweepGet, SweepUnbind, SweepMembers, SweepLost, redis
  <2>2. \A q \in Procs : LinkedProc(q)'
    BY <1>1, <1>6, SweepsKeep
  <2>3. LinkedThreads'
    <3>1. ASSUME NEW r \in Rooms, SweepGet(w, r) PROVE LinkedThreads'
      <4>1. Doomed(w, bind[r]) => r \in used /\ bind[r][2] \in Sfus
        BY BindingParts DEF Doomed, Linked, LinkedKeys
      <4>2. \A t \in Threads : dec'[t].at # "no" => dec'[t].sfu \in Sfus
        BY <3>1, <4>1 DEF SweepGet, DecAt, Linked, LinkedThreads
      <4>3. \A v \in Sweepers : sweep'[v].at \in {"unbind", "members"}
                                  => sweep'[v].room \in used'
        <5>1. \A v \in Sweepers : v # w => sweep'[v] = sweep[v]
          BY <3>1 DEF SweepGet, SweepTo
        <5>2. \/ Doomed(w, bind[r]) /\ sweep'[w].room = r
              \/ sweep'[w].at = "loop"
          <6>1. CASE Doomed(w, bind[r])
            <7>1. sweep'[w] = With(w, "unbind", sweep[w].todo \ {r}, r)
              BY <3>1, <6>1 DEF SweepGet, SweepTo
            <7> QED
              BY <6>1, <7>1 DEF With, SweepAt
          <6>2. CASE ~Doomed(w, bind[r])
            <7>1. sweep'[w] = With(w, "loop", sweep[w].todo \ {r}, None)
              BY <3>1, <6>2 DEF SweepGet, SweepTo
            <7> QED
              BY <7>1 DEF With, SweepAt
          <6> QED
            BY <6>1, <6>2
        <5> QED
          BY <1>0, <4>1, <5>1, <5>2 DEF Linked, LinkedThreads
      <4> QED
        BY <4>2, <4>3 DEF LinkedThreads
    <3>2. ASSUME SweepUnbind(w) \/ SweepMembers(w) PROVE LinkedThreads'
      <4>1. /\ sweep[w].at \in {"unbind", "members"} /\ dec' = dec
            /\ \A v \in Sweepers : v # w => sweep'[v] = sweep[v]
        BY <3>2 DEF SweepUnbind, SweepMembers, SweepIs, SweepTo
      <4>2. sweep'[w].room = sweep[w].room \/ sweep'[w].at = "loop"
        BY <3>2 DEF SweepUnbind, SweepMembers, SweepTo, With, SweepAt
      <4> QED
        BY <1>0, <4>1, <4>2 DEF Linked, LinkedThreads
    <3>3. ASSUME SweepLost(w) PROVE LinkedThreads'
      <4>1. dec' = dec /\ used' = used
        BY <3>3 DEF SweepLost
      <4>2. \A v \in Sweepers : v # w => sweep'[v] = sweep[v]
        BY <3>3 DEF SweepLost, SweepTo
      <4>3. \/ sweep'[w].at \notin {"unbind", "members"}
            \/ sweep[w].at = "unbind" /\ sweep'[w].room = sweep[w].room
        <5>1. w \in DOMAIN sweep
          BY DEF TypeOK
        <5>2. \/ sweep'[w] = NoSweep
              \/ /\ sweep[w].at \in {"orphans", "loop"}
                 /\ \E rest : sweep'[w] = With(w, sweep[w].at, rest, None)
              \/ /\ sweep[w].at = "unbind"
                 /\ sweep'[w] = With(w, "members", sweep[w].todo, sweep[w].room)
              \/ sweep'[w] = With(w, "loop", sweep[w].todo, None)
          BY <3>3, <5>1 DEF SweepLost, SweepTo
        <5>3. CASE sweep'[w] = NoSweep
          BY <5>3 DEF NoSweep, SweepAt
        <5>4. CASE /\ sweep[w].at \in {"orphans", "loop"}
                   /\ \E rest : sweep'[w] = With(w, sweep[w].at, rest, None)
          BY <5>4 DEF With, SweepAt
        <5>5. CASE /\ sweep[w].at = "unbind"
                   /\ sweep'[w] = With(w, "members", sweep[w].todo, sweep[w].room)
          BY <5>5 DEF With, SweepAt
        <5>6. CASE sweep'[w] = With(w, "loop", sweep[w].todo, None)
          BY <5>6 DEF With, SweepAt
        <5> QED
          BY <5>2, <5>3, <5>4, <5>5, <5>6
      <4> QED
        BY <1>0, <4>1, <4>2, <4>3 DEF Linked, LinkedThreads
    <3> QED
      BY <1>6, <3>1, <3>2, <3>3 DEF Sweeps
  <2> QED
    BY <1>0, <1>3, <2>1, <2>2, <2>3 DEF Linked
<1>7. ASSUME Probes \/ Janitors PROVE Linked'
  <2>1. UNCHANGED <<sroom, memory, dec>>
    BY <1>7 DEF Probes, ProbeScan, ProbeDone, ProbePing, Janitors, JanitorAlive,
                JanitorScan, JanitorOrphans, JanitorDone, JanitorDelete, redis
  <2>2. \A q \in Procs : LinkedProc(q)'
    BY <1>1, <1>7, SweepsKeep
  <2>3. \A v \in Sweepers : \/ sweep'[v] = sweep[v]
                            \/ sweep'[v].at \notin {"unbind", "members"}
    BY <1>7 DEF Probes, ProbeScan, ProbeDone, ProbePing, Janitors, JanitorAlive,
                JanitorScan, JanitorOrphans, JanitorDone, JanitorDelete, SweepTo,
                With, NoSweep, SweepAt
  <2>4. LinkedThreads'
    BY <1>0, <2>1, <2>3 DEF Linked, LinkedThreads
  <2> QED
    BY <1>0, <1>3, <2>1, <2>2, <2>4 DEF Linked
<1>8. ASSUME NEW n \in Nodes, Crash(n) PROVE Linked'
  <2>1. ASSUME NEW q \in Procs PROVE LinkedProc(q)'
    <3>1. CASE Kept(q)
      BY <1>1, <3>1
    <3>2. CASE pc'[q] = "idle" /\ dec'[q].at = "no" /\ req'[q] = req[q]
      BY <3>2 DEF LinkedProc, RoomSteps, UserSteps
    <3> QED
      BY <1>8, <3>1, <3>2, CrashKeeps
  <2>2. LinkedSessions'
    <3>1. peers' \subseteq peers /\ sroom' = sroom /\ used' = used
      BY <1>8 DEF Crash, redis
    <3>2. \A c \in Nodes \X Users : local'[c] \in {local[c], None}
      BY <1>8 DEF Crash
    <3> QED
      BY <3>1, <3>2 DEF Linked, LinkedSessions
  <2>3. LinkedThreads'
    BY <1>8 DEF Crash, NoDec, DecAt, Linked, LinkedThreads
  <2> QED
    BY <1>0, <2>1, <2>2, <2>3 DEF Linked
<1>9. ASSUME \/ \E n \in Nodes : Restart(n) \/ Beat(n) \/ Expire(n)
             \/ \E s \in Sfus : SfuDown(s) \/ SfuRestart(s) \/ PingStale(s)
             \/ UNCHANGED vars
      PROVE  Linked'
  <2>1. UNCHANGED <<sroom, memory, dec, sweep>>
    BY <1>9 DEF Restart, Beat, Expire, SfuDown, SfuRestart, PingStale, redis, vars
  <2>2. \A q \in Procs : LinkedProc(q)'
    BY <1>1, <1>9, SweepsKeep
  <2> QED
    BY <1>0, <1>2, <1>3, <2>1, <2>2 DEF Linked
<1> QED
  BY <1>4, <1>5, <1>6, <1>7, <1>8, <1>9 DEF Next

-----------------------------------------------------------------------------
(* Theorems *)

\* Types and links hold in every reachable state.
THEOREM LinksHold == Spec => [](TypeOK /\ Linked)
<1>1. TypeOK /\ Linked /\ [Next]_vars => (TypeOK /\ Linked)'
  BY NextTypes, NextLinked
<1> QED
  BY <1>1, InitLinked, PTL DEF Spec

\* The room plane's state is well typed; in particular decrement_sfu_room_load
\* keeps every count of rooms a natural number.
THEOREM RoomTypeCorrect == Spec => []TypeOK
BY LinksHold, PTL

\* However many handlers, sweeps, crashes and lost calls interleave, a room is
\* opened once, in one place, and a closed room never opens again.
THEOREM RoomsKeepLifecycle == Spec => RefinesLifecycle
<1>1. Init => Lifecycle!Init
  BY DEF Init, Lifecycle!Init, stage
<1>2. ASSUME TypeOK, Linked, [Next]_vars PROVE [Lifecycle!Next]_(Lifecycle!vars)
  <2>0. RoomStep
    BY <1>2, NextIsRoomStep
  <2> USE <1>2 DEF TypeOK
  <2>1. CASE RoomOpens
    <3>1. PICK r \in Rooms, b \in Bindings :
            /\ r \notin used /\ bind[r] = None
            /\ used' = used \cup {r}
            /\ bind' = [bind EXCEPT ![r] = b]
            /\ UNCHANGED members
      BY <2>1 DEF RoomOpens
    <3>2. b # None
      BY NoneAssumption
    <3>3. stage' = [stage EXCEPT ![r] = "open"] /\ stage[r] = "unused"
      BY <3>1, <3>2 DEF stage
    <3>4. Lifecycle!Open(r, b)
      BY <3>1, <3>3 DEF Lifecycle!Open
    <3> QED
      BY <3>4 DEF Lifecycle!Next
  <2>2. CASE RoomCloses
    <3>1. PICK r \in used : /\ bind' = [bind EXCEPT ![r] = None]
                            /\ UNCHANGED <<used, members>>
      BY <2>2 DEF RoomCloses
    <3>2. CASE bind[r] = None
      <4>1. bind' = bind
        BY <3>1, <3>2
      <4> QED
        BY <3>1, <4>1 DEF Lifecycle!vars, stage
    <3>3. CASE bind[r] # None
      <4>1. stage' = [stage EXCEPT ![r] = "closed"] /\ stage[r] = "open"
        BY <3>1, <3>3 DEF stage
      <4>2. Lifecycle!Close(r)
        BY <3>1, <4>1 DEF Lifecycle!Close
      <4> QED
        BY <4>2 DEF Lifecycle!Next
    <3> QED
      BY <3>2, <3>3
  <2>3. CASE MemberAdded
    <3>1. PICK r \in used, u \in Users :
            /\ members' = [members EXCEPT ![r] = @ \cup {u}]
            /\ UNCHANGED <<used, bind>>
      BY <2>3 DEF MemberAdded
    <3>2. stage' = stage /\ stage[r] # "unused"
      BY <3>1 DEF stage
    <3>3. Lifecycle!Add(r, u)
      BY <3>1, <3>2 DEF Lifecycle!Add
    <3> QED
      BY <3>1, <3>3 DEF Lifecycle!Next
  <2>4. CASE MembersRemoved
    <3>1. PICK r \in Rooms, us \in SUBSET Users :
            /\ members' = [members EXCEPT ![r] = @ \ us]
            /\ UNCHANGED <<used, bind>>
      BY <2>4 DEF MembersRemoved
    <3>2. Lifecycle!Remove(r, us)
      BY <3>1 DEF Lifecycle!Remove, stage
    <3> QED
      BY <3>2 DEF Lifecycle!Next
  <2>5. CASE UNCHANGED <<used, bind, members>>
    BY <2>5 DEF Lifecycle!vars, stage
  <2> QED
    BY <2>0, <2>1, <2>2, <2>3, <2>4, <2>5 DEF RoomStep
<1> QED
  BY <1>1, <1>2, LinksHold, PTL DEF Spec, RefinesLifecycle, Lifecycle!Spec
\* A handler starts a decrement only by a DEL that removed the binding.
LEMMA ClosersNext ==
    ASSUME TypeOK, Linked, [Next]_vars, NEW q \in Procs, Closing(q)'
    PROVE  \/ Closing(q) /\ req'[q] = req[q]
           \/ /\ req' = req /\ bind[req[q].room] # None
              /\ bind'[req[q].room] = None
              /\ \A o \in Procs : o # q => dec'[o] = dec[o]
<1> USE DEF TypeOK
<1>0. q \in Threads
  BY DEF Threads
<1>1. CASE Kept(q)
  BY <1>1 DEF Kept, Closing
<1>2. ASSUME NEW p \in Procs, Begins(p) \/ Handles(p), ~Kept(q)
      PROVE  /\ req' = req /\ bind[req[q].room] # None
             /\ bind'[req[q].room] = None
             /\ \A o \in Procs : o # q => dec'[o] = dec[o]
  <2>1. p = q
    BY <1>2, OthersKept
  <2>2. CASE CloseBinding(q)
    <3>1. req[q].room \in Rooms
      BY <2>2, HandlerNames DEF CloseBinding, At, RoomSteps, Steps
    <3>2. dec[q].at = "no" /\ dec' # dec
      BY <2>2 DEF CloseBinding, At, Closing
    <3>3. /\ bind[req[q].room] # None
          /\ dec' = [dec EXCEPT ![q] = DecAt("read", bind[req[q].room][2], 0, FALSE)]
          /\ bind' = [bind EXCEPT ![req[q].room] = None] /\ req' = req
      BY <2>2, <3>2 DEF CloseBinding
    <3>4. \A o \in Procs : o # q => dec'[o] = dec[o]
      BY <3>3 DEF Threads
    <3> QED
      BY <3>1, <3>3, <3>4
  <2>3. CASE ~CloseBinding(q)
    <3>1. dec' = dec /\ dec[q].at = "no"
      <4>1. CASE Begins(q)
        <5>1. PICK n \in Nodes :
                \/ \E u \in Users : \/ CreateBegin(q, u, n) \/ LeaveBegin(q, u, n)
                                    \/ CleanupBegin(q, u, n)
                                    \/ \E r \in Rooms : \/ JoinBegin(q, u, r, n)
                                                        \/ StaleBegin(q, u, r, n)
                \/ \E r \in Rooms : CloseBegin(q, r, n)
          BY <4>1 DEF Begins
        <5> QED
          BY <5>1 DEF CreateBegin, LeaveBegin, CleanupBegin, JoinBegin, StaleBegin,
                      CloseBegin, At
      <4>2. CASE \/ \E r \in Rooms, s \in Sfus : Assign(q, r, s)
                 \/ NoCapacity(q) \/ JoinRoute(q) \/ JoinExists(q) \/ JoinTaken(q)
                 \/ JoinAdd(q) \/ PeerCreated(q) \/ PeerFails(q) \/ Undo(q)
                 \/ Enter(q) \/ Register(q)
        BY <4>2 DEF Assign, NoCapacity, JoinRoute, JoinExists, JoinTaken, JoinAdd,
                    PeerCreated, PeerFails, Undo, Enter, Register, At
      <4>3. CASE \/ Detach(q) \/ LeaveExists(q) \/ LeaveRemove(q) \/ LeaveCount(q)
                 \/ LeaveDelete(q) \/ Clear(q) \/ CloseRoute(q)
                 \/ CloseMembers(q) \/ CloseDone(q) \/ Lost(q) \/ Unreachable(q)
                 \/ \E u \in Users : CloseSession(q, u)
        BY <4>3 DEF Detach, LeaveExists, LeaveRemove, LeaveCount, LeaveDelete, Clear,
                    CloseRoute, CloseMembers, CloseDone, Lost, Unreachable,
                    CloseSession, At
      <4> QED
        BY <1>2, <2>1, <2>3, <4>1, <4>2, <4>3 DEF Handles
    <3> QED
      BY <3>1 DEF Closing
  <2> QED
    BY <2>2, <2>3
<1>3. ASSUME NEW t \in Threads, Decrements(t) PROVE Closing(q) /\ req'[q] = req[q]
  <2>1. /\ UNCHANGED req
        /\ \/ dec'[q] = dec[q]
           \/ dec[q].at # "no" /\ dec'[q].at = "no"
           \/ dec[q].at = "read" /\ dec'[q].at = "write"
           \/ dec'[q].at \in {"iget", "iset"}
    BY <1>0, <1>3, DecrementKeeps
  <2> QED
    BY <2>1 DEF Closing
<1>4. ASSUME NEW n \in Nodes, Crash(n) PROVE Kept(q)
  BY <1>4, CrashKeeps DEF Closing
<1>5. CASE \/ \E w \in Sweepers : Sweeps(w)
           \/ Probes \/ Janitors
           \/ \E n \in Nodes : Restart(n) \/ Beat(n) \/ Expire(n)
           \/ \E s \in Sfus : SfuDown(s) \/ SfuRestart(s) \/ PingStale(s)
           \/ UNCHANGED vars
  BY <1>1, <1>5, SweepsKeep
<1> QED
  BY <1>1, <1>2, <1>3, <1>4, <1>5 DEF Next

\* However many handlers close a room at once, only the one whose DEL removed
\* the binding lowers the load of its SFU.
THEOREM RoomLoweredOnce == Spec => []LoweredOnce
<1>1. Init => LoweredOnce
  <2> SUFFICES ASSUME Init, NEW p \in Procs PROVE ~Closing(p)
    BY DEF LoweredOnce
  <2> QED
    BY DEF Init, Closing, NoDec, DecAt, Threads
<1>2. ASSUME TypeOK, Linked, LoweredOnce, [Next]_vars PROVE LoweredOnce'
  <2>1. \A r \in used : bind[r] = None => bind'[r] = None
    BY <1>2, NextIsRoomStep, RoomStepFacts
  <2>2. \A p \in Procs : Closing(p) => req[p].room \in used
    BY <1>2 DEF Closing, Linked, LinkedProc
  <2>3. ASSUME NEW p \in Procs, Closing(p)' PROVE bind'[req'[p].room] = None
    BY <1>2, <2>1, <2>2, <2>3, ClosersNext DEF LoweredOnce
  <2>4. ASSUME NEW p \in Procs, NEW q \in Procs, p # q, Closing(p)', Closing(q)',
               req'[p].room = req'[q].room
        PROVE  FALSE
    <3>1. CASE Closing(p) /\ req'[p] = req[p] /\ Closing(q) /\ req'[q] = req[q]
      BY <1>2, <2>4, <3>1 DEF LoweredOnce
    <3>2. CASE ~(Closing(p) /\ req'[p] = req[p])
      <4>1. /\ req' = req /\ bind[req[p].room] # None
            /\ \A o \in Procs : o # p => dec'[o] = dec[o]
        BY <1>2, <2>4, <3>2, ClosersNext
      <4>2. Closing(q)
        BY <2>4, <4>1 DEF Closing
      <4> QED
        BY <1>2, <2>4, <4>1, <4>2 DEF LoweredOnce
    <3>3. CASE ~(Closing(q) /\ req'[q] = req[q])
      <4>1. /\ req' = req /\ bind[req[q].room] # None
            /\ \A o \in Procs : o # q => dec'[o] = dec[o]
        BY <1>2, <2>4, <3>3, ClosersNext
      <4>2. Closing(p)
        BY <2>4, <4>1 DEF Closing
      <4> QED
        BY <1>2, <2>4, <4>1, <4>2 DEF LoweredOnce
    <3> QED
      BY <3>1, <3>2, <3>3
  <2> QED
    BY <2>3, <2>4 DEF LoweredOnce
<1> QED
  BY <1>1, <1>2, LinksHold, PTL DEF Spec
-----------------------------------------------------------------------------
(* No empty room stays *)

\* Nothing has failed and no janitor runs.
Calm == faults = 0 /\ "janitor" \notin Sweepers

\* A handler that deletes members without a look at them does so after the room
\* was closed, and ensure_peer has no reason to fail.
CalmProc(p) ==
    /\ pc[p] \in {"cmembers", "csess"} => bind[req[p].room] = None
    /\ pc[p] # "undo"
    /\ pc[p] \in {"exists", "taken", "add", "peer"} => req[p].sfu \in Sfus

EmptyAttended == \A r \in Rooms : bind[r] # None /\ members[r] = {} => Attended(r)

CalmInv ==
    Calm => /\ sfuUp = Sfus
            /\ \A w \in Sweepers : sweep[w].at = "idle"
            /\ \A p \in Procs : CalmProc(p)
            /\ EmptyAttended

\* The sweeps do nothing and nobody crashes.
LEMMA CalmQuiet ==
    ASSUME TypeOK, Linked, CalmInv, [Next]_vars, Calm'
    PROVE  /\ Calm /\ ~Fault /\ faults' = faults
           /\ sfuUp' = Sfus /\ \A w \in Sweepers : sweep'[w].at = "idle"
           /\ \/ \E p \in Procs : Begins(p) \/ Handles(p)
              \/ UNCHANGED <<bind, members, pc, req>>
<1> USE DEF TypeOK
<1>1. ~Fault
  BY BoundAssumption DEF Calm, Fault
<1>2. ASSUME NEW p \in Procs, Begins(p) \/ Handles(p)
      PROVE  UNCHANGED <<faults, sfuUp, sweep>>
  <2>1. CASE Begins(p)
    <3>1. PICK n \in Nodes :
            \/ \E u \in Users : \/ CreateBegin(p, u, n) \/ LeaveBegin(p, u, n)
                                \/ CleanupBegin(p, u, n)
                                \/ \E r \in Rooms : \/ JoinBegin(p, u, r, n)
                                                    \/ StaleBegin(p, u, r, n)
            \/ \E r \in Rooms : CloseBegin(p, r, n)
      BY <2>1 DEF Begins
    <3> QED
      BY <3>1 DEF CreateBegin, LeaveBegin, CleanupBegin, JoinBegin, StaleBegin,
                  CloseBegin, env
  <2>2. CASE \/ \E r \in Rooms, s \in Sfus : Assign(p, r, s)
             \/ NoCapacity(p) \/ JoinRoute(p) \/ JoinExists(p) \/ JoinTaken(p)
             \/ JoinAdd(p) \/ PeerCreated(p) \/ PeerFails(p) \/ Undo(p) \/ Enter(p)
             \/ Register(p)
    BY <1>1, <2>2 DEF Assign, NoCapacity, JoinRoute, JoinExists, JoinTaken, JoinAdd,
                      PeerCreated, PeerFails, Undo, Enter, Register, Goes, env
  <2>3. CASE \/ Detach(p) \/ LeaveExists(p) \/ LeaveRemove(p) \/ LeaveCount(p)
             \/ LeaveDelete(p) \/ Clear(p) \/ CloseRoute(p) \/ CloseBinding(p)
             \/ CloseMembers(p) \/ CloseDone(p) \/ Lost(p) \/ Unreachable(p)
             \/ \E u \in Users : CloseSession(p, u)
    BY <1>1, <2>3 DEF Detach, LeaveExists, LeaveRemove, LeaveCount, LeaveDelete,
                      Clear, CloseRoute, CloseBinding, CloseMembers, CloseDone, Lost,
                      Unreachable, CloseSession, Goes, env
  <2> QED
    BY <1>2, <2>1, <2>2, <2>3 DEF Handles
<1>3. ASSUME NEW t \in Threads, Decrements(t)
      PROVE  UNCHANGED <<faults, sfuUp, sweep, bind, members, pc, req>>
  BY <1>1, <1>3 DEF Decrements, DecRead, DecWrite, IdleGet, IdleSet, DecLost, redis,
                    procs, env
<1>4. ASSUME faults = 0, NEW w \in Sweepers PROVE ~Sweeps(w)
  <2>1. sweep[w].at = "idle"
    BY <1>4 DEF CalmInv, Calm
  <2> QED
    BY <1>1, <2>1 DEF Sweeps, SweepGet, SweepUnbind, SweepMembers, SweepLost, SweepIs
<1>5. ASSUME NEW w \in Sweepers, Sweeps(w) PROVE UNCHANGED faults
  BY <1>1, <1>5 DEF Sweeps, SweepGet, SweepUnbind, SweepMembers, SweepLost
<1>6. ASSUME Probes PROVE UNCHANGED faults
  BY <1>1, <1>6 DEF Probes, ProbeScan, ProbeDone, ProbePing, CalmInv, Calm
<1>7. ASSUME faults = 0, Probes
      PROVE  UNCHANGED <<faults, sfuUp, sweep, bind, members, pc, req>>
  <2>1. sfuUp = Sfus /\ \A w \in Sweepers : sweep[w].at = "idle"
    BY <1>7 DEF CalmInv, Calm
  <2>2. ~ProbeScan /\ ~ProbeDone
    BY <2>1 DEF ProbeScan, ProbeDone, SweepIs
  <2>3. PICK s \in Sfus : ProbePing(s)
    BY <1>7, <2>2 DEF Probes
  <2> QED
    BY <1>1, <2>1, <2>3 DEF ProbePing, redis, procs
<1>8. ~Janitors
  BY DEF Calm, Janitors, JanitorAlive, JanitorScan, JanitorOrphans, JanitorDone,
         JanitorDelete, SweepIs
<1>9. ASSUME NEW n \in Nodes, Crash(n) \/ Restart(n) \/ Beat(n) \/ Expire(n)
      PROVE  UNCHANGED <<faults, sfuUp, sweep, bind, members, pc, req>>
  BY <1>1, <1>9 DEF Crash, Restart, Beat, Expire, redis, procs
<1>10. ASSUME NEW s \in Sfus, SfuDown(s) \/ SfuRestart(s) \/ PingStale(s)
       PROVE  /\ UNCHANGED <<faults, sweep, bind, members, pc, req>>
              /\ sfuUp \subseteq sfuUp'
  BY <1>1, <1>10 DEF SfuDown, SfuRestart, PingStale, redis, procs
<1>11. UNCHANGED faults
  BY <1>2, <1>3, <1>5, <1>6, <1>8, <1>9, <1>10 DEF Next, vars
<1>12. Calm
  BY <1>11 DEF Calm
<1>13. sfuUp = Sfus /\ \A w \in Sweepers : sweep[w].at = "idle"
  BY <1>12 DEF CalmInv
<1>14. faults = 0
  BY <1>12 DEF Calm
<1>15. /\ sfuUp' = Sfus /\ sweep' = sweep
       /\ \/ \E p \in Procs : Begins(p) \/ Handles(p)
          \/ UNCHANGED <<bind, members, pc, req>>
  <2>1. CASE UNCHANGED vars
    BY <1>13, <2>1 DEF vars, redis, procs, env
  <2>2. CASE \E p \in Procs : Begins(p) \/ Handles(p)
    BY <1>2, <1>13, <2>2
  <2>3. CASE \E t \in Threads : Decrements(t)
    BY <1>3, <1>13, <2>3
  <2>4. CASE Probes
    BY <1>7, <1>13, <1>14, <2>4
  <2>5. CASE \E n \in Nodes : Crash(n) \/ Restart(n) \/ Beat(n) \/ Expire(n)
    BY <1>9, <1>13, <2>5
  <2>6. CASE \E s \in Sfus : SfuDown(s) \/ SfuRestart(s) \/ PingStale(s)
    <3>1. PICK s \in Sfus : SfuDown(s) \/ SfuRestart(s) \/ PingStale(s)
      BY <2>6
    <3>2. sfuUp' = Sfus
      BY <1>1, <1>13, <3>1 DEF SfuDown, SfuRestart, PingStale
    <3> QED
      BY <1>10, <3>1, <3>2
  <2> QED
    BY <1>4, <1>8, <1>14, <2>1, <2>2, <2>3, <2>4, <2>5, <2>6 DEF Next
<1> QED
  BY <1>1, <1>11, <1>12, <1>13, <1>15
Attends(p, r) ==
    req[p].room = r /\ pc[p] \in {"exists", "taken", "add", "lscard", "ldel", "close"}

\* When one handler moves, the rooms it does not attend keep theirs.
LEMMA StaysAttended ==
    ASSUME TypeOK, EmptyAttended, NEW p \in Procs,
           \A q \in Procs : q # p => Kept(q),
           NEW r \in Rooms,
           \/ Attends(p, r)'
           \/ ~Attends(p, r) /\ bind[r] # None /\ members[r] = {}
    PROVE  Attended(r)'
BY DEF EmptyAttended, Attended, Attends, Kept

\* The handler that moves keeps its own part of the invariant.
LEMMA CalmProcNext ==
    ASSUME TypeOK, Linked, Calm, ~Fault, [Next]_vars, sfuUp = Sfus,
           NEW p \in Procs, CalmProc(p), Begins(p) \/ Handles(p)
    PROVE  CalmProc(p)'
<1> USE DEF TypeOK
<1>0. /\ \A r \in used : bind[r] = None => bind'[r] = None
      /\ GiveUp(p) \in {"close", "idle"} /\ Detached(p) \in {"idle", "clear"}
      /\ AfterClose(p) \in {"idle", "cmembers", "clear"}
  BY NextIsRoomStep, RoomStepFacts, StepTypes
<1>1. CASE Begins(p)
  <2>1. PICK n \in Nodes :
          \/ \E u \in Users : \/ CreateBegin(p, u, n) \/ LeaveBegin(p, u, n)
                              \/ CleanupBegin(p, u, n)
                              \/ \E r \in Rooms : \/ JoinBegin(p, u, r, n)
                                                  \/ StaleBegin(p, u, r, n)
          \/ \E r \in Rooms : CloseBegin(p, r, n)
    BY <1>1 DEF Begins
  <2>2. pc'[p] \in {"assign", "route", "detach", "croute"}
    BY <2>1 DEF CreateBegin, LeaveBegin, CleanupBegin, JoinBegin, StaleBegin,
                CloseBegin
  <2> QED
    BY <2>2 DEF CalmProc
<1>2. CASE \E r \in Rooms, s \in Sfus : Assign(p, r, s)
  <2>1. PICK r \in Rooms, s \in Sfus : Assign(p, r, s)
    BY <1>2
  <2>2. req'[p].sfu = s /\ pc'[p] = "exists"
    BY <2>1 DEF Assign, Goes, Request
  <2> QED
    BY <2>2 DEF CalmProc
<1>3. CASE JoinRoute(p)
  <2>1. CASE pc'[p] = "idle"
    BY <2>1 DEF CalmProc
  <2>2. CASE pc'[p] # "idle"
    <3>1. req[p].room \in Rooms
      BY <1>3, HandlerNames DEF JoinRoute, At, RoomSteps, Steps
    <3>2. bind[req[p].room] # None /\ pc'[p] = "exists"
      BY <1>3, <2>2 DEF JoinRoute
    <3>3. req'[p].sfu = bind[req[p].room][2]
      BY <1>3, <2>2 DEF JoinRoute, Request
    <3> QED
      BY <3>1, <3>2, <3>3, BindingParts DEF CalmProc
  <2> QED
    BY <2>1, <2>2
<1>4. CASE \/ JoinExists(p) \/ JoinTaken(p) \/ JoinAdd(p) \/ PeerCreated(p)
           \/ PeerFails(p)
  <2>1. req' = req /\ req[p].sfu \in Sfus
    BY <1>4 DEF JoinExists, JoinTaken, JoinAdd, PeerCreated, PeerFails, At, CalmProc
  <2>2. pc'[p] \notin {"cmembers", "csess", "undo"}
    BY <1>0, <1>4, <2>1
       DEF JoinExists, JoinTaken, JoinAdd, PeerCreated, PeerFails, Goes
  <2> QED
    BY <2>1, <2>2 DEF CalmProc
<1>5. CASE \/ NoCapacity(p) \/ Undo(p) \/ Enter(p) \/ Register(p)
           \/ Detach(p) \/ LeaveExists(p) \/ LeaveRemove(p) \/ LeaveCount(p)
           \/ LeaveDelete(p) \/ Clear(p) \/ CloseRoute(p) \/ CloseDone(p)
  <2>1. pc'[p] \notin {"cmembers", "csess", "undo", "exists", "taken", "add", "peer"}
    BY <1>0, <1>5
       DEF NoCapacity, Undo, Enter, Register, Detach, LeaveExists, LeaveRemove,
           LeaveCount, LeaveDelete, Clear, CloseRoute, CloseDone, Goes
  <2> QED
    BY <2>1 DEF CalmProc
<1>6. CASE CloseBinding(p)
  <2>1. req[p].room \in Rooms
    BY <1>6, HandlerNames DEF CloseBinding, At, RoomSteps, Steps
  <2>2. bind'[req'[p].room] = None /\ pc'[p] \in {"idle", "cmembers", "clear"}
    BY <1>0, <1>6, <2>1 DEF CloseBinding
  <2> QED
    BY <2>2 DEF CalmProc
<1>7. CASE CloseMembers(p) \/ \E u \in Users : CloseSession(p, u)
  <2>1. req' = req /\ pc'[p] = "csess" /\ pc[p] \in {"cmembers", "csess"}
    BY <1>7 DEF CloseMembers, CloseSession, At, Goes
  <2>2. req[p].room \in used
    BY <2>1, HandlerNames DEF RoomSteps, Steps
  <2> QED
    BY <1>0, <2>1, <2>2 DEF CalmProc
<1> QED
  BY <1>1, <1>2, <1>3, <1>4, <1>5, <1>6, <1>7 DEF Handles, Lost, Unreachable
\* A room the step leaves bound and empty is attended after it.
LEMMA EmptyNext ==
    ASSUME TypeOK, Linked, Calm, ~Fault, EmptyAttended,
           NEW p \in Procs, CalmProc(p), Begins(p) \/ Handles(p),
           NEW r \in Rooms, bind'[r] # None, members'[r] = {}
    PROVE  Attended(r)'
<1> USE DEF TypeOK
<1>1. \A q \in Procs : q # p => Kept(q)
  BY OthersKept
<1> SUFFICES \/ Attends(p, r)'
             \/ ~Attends(p, r) /\ bind[r] # None /\ members[r] = {}
  BY <1>1, StaysAttended
<1>2. CASE Begins(p)
  <2>1. PICK n \in Nodes :
          \/ \E u \in Users : \/ CreateBegin(p, u, n) \/ LeaveBegin(p, u, n)
                              \/ CleanupBegin(p, u, n)
                              \/ \E x \in Rooms : \/ JoinBegin(p, u, x, n)
                                                  \/ StaleBegin(p, u, x, n)
          \/ \E x \in Rooms : CloseBegin(p, x, n)
    BY <1>2 DEF Begins
  <2>2. pc[p] = "idle" /\ UNCHANGED <<bind, members>>
    BY <2>1 DEF CreateBegin, LeaveBegin, CleanupBegin, JoinBegin, StaleBegin,
                CloseBegin, At, redis
  <2> QED
    BY <2>2 DEF Attends
<1>3. CASE \E x \in Rooms, s \in Sfus : Assign(p, x, s)
  <2>1. PICK x \in Rooms, s \in Sfus : Assign(p, x, s)
    BY <1>3
  <2>2. /\ req'[p].room = x /\ pc'[p] = "exists" /\ pc[p] = "assign"
        /\ members' = members /\ (x # r => bind'[r] = bind[r])
    BY <2>1 DEF Assign, Goes, Request, At
  <2> QED
    BY <2>2 DEF Attends
<1>4. CASE \/ NoCapacity(p) \/ JoinRoute(p) \/ PeerCreated(p) \/ PeerFails(p)
           \/ Enter(p) \/ Register(p) \/ Detach(p) \/ LeaveExists(p) \/ Clear(p)
           \/ CloseRoute(p) \/ CloseDone(p) \/ \E u \in Users : CloseSession(p, u)
  <2>1. UNCHANGED <<bind, members>>
    BY <1>4 DEF NoCapacity, JoinRoute, PeerCreated, PeerFails, Enter, Register,
                Detach, LeaveExists, Clear, CloseRoute, CloseDone, CloseSession, redis
  <2>2. pc[p] \in {"assign", "route", "peer", "enter", "register", "detach",
                   "lexists", "clear", "croute", "csess"}
    BY <1>4 DEF NoCapacity, JoinRoute, PeerCreated, PeerFails, Enter, Register,
                Detach, LeaveExists, Clear, CloseRoute, CloseDone, CloseSession, At
  <2> QED
    BY <2>1, <2>2 DEF Attends
<1>5. CASE JoinExists(p) \/ JoinTaken(p) \/ LeaveCount(p)
  <2>1. UNCHANGED <<bind, members, req>>
    BY <1>5 DEF JoinExists, JoinTaken, LeaveCount, redis
  <2>2. CASE req[p].room = r
    <3>1. pc'[p] \in {"taken", "add", "ldel"}
      BY <1>5, <2>1, <2>2 DEF JoinExists, JoinTaken, LeaveCount
    <3> QED
      BY <2>1, <2>2, <3>1 DEF Attends
  <2>3. CASE req[p].room # r
    BY <2>1, <2>3 DEF Attends
  <2> QED
    BY <2>2, <2>3
<1>6. CASE JoinAdd(p)
  <2>1. req[p].room # r
    BY <1>6 DEF JoinAdd
  <2> QED
    BY <1>6, <2>1 DEF JoinAdd, Attends
<1>7. CASE LeaveRemove(p)
  <2>1. UNCHANGED <<bind, req>> /\ pc[p] = "lsrem"
    BY <1>7 DEF LeaveRemove, At
  <2>2. CASE req[p].room = r /\ req[p].user \in members[r]
    <3>1. pc'[p] = "lscard"
      BY <1>7, <2>2 DEF LeaveRemove, Goes
    <3> QED
      BY <2>1, <2>2, <3>1 DEF Attends
  <2>3. CASE ~(req[p].room = r /\ req[p].user \in members[r])
    <3>1. members'[r] = members[r]
      BY <1>7, <2>3 DEF LeaveRemove
    <3> QED
      BY <2>1, <3>1 DEF Attends
  <2> QED
    BY <2>2, <2>3
<1>8. CASE LeaveDelete(p)
  <2>1. UNCHANGED <<bind, req>> /\ pc'[p] = "close"
    BY <1>8 DEF LeaveDelete, Goes
  <2>2. req[p].room # r => members'[r] = members[r]
    BY <1>8 DEF LeaveDelete
  <2> QED
    BY <2>1, <2>2 DEF Attends
<1>9. CASE CloseBinding(p)
  <2>1. req[p].room # r
    BY <1>9 DEF CloseBinding
  <2> QED
    BY <1>9, <2>1 DEF CloseBinding, Attends
<1>10. CASE CloseMembers(p)
  <2>1. pc[p] = "cmembers" /\ UNCHANGED bind
    BY <1>10 DEF CloseMembers, At
  <2>2. req[p].room # r
    BY <2>1 DEF CalmProc
  <2> QED
    BY <1>10, <2>1, <2>2 DEF CloseMembers, Attends
<1> QED
  BY <1>2, <1>3, <1>4, <1>5, <1>6, <1>7, <1>8, <1>9, <1>10
     DEF Handles, Lost, Unreachable, Undo, At, CalmProc

\* As long as nothing has failed and no janitor has run, a room that is bound and
\* empty has a handler at work on it that will fill it or close it.
THEOREM EmptyRoomsClose == Spec => []NoEmptyRoomStays
<1>1. Init => CalmInv
  <2> SUFFICES ASSUME Init PROVE CalmInv
    OBVIOUS
  <2>1. \A p \in Procs : CalmProc(p)
    BY DEF Init, CalmProc
  <2>2. EmptyAttended
    BY DEF Init, EmptyAttended
  <2>3. \A w \in Sweepers : sweep[w].at = "idle"
    BY DEF Init, NoSweep, SweepAt
  <2> QED
    BY <2>1, <2>2, <2>3 DEF Init, CalmInv
<1>2. ASSUME TypeOK, Linked, CalmInv, [Next]_vars PROVE CalmInv'
  <2> SUFFICES ASSUME Calm' PROVE CalmInv'
    BY DEF CalmInv
  <2>1. /\ Calm /\ ~Fault
        /\ sfuUp' = Sfus /\ \A w \in Sweepers : sweep'[w].at = "idle"
        /\ \/ \E p \in Procs : Begins(p) \/ Handles(p)
           \/ UNCHANGED <<bind, members, pc, req>>
    BY <1>2, CalmQuiet
  <2>2. /\ sfuUp = Sfus /\ EmptyAttended
        /\ \A p \in Procs : CalmProc(p)
    BY <1>2, <2>1 DEF CalmInv
  <2>3. ASSUME NEW p \in Procs, Begins(p) \/ Handles(p) PROVE CalmInv'
    <3>1. CalmProc(p)'
      BY <1>2, <2>1, <2>2, <2>3, CalmProcNext
    <3>2. ASSUME NEW q \in Procs, q # p PROVE CalmProc(q)'
      <4>1. Kept(q)
        BY <1>2, <2>3, <3>2, OthersKept
      <4>2. pc[q] \in {"cmembers", "csess"} => req[q].room \in used
        BY <1>2, HandlerNames DEF RoomSteps, Steps
      <4>3. \A r \in used : bind[r] = None => bind'[r] = None
        BY <1>2, NextIsRoomStep, RoomStepFacts
      <4> QED
        BY <2>2, <4>1, <4>2, <4>3 DEF Kept, CalmProc
    <3>3. EmptyAttended'
      BY <1>2, <2>1, <2>2, <2>3, EmptyNext DEF EmptyAttended
    <3> QED
      BY <2>1, <3>1, <3>2, <3>3 DEF CalmInv
  <2>4. CASE UNCHANGED <<bind, members, pc, req>>
    <3>1. EmptyAttended' /\ \A p \in Procs : CalmProc(p)'
      BY <2>2, <2>4 DEF EmptyAttended, Attended, CalmProc
    <3> QED
      BY <2>1, <3>1 DEF CalmInv
  <2> QED
    BY <2>1, <2>3, <2>4
<1>3. CalmInv => NoEmptyRoomStays
  BY DEF CalmInv, Calm, EmptyAttended, NoEmptyRoomStays
<1> QED
  BY <1>1, <1>2, <1>3, LinksHold, PTL DEF Spec
=============================================================================

--------------------------- MODULE AdmissionProofs ---------------------------
(***************************************************************************)
(* Proofs about Admission: types, and that the load of a node counts its   *)
(* connections.                                                            *)
(*                                                                         *)
(* LoadExact needs to know who has the flag instance_load_registered: only *)
(* a connected user (Flagged), every user between ZSCORE and ZADD          *)
(* (Flagged), and no user that attaches for the first time; the flag stays *)
(* up without a session only where the count is already off (Rebound).     *)
(***************************************************************************)
EXTENDS Admission, FiniteSetTheorems, TLAPS

\* The flag is that of a connection, decrement_instance_load runs for it, and
\* only a connection bound to a session is counted.
Flagged ==
    \A u \in Users :
        /\ u \in registered => node[u] \in Nodes
        /\ at[u] \in {"logoutSet", "cleanupSet"} => u \in registered
        /\ at[u] = "attach" => u \in session_id

\* A connection that can still attach, or is about to be counted, has no flag,
\* unless its node met a window.
Rebound ==
    \A u \in registered : u \notin session_id \/ at[u] = "attach" => node[u] \in drifted

IInv == TypeOK /\ Flagged /\ Rebound /\ LoadExact
-----------------------------------------------------------------------------
(* Types *)

\* A user's steps keep the types.
LEMMA UserTypes ==
    ASSUME TypeOK, NEW u \in Users, User(u)
    PROVE  TypeOK'
<1> USE AdmissionAssumption DEF TypeOK, store, context, local, supervisor, history
<1>1. CASE Create(u)
  BY <1>1 DEF Create, Issue, LeastLoaded
<1>2. CASE Join(u)
  BY <1>2 DEF Join, Issue
<1>3. CASE SessionChanges(u)
  BY <1>3 DEF SessionChanges
<1>4. CASE Upgrade(u)
  BY <1>4 DEF Upgrade, Goto, Steps, purging
<1>5. CASE Refuse(u)
  BY <1>5 DEF Refuse
<1>6. CASE ConnectFails(u)
  BY <1>6 DEF ConnectFails
<1>7. CASE AttachBind(u)
  BY <1>7 DEF AttachBind, Goto, Answers, Fails, Fault, Steps
<1>8. CASE AttachLoad(u)
  BY <1>8 DEF AttachLoad, Goto, Answers, Fails, Fault, Drift, Incremented, Steps
<1>9. CASE EnterRoom(u)
  BY <1>9 DEF EnterRoom, CheckSession
<1>10. CASE Logout(u)
  BY <1>10 DEF Logout, CheckSession, LeaveRoom, Goto, Steps
<1>11. CASE LogoutGet(u)
  BY <1>11 DEF LogoutGet, Answers, Fails, Fault, ReadLoad, LoggedOut, Drift, Goto, Steps
<1>12. CASE LogoutSet(u)
  BY <1>12 DEF LogoutSet, Answers, Fails, Fault, WriteLoad, WriteFails, LoggedOut, Drift, Goto, Lowered, Steps
<1>13. CASE Disconnect(u)
  BY <1>13 DEF Disconnect, Goto, Steps
<1>14. CASE CleanupGet(u)
  BY <1>14 DEF CleanupGet, Answers, Fails, Fault, LeaveRoom, ReadLoad, Gone, Drift, Goto, Steps
<1>15. CASE CleanupSet(u)
  BY <1>15 DEF CleanupSet, Answers, Fails, Fault, WriteLoad, WriteFails, Gone, Drift, Goto, Lowered, Steps
<1> QED
  BY <1>1, <1>2, <1>3, <1>4, <1>5, <1>6, <1>7, <1>8, <1>9, <1>10, <1>11, <1>12, <1>13, <1>14, <1>15 DEF User

\* Initially everything is up and nobody is connected.
LEMMA InitInv == Init => IInv
<1> SUFFICES ASSUME Init PROVE IInv
  OBVIOUS
<1>1. redis_up \in BOOLEAN /\ redis_was_down \in BOOLEAN
  BY Zenon DEF Init
<1>2. TypeOK
  BY <1>1, AdmissionAssumption DEF Init, TypeOK, Steps, PurgeSteps, Janitor
<1>3. \A n \in Nodes : Counted(n) = {}
  BY DEF Init, Counted
<1>4. LoadExact
  BY <1>3, FS_EmptySet DEF Init, LoadExact
<1>5. Flagged /\ Rebound
  BY DEF Init, Flagged, Rebound
<1> QED
  BY <1>2, <1>4, <1>5 DEF IInv

\* The steps of a node and of the supervisor's dealings with it keep the types.
LEMMA NodeTypes ==
    ASSUME TypeOK, NEW n \in Nodes, Node(n)
    PROVE  TypeOK'
<1> USE AdmissionAssumption DEF TypeOK, store, context, local, supervisor, history
<1>1. CASE PurgeNotify(n)
  BY <1>1 DEF PurgeNotify, PurgeSteps
<1>2. CASE PurgeClear(n)
  BY <1>2 DEF PurgeClear, PurgeSteps
<1>3. CASE Probe(n)
  BY <1>3 DEF Probe
<1>4. CASE Stale(n)
  BY <1>4 DEF Stale, Fault
<1>5. CASE PurgeCall(n)
  BY <1>5 DEF PurgeCall, BeginPurge, Fault, PurgeSteps, purging
<1>6. CASE JanitorRemove(n)
  BY <1>6 DEF JanitorRemove, Answers, Fault, Counted
<1>7. CASE Crash(n)
  BY <1>7 DEF Crash, Fault, Drift, Counted, PurgeSteps, Steps
<1>8. CASE Start(n)
  BY <1>8 DEF Start
<1> QED
  BY <1>1, <1>2, <1>3, <1>4, <1>5, <1>6, <1>7, <1>8 DEF Node

\* Every step keeps the types.
LEMMA StepTypes ==
    ASSUME TypeOK, [Next]_vars
    PROVE  TypeOK'
<1> USE AdmissionAssumption DEF TypeOK, store, context, local, supervisor, history
<1>1. CASE RedisCheck
  <2>1. redis_was_down' \in BOOLEAN
    BY <1>1, Zenon DEF RedisCheck
  <2> QED
    BY <1>1, <2>1 DEF RedisCheck, Answers, Fails, Fault
<1>2. CASE JanitorAlive
  BY <1>2 DEF JanitorAlive, Janitor
<1>3. CASE JanitorLoads
  BY <1>3 DEF JanitorLoads, Janitor
<1>4. CASE JanitorEnd
  BY <1>4 DEF JanitorEnd, Janitor, Fails, Fault
<1>5. CASE RedisFails \/ RedisRecovers
  <2>1. redis_up' \in BOOLEAN
    BY <1>5, Zenon DEF RedisFails, RedisRecovers
  <2> QED
    BY <1>5, <2>1 DEF RedisFails, RedisRecovers, Fault
<1>6. CASE UNCHANGED vars
  BY <1>6 DEF vars
<1> QED
  BY <1>1, <1>2, <1>3, <1>4, <1>5, <1>6, UserTypes, NodeTypes DEF Next
-----------------------------------------------------------------------------
(* The count of a node *)

\* What is counted is finite, and one more or one less changes the count by one.
LEMMA Counts ==
    ASSUME TypeOK, NEW S \in SUBSET Users
    PROVE  /\ Cardinality(S) \in Nat
           /\ \A u : u \in S => Cardinality(S \ {u}) = Cardinality(S) - 1 /\ Cardinality(S) > 0
           /\ \A u : u \notin S => Cardinality(S \cup {u}) = Cardinality(S) + 1
<1>1. IsFiniteSet(S)
  BY FS_Subset, AdmissionAssumption
<1>2. Cardinality(S) \in Nat
  BY <1>1, FS_CardinalityType
<1>3. ASSUME NEW u, u \in S
      PROVE  Cardinality(S \ {u}) = Cardinality(S) - 1 /\ Cardinality(S) > 0
  <2>1. Cardinality(S \ {u}) = Cardinality(S) - 1
    BY <1>1, <1>3, FS_RemoveElement
  <2>2. Cardinality(S) # 0
    BY <1>1, <1>3, FS_EmptySet
  <2> QED
    BY <1>2, <2>1, <2>2
<1>4. ASSUME NEW u, u \notin S PROVE Cardinality(S \cup {u}) = Cardinality(S) + 1
  BY <1>1, <1>4, FS_AddElement
<1> QED
  BY <1>2, <1>3, <1>4

Counting == Flagged /\ Rebound /\ LoadExact

\* Steps that leave the loads and the flags alone.
LEMMA CountFrame ==
    ASSUME Counting, UNCHANGED <<load, registered, node, at, session_id, drifted>>
    PROVE  Counting'
  BY DEF Counting, Flagged, Rebound, LoadExact, Counted

\* A user comes, goes or moves on: no flag changes but one that was not counted.
LEMMA MovesKeep ==
    ASSUME TypeOK, Counting, NEW u \in Users,
           Upgrade(u) \/ AttachBind(u) \/ EnterRoom(u) \/ Logout(u) \/ Disconnect(u)
    PROVE  Counting'
<1> USE DEF TypeOK
<1>1. CASE Upgrade(u)
  <2>1. u \notin registered /\ \A n \in Nodes : Counted(n)' = Counted(n)
    BY <1>1, AdmissionAssumption DEF Upgrade, Counting, Flagged, Counted
  <2> QED
    BY <1>1, <2>1 DEF Upgrade, Goto, Counting, Flagged, Rebound, LoadExact, store, history
<1>2. CASE AttachBind(u)
  <2>1. \A n \in Nodes : Counted(n)' = Counted(n)
    BY <1>2 DEF AttachBind, Counted
  <2> QED
    BY <1>2, <2>1
       DEF AttachBind, Goto, Counting, Flagged, Rebound, LoadExact, store, history
<1>3. CASE EnterRoom(u)
  <2>1. \A n \in Nodes : Counted(n)' = Counted(n)
    BY <1>3 DEF EnterRoom, Counted
  <2> QED
    BY <1>3, <2>1
       DEF EnterRoom, CheckSession, Counting, Flagged, Rebound, LoadExact, store, history
<1>4. CASE Logout(u)
  <2>1. \A n \in Nodes : Counted(n)' = Counted(n)
    BY <1>4 DEF Logout, Counted
  <2> QED
    BY <1>4, <2>1
       DEF Logout, CheckSession, Goto, Counting, Flagged, Rebound, LoadExact, store, history
<1>5. CASE Disconnect(u)
  <2>1. UNCHANGED <<load, drifted, session_id>> /\ at[u] = "open"
    BY <1>5 DEF Disconnect, store
  <2>2. CASE u \in session_id
    BY <1>5, <2>1, <2>2
       DEF Disconnect, Goto, Counting, Flagged, Rebound, LoadExact, Counted
  <2>3. CASE u \notin session_id
    <3>1. /\ registered' = registered \ {u}
          /\ \A v \in Users : v # u => node'[v] = node[v] /\ at'[v] = at[v]
          /\ at'[u] = "out"
      BY <1>5, <2>3 DEF Disconnect, Goto
    <3>2. \A n \in Nodes \ drifted : Counted(n)' = Counted(n)
      BY <2>3, <3>1 DEF Counting, Rebound, Counted
    <3> QED
      BY <2>1, <3>1, <3>2 DEF Counting, Flagged, Rebound, LoadExact
  <2> QED
    BY <2>2, <2>3
<1> QED
  BY <1>1, <1>2, <1>3, <1>4, <1>5

\* ZINCRBY and the flag go together, or the load has drifted.
LEMMA AttachKeeps ==
    ASSUME TypeOK, Counting, NEW u \in Users, AttachLoad(u)
    PROVE  Counting'
<1> USE DEF TypeOK
<1> DEFINE n == node[u]
<1>1. n \in Nodes /\ at[u] = "attach" /\ at' = [at EXCEPT ![u] = "open"]
      /\ UNCHANGED <<node, session_id>>
  BY DEF AttachLoad, Goto
<1>2. CASE load' = Incremented(n) /\ registered' = registered \cup {u} /\ UNCHANGED drifted
  <2>1. CASE u \in registered
    <3>1. n \in drifted /\ \A m \in Nodes : Counted(m)' = Counted(m)
      BY <1>1, <1>2, <2>1 DEF Counting, Rebound, Counted
    <3> QED
      BY <1>1, <1>2, <2>1, <3>1
         DEF Counting, Flagged, Rebound, LoadExact, Incremented
  <2>2. CASE u \notin registered
    <3>1. /\ Counted(n)' = Counted(n) \cup {u} /\ u \notin Counted(n)
          /\ \A m \in Nodes : m # n => Counted(m)' = Counted(m)
          /\ Counted(n) \subseteq Users
      BY <1>1, <1>2, <2>2 DEF Counted
    <3>2. Cardinality(Counted(n)') = Cardinality(Counted(n)) + 1
      BY <3>1, Counts
    <3>3. LoadExact'
      BY <1>1, <1>2, <3>1, <3>2 DEF Counting, LoadExact, Incremented
    <3>4. u \in session_id
      BY <1>1 DEF Counting, Flagged
    <3>5. Flagged' /\ Rebound'
      BY <1>1, <1>2, <2>2, <3>4 DEF Counting, Flagged, Rebound
    <3> QED
      BY <3>3, <3>5 DEF Counting
  <2> QED
    BY <2>1, <2>2
<1>3. CASE UNCHANGED registered /\ Drift(n, load' # load)
           /\ load' \in {load, Incremented(n)}
  <2>1. \A m \in Nodes : Counted(m)' = Counted(m)
    BY <1>1, <1>3 DEF Counted
  <2> QED
    BY <1>1, <1>3, <2>1 DEF Counting, Flagged, Rebound, LoadExact, Incremented, Drift
<1> QED
  BY <1>2, <1>3 DEF AttachLoad

\* The flag of a user goes: with ZADD of the score that was read, or with a
\* drift.
LEMMA FlagGoes ==
    ASSUME TypeOK, Counting, NEW u \in Users, u \in registered,
           registered' = registered \ {u},
           \A v \in Users : v # u => node'[v] = node[v],
           \/ WriteLoad(u)
           \/ node[u] \in drifted' /\ drifted \subseteq drifted'
              /\ \A n \in Nodes : n # node[u] => load'[n] = load[n]
    PROVE  LoadExact' /\ drifted \subseteq drifted'
<1> USE DEF TypeOK
<1>1. PICK n \in Nodes : n = node[u]
  BY DEF Counting, Flagged
<1>2. /\ Counted(n)' = Counted(n) \ {u} /\ u \in Counted(n) /\ Counted(n) \subseteq Users
      /\ \A m \in Nodes : m # n => Counted(m)' = Counted(m)
  BY <1>1 DEF Counted
<1>3. Cardinality(Counted(n)') = Cardinality(Counted(n)) - 1 /\ Cardinality(Counted(n)) > 0
      /\ Cardinality(Counted(n)) \in Nat
  BY <1>2, Counts
<1>4. CASE WriteLoad(u)
  <2>1. /\ load' = [load EXCEPT ![n] = Lowered(score[u])]
        /\ drifted' = IF load[n] # score[u] THEN drifted \cup {n} ELSE drifted
    BY <1>1, <1>4 DEF WriteLoad, Drift
  <2>2. ASSUME n \notin drifted' PROVE load'[n] = Cardinality(Counted(n)')
    <3>1. load[n] = score[u] /\ load[n] = Cardinality(Counted(n))
      BY <1>1, <2>1, <2>2 DEF Counting, LoadExact
    <3> QED
      BY <1>1, <1>3, <2>1, <3>1 DEF Lowered
  <2>3. ASSUME NEW m \in Nodes, m # n, m \notin drifted' PROVE load'[m] = Cardinality(Counted(m)')
    BY <1>1, <1>2, <2>1, <2>3 DEF Counting, LoadExact
  <2> QED
    BY <2>1, <2>2, <2>3 DEF LoadExact
<1>5. CASE /\ node[u] \in drifted' /\ drifted \subseteq drifted'
           /\ \A m \in Nodes : m # node[u] => load'[m] = load[m]
  BY <1>1, <1>2, <1>5 DEF Counting, LoadExact
<1> QED
  BY <1>4, <1>5

\* A user's flag stays, and a load that changes has drifted.
LEMMA FlagStays ==
    ASSUME TypeOK, Counting, NEW n \in Nodes, UNCHANGED <<registered, node>>,
           \A m \in Nodes : m # n => load'[m] = load[m],
           drifted \subseteq drifted', load' # load => n \in drifted'
    PROVE  LoadExact'
<1>1. \A m \in Nodes : Counted(m)' = Counted(m)
  BY DEF Counted
<1>2. CASE n \in drifted'
  BY <1>1, <1>2 DEF Counting, LoadExact
<1>3. CASE load' = load
  BY <1>1, <1>3 DEF Counting, LoadExact
<1> QED
  BY <1>2, <1>3

\* Logout: ZSCORE.
LEMMA LogoutGetKeeps ==
    ASSUME TypeOK, Counting, NEW u \in Users, LogoutGet(u)
    PROVE  Counting'
<1> USE DEF TypeOK
<1>1. at[u] = "logout" /\ node[u] \in Nodes /\ UNCHANGED <<load, node, registered>>
  BY DEF LogoutGet
<1>2. drifted \subseteq drifted'
  BY DEF LogoutGet, Drift
<1>3. LoadExact'
  BY <1>1, <1>2, FlagStays
<1>4. \/ at' = [at EXCEPT ![u] = "logoutSet"] /\ u \in registered /\ UNCHANGED session_id
      \/ /\ at' = [at EXCEPT ![u] = "open"]
         /\ \/ UNCHANGED session_id
            \/ session_id' = session_id \ {u} /\ (u \in registered => node[u] \in drifted')
  BY DEF LogoutGet, ReadLoad, LoggedOut, Goto, Drift
<1>5. Flagged' /\ Rebound'
  BY <1>1, <1>2, <1>4 DEF Counting, Flagged, Rebound
<1> QED
  BY <1>3, <1>5 DEF Counting

\* Logout: ZADD, and the session is forgotten.
LEMMA LogoutSetKeeps ==
    ASSUME TypeOK, Counting, NEW u \in Users, LogoutSet(u)
    PROVE  Counting'
<1> USE DEF TypeOK
<1>1. /\ at[u] = "logoutSet" /\ node[u] \in Nodes /\ UNCHANGED node
      /\ at' = [at EXCEPT ![u] = "open"]
      /\ session_id' \in {session_id, session_id \ {u}}
  BY DEF LogoutSet, LoggedOut, Goto
<1>2. u \in registered
  BY <1>1 DEF Counting, Flagged
<1>3. CASE registered' = registered \ {u} /\ WriteLoad(u)
  <2>1. LoadExact' /\ drifted \subseteq drifted'
    BY <1>1, <1>2, <1>3, FlagGoes
  <2>2. Flagged' /\ Rebound'
    BY <1>1, <1>3, <2>1 DEF Counting, Flagged, Rebound
  <2> QED
    BY <2>1, <2>2 DEF Counting
<1>4. CASE UNCHANGED <<registered, session_id>> /\ WriteFails(u, FALSE)
  <2>1. /\ \A m \in Nodes : m # node[u] => load'[m] = load[m]
        /\ drifted \subseteq drifted' /\ (load' # load => node[u] \in drifted')
    BY <1>1, <1>4 DEF WriteFails, Drift
  <2>2. LoadExact'
    BY <1>1, <1>4, <2>1, FlagStays
  <2>3. Flagged' /\ Rebound'
    BY <1>1, <1>4, <2>1 DEF Counting, Flagged, Rebound
  <2> QED
    BY <2>2, <2>3 DEF Counting
<1> QED
  BY <1>3, <1>4 DEF LogoutSet

\* What cleanup_connection leaves of a user.
LEMMA GoneKeeps ==
    ASSUME TypeOK, Counting, NEW u \in Users, Gone(u), drifted \subseteq drifted'
    PROVE  Flagged' /\ Rebound'
  BY DEF TypeOK, Counting, Flagged, Rebound, Gone, Goto

\* cleanup_connection: ZSCORE, or the connection goes with its flag.
LEMMA CleanupGetKeeps ==
    ASSUME TypeOK, Counting, NEW u \in Users, CleanupGet(u)
    PROVE  Counting'
<1> USE DEF TypeOK
<1>1. at[u] = "cleanup" /\ node[u] \in Nodes /\ UNCHANGED load
  BY DEF CleanupGet, store
<1>2. CASE /\ u \in registered /\ ReadLoad(u, "cleanupSet")
           /\ UNCHANGED <<node, session_id, registered, drifted>>
  <2>1. LoadExact'
    BY <1>1, <1>2, FlagStays
  <2>2. Flagged' /\ Rebound'
    BY <1>1, <1>2 DEF Counting, Flagged, Rebound, ReadLoad, Goto
  <2> QED
    BY <2>1, <2>2 DEF Counting
<1>3. CASE Gone(u) /\ Drift(node[u], u \in registered)
  <2>1. drifted \subseteq drifted' /\ (u \in registered => node[u] \in drifted')
    BY <1>3 DEF Drift
  <2>2. registered' = registered \ {u} /\ \A v \in Users : v # u => node'[v] = node[v]
    BY <1>3 DEF Gone
  <2>3. CASE u \in registered
    BY <1>1, <1>3, <2>1, <2>2, <2>3, FlagGoes, GoneKeeps DEF Counting
  <2>4. CASE u \notin registered
    <3>1. \A m \in Nodes : Counted(m)' = Counted(m)
      BY <2>2, <2>4 DEF Counted
    <3>2. LoadExact'
      BY <1>1, <2>1, <3>1 DEF Counting, LoadExact
    <3> QED
      BY <1>3, <2>1, <3>2, GoneKeeps DEF Counting
  <2> QED
    BY <2>3, <2>4
<1>4. CASE Gone(u) /\ u \notin registered /\ UNCHANGED drifted
  BY <1>3, <1>4 DEF Drift
<1> QED
  BY <1>2, <1>3, <1>4 DEF CleanupGet

\* cleanup_connection: ZADD.
LEMMA CleanupSetKeeps ==
    ASSUME TypeOK, Counting, NEW u \in Users, CleanupSet(u)
    PROVE  Counting'
<1> USE DEF TypeOK
<1>1. at[u] = "cleanupSet" /\ node[u] \in Nodes /\ Gone(u)
  BY DEF CleanupSet
<1>2. u \in registered
  BY <1>1 DEF Counting, Flagged
<1>3. registered' = registered \ {u} /\ \A v \in Users : v # u => node'[v] = node[v]
  BY <1>1 DEF Gone
<1>4. WriteFails(u, TRUE) =>
        /\ node[u] \in drifted' /\ drifted \subseteq drifted'
        /\ \A m \in Nodes : m # node[u] => load'[m] = load[m]
  BY <1>1 DEF WriteFails, Drift
<1>5. WriteLoad(u) \/ WriteFails(u, TRUE)
  BY DEF CleanupSet
<1>6. LoadExact' /\ drifted \subseteq drifted'
  BY <1>2, <1>3, <1>4, <1>5, FlagGoes
<1> QED
  BY <1>1, <1>6, GoneKeeps DEF Counting

\* ZREM: with nobody counted zero is exact, else the load has drifted.
LEMMA RemoveKeeps ==
    ASSUME TypeOK, Counting, NEW n \in Nodes, JanitorRemove(n)
    PROVE  Counting'
<1> USE DEF TypeOK
<1>1. UNCHANGED <<node, at, registered, session_id>>
  BY DEF JanitorRemove, context
<1>2. \A m \in Nodes : Counted(m)' = Counted(m)
  BY <1>1 DEF Counted
<1>3. CASE UNCHANGED <<load, drifted>>
  BY <1>1, <1>3, CountFrame
<1>4. CASE /\ load' = [load EXCEPT ![n] = 0]
           /\ drifted' = IF Counted(n) = {} THEN drifted \ {n} ELSE drifted \cup {n}
  <2>1. LoadExact'
    BY <1>2, <1>4, FS_EmptySet DEF Counting, LoadExact
  <2>2. Rebound'
    BY <1>1, <1>4 DEF Counting, Rebound, Counted
  <2>3. Flagged'
    BY <1>1 DEF Counting, Flagged
  <2> QED
    BY <2>1, <2>2, <2>3 DEF Counting
<1> QED
  BY <1>3, <1>4 DEF JanitorRemove

\* A node goes with all of its connections.
LEMMA CrashKeeps ==
    ASSUME TypeOK, Counting, NEW n \in Nodes, Crash(n)
    PROVE  Counting'
<1> USE DEF TypeOK
<1> DEFINE lost == {u \in Users : node[u] = n}
<1>1. /\ load' = load /\ registered' = registered \ lost /\ session_id' = session_id \ lost
      /\ \A u \in Users : u \notin lost => node'[u] = node[u] /\ at'[u] = at[u]
      /\ \A u \in lost : at'[u] = "out"
      /\ drifted' = IF Counted(n) # {} THEN drifted \cup {n} ELSE drifted
  BY DEF Crash, store, Drift
<1>2. \A m \in Nodes : m # n => Counted(m)' = Counted(m)
  BY <1>1 DEF Counted
<1>3. n \notin drifted' => Counted(n)' = Counted(n)
  BY <1>1 DEF Counted
<1>4. LoadExact'
  BY <1>1, <1>2, <1>3 DEF Counting, LoadExact
<1>5. Flagged' /\ Rebound'
  BY <1>1 DEF Counting, Flagged, Rebound
<1> QED
  BY <1>4, <1>5 DEF Counting

\* Every step keeps the loads exact.
LEMMA CountStep ==
    ASSUME TypeOK, Counting, [Next]_vars
    PROVE  Counting'
<1>1. ASSUME NEW u \in Users,
             Create(u) \/ Join(u) \/ SessionChanges(u) \/ Refuse(u) \/ ConnectFails(u)
      PROVE  UNCHANGED <<load, registered, node, at, session_id, drifted>>
  BY <1>1 DEF Create, Join, Issue, SessionChanges, Refuse, ConnectFails, store, context, history
<1>2. ASSUME NEW n \in Nodes,
             PurgeNotify(n) \/ PurgeClear(n) \/ Probe(n) \/ Stale(n) \/ PurgeCall(n) \/ Start(n)
      PROVE  UNCHANGED <<load, registered, node, at, session_id, drifted>>
  BY <1>2 DEF PurgeNotify, PurgeClear, Probe, Stale, PurgeCall, Start, store, context, history
<1>3. RedisCheck \/ JanitorAlive \/ JanitorLoads \/ JanitorEnd \/ RedisFails \/ RedisRecovers
        \/ UNCHANGED vars
      => UNCHANGED <<load, registered, node, at, session_id, drifted>>
  BY DEF RedisCheck, JanitorAlive, JanitorLoads, JanitorEnd, RedisFails, RedisRecovers, vars,
         store, context, history
<1>4. ASSUME NEW u \in Users, User(u) PROVE Counting'
  BY <1>1, <1>4, CountFrame, MovesKeep, AttachKeeps, LogoutGetKeeps, LogoutSetKeeps,
     CleanupGetKeeps, CleanupSetKeeps DEF User
<1>5. ASSUME NEW n \in Nodes, Node(n) PROVE Counting'
  BY <1>2, <1>5, CountFrame, RemoveKeeps, CrashKeeps DEF Node
<1> QED
  BY <1>3, <1>4, <1>5, CountFrame DEF Next

\* The strengthening is an invariant.
LEMMA Invariance == Spec => []IInv
<1>1. IInv /\ [Next]_vars => IInv'
  BY StepTypes, CountStep DEF IInv, Counting
<1> QED
  BY <1>1, InitInv, PTL DEF Spec
-----------------------------------------------------------------------------
(* Theorems *)

\* Loads, connections, purges and sweeps keep their types: a load is never
\* negative, whatever decrement_instance_load finds.
THEOREM AdmissionTypes == Spec => []TypeOK
  BY Invariance, PTL DEF IInv

\* For any number of users, nodes and faults, the load of a node that met none
\* of the named windows is the number of its attached connections
\* (increment_instance_load, decrement_instance_load).
THEOREM LoadsExact == Spec => []LoadExact
  BY Invariance, PTL DEF IInv
=============================================================================

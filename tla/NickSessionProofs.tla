-------------------------- MODULE NickSessionProofs --------------------------
(***************************************************************************)
(* For any number of sessions, nicknames, nodes and faults: nicknames of   *)
(* logged-in sessions are unique, and a forgotten session stays forgotten. *)
(***************************************************************************)
EXTENDS NickSession, TLAPS

-----------------------------------------------------------------------------
(* The operations on the session table *)

\* Two tables that agree on who is logged in, and as whom.
SameLogins(h, g) ==
    \A s \in Sessions : g[s].nick = h[s].nick /\ (h[s].live => g[s].live)

\* session_create writes one session's nickname.
LEMMA SetNickFacts ==
    ASSUME hash \in [Sessions -> Hash],
           NEW s \in Sessions, NEW n \in Nicks \cup {None}
    PROVE  /\ SetNick(s, n) \in [Sessions -> Hash]
           /\ SetNick(s, n)[s].nick = n /\ SetNick(s, n)[s].live
           /\ \A t \in Sessions : t # s => SetNick(s, n)[t] = hash[t]
BY DEF SetNick, Hash

\* session_set_room may create a hash, and leaves every nickname as it is.
LEMMA SetRoomFacts ==
    ASSUME hash \in [Sessions -> Hash], NEW s \in Sessions, NEW b \in BOOLEAN
    PROVE  SetRoom(s, b) \in [Sessions -> Hash] /\ SameLogins(hash, SetRoom(s, b))
BY DEF SetRoom, Hash, SameLogins

\* The same for session_set_owner.
LEMMA SetOwnerFacts ==
    ASSUME hash \in [Sessions -> Hash], NEW s \in Sessions, NEW nd \in Nodes
    PROVE  SetOwner(s, nd) \in [Sessions -> Hash] /\ SameLogins(hash, SetOwner(s, nd))
BY DEF SetOwner, Hash, SameLogins

\* EXPIRE changes a TTL only.
LEMMA ExpiringFacts ==
    ASSUME hash \in [Sessions -> Hash], NEW s \in Sessions
    PROVE  Expiring(s) \in [Sessions -> Hash] /\ SameLogins(hash, Expiring(s))
BY DEF Expiring, Hash, SameLogins

\* DEL leaves the other sessions as they are.
LEMMA DeletedFacts ==
    ASSUME hash \in [Sessions -> Hash], NEW s \in Sessions
    PROVE  /\ Deleted(s) \in [Sessions -> Hash]
           /\ \A t \in Sessions : t # s => Deleted(s)[t] = hash[t]
           /\ Deleted(s)[s].nick = None /\ Deleted(s)[s].live = FALSE
BY DEF Deleted, Absent, Hash

\* COMPARE_AND_DEL: nobody else's lease is touched.
LEMMA ReleasedFacts ==
    ASSUME lease \in [Nicks -> Sessions \cup {None}],
           NEW s \in Sessions, NEW n \in Nicks \cup {None}
    PROVE  /\ Released(s, n) \in [Nicks -> Sessions \cup {None}]
           /\ \A m \in Nicks, t \in Sessions :
                 t # s /\ lease[m] = t => Released(s, n)[m] = t
BY NoneAssumption DEF Released

-----------------------------------------------------------------------------
(* Type correctness *)

\* Every step keeps the types.
LEMMA TypeStep == TypeOK /\ [Next]_vars => TypeOK'
<1> SUFFICES ASSUME TypeOK, [Next]_vars PROVE TypeOK'
    OBVIOUS
<1> USE DEF TypeOK
<1>0. faults' = faults \/ Fault => faults' \in 0..MaxFaults
    BY FaultsAssumption DEF Fault
<1>1. ASSUME NEW s \in Sessions, NEW n \in Nicks, Reserve(s, n) PROVE TypeOK'
    BY <1>0, <1>1 DEF Reserve, Answers, AuthSteps, signaling
<1>2. ASSUME NEW s \in Sessions, StoreNick(s) PROVE TypeOK'
    <2>1. SetNick(s, want[s]) \in [Sessions -> Hash]
        BY SetNickFacts
    <2> QED BY <1>0, <1>2, <2>1
            DEF StoreNick, StoreStep, Answers, AuthSteps, signaling
<1>3. ASSUME NEW s \in Sessions, StoreRoom(s) PROVE TypeOK'
    <2>1. SetRoom(s, FALSE) \in [Sessions -> Hash]
        BY SetRoomFacts
    <2> QED BY <1>0, <1>3, <2>1
            DEF StoreRoom, StoreStep, Answers, AuthSteps, signaling
<1>4. ASSUME NEW s \in Sessions, StoreTtl(s) PROVE TypeOK'
    BY <1>0, <1>4, ExpiringFacts
       DEF StoreTtl, StoreStep, Answers, AuthSteps, signaling
<1>5. ASSUME NEW s \in Sessions, UndoReserve(s) PROVE TypeOK'
    BY <1>0, <1>5, ReleasedFacts DEF UndoReserve, Answers, AuthSteps, signaling
<1>6. ASSUME NEW s \in Sessions, LogoutGet(s) PROVE TypeOK'
    BY <1>6 DEF LogoutGet, signaling
<1>7. ASSUME NEW s \in Sessions, LogoutDelete(s) PROVE TypeOK'
    BY <1>0, <1>7, DeletedFacts DEF LogoutDelete, Answers, signaling
<1>8. ASSUME NEW s \in Sessions, LogoutRelease(s) PROVE TypeOK'
    BY <1>0, <1>8, ReleasedFacts DEF LogoutRelease, Answers, signaling
<1>9. ASSUME NEW s \in Sessions, Renew(s) PROVE TypeOK'
    BY <1>9, ExpiringFacts DEF Renew, signaling
<1>10. ASSUME NEW s \in Sessions, AbortAuth(s) \/ AbortLogout(s) PROVE TypeOK'
    BY <1>0, <1>10 DEF AbortAuth, AbortLogout, AuthSteps, signaling
<1>11. ASSUME NEW s \in Sessions, SessionExpires(s) PROVE TypeOK'
    BY <1>11, DeletedFacts DEF SessionExpires, signaling, connector
<1>12. ASSUME NEW s \in Sessions, NEW nd \in Nodes,
              \/ AttachGet(s, nd) \/ EnterRefused(s, nd)
              \/ Disconnect(s, nd) \/ LogoutFails(s, nd)
       PROVE  TypeOK'
    BY <1>0, <1>12 DEF AttachGet, EnterRefused, Disconnect, LogoutFails, Goto,
                       JobSteps, connector
<1>13. ASSUME NEW s \in Sessions, NEW nd \in Nodes, AttachSetOwner(s, nd)
       PROVE  TypeOK'
    BY <1>0, <1>13, SetOwnerFacts
       DEF AttachSetOwner, Goto, JobSteps, Answers, InMemory, connector
<1>14. ASSUME NEW s \in Sessions, NEW nd \in Nodes, NEW step \in JobSteps,
              Check(s, nd, step)
       PROVE  TypeOK'
    BY <1>14 DEF Check, Goto, InMemory, connector
<1>15. ASSUME NEW s \in Sessions, NEW nd \in Nodes,
              EnterCheck(s, nd) \/ LeaveCheck(s, nd) \/ LogoutCheck(s, nd)
       PROVE  TypeOK'
    BY <1>14, <1>15 DEF EnterCheck, LeaveCheck, LogoutCheck, JobSteps
<1>16. ASSUME NEW s \in Sessions, NEW nd \in Nodes, RoomWrite(s, nd)
       PROVE  TypeOK'
    <2>1. SetRoom(s, job[<<s, nd>>] = "enter") \in [Sessions -> Hash]
        BY SetRoomFacts
    <2> QED BY <1>0, <1>16, <2>1
            DEF RoomWrite, Goto, JobSteps, Answers, InMemory, connector
<1>17. ASSUME NEW s \in Sessions, NEW nd \in Nodes, LogoutReleaseNick(s, nd)
       PROVE  TypeOK'
    <2>1. Released(s, want[s]) \in [Nicks -> Sessions \cup {None}]
        BY ReleasedFacts
    <2> QED BY <1>0, <1>17, <2>1
            DEF LogoutReleaseNick, Goto, JobSteps, Answers, connector
<1>18. ASSUME NEW s \in Sessions, NEW nd \in Nodes, LogoutDeleteSession(s, nd)
       PROVE  TypeOK'
    BY <1>0, <1>18, DeletedFacts
       DEF LogoutDeleteSession, Goto, JobSteps, Answers, connector
<1>19. ASSUME NEW s \in Sessions, NEW nd \in Nodes, LeaseRenew(s, nd)
       PROVE  TypeOK'
    BY <1>19, ExpiringFacts DEF LeaseRenew, signaling, connector
<1>20. ASSUME NEW nd \in Nodes, Crash(nd) PROVE TypeOK'
    BY <1>0, <1>20 DEF Crash, JobSteps, connector
<1>21. ASSUME NEW nd \in Nodes, Restart(nd) PROVE TypeOK'
    BY <1>21 DEF Restart, connector
<1>22. ASSUME NEW nd \in Nodes, ProbeOk(nd) \/ HeartbeatStale(nd) PROVE TypeOK'
    BY <1>0, <1>22 DEF ProbeOk, HeartbeatStale, Answers, connector, signaling
<1>23. CASE JanitorAlive \/ JanitorScan \/ JanitorEnd
    BY <1>0, <1>23
       DEF JanitorAt, JanitorAlive, JanitorScan, JanitorEnd, Answers, connector, signaling
<1>24. ASSUME NEW s \in Sessions, JanitorOwner(s) PROVE TypeOK'
    BY <1>24 DEF JanitorAt, JanitorOwner, connector, signaling
<1>25. CASE JanitorDelete
    <2>1. CASE jan.victim \in Sessions
        BY <1>0, <1>25, <2>1, DeletedFacts
           DEF JanitorAt, JanitorDelete, Answers, connector, signaling
    <2>2. CASE jan.victim \notin Sessions
        <3>1. Deleted(jan.victim) \in [Sessions -> Hash]
            BY <2>2 DEF Deleted
        <3> QED BY <1>0, <1>25, <3>1
                DEF JanitorAt, JanitorDelete, Answers, connector, signaling
    <2> QED BY <2>1, <2>2
<1>26. CASE UNCHANGED vars
    BY <1>26 DEF vars
<1> QED BY <1>1, <1>2, <1>3, <1>4, <1>5, <1>6, <1>7, <1>8, <1>9, <1>10, <1>11,
           <1>12, <1>13, <1>15, <1>16, <1>17, <1>18, <1>19, <1>20, <1>21, <1>22,
           <1>23, <1>24, <1>25, <1>26
        DEF Next, ConnectorNext, SignalingNext, NodeNext, JanitorNext

\* All state of the login protocol keeps its type.
THEOREM NickTypeCorrect == Spec => []TypeOK
<1>1. Init => TypeOK
    BY FaultsAssumption DEF Init, JanitorAt, TypeOK, Hash, Absent, AuthSteps, JobSteps
<1> QED BY <1>1, TypeStep, PTL DEF Spec

-----------------------------------------------------------------------------
(* Nickname uniqueness *)

\* A session whose lease was acquired and not given back by its own logout.
Holding(s) ==
    auth[s] \in {"nick", "room", "ttl", "issued"} /\ s \notin released

\* The lease names the session that acquired it.
LeaseHeld == \A s \in Sessions : Holding(s) => want[s] \in Nicks /\ lease[want[s]] = s

\* A hash carries no nickname but the one its auth request asked for, and none
\* before that request or once the hash is gone.
NickFromAuth ==
    \A s \in Sessions :
        /\ hash[s].nick \in {None, want[s]}
        /\ auth[s] = "new" => hash[s].nick = None
        /\ ~hash[s].live => hash[s].nick = None

NickInv == TypeOK /\ LeaseHeld /\ NickFromAuth

\* A step that keeps auth, want and every lease, and adds at most to released,
\* keeps LeaseHeld.
LEMMA LeaseKept ==
    ASSUME TypeOK, LeaseHeld, UNCHANGED <<auth, want, lease>>,
           released \subseteq released'
    PROVE  LeaseHeld'
BY DEF TypeOK, LeaseHeld, Holding

\* A release by s, recorded in released, keeps LeaseHeld.
LEMMA LeaseReleased ==
    ASSUME TypeOK, LeaseHeld, NEW s \in Sessions, UNCHANGED <<auth, want>>,
           lease' \in {lease, Released(s, want[s])},
           released' = released \cup {s}
    PROVE  LeaseHeld'
<1>1. want[s] \in Nicks \cup {None}
    BY DEF TypeOK
<1>2. \A m \in Nicks, t \in Sessions : t # s /\ lease[m] = t => lease'[m] = t
    BY <1>1, ReleasedFacts DEF TypeOK
<1> QED BY <1>2 DEF LeaseHeld, Holding, TypeOK

\* A step that keeps auth and want, and every login, keeps NickFromAuth.
LEMMA NickKept ==
    ASSUME TypeOK, NickFromAuth, UNCHANGED want,
           \A t \in Sessions : auth'[t] = "new" => auth[t] = "new",
           SameLogins(hash, hash')
    PROVE  NickFromAuth'
BY DEF NickFromAuth, SameLogins, TypeOK, Hash

\* A DEL, whether or not it took place, keeps NickFromAuth.
LEMMA NickDeleted ==
    ASSUME TypeOK, NickFromAuth, UNCHANGED <<auth, want>>,
           NEW s \in Sessions, hash' \in {hash, Deleted(s)}
    PROVE  NickFromAuth'
<1>1. /\ \A t \in Sessions : t # s => Deleted(s)[t] = hash[t]
      /\ Deleted(s)[s].nick = None
    BY DeletedFacts DEF TypeOK
<1>2. CASE hash' = hash
    BY <1>2 DEF NickFromAuth
<1>3. CASE hash' = Deleted(s)
    BY <1>1, <1>3 DEF NickFromAuth
<1> QED BY <1>2, <1>3

\* Only Reserve, the three writes of session_create and its undo are
\* concerned with a session before it is issued.
LEMMA NickInvStep == NickInv /\ [Next]_vars => NickInv'
<1> SUFFICES ASSUME TypeOK, LeaseHeld, NickFromAuth, [Next]_vars
             PROVE  LeaseHeld' /\ NickFromAuth'
    BY TypeStep DEF NickInv
<1>0. SameLogins(hash, hash) /\ hash \in [Sessions -> Hash]
    BY DEF SameLogins, TypeOK
<1>1. ASSUME NEW s \in Sessions, NEW n \in Nicks, Reserve(s, n)
      PROVE  LeaseHeld' /\ NickFromAuth'
    <2>1. /\ auth[s] = "new" /\ want' = [want EXCEPT ![s] = n]
          /\ UNCHANGED <<hash, released>>
        BY <1>1 DEF Reserve
    <2>2. NickFromAuth'
        BY <1>1, <2>1 DEF Reserve, NickFromAuth, TypeOK
    <2>3. CASE lease[n] = None
        <3>1. \A t \in Sessions : Holding(t) => want[t] # n /\ t # s
            BY <2>1, <2>3, NoneAssumption DEF LeaseHeld, Holding
        <3>2. lease' \in {lease, [lease EXCEPT ![n] = s]}
            BY <1>1, <2>3 DEF Reserve
        <3>3. \A t \in Sessions \ {s} : Holding(t)' => Holding(t)
            BY <1>1, <2>1 DEF Reserve, Holding, TypeOK
        <3>4. \A t \in Sessions \ {s} :
                 Holding(t)' => want'[t] \in Nicks /\ lease'[want'[t]] = t
            BY <2>1, <3>1, <3>2, <3>3 DEF LeaseHeld, TypeOK
        <3>5. Holding(s)' => want'[s] \in Nicks /\ lease'[want'[s]] = s
            BY <1>1, <2>1, <2>3 DEF Reserve, Holding, TypeOK
        <3> QED BY <2>2, <3>4, <3>5 DEF LeaseHeld
    <2>4. CASE lease[n] # None
        <3>1. lease' = lease /\ auth' = [auth EXCEPT ![s] = "failed"]
            BY <1>1, <2>4 DEF Reserve
        <3> QED BY <2>1, <2>2, <3>1 DEF LeaseHeld, Holding, TypeOK
    <2> QED BY <2>3, <2>4
<1>2. ASSUME NEW s \in Sessions, NEW at \in {"nick", "room", "ttl"}, NEW h,
             NEW next \in {"room", "ttl", "issued"},
             StoreStep(s, at, h, next)
      PROVE  LeaseHeld'
    BY <1>2 DEF StoreStep, LeaseHeld, Holding, TypeOK
<1>3. ASSUME NEW s \in Sessions, StoreNick(s)
      PROVE  LeaseHeld' /\ NickFromAuth'
    <2>1. LeaseHeld'
        BY <1>2, <1>3 DEF StoreNick
    <2>2. /\ hash' \in {hash, SetNick(s, want[s])} /\ UNCHANGED want
          /\ auth[s] = "nick"
          /\ auth' \in {[auth EXCEPT ![s] = "room"], [auth EXCEPT ![s] = "undo"]}
        BY <1>3 DEF StoreNick, StoreStep
    <2>3. want[s] \in Nicks \cup {None}
        BY DEF TypeOK
    <2>4. NickFromAuth'
        BY <2>2, <2>3, SetNickFacts DEF NickFromAuth, TypeOK
    <2> QED BY <2>1, <2>4
<1>4. ASSUME NEW s \in Sessions, StoreRoom(s)
      PROVE  LeaseHeld' /\ NickFromAuth'
    <2>1. LeaseHeld'
        BY <1>2, <1>4 DEF StoreRoom
    <2>2. SameLogins(hash, SetRoom(s, FALSE))
        BY <1>0, SetRoomFacts
    <2>3. /\ SameLogins(hash, hash') /\ UNCHANGED want
          /\ \A t \in Sessions : auth'[t] = "new" => auth[t] = "new"
        BY <1>0, <1>4, <2>2 DEF StoreRoom, StoreStep, TypeOK
    <2> QED BY <2>1, <2>3, NickKept
<1>5. ASSUME NEW s \in Sessions, StoreTtl(s)
      PROVE  LeaseHeld' /\ NickFromAuth'
    <2>1. LeaseHeld'
        BY <1>2, <1>5 DEF StoreTtl
    <2>2. SameLogins(hash, Expiring(s))
        BY <1>0, ExpiringFacts
    <2>3. /\ SameLogins(hash, hash') /\ UNCHANGED want
          /\ \A t \in Sessions : auth'[t] = "new" => auth[t] = "new"
        BY <1>0, <1>5, <2>2 DEF StoreTtl, StoreStep, TypeOK
    <2> QED BY <2>1, <2>3, NickKept
<1>6. ASSUME NEW s \in Sessions, UndoReserve(s)
      PROVE  LeaseHeld' /\ NickFromAuth'
    <2>1. /\ auth[s] = "undo" /\ auth' = [auth EXCEPT ![s] = "failed"]
          /\ lease' \in {lease, Released(s, want[s])}
          /\ UNCHANGED <<hash, want, released>>
        BY <1>6 DEF UndoReserve
    <2>2. want[s] \in Nicks \cup {None}
        BY DEF TypeOK
    <2>3. \A m \in Nicks, t \in Sessions :
             t # s /\ lease[m] = t => lease'[m] = t
        BY <2>1, <2>2, ReleasedFacts DEF TypeOK
    <2>4. LeaseHeld'
        BY <2>1, <2>3 DEF LeaseHeld, Holding, TypeOK
    <2>5. NickFromAuth'
        BY <1>0, <2>1, NickKept DEF TypeOK
    <2> QED BY <2>4, <2>5
<1>7. ASSUME NEW s \in Sessions, AbortAuth(s)
      PROVE  LeaseHeld' /\ NickFromAuth'
    <2>1. LeaseHeld'
        BY <1>7 DEF AbortAuth, LeaseHeld, Holding, TypeOK
    <2>2. NickFromAuth'
        BY <1>0, <1>7, NickKept DEF AbortAuth, TypeOK
    <2> QED BY <2>1, <2>2
<1>8. ASSUME UNCHANGED <<auth, want, lease>>, released \subseteq released',
             SameLogins(hash, hash')
      PROVE  LeaseHeld' /\ NickFromAuth'
    BY <1>8, LeaseKept, NickKept
<1>9. ASSUME UNCHANGED <<auth, want, lease, released>>, NEW s \in Sessions,
             hash' \in {hash, Deleted(s)}
      PROVE  LeaseHeld' /\ NickFromAuth'
    BY <1>9, LeaseKept, NickDeleted
<1>10. ASSUME UNCHANGED <<auth, want, hash>>, NEW s \in Sessions,
              lease' \in {lease, Released(s, want[s])},
              released' = released \cup {s}
       PROVE  LeaseHeld' /\ NickFromAuth'
    BY <1>0, <1>10, LeaseReleased, NickKept
<1>11. ASSUME NEW s \in Sessions, LogoutGet(s) \/ AbortLogout(s)
       PROVE  LeaseHeld' /\ NickFromAuth'
    BY <1>0, <1>8, <1>11 DEF LogoutGet, AbortLogout
<1>12. ASSUME NEW s \in Sessions, LogoutDelete(s) \/ SessionExpires(s)
       PROVE  LeaseHeld' /\ NickFromAuth'
    BY <1>9, <1>12 DEF LogoutDelete, SessionExpires, connector
<1>13. ASSUME NEW s \in Sessions, LogoutRelease(s)
       PROVE  LeaseHeld' /\ NickFromAuth'
    BY <1>10, <1>13 DEF LogoutRelease
<1>14. ASSUME NEW s \in Sessions, Renew(s)
       PROVE  LeaseHeld' /\ NickFromAuth'
    <2>1. SameLogins(hash, Expiring(s))
        BY <1>0, ExpiringFacts
    <2> QED BY <1>8, <1>14, <2>1 DEF Renew
<1>15. ASSUME NEW s \in Sessions, NEW nd \in Nodes, SignalingNext(s, nd)
       PROVE  LeaseHeld' /\ NickFromAuth'
    <2>1. /\ SameLogins(hash, Expiring(s))
          /\ SameLogins(hash, SetOwner(s, nd))
          /\ SameLogins(hash, SetRoom(s, job[<<s, nd>>] = "enter"))
        BY <1>0, ExpiringFacts, SetOwnerFacts, SetRoomFacts
    <2>2. CASE \/ AttachGet(s, nd) \/ EnterRefused(s, nd)
               \/ Disconnect(s, nd) \/ LogoutFails(s, nd)
        BY <1>0, <1>8, <2>2 DEF AttachGet, EnterRefused, Disconnect, LogoutFails,
                                connector
    <2>3. CASE EnterCheck(s, nd) \/ LeaveCheck(s, nd) \/ LogoutCheck(s, nd)
        BY <1>0, <1>8, <2>3
           DEF EnterCheck, LeaveCheck, LogoutCheck, Check, connector
    <2>4. CASE AttachSetOwner(s, nd)
        BY <1>0, <1>8, <2>1, <2>4 DEF AttachSetOwner, connector
    <2>5. CASE RoomWrite(s, nd)
        BY <1>0, <1>8, <2>1, <2>5 DEF RoomWrite, connector
    <2>6. CASE LogoutReleaseNick(s, nd)
        BY <1>10, <2>6 DEF LogoutReleaseNick, connector
    <2>7. CASE LogoutDeleteSession(s, nd)
        BY <1>9, <2>7 DEF LogoutDeleteSession, connector
    <2>8. CASE LeaseRenew(s, nd)
        BY <1>8, <2>1, <2>8 DEF LeaseRenew, connector
    <2> QED BY <1>15, <2>2, <2>3, <2>4, <2>5, <2>6, <2>7, <2>8
            DEF SignalingNext
<1>16. ASSUME NEW nd \in Nodes, NodeNext(nd)
       PROVE  LeaseHeld' /\ NickFromAuth'
    BY <1>0, <1>8, <1>16
       DEF NodeNext, Crash, Restart, ProbeOk, HeartbeatStale, connector
<1>17. CASE JanitorNext
    <2>1. CASE JanitorDelete
        <3>1. CASE jan.victim \in Sessions
            BY <1>9, <2>1, <3>1 DEF JanitorDelete, connector
        <3>2. CASE jan.victim \notin Sessions
            <4>1. Deleted(jan.victim) = hash
                BY <1>0, <3>2 DEF Deleted
            <4> QED BY <1>0, <1>8, <2>1, <4>1 DEF JanitorDelete, connector
        <3> QED BY <3>1, <3>2
    <2>2. CASE JanitorAlive \/ JanitorScan \/ JanitorEnd
                  \/ \E s \in Sessions : JanitorOwner(s)
        BY <1>0, <1>8, <2>2
           DEF JanitorAlive, JanitorScan, JanitorEnd, JanitorOwner, connector
    <2> QED BY <1>17, <2>1, <2>2 DEF JanitorNext
<1>18. CASE UNCHANGED vars
    BY <1>0, <1>8, <1>18 DEF vars
<1> QED BY <1>1, <1>3, <1>4, <1>5, <1>6, <1>7, <1>11, <1>12, <1>13, <1>14,
           <1>15, <1>16, <1>17, <1>18
        DEF Next, ConnectorNext

\* Nobody has a lease or a hash at the start.
LEMMA NickInvInit == Init => NickInv
<1>1. Init => TypeOK
    BY FaultsAssumption
       DEF Init, TypeOK, JanitorAt, Hash, Absent, AuthSteps, JobSteps
<1> QED BY <1>1 DEF Init, NickInv, LeaseHeld, Holding, NickFromAuth, Absent

\* SET NX and compare-and-delete keep the nicknames of logged-in sessions
\* distinct through every crash, timeout, expiry and janitor sweep.
THEOREM NicknamesAreUnique == Spec => []NicknameUnique
<1>1. NickInv => NicknameUnique
    BY DEF NickInv, LeaseHeld, Holding, NickFromAuth, NicknameUnique, LoggedIn
<1> QED BY <1>1, NickInvInit, NickInvStep, PTL DEF Spec

-----------------------------------------------------------------------------
(* A forgotten session stays forgotten *)

\* No step but session_create writes a nickname, and a hash that is re-created
\* for an issued session has none.
LEMMA ForgottenStep ==
    ASSUME NickInv, [Next]_vars, NEW s \in Sessions,
           auth[s] = "issued", ~LoggedIn(s)
    PROVE  ~LoggedIn(s)'
<1> USE DEF NickInv
<1>0. /\ hash \in [Sessions -> Hash] /\ hash[s].nick = None
    BY DEF LoggedIn, NickFromAuth, TypeOK
<1>1. SUFFICES hash'[s].nick = None
    BY DEF LoggedIn
<1>2. ASSUME SameLogins(hash, hash') PROVE hash'[s].nick = None
    BY <1>0, <1>2 DEF SameLogins
<1>3. ASSUME NEW t \in Sessions, hash' \in {hash, Deleted(t)}
      PROVE  hash'[s].nick = None
    <2>1. Deleted(t)[s].nick = None
        BY <1>0, DeletedFacts
    <2> QED BY <1>0, <1>3, <2>1
<1>4. ASSUME NEW t \in Sessions, ConnectorNext(t) PROVE hash'[s].nick = None
    <2>1. SameLogins(hash, Expiring(t)) /\ SameLogins(hash, SetRoom(t, FALSE))
        BY <1>0, ExpiringFacts, SetRoomFacts
    <2>2. CASE StoreNick(t)
        <3>1. t # s /\ hash' \in {hash, SetNick(t, want[t])}
            BY <2>2 DEF StoreNick, StoreStep
        <3>2. want[t] \in Nicks \cup {None}
            BY DEF TypeOK
        <3>3. SetNick(t, want[t])[s] = hash[s]
            BY <1>0, <3>1, <3>2, SetNickFacts
        <3> QED BY <1>0, <3>1, <3>3
    <2>3. CASE StoreRoom(t)
        BY <1>0, <1>2, <2>1, <2>3 DEF StoreRoom, StoreStep
    <2>4. CASE StoreTtl(t)
        BY <1>0, <1>2, <2>1, <2>4 DEF StoreTtl, StoreStep
    <2>5. CASE LogoutDelete(t)
        BY <1>3, <2>5 DEF LogoutDelete
    <2>6. CASE Renew(t)
        BY <1>2, <2>1, <2>6 DEF Renew
    <2>7. CASE \/ \E n \in Nicks : Reserve(t, n)
               \/ UndoReserve(t) \/ LogoutGet(t) \/ LogoutRelease(t)
               \/ AbortAuth(t) \/ AbortLogout(t)
        BY <1>0, <2>7 DEF Reserve, UndoReserve, LogoutGet, LogoutRelease,
                          AbortAuth, AbortLogout
    <2> QED BY <1>4, <2>2, <2>3, <2>4, <2>5, <2>6, <2>7 DEF ConnectorNext
<1>5. ASSUME NEW t \in Sessions, SessionExpires(t) PROVE hash'[s].nick = None
    BY <1>3, <1>5 DEF SessionExpires
<1>6. ASSUME NEW t \in Sessions, NEW nd \in Nodes, SignalingNext(t, nd)
      PROVE  hash'[s].nick = None
    <2>1. /\ SameLogins(hash, Expiring(t))
          /\ SameLogins(hash, SetOwner(t, nd))
          /\ SameLogins(hash, SetRoom(t, job[<<t, nd>>] = "enter"))
        BY <1>0, ExpiringFacts, SetOwnerFacts, SetRoomFacts
    <2>2. CASE AttachSetOwner(t, nd)
        BY <1>0, <1>2, <2>1, <2>2 DEF AttachSetOwner
    <2>3. CASE RoomWrite(t, nd)
        BY <1>0, <1>2, <2>1, <2>3 DEF RoomWrite
    <2>4. CASE LogoutDeleteSession(t, nd)
        BY <1>3, <2>4 DEF LogoutDeleteSession
    <2>5. CASE LeaseRenew(t, nd)
        BY <1>2, <2>1, <2>5 DEF LeaseRenew
    <2>6. CASE \/ AttachGet(t, nd) \/ EnterCheck(t, nd) \/ LeaveCheck(t, nd)
               \/ LogoutCheck(t, nd) \/ EnterRefused(t, nd)
               \/ LogoutReleaseNick(t, nd) \/ LogoutFails(t, nd)
               \/ Disconnect(t, nd)
        BY <1>0, <2>6 DEF AttachGet, EnterCheck, LeaveCheck, LogoutCheck, Check,
                          EnterRefused, LogoutReleaseNick, LogoutFails, Disconnect
    <2> QED BY <1>6, <2>2, <2>3, <2>4, <2>5, <2>6 DEF SignalingNext
<1>7. ASSUME NEW nd \in Nodes, NodeNext(nd) PROVE hash'[s].nick = None
    BY <1>0, <1>7 DEF NodeNext, Crash, Restart, ProbeOk, HeartbeatStale
<1>8. CASE JanitorNext
    <2>1. CASE JanitorDelete
        <3>1. CASE jan.victim \in Sessions
            BY <1>3, <2>1, <3>1 DEF JanitorDelete
        <3>2. CASE jan.victim \notin Sessions
            <4>1. Deleted(jan.victim) = hash
                BY <1>0, <3>2 DEF Deleted
            <4> QED BY <1>0, <2>1, <4>1 DEF JanitorDelete
        <3> QED BY <3>1, <3>2
    <2>2. CASE JanitorAlive \/ JanitorScan \/ JanitorEnd
                  \/ \E t \in Sessions : JanitorOwner(t)
        BY <1>0, <2>2 DEF JanitorAlive, JanitorScan, JanitorEnd, JanitorOwner
    <2> QED BY <1>8, <2>1, <2>2 DEF JanitorNext
<1>9. CASE UNCHANGED vars
    BY <1>0, <1>9 DEF vars
<1> QED BY <1>4, <1>5, <1>6, <1>7, <1>8, <1>9 DEF Next

\* Handlers that re-create the hash of a logged-out session with
\* session_set_room or session_set_owner never log it in again.
THEOREM ForgottenForGood == Spec => LoggedOutStaysOut
<1>1. NickInv /\ [Next]_vars
         => [\A s \in Sessions :
                auth[s] = "issued" /\ ~LoggedIn(s) => ~LoggedIn(s)']_vars
    BY ForgottenStep
<1> QED BY <1>1, NickInvInit, NickInvStep, PTL DEF Spec, LoggedOutStaysOut
=============================================================================

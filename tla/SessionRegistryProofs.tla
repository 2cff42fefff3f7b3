------------------------ MODULE SessionRegistryProofs ------------------------
(***************************************************************************)
(* For every set of sessions and rooms: the registry's two maps agree, and *)
(* the registry implements SessionMap.                                     *)
(***************************************************************************)
EXTENDS SessionRegistry, TLAPS

-----------------------------------------------------------------------------
(* The index and the session map *)

\* An index is exact for a session map: the statement of IndexExact, about
\* any pair of maps.
Exact(sess, index) ==
    /\ DOMAIN index = {r \in Rooms : \E s \in DOMAIN sess : sess[s] = r}
    /\ \A r \in DOMAIN index : index[r] = {s \in DOMAIN sess : sess[s] = r}

\* Both maps have the shape the registry declares.
Maps(sess, index) ==
    /\ DOMAIN sess \subseteq Sessions
    /\ sess \in [DOMAIN sess -> MaybeRoom]
    /\ DOMAIN index \subseteq Rooms
    /\ index \in [DOMAIN index -> SUBSET Sessions]

\* remove_room_link, called for the room the session was in, leaves the index
\* exact for the map without that session.
LEMMA UnlinkedExact ==
    ASSUME TypeOK, IndexExact, NEW s \in Sessions
    PROVE  /\ Maps(Without(bySession, s), Unlinked(s))
           /\ Exact(Without(bySession, s), Unlinked(s))
<1> DEFINE sess == Without(bySession, s)
           index == Unlinked(s)
<1>1. /\ DOMAIN sess = DOMAIN bySession \ {s}
      /\ \A t \in DOMAIN sess : sess[t] = bySession[t]
      /\ \A t \in DOMAIN sess : sess[t] \in MaybeRoom
    BY DEF Without, TypeOK
<1>2. sess \in [DOMAIN sess -> MaybeRoom]
    BY <1>1 DEF Without
<1>3. CASE s \in DOMAIN bySession /\ bySession[s] # NoRoom
    <2> DEFINE r == bySession[s]
    <2>1. r \in Rooms /\ r \in DOMAIN byRoom
        BY <1>3 DEF TypeOK, IndexExact, MaybeRoom
    <2>2. byRoom[r] = {t \in DOMAIN bySession : bySession[t] = r}
        BY <2>1 DEF IndexExact
    <2>3. byRoom[r] \ {s} = {t \in DOMAIN sess : sess[t] = r}
        BY <1>1, <2>2
    <2>4. CASE byRoom[r] \ {s} = {}
        <3>1. index = Without(byRoom, r)
            BY <1>3, <2>1, <2>4 DEF Unlinked, RemoveRoomLink
        <3>2. /\ DOMAIN index = DOMAIN byRoom \ {r}
              /\ \A q \in DOMAIN index : index[q] = byRoom[q]
            BY <3>1 DEF Without
        <3>3. index \in [DOMAIN index -> SUBSET Sessions]
            BY <3>1, <3>2 DEF Without, TypeOK
        <3>4. \A q \in DOMAIN index :
                 index[q] = {t \in DOMAIN sess : sess[t] = q}
            BY <1>1, <3>2 DEF IndexExact
        <3>5. DOMAIN index = {q \in Rooms : \E t \in DOMAIN sess : sess[t] = q}
            BY <1>1, <2>3, <2>4, <3>2 DEF IndexExact
        <3> QED BY <1>1, <1>2, <3>2, <3>3, <3>4, <3>5 DEF Maps, Exact, TypeOK
    <2>5. CASE byRoom[r] \ {s} # {}
        <3>1. index = With(byRoom, r, byRoom[r] \ {s})
            BY <1>3, <2>1, <2>5 DEF Unlinked, RemoveRoomLink
        <3>2. /\ DOMAIN index = DOMAIN byRoom
              /\ index[r] = byRoom[r] \ {s}
              /\ \A q \in DOMAIN index : q # r => index[q] = byRoom[q]
            BY <2>1, <3>1 DEF With
        <3>3. index \in [DOMAIN index -> SUBSET Sessions]
            BY <2>1, <3>1, <3>2 DEF With, TypeOK
        <3>4. \A q \in DOMAIN index :
                 index[q] = {t \in DOMAIN sess : sess[t] = q}
            BY <1>1, <2>3, <3>2 DEF IndexExact
        <3>5. DOMAIN index = {q \in Rooms : \E t \in DOMAIN sess : sess[t] = q}
            BY <1>1, <2>3, <2>5, <3>2 DEF IndexExact
        <3> QED BY <1>1, <1>2, <3>2, <3>3, <3>4, <3>5 DEF Maps, Exact, TypeOK
    <2> QED BY <2>4, <2>5
<1>4. CASE ~(s \in DOMAIN bySession /\ bySession[s] # NoRoom)
    <2>1. index = byRoom
        BY <1>4 DEF Unlinked
    <2>2. \A q \in Rooms : {t \in DOMAIN sess : sess[t] = q}
                         = {t \in DOMAIN bySession : bySession[t] = q}
        BY <1>1, <1>4, NoRoomAssumption
    <2>3. Exact(sess, index)
        BY <2>1, <2>2 DEF IndexExact, Exact, TypeOK
    <2> QED BY <1>1, <1>2, <2>1, <2>3 DEF Maps, TypeOK
<1> QED BY <1>3, <1>4

\* Linking the session to its new room makes the index exact for the map in
\* which the session is in that room.
LEMMA RelinkedExact ==
    ASSUME TypeOK, IndexExact, NEW s \in Sessions, NEW r \in MaybeRoom
    PROVE  /\ Maps(With(bySession, s, r), Relinked(s, r))
           /\ Exact(With(bySession, s, r), Relinked(s, r))
<1> DEFINE base == Without(bySession, s)
           sess == With(bySession, s, r)
           old == Unlinked(s)
           index == Relinked(s, r)
<1>1. Maps(base, old) /\ Exact(base, old)
    BY UnlinkedExact
<1>2. /\ DOMAIN sess = DOMAIN base \cup {s}
      /\ s \notin DOMAIN base
      /\ sess[s] = r
      /\ \A t \in DOMAIN base : sess[t] = base[t]
    <2>1. DOMAIN base = DOMAIN bySession \ {s}
        BY DEF Without
    <2>2. \A t \in DOMAIN base : base[t] = bySession[t]
        BY <2>1 DEF Without
    <2> QED BY <2>1, <2>2 DEF With
<1>3. DOMAIN sess \subseteq Sessions /\ sess \in [DOMAIN sess -> MaybeRoom]
    <2>1. \A t \in DOMAIN sess : sess[t] \in MaybeRoom
        BY <1>1, <1>2 DEF Maps
    <2>2. sess = [t \in DOMAIN sess |-> sess[t]]
        BY DEF With
    <2> QED BY <1>1, <1>2, <2>1, <2>2 DEF Maps
<1>4. CASE r = NoRoom
    <2>1. index = old
        BY <1>4 DEF Relinked
    <2>2. \A q \in Rooms : {t \in DOMAIN sess : sess[t] = q}
                         = {t \in DOMAIN base : base[t] = q}
        BY <1>2, <1>4, NoRoomAssumption
    <2> QED BY <1>1, <1>3, <2>1, <2>2 DEF Maps, Exact
<1>5. CASE r # NoRoom
    <2>1. r \in Rooms
        BY <1>5 DEF MaybeRoom
    <2> DEFINE before == IF r \in DOMAIN old THEN old[r] ELSE {}
    <2>2. index = With(old, r, before \cup {s})
        BY <1>5 DEF Relinked, AddRoomLink
    <2>3. before = {t \in DOMAIN base : base[t] = r}
        BY <1>1, <2>1 DEF Exact
    <2>4. /\ DOMAIN index = DOMAIN old \cup {r}
          /\ index[r] = before \cup {s}
          /\ \A q \in DOMAIN old : q # r => index[q] = old[q]
        BY <2>2 DEF With
    <2>5. before \subseteq Sessions
        BY <1>1, <2>3 DEF Maps
    <2>6. DOMAIN index \subseteq Rooms
        BY <1>1, <2>1, <2>4 DEF Maps
    <2>7. index \in [DOMAIN index -> SUBSET Sessions]
        <3>1. \A q \in DOMAIN index : index[q] \in SUBSET Sessions
            BY <1>1, <2>4, <2>5 DEF Maps
        <3>2. index = [q \in DOMAIN index |-> index[q]]
            BY <2>2 DEF With
        <3> QED BY <3>1, <3>2
    <2>8. \A q \in DOMAIN index : index[q] = {t \in DOMAIN sess : sess[t] = q}
        <3>1. index[r] = {t \in DOMAIN sess : sess[t] = r}
            BY <1>2, <2>3, <2>4
        <3>2. \A q \in DOMAIN old :
                 q # r => index[q] = {t \in DOMAIN sess : sess[t] = q}
            BY <1>1, <1>2, <2>4 DEF Exact
        <3> QED BY <2>4, <3>1, <3>2
    <2>9. DOMAIN index = {q \in Rooms : \E t \in DOMAIN sess : sess[t] = q}
        BY <1>1, <1>2, <2>1, <2>4 DEF Exact
    <2> QED BY <1>3, <2>6, <2>7, <2>8, <2>9 DEF Maps, Exact
<1> QED BY <1>4, <1>5

-----------------------------------------------------------------------------
(* The inductive invariant *)

RegistryInv == TypeOK /\ IndexExact

\* The registry starts with both maps empty.
LEMMA InitInv == Init => RegistryInv
BY DEF Init, RegistryInv, TypeOK, IndexExact

\* No method of the registry breaks the agreement of the maps.
LEMMA StepInv == RegistryInv /\ [Next]_vars => RegistryInv'
<1> SUFFICES ASSUME TypeOK, IndexExact, [Next]_vars
             PROVE  TypeOK' /\ IndexExact'
    BY DEF RegistryInv
<1>0. Maps(bySession, byRoom)' /\ Exact(bySession, byRoom)'
         /\ affected' \subseteq Sessions => TypeOK' /\ IndexExact'
    BY DEF Maps, Exact, TypeOK, IndexExact, MaybeRoom
<1>1. ASSUME NEW s \in Sessions, NEW r \in MaybeRoom, Upsert(s, r)
      PROVE  TypeOK' /\ IndexExact'
    <2>1. Maps(bySession', byRoom') /\ Exact(bySession', byRoom')
        BY <1>1, RelinkedExact DEF Upsert
    <2> QED BY <1>0, <1>1, <2>1 DEF Upsert, Maps, Exact, MaybeRoom
<1>2. ASSUME NEW s \in Sessions, NEW r \in MaybeRoom, SetRoom(s, r)
      PROVE  TypeOK' /\ IndexExact'
    <2>1. CASE s \in DOMAIN bySession
        <3>1. Maps(bySession', byRoom') /\ Exact(bySession', byRoom')
            BY <1>2, <2>1, RelinkedExact DEF SetRoom
        <3> QED BY <1>0, <1>2, <3>1 DEF SetRoom, Maps, Exact, MaybeRoom
    <2>2. CASE s \notin DOMAIN bySession
        BY <1>2, <2>2 DEF SetRoom, TypeOK, IndexExact, MaybeRoom
    <2> QED BY <2>1, <2>2
<1>3. ASSUME NEW s \in Sessions, Remove(s)
      PROVE  TypeOK' /\ IndexExact'
    <2>1. Maps(bySession', byRoom') /\ Exact(bySession', byRoom')
        BY <1>3, UnlinkedExact DEF Remove
    <2> QED BY <1>0, <1>3, <2>1 DEF Remove, Maps, Exact, MaybeRoom
<1>4. ASSUME NEW r \in Rooms, ClearRoom(r)
      PROVE  TypeOK' /\ IndexExact'
    <2> DEFINE ids == IF r \in DOMAIN byRoom THEN byRoom[r] ELSE {}
    <2>1. ids = {t \in DOMAIN bySession : bySession[t] = r}
        BY DEF IndexExact
    <2>2. /\ DOMAIN byRoom' = DOMAIN byRoom \ {r}
          /\ \A q \in DOMAIN byRoom' : byRoom'[q] = byRoom[q]
        BY <1>4 DEF Without, ClearRoom
    <2>3. /\ DOMAIN bySession' = DOMAIN bySession
          /\ \A t \in DOMAIN bySession :
                bySession'[t] = IF bySession[t] = r THEN NoRoom ELSE bySession[t]
        BY <1>4, <2>1 DEF ClearRoom
    <2>4. TypeOK'
        <3>1. bySession' \in [DOMAIN bySession' -> MaybeRoom]
            BY <1>4, <2>3 DEF ClearRoom, TypeOK, MaybeRoom
        <3>2. byRoom' \in [DOMAIN byRoom' -> SUBSET Sessions]
            BY <1>4, <2>2 DEF ClearRoom, Without, TypeOK
        <3>3. affected' \subseteq Sessions
            BY <1>4 DEF ClearRoom, TypeOK
        <3> QED BY <2>2, <2>3, <3>1, <3>2, <3>3 DEF TypeOK, MaybeRoom
    <2>5. \A q \in DOMAIN byRoom' :
             byRoom'[q] = {t \in DOMAIN bySession' : bySession'[t] = q}
        BY <2>2, <2>3, NoRoomAssumption DEF IndexExact, TypeOK
    <2>6. DOMAIN byRoom' = {q \in Rooms :
                               \E t \in DOMAIN bySession' : bySession'[t] = q}
        BY <2>2, <2>3, NoRoomAssumption DEF IndexExact, TypeOK
    <2> QED BY <2>4, <2>5, <2>6 DEF IndexExact
<1>5. CASE Clear
    BY <1>5 DEF Clear, TypeOK, IndexExact
<1>6. CASE UNCHANGED vars
    BY <1>6 DEF vars, TypeOK, IndexExact, MaybeRoom
<1> QED BY <1>1, <1>2, <1>3, <1>4, <1>5, <1>6 DEF Next

\* Every map and every answer of the registry has its declared shape.
THEOREM TypeCorrect == Spec => []TypeOK
<1>1. RegistryInv => TypeOK
    BY DEF RegistryInv
<1> QED BY InitInv, StepInv, <1>1, PTL DEF Spec

\* by_room_id always lists exactly the sessions that by_session_id puts in
\* the room, so clear_room cannot miss one.
THEOREM IndexAgrees == Spec => []IndexExact
<1>1. RegistryInv => IndexExact
    BY DEF RegistryInv
<1> QED BY InitInv, StepInv, <1>1, PTL DEF Spec

-----------------------------------------------------------------------------
(* Refinement *)

\* Each method of the registry is the method of SessionMap of the same
\* purpose; the invariant is needed for clear_room only.
LEMMA StepRefines ==
    RegistryInv /\ [Next]_vars => [Abstract!Next]_(Abstract!vars)
<1> SUFFICES ASSUME TypeOK, IndexExact, [Next]_vars
             PROVE  [Abstract!Next]_(Abstract!vars)
    BY DEF RegistryInv
<1>1. ASSUME NEW s \in Sessions, NEW r \in MaybeRoom, Upsert(s, r)
      PROVE  Abstract!Put(s, r)
    BY <1>1 DEF Upsert, With, Abstract!Put, Abstract!Known
<1>2. ASSUME NEW s \in Sessions, NEW r \in MaybeRoom, SetRoom(s, r)
      PROVE  Abstract!Move(s, r)
    <2>1. CASE s \in DOMAIN bySession
        <3>1. DOMAIN bySession \cup {s} = DOMAIN bySession
            BY <2>1
        <3> QED BY <1>2, <2>1, <3>1 DEF SetRoom, With, Abstract!Move, Abstract!Known
    <2>2. CASE s \notin DOMAIN bySession
        <3>1. bySession = [t \in DOMAIN bySession |->
                              IF t = s THEN r ELSE bySession[t]]
            BY <2>2 DEF TypeOK
        <3> QED BY <1>2, <2>2, <3>1 DEF SetRoom, Abstract!Move, Abstract!Known
    <2> QED BY <2>1, <2>2
<1>3. ASSUME NEW s \in Sessions, Remove(s)
      PROVE  Abstract!Drop(s)
    BY <1>3 DEF Remove, Without, Abstract!Drop, Abstract!Known
<1>4. ASSUME NEW r \in Rooms, ClearRoom(r)
      PROVE  Abstract!ClearRoom(r)
    <2> DEFINE ids == IF r \in DOMAIN byRoom THEN byRoom[r] ELSE {}
    <2>1. ids = {t \in DOMAIN bySession : bySession[t] = r}
        BY DEF IndexExact
    <2>2. affected' = {t \in DOMAIN bySession : bySession[t] = r}
        BY <1>4, <2>1 DEF ClearRoom
    <2>3. bySession' = [t \in DOMAIN bySession |->
                           IF bySession[t] = r THEN NoRoom ELSE bySession[t]]
        BY <1>4, <2>1 DEF ClearRoom
    <2> QED BY <2>2, <2>3 DEF Abstract!ClearRoom, Abstract!Known
<1>5. CASE Clear
    BY <1>5 DEF Clear, Abstract!Clear, Abstract!Next
<1>6. CASE UNCHANGED vars
    BY <1>6 DEF vars, Abstract!vars
<1> QED BY <1>1, <1>2, <1>3, <1>4, <1>5, <1>6 DEF Next, Abstract!Next, MaybeRoom

\* The registry with its index implements the map without one.
THEOREM RegistryRefinesMap == Spec => RefinesMap
<1>1. Init => Abstract!Init
    BY DEF Init, Abstract!Init
<1> QED BY InitInv, StepInv, StepRefines, <1>1, PTL
        DEF Spec, RefinesMap, Abstract!Spec
=============================================================================

--------------------------- MODULE SfuRuntimeProofs ---------------------------
(***************************************************************************)
(* Proofs about SfuRuntime: its types, and that the bookkeeping shared by  *)
(* CreatePeer, DeletePeer and the cleanup of a lost stream stays exact      *)
(* although the removals drop the lock half way.                           *)
(*                                                                         *)
(* The invariants need each other.  A removal that finds its room gone     *)
(* changes nothing, which is right only because m_rooms lists every room   *)
(* that has a peer (RoomsExact); a session whose connection is closed      *)
(* occupies its slot until the call that closed it returns (NoDeadPeer),   *)
(* which is what makes a new session in a free slot an open one.           *)
(***************************************************************************)
EXTENDS SfuRuntime, TLAPS

\* What the fields of a thread mean at each step.
Threads ==
    /\ \A k \in Streams :
        /\ stream[k].at # "idle" => stream[k].sig \in Sigs
        /\ stream[k].at = "relock" => stream[k].slot \in Slots
        /\ stream[k].at # "relock" => stream[k].slot = None
    /\ \A c \in Calls : call[c].at = "relock" => call[c].slot \in Slots

IInv == TypeOK /\ Threads /\ PeersReclaimable /\ NoDeadPeer /\ RoomsExact

-----------------------------------------------------------------------------
\* A slot is a room and a participant.
LEMMA SlotParts ==
    ASSUME NEW x \in Slots
    PROVE  x[1] \in Rooms /\ x[2] \in Parts /\ x = <<x[1], x[2]>>
BY DEF Slots

\* The bags that the actions build.
LEMMA BagTypes ==
    ASSUME NEW b \in Bags, NEW x \in Slots
    PROVE  /\ EmptyBag \in Bags
           /\ [b EXCEPT ![x] = @ + 1] \in Bags
           /\ [b EXCEPT ![x] = 0] \in Bags
           /\ b[x] > 0 => [b EXCEPT ![x] = @ - 1] \in Bags
BY DEF Bags, EmptyBag

\* A SubscribeEvents thread at a step is a Thread.
LEMMA ThreadType ==
    ASSUME NEW at \in {"idle", "open", "cancelled", "ended", "bulk", "relock"},
           NEW g \in Sigs \cup {None}, NEW b \in Bags, NEW x \in Slots \cup {None}
    PROVE  StreamAt(at, g, b, x) \in Thread
BY DEF StreamAt, Thread

LEMMA EmptyBagType == EmptyBag \in Bags
BY DEF Bags, EmptyBag

-----------------------------------------------------------------------------
\* The initial state.
LEMMA InitInv == Init => IInv
<1> SUFFICES ASSUME Init PROVE IInv
  OBVIOUS
<1>1. TypeOK
  <2>1. StreamAt("idle", None, EmptyBag, None) \in Thread
    BY EmptyBagType, ThreadType
  <2>2. index \in [Sigs -> Bags] /\ stream \in [Streams -> Thread]
    BY <2>1, EmptyBagType DEF Init
  <2> QED
    BY <2>2, MaxCreatesAssumption DEF Init, TypeOK, CallAt
<1>2. Threads
  BY DEF Init, Threads, StreamAt, CallAt
<1>3. PeersReclaimable /\ NoDeadPeer /\ RoomsExact
  BY SlotParts DEF Init, PeersReclaimable, NoDeadPeer, RoomsExact, Slots
<1> QED
  BY <1>1, <1>2, <1>3 DEF IInv

-----------------------------------------------------------------------------
\* Every action keeps the types.
LEMMA TypeStep == IInv /\ [Next]_vars => TypeOK'
<1> SUFFICES ASSUME IInv, [Next]_vars PROVE TypeOK'
  OBVIOUS
<1> USE DEF IInv
<1>1. ASSUME NEW g \in Sigs, NEW x \in Slots, SendCreate(g, x) PROVE TypeOK'
  BY <1>1, MaxCreatesAssumption DEF SendCreate, TypeOK
<1>2. ASSUME NEW g \in Sigs, NEW x \in Slots, CreatePeer(g, x) PROVE TypeOK'
  <2>1. x[1] \in Rooms
    BY SlotParts
  <2>2. index[g] \in Bags
    BY DEF TypeOK
  <2>3. [index[g] EXCEPT ![x] = @ + 1] \in Bags
    BY <2>2, BagTypes
  <2>4. index' \in [Sigs -> Bags]
    <3> DEFINE b == [index[g] EXCEPT ![x] = @ + 1]
    <3>1. b \in Bags
      BY <2>3
    <3>2. index' = index \/ index' = [index EXCEPT ![g] = b]
      BY <1>2 DEF CreatePeer
    <3> HIDE DEF b
    <3> QED
      BY <3>1, <3>2 DEF TypeOK
  <2> QED
    BY <1>2, <2>1, <2>4 DEF CreatePeer, TypeOK
<1>3. ASSUME NEW g \in Sigs, NEW x \in Slots, CreateFails(g, x) PROVE TypeOK'
  BY <1>3 DEF CreateFails, TypeOK
<1>4. ASSUME NEW c \in Calls, NEW x \in Slots, DeleteFind(c, x) PROVE TypeOK'
  <2>1. peer[x] \in Sigs \cup {None}
    BY DEF TypeOK
  <2> QED
    BY <1>4, <2>1 DEF DeleteFind, TypeOK, CallAt
<1>5. ASSUME NEW c \in Calls, DeleteRemove(c) PROVE TypeOK'
  <2> DEFINE x == call[c].slot
             g == call[c].found
  <2>1. x \in Slots /\ g \in Sigs \cup {None}
    BY <1>5 DEF DeleteRemove, Threads, TypeOK
  <2>2. ASSUME g # None PROVE [index[g] EXCEPT ![x] = 0] \in Bags
    <3>1. index[g] \in Bags
      BY <2>1, <2>2 DEF TypeOK
    <3> QED
      BY <2>1, <3>1, BagTypes
  <2>3. index' \in [Sigs -> Bags]
    BY <1>5, <2>1, <2>2 DEF DeleteRemove, TypeOK
  <2>4. call' \in [Calls -> [at : {"idle", "relock"}, slot : Slots \cup {None},
                             found : Sigs \cup {None}]]
    BY <1>5 DEF DeleteRemove, TypeOK, CallAt
  <2>5. /\ peer' \in [Slots -> Sigs \cup {None}]
        /\ shut' \subseteq Slots
        /\ rooms' \subseteq Rooms
    BY <1>5, <2>1 DEF DeleteRemove, TypeOK, Vacated, RoomsAfter
  <2> QED
    BY <1>5, <2>3, <2>4, <2>5 DEF DeleteRemove, TypeOK
<1>6. ASSUME NEW k \in Streams, NEW g \in Sigs, Subscribe(k, g) PROVE TypeOK'
  <2>1. StreamAt("open", g, EmptyBag, None) \in Thread
    BY EmptyBagType, ThreadType
  <2> QED
    BY <1>6, <2>1 DEF Subscribe, TypeOK
<1>7. ASSUME NEW k \in Streams, StreamLost(k) PROVE TypeOK'
  <2>1. stream[k].sig \in Sigs \cup {None}
    BY DEF TypeOK, Thread
  <2>2. StreamAt("cancelled", stream[k].sig, EmptyBag, None) \in Thread
    BY <2>1, EmptyBagType, ThreadType
  <2> QED
    BY <1>7, <2>2 DEF StreamLost, TypeOK
<1>8. ASSUME NEW k \in Streams, StreamEnds(k) PROVE TypeOK'
  <2>1. stream[k].sig \in Sigs
    BY <1>8 DEF StreamEnds, Threads
  <2>2. StreamAt("ended", stream[k].sig, EmptyBag, None) \in Thread
    BY <2>1, EmptyBagType, ThreadType
  <2> QED
    BY <1>8, <2>1, <2>2 DEF StreamEnds, TypeOK
<1>9. ASSUME NEW k \in Streams, BulkTake(k) PROVE TypeOK'
  <2>1. stream[k].sig \in Sigs
    BY <1>9 DEF BulkTake, Threads
  <2>2. index[stream[k].sig] \in Bags
    BY <2>1 DEF TypeOK
  <2>3. StreamAt("bulk", stream[k].sig, index[stream[k].sig], None) \in Thread
    BY <2>1, <2>2, ThreadType
  <2> QED
    BY <1>9, <2>1, <2>3, EmptyBagType DEF BulkTake, TypeOK
<1>10. ASSUME NEW k \in Streams, NEW x \in Slots, BulkFind(k, x) PROVE TypeOK'
  <2> DEFINE rest == [stream[k].todo EXCEPT ![x] = @ - 1]
             g == stream[k].sig
  <2>1. g \in Sigs /\ stream[k].todo \in Bags /\ stream[k].todo[x] > 0
    BY <1>10 DEF BulkFind, Threads, TypeOK, Thread
  <2>2. rest \in Bags
    BY <2>1, BagTypes
  <2>3. /\ StreamAt("relock", g, rest, x) \in Thread
        /\ StreamAt("bulk", g, rest, None) \in Thread
    BY <2>1, <2>2, ThreadType
  <2> HIDE DEF rest
  <2>4. \/ stream' = [stream EXCEPT ![k] = StreamAt("relock", g, rest, x)]
        \/ stream' = [stream EXCEPT ![k] = StreamAt("bulk", g, rest, None)]
    BY <1>10 DEF BulkFind, rest
  <2>5. stream' \in [Streams -> Thread]
    BY <2>3, <2>4 DEF TypeOK
  <2>6. shut' \subseteq Slots
    BY <1>10 DEF BulkFind, TypeOK
  <2> QED
    BY <1>10, <2>5, <2>6 DEF BulkFind, TypeOK
<1>11. ASSUME NEW k \in Streams, BulkRemove(k) PROVE TypeOK'
  <2>1. /\ stream[k].slot \in Slots
        /\ stream[k].sig \in Sigs
        /\ stream[k].todo \in Bags
    BY <1>11 DEF BulkRemove, Threads, TypeOK, Thread
  <2>2. StreamAt("bulk", stream[k].sig, stream[k].todo, None) \in Thread
    BY <2>1, ThreadType
  <2>3. stream' \in [Streams -> Thread]
    BY <1>11, <2>2 DEF BulkRemove, TypeOK
  <2>4. /\ peer' \in [Slots -> Sigs \cup {None}]
        /\ shut' \subseteq Slots
        /\ rooms' \subseteq Rooms
    BY <1>11, <2>1 DEF BulkRemove, TypeOK, Vacated, RoomsAfter
  <2> QED
    BY <1>11, <2>3, <2>4 DEF BulkRemove, TypeOK
<1>12. ASSUME NEW k \in Streams, BulkDone(k) PROVE TypeOK'
  <2>1. StreamAt("idle", None, EmptyBag, None) \in Thread
    BY EmptyBagType, ThreadType
  <2> QED
    BY <1>12, <2>1 DEF BulkDone, TypeOK
<1>13. ASSUME NEW g \in Sigs, Crash(g) PROVE TypeOK'
  <2>1. StreamAt("cancelled", g, EmptyBag, None) \in Thread
    BY EmptyBagType, ThreadType
  <2> QED
    BY <1>13, <2>1 DEF Crash, TypeOK
<1>14. ASSUME NEW g \in Sigs, Restart(g) PROVE TypeOK'
  BY <1>14 DEF Restart, TypeOK
<1>15. CASE UNCHANGED vars
  BY <1>15 DEF vars, TypeOK
<1> QED
  BY <1>1, <1>2, <1>3, <1>4, <1>5, <1>6, <1>7, <1>8, <1>9, <1>10, <1>11, <1>12,
     <1>13, <1>14, <1>15 DEF Next, StreamNext

-----------------------------------------------------------------------------
\* A thread has its fields set as its step needs them.
LEMMA ThreadStep == IInv /\ [Next]_vars => Threads'
<1> SUFFICES ASSUME IInv, [Next]_vars PROVE Threads'
  OBVIOUS
<1> USE DEF IInv, TypeOK, Threads
<1>1. ASSUME UNCHANGED <<stream, call>> PROVE Threads'
  BY <1>1
<1>2. ASSUME NEW c \in Calls, NEW x \in Slots, DeleteFind(c, x) PROVE Threads'
  BY <1>2 DEF DeleteFind, CallAt
<1>3. ASSUME NEW c \in Calls, DeleteRemove(c) PROVE Threads'
  BY <1>3 DEF DeleteRemove, CallAt
<1>4. ASSUME NEW k \in Streams, NEW g \in Sigs, Subscribe(k, g) PROVE Threads'
  BY <1>4 DEF Subscribe, StreamAt
<1>5. ASSUME NEW k \in Streams, StreamLost(k) PROVE Threads'
  BY <1>5 DEF StreamLost, StreamAt
<1>6. ASSUME NEW k \in Streams, StreamEnds(k) PROVE Threads'
  BY <1>6 DEF StreamEnds, StreamAt
<1>7. ASSUME NEW k \in Streams, BulkTake(k) PROVE Threads'
  BY <1>7 DEF BulkTake, StreamAt
<1>8. ASSUME NEW k \in Streams, NEW x \in Slots, BulkFind(k, x) PROVE Threads'
  BY <1>8 DEF BulkFind, StreamAt
<1>9. ASSUME NEW k \in Streams, BulkRemove(k) PROVE Threads'
  BY <1>9 DEF BulkRemove, StreamAt
<1>10. ASSUME NEW k \in Streams, BulkDone(k) PROVE Threads'
  BY <1>10 DEF BulkDone, StreamAt
<1>11. ASSUME NEW g \in Sigs, Crash(g) PROVE Threads'
  BY <1>11 DEF Crash, StreamAt
<1> QED
  BY <1>1, <1>2, <1>3, <1>4, <1>5, <1>6, <1>7, <1>8, <1>9, <1>10, <1>11
     DEF Next, StreamNext, vars, SendCreate, CreatePeer, CreateFails, Restart

-----------------------------------------------------------------------------
\* Taking the session out of a slot, and its room with it if it is the last,
\* keeps m_rooms exact.
LEMMA RemovalKeepsRooms ==
    ASSUME TypeOK, RoomsExact, NEW x \in Slots,
           peer' = Vacated(x), rooms' = RoomsAfter(x)
    PROVE  RoomsExact'
<1>1. x[1] \in Rooms /\ x[2] \in Parts /\ x = <<x[1], x[2]>>
  BY SlotParts
<1>2. \A r \in Rooms, p \in Parts : <<r, p>> \in Slots
  BY DEF Slots
<1>3. \A r \in Rooms, p \in Parts :
          peer'[<<r, p>>] = IF <<r, p>> = x THEN None ELSE peer[<<r, p>>]
  BY <1>2 DEF Vacated, TypeOK
<1>4. ASSUME NEW r \in Rooms
      PROVE  r \in rooms' <=> \E p \in Parts : peer'[<<r, p>>] # None
  <2>1. CASE r = x[1]
    BY <1>1, <1>3, <2>1 DEF RoomsAfter, RoomsExact
  <2>2. CASE r # x[1]
    <3>1. \A p \in Parts : <<r, p>> # x
      BY <1>1, <2>2
    <3>2. r \in rooms' <=> r \in rooms
      BY <2>2 DEF RoomsAfter
    <3> QED
      BY <1>3, <3>1, <3>2 DEF RoomsExact
  <2> QED
    BY <2>1, <2>2
<1>5. rooms' \subseteq Rooms
  BY DEF RoomsAfter, TypeOK
<1> QED
  BY <1>4, <1>5 DEF RoomsExact

\* m_rooms stays the set of rooms that have a peer.
LEMMA RoomsStep == IInv /\ [Next]_vars => RoomsExact'
<1> SUFFICES ASSUME IInv, [Next]_vars PROVE RoomsExact'
  OBVIOUS
<1> USE DEF IInv
<1>1. ASSUME UNCHANGED <<peer, rooms>> PROVE RoomsExact'
  BY <1>1 DEF RoomsExact
<1>2. ASSUME NEW g \in Sigs, NEW x \in Slots, CreatePeer(g, x)
      PROVE  RoomsExact'
  <2>1. CASE peer[x] # None
    BY <1>1, <1>2, <2>1 DEF CreatePeer
  <2>2. CASE peer[x] = None
    <3>1. peer' = [peer EXCEPT ![x] = g] /\ rooms' = rooms \cup {x[1]}
      BY <1>2, <2>2 DEF CreatePeer
    <3>2. x[1] \in Rooms /\ x[2] \in Parts /\ x = <<x[1], x[2]>>
      BY SlotParts
    <3>3. \A r \in Rooms, p \in Parts : <<r, p>> \in Slots
      BY DEF Slots
    <3>4. \A r \in Rooms, p \in Parts :
              peer'[<<r, p>>] = IF <<r, p>> = x THEN g ELSE peer[<<r, p>>]
      BY <3>1, <3>3 DEF TypeOK
    <3>5. g # None
      BY NoneAssumption
    <3>6. ASSUME NEW r \in Rooms
          PROVE  r \in rooms' <=> \E p \in Parts : peer'[<<r, p>>] # None
      <4>1. CASE r = x[1]
        BY <3>1, <3>2, <3>4, <3>5, <4>1
      <4>2. CASE r # x[1]
        <5>1. \A p \in Parts : <<r, p>> # x
          BY <3>2, <4>2
        <5> QED
          BY <3>1, <3>4, <4>2, <5>1 DEF RoomsExact
      <4> QED
        BY <4>1, <4>2
    <3>7. rooms' \subseteq Rooms
      BY <3>1, <3>2 DEF TypeOK
    <3> QED
      BY <3>6, <3>7 DEF RoomsExact
  <2> QED
    BY <2>1, <2>2
<1>3. ASSUME NEW c \in Calls, DeleteRemove(c) PROVE RoomsExact'
  <2>1. call[c].slot \in Slots
    BY <1>3 DEF DeleteRemove, Threads
  <2>2. CASE call[c].slot[1] \notin rooms
    BY <1>1, <1>3, <2>2 DEF DeleteRemove
  <2>3. CASE call[c].slot[1] \in rooms
    BY <1>3, <2>1, <2>3, RemovalKeepsRooms DEF DeleteRemove
  <2> QED
    BY <2>2, <2>3
<1>4. ASSUME NEW k \in Streams, BulkRemove(k) PROVE RoomsExact'
  <2>1. stream[k].slot \in Slots
    BY <1>4 DEF BulkRemove, Threads
  <2>2. CASE stream[k].slot[1] \notin rooms
    BY <1>1, <1>4, <2>2 DEF BulkRemove
  <2>3. CASE stream[k].slot[1] \in rooms
    BY <1>4, <2>1, <2>3, RemovalKeepsRooms DEF BulkRemove
  <2> QED
    BY <2>2, <2>3
<1> QED
  BY <1>1, <1>2, <1>3, <1>4
     DEF Next, StreamNext, vars, SendCreate, CreateFails, DeleteFind, Subscribe,
         StreamLost, StreamEnds, BulkTake, BulkFind, BulkDone, Crash, Restart

\* A slot of a room that is gone is free.
LEMMA GoneRoomIsEmpty ==
    ASSUME RoomsExact, NEW x \in Slots, x[1] \notin rooms
    PROVE  peer[x] = None
BY SlotParts DEF RoomsExact

\* The removal that ends a DeletePeer leaves its slot free; so does the one of a
\* bulk cleanup.
LEMMA RemovalFreesSlot ==
    ASSUME IInv, NEW x \in Slots,
           \/ x[1] \notin rooms /\ UNCHANGED <<peer, shut>>
           \/ peer' = Vacated(x) /\ shut' = shut \ {x}
    PROVE  /\ peer' = Vacated(x)
           /\ shut' = shut \ {x}
           /\ peer'[x] = None
           /\ \A y \in Slots : y # x => peer'[y] = peer[y]
<1>1. ASSUME x[1] \notin rooms, UNCHANGED <<peer, shut>>
      PROVE  peer' = Vacated(x) /\ shut' = shut \ {x}
  <2>1. peer[x] = None
    BY <1>1, GoneRoomIsEmpty DEF IInv
  <2>2. x \notin shut
    BY <2>1 DEF IInv, NoDeadPeer
  <2> QED
    BY <1>1, <2>1, <2>2 DEF Vacated, IInv, TypeOK
<1>2. peer' = Vacated(x) /\ shut' = shut \ {x}
  BY <1>1
<1> QED
  BY <1>2 DEF Vacated, IInv, TypeOK

-----------------------------------------------------------------------------
\* Some call is about to take the session out of slot x.
Condemned(x) ==
    \/ \E c \in Calls : call[c].at = "relock" /\ call[c].slot = x
    \/ \E k \in Streams : stream[k].at = "relock" /\ stream[k].slot = x

\* A closed session occupies its slot until its remover returns.
LEMMA DeadStep == IInv /\ [Next]_vars => NoDeadPeer'
<1> SUFFICES ASSUME IInv, [Next]_vars PROVE NoDeadPeer'
  OBVIOUS
<1> USE DEF IInv, TypeOK
<1>0. /\ \A x \in shut : peer[x] # None /\ Condemned(x)
      /\ (\A x \in shut' : peer'[x] # None /\ Condemned(x)') => NoDeadPeer'
  BY DEF NoDeadPeer, Condemned
<1>1. ASSUME UNCHANGED <<peer, shut>>,
             \A x \in shut : Condemned(x) => Condemned(x)'
      PROVE  NoDeadPeer'
  BY <1>0, <1>1
<1>2. ASSUME NEW g \in Sigs, NEW x \in Slots, CreatePeer(g, x)
      PROVE  NoDeadPeer'
  <2>1. UNCHANGED <<shut, call, stream>>
    BY <1>2 DEF CreatePeer
  <2>2. \A y \in Slots : peer[y] # None => peer'[y] # None
    BY <1>2, NoneAssumption DEF CreatePeer
  <2> QED
    BY <2>1, <2>2 DEF NoDeadPeer
<1>3. ASSUME NEW c \in Calls, NEW x \in Slots, DeleteFind(c, x)
      PROVE  NoDeadPeer'
  <2>1. UNCHANGED <<peer, stream>> /\ shut \subseteq shut'
    BY <1>3 DEF DeleteFind
  <2>2. Condemned(x)'
    BY <1>3 DEF DeleteFind, Condemned, CallAt
  <2>3. \A y \in shut : Condemned(y)'
    BY <1>0, <1>3, <2>1 DEF DeleteFind, Condemned, CallAt
  <2>4. \A y \in shut' : y \in shut \/ (y = x /\ peer[x] # None)
    BY <1>3 DEF DeleteFind
  <2> QED
    BY <1>0, <2>1, <2>2, <2>3, <2>4
<1>4. ASSUME NEW c \in Calls, DeleteRemove(c) PROVE NoDeadPeer'
  <2> DEFINE x == call[c].slot
  <2>1. x \in Slots
    BY <1>4 DEF DeleteRemove, Threads
  <2>2. \/ x[1] \notin rooms /\ UNCHANGED <<peer, shut>>
        \/ peer' = Vacated(x) /\ shut' = shut \ {x}
    BY <1>4 DEF DeleteRemove
  <2> HIDE DEF x
  <2>3. shut' = shut \ {x} /\ \A y \in Slots : y # x => peer'[y] = peer[y]
    BY <2>1, <2>2, RemovalFreesSlot
  <2>4. ASSUME NEW y \in shut' PROVE Condemned(y)'
    <3>1. Condemned(y) /\ y # x
      BY <1>0, <2>3
    <3> QED
      BY <1>4, <3>1 DEF DeleteRemove, Condemned, x, CallAt
  <2> QED
    BY <1>0, <2>3, <2>4
<1>5. ASSUME NEW k \in Streams, NEW x \in Slots, BulkFind(k, x)
      PROVE  NoDeadPeer'
  <2>1. UNCHANGED <<peer, call, rooms>> /\ shut \subseteq shut'
    BY <1>5 DEF BulkFind
  <2>2. \A y \in shut : Condemned(y)'
    BY <1>0, <1>5, <2>1 DEF BulkFind, Condemned, StreamAt
  <2>3. ASSUME NEW y \in shut', y \notin shut
        PROVE  y = x /\ peer[x] # None /\ Condemned(x)'
    BY <1>5, <2>3 DEF BulkFind, Condemned, StreamAt
  <2> QED
    BY <1>0, <2>1, <2>2, <2>3
<1>6. ASSUME NEW k \in Streams, BulkRemove(k) PROVE NoDeadPeer'
  <2> DEFINE x == stream[k].slot
  <2>1. x \in Slots
    BY <1>6 DEF BulkRemove, Threads
  <2>2. \/ x[1] \notin rooms /\ UNCHANGED <<peer, shut>>
        \/ peer' = Vacated(x) /\ shut' = shut \ {x}
    BY <1>6 DEF BulkRemove
  <2> HIDE DEF x
  <2>3. shut' = shut \ {x} /\ \A y \in Slots : y # x => peer'[y] = peer[y]
    BY <2>1, <2>2, RemovalFreesSlot
  <2>4. ASSUME NEW y \in shut' PROVE Condemned(y)'
    <3>1. Condemned(y) /\ y # x
      BY <1>0, <2>3
    <3> QED
      BY <1>6, <3>1 DEF BulkRemove, Condemned, x, StreamAt
  <2> QED
    BY <1>0, <2>3, <2>4
<1>7. ASSUME NEW k \in Streams, NEW t, stream' = [stream EXCEPT ![k] = t],
             stream[k].at # "relock", UNCHANGED <<peer, shut, call>>
      PROVE  NoDeadPeer'
  BY <1>1, <1>7 DEF Condemned
<1>8. ASSUME NEW k \in Streams, NEW g \in Sigs, Subscribe(k, g)
      PROVE  NoDeadPeer'
  BY <1>7, <1>8 DEF Subscribe
<1>9. ASSUME NEW k \in Streams,
             StreamLost(k) \/ StreamEnds(k) \/ BulkTake(k) \/ BulkDone(k)
      PROVE  NoDeadPeer'
  BY <1>7, <1>9 DEF StreamLost, StreamEnds, BulkTake, BulkDone
<1>10. ASSUME NEW g \in Sigs, Crash(g) PROVE NoDeadPeer'
  BY <1>1, <1>10 DEF Crash, Condemned
<1>11. ASSUME UNCHANGED <<peer, shut, call, stream>> PROVE NoDeadPeer'
  BY <1>11 DEF NoDeadPeer
<1> QED
  BY <1>2, <1>3, <1>4, <1>5, <1>6, <1>8, <1>9, <1>10, <1>11
     DEF Next, StreamNext, vars, SendCreate, CreateFails, Restart

-----------------------------------------------------------------------------
\* Every registered peer stays in the index of its node or in the list of a
\* cleanup of that node.
LEMMA ReclaimStep == IInv /\ [Next]_vars => PeersReclaimable'
<1> SUFFICES ASSUME IInv, [Next]_vars, NEW y \in Slots, peer'[y] # None
             PROVE  (index[peer[y]][y] > 0 \/ InBulk(peer[y], y))'
  BY DEF PeersReclaimable
<1> DEFINE Goal == (index[peer[y]][y] > 0 \/ InBulk(peer[y], y))'
<1> USE DEF IInv, TypeOK
<1>0. peer[y] # None => index[peer[y]][y] > 0 \/ InBulk(peer[y], y)
  BY DEF PeersReclaimable
<1>1. None \notin Sigs /\ None \notin Slots
  BY NoneAssumption DEF Slots
<1>2. ASSUME UNCHANGED <<peer, index, stream>> PROVE Goal
  BY <1>0, <1>2 DEF InBulk
<1>3. ASSUME NEW g \in Sigs, NEW x \in Slots, CreatePeer(g, x) PROVE Goal
  <2>1. CASE peer[x] # None
    BY <1>2, <1>3, <2>1 DEF CreatePeer
  <2>2. CASE peer[x] = None
    <3>1. /\ peer' = [peer EXCEPT ![x] = g]
          /\ index' = [index EXCEPT ![g][x] = @ + 1]
          /\ UNCHANGED stream
      BY <1>3, <2>2 DEF CreatePeer
    <3>2. CASE y = x
      BY <3>1, <3>2 DEF Bags
    <3>3. CASE y # x
      <4>1. peer'[y] = peer[y] /\ peer[y] \in Sigs
        BY <3>1, <3>3
      <4>2. index'[peer[y]][y] = index[peer[y]][y]
        BY <3>1, <3>3, <4>1 DEF Bags
      <4> QED
        BY <1>0, <1>1, <3>1, <4>1, <4>2 DEF InBulk
    <3> QED
      BY <3>2, <3>3
  <2> QED
    BY <2>1, <2>2
<1>4. ASSUME NEW c \in Calls, DeleteRemove(c) PROVE Goal
  <2> DEFINE x == call[c].slot
             g == call[c].found
  <2>1. x \in Slots /\ g \in Sigs \cup {None} /\ UNCHANGED stream
    BY <1>4 DEF DeleteRemove, Threads
  <2>2. \/ x[1] \notin rooms /\ UNCHANGED <<peer, shut>>
        \/ peer' = Vacated(x) /\ shut' = shut \ {x}
    BY <1>4 DEF DeleteRemove
  <2>3. index' = index \/ (g \in Sigs /\ index' = [index EXCEPT ![g][x] = 0])
    BY <1>4, <2>1 DEF DeleteRemove
  <2> HIDE DEF x, g
  <2>4. peer'[x] = None /\ \A z \in Slots : z # x => peer'[z] = peer[z]
    BY <2>1, <2>2, RemovalFreesSlot
  <2>5. y # x /\ peer'[y] = peer[y] /\ peer[y] \in Sigs
    BY <2>4
  <2>6. index'[peer[y]][y] = index[peer[y]][y]
    BY <2>1, <2>3, <2>5 DEF Bags
  <2> QED
    BY <1>0, <1>1, <2>1, <2>5, <2>6 DEF InBulk
<1>5. ASSUME NEW k \in Streams, NEW t, stream' = [stream EXCEPT ![k] = t],
             stream[k].at \notin {"bulk", "relock"}, UNCHANGED <<peer, index>>
      PROVE  Goal
  BY <1>0, <1>5 DEF InBulk
<1>6. ASSUME NEW k \in Streams, NEW g \in Sigs, Subscribe(k, g) PROVE Goal
  BY <1>5, <1>6 DEF Subscribe
<1>7. ASSUME NEW k \in Streams, StreamLost(k) \/ StreamEnds(k) PROVE Goal
  BY <1>5, <1>7 DEF StreamLost, StreamEnds
<1>8. ASSUME NEW k \in Streams, BulkTake(k) PROVE Goal
  <2> DEFINE g == stream[k].sig
  <2>1. g \in Sigs /\ stream[k].at = "ended" /\ UNCHANGED peer
    BY <1>8 DEF BulkTake, Threads
  <2>2. /\ stream' = [stream EXCEPT ![k] = StreamAt("bulk", g, index[g], None)]
        /\ index' = [index EXCEPT ![g] = EmptyBag]
    BY <1>8 DEF BulkTake
  <2> HIDE DEF g
  <2>3. peer[y] \in Sigs
    BY <2>1
  <2>4. CASE InBulk(peer[y], y)
    BY <2>1, <2>2, <2>4 DEF InBulk
  <2>5. CASE index[peer[y]][y] > 0 /\ peer[y] # g
    BY <2>1, <2>2, <2>3, <2>5
  <2>6. CASE index[peer[y]][y] > 0 /\ peer[y] = g
    <3>1. /\ stream'[k].at = "bulk"
          /\ stream'[k].sig = g
          /\ stream'[k].todo[y] > 0
      BY <2>2, <2>6 DEF StreamAt
    <3> QED
      BY <2>1, <2>6, <3>1 DEF InBulk
  <2> QED
    BY <1>0, <2>1, <2>4, <2>5, <2>6
<1>9. ASSUME NEW k \in Streams, NEW x \in Slots, BulkFind(k, x) PROVE Goal
  <2> DEFINE rest == [stream[k].todo EXCEPT ![x] = @ - 1]
             g == stream[k].sig
  <2>1. /\ UNCHANGED <<peer, index>>
        /\ stream[k].at = "bulk"
        /\ stream[k].slot = None
        /\ stream[k].todo \in Bags
    BY <1>9 DEF BulkFind, Threads, Thread
  <2>2. y # x => rest[y] = stream[k].todo[y]
    BY <2>1 DEF Bags
  <2>3. \/ stream' = [stream EXCEPT ![k] = StreamAt("relock", g, rest, x)]
        \/ /\ x[1] \notin rooms
           /\ stream' = [stream EXCEPT ![k] = StreamAt("bulk", g, rest, None)]
    BY <1>9 DEF BulkFind
  <2> HIDE DEF rest
  <2>4. /\ stream'[k].at \in {"bulk", "relock"}
        /\ stream'[k].sig = g
        /\ stream'[k].todo = rest
        /\ stream'[k].slot = x \/ x[1] \notin rooms
        /\ \A j \in Streams : j # k => stream'[j] = stream[j]
    BY <2>3 DEF StreamAt
  <2>5. ASSUME InBulk(peer[y], y) PROVE InBulk(peer[y], y)'
    <3>1. PICK j \in Streams :
             /\ stream[j].at \in {"bulk", "relock"} /\ stream[j].sig = peer[y]
             /\ stream[j].todo[y] > 0 \/ stream[j].slot = y
      BY <2>5 DEF InBulk
    <3>2. CASE j # k
      BY <2>1, <2>4, <3>1, <3>2 DEF InBulk
    <3>3. CASE j = k
      <4>1. stream[k].todo[y] > 0
        BY <1>1, <2>1, <3>1, <3>3
      <4>2. y = x => stream'[k].slot = y
        BY <2>1, <2>4, GoneRoomIsEmpty
      <4>3. stream'[k].todo[y] > 0 \/ stream'[k].slot = y
        BY <2>2, <2>4, <4>1, <4>2
      <4> QED
        BY <2>1, <2>4, <3>1, <3>3, <4>3 DEF InBulk
    <3> QED
      BY <3>2, <3>3
  <2> QED
    BY <1>0, <2>1, <2>5
<1>10. ASSUME NEW k \in Streams, BulkRemove(k) PROVE Goal
  <2> DEFINE x == stream[k].slot
  <2>1. x \in Slots /\ UNCHANGED index /\ stream[k].at = "relock"
    BY <1>10 DEF BulkRemove, Threads
  <2>2. \/ x[1] \notin rooms /\ UNCHANGED <<peer, shut>>
        \/ peer' = Vacated(x) /\ shut' = shut \ {x}
    BY <1>10 DEF BulkRemove
  <2>3. stream' = [stream EXCEPT ![k] =
                      StreamAt("bulk", stream[k].sig, stream[k].todo, None)]
    BY <1>10 DEF BulkRemove
  <2>4. peer'[x] = None /\ \A z \in Slots : z # x => peer'[z] = peer[z]
    BY <2>1, <2>2, RemovalFreesSlot
  <2>5. y # x /\ peer'[y] = peer[y]
    BY <2>4
  <2>6. InBulk(peer[y], y) => InBulk(peer[y], y)'
    BY <2>3, <2>5 DEF InBulk, StreamAt
  <2> QED
    BY <1>0, <2>1, <2>5, <2>6
<1>11. ASSUME NEW k \in Streams, BulkDone(k) PROVE Goal
  <2>1. /\ stream[k].at = "bulk" /\ stream[k].slot = None
        /\ stream[k].todo = EmptyBag
        /\ UNCHANGED <<peer, index>>
        /\ stream' = [stream EXCEPT ![k] = StreamAt("idle", None, EmptyBag, None)]
    BY <1>11 DEF BulkDone, Threads
  <2>2. ~(stream[k].todo[y] > 0 \/ stream[k].slot = y)
    BY <1>1, <2>1 DEF EmptyBag
  <2>3. InBulk(peer[y], y) => InBulk(peer[y], y)'
    BY <2>1, <2>2 DEF InBulk
  <2> QED
    BY <1>0, <2>1, <2>3
<1>12. ASSUME NEW g \in Sigs, Crash(g) PROVE Goal
  BY <1>0, <1>12 DEF Crash, InBulk
<1> QED
  BY <1>2, <1>3, <1>4, <1>6, <1>7, <1>8, <1>9, <1>10, <1>11, <1>12
     DEF Next, StreamNext, vars, SendCreate, CreateFails, DeleteFind, Restart

-----------------------------------------------------------------------------
\* The inductive invariant holds in every behaviour.
THEOREM InvariantHolds == Spec => []IInv
<1>1. IInv /\ [Next]_vars => IInv'
  BY TypeStep, ThreadStep, RoomsStep, DeadStep, ReclaimStep DEF IInv
<1> QED
  BY <1>1, InitInv, PTL DEF Spec

\* The types of the SFU's tables and of the threads that change them.
THEOREM SfuTypeCorrect == Spec => []TypeOK
<1>1. IInv => TypeOK
  BY DEF IInv
<1> QED
  BY <1>1, InvariantHolds, PTL

\* No peer escapes removePeersBySignaling, for any number of rooms, nodes,
\* streams and concurrent calls.
THEOREM NoPeerEscapes == Spec => []PeersReclaimable
<1>1. IInv => PeersReclaimable
  BY DEF IInv
<1> QED
  BY <1>1, InvariantHolds, PTL

\* A session whose connection removePeer or removePeersBySignaling closed is on
\* its way out of m_peers.
THEOREM NoDeadPeerStays == Spec => []NoDeadPeer
<1>1. IInv => NoDeadPeer
  BY DEF IInv
<1> QED
  BY <1>1, InvariantHolds, PTL

\* m_rooms has a room exactly while the room has a peer.
THEOREM RoomsStayExact == Spec => []RoomsExact
<1>1. IInv => RoomsExact
  BY DEF IInv
<1> QED
  BY <1>1, InvariantHolds, PTL
=============================================================================

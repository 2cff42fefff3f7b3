--------------------------- MODULE ClientAppProofs ---------------------------
(***************************************************************************)
(* Proofs about ClientApp: types, the screens and the socket, the pages of *)
(* the room.                                                               *)
(*                                                                         *)
(* The invariants of the run are not inductive alone.  Wired adds that a   *)
(* client has its start and that a connected socket is not a closed one;   *)
(* Settled adds, while no answer came late, that a form with a request     *)
(* under way is still on the screen and that a client still asking for its *)
(* room has no room on the screen yet.                                     *)
(***************************************************************************)
EXTENDS ClientApp, FiniteSetTheorems, TLAPS

(* Pages *)

\* What a quotient of natural numbers is.
LEMMA Quotient ==
    ASSUME NEW a \in Nat, NEW t \in Nat \ {0}
    PROVE  /\ a \div t \in Nat
           /\ (a \div t) * t <= a
           /\ a < (a \div t) * t + t
  BY SMTT(30)

\* A page ends where a later one begins, or before.
LEMMA PagesApart ==
    ASSUME NEW p \in Nat, NEW q \in Nat, NEW t \in Nat \ {0}, p < q
    PROVE  p * t + t <= q * t
<1>1. (p + 1) * t <= q * t
  BY SMTT(30)
<1>2. (p + 1) * t = p * t + t
  BY SMT
<1> QED
  BY <1>1, <1>2, SMT

\* A page holds at least one participant.
LEMMA PerPageType ==
    ASSUME NEW is \in BOOLEAN
    PROVE  PerPage(is) \in Nat \ {0}
  BY PageSizeAssumption DEF PerPage

\* The pages are enough and none is empty but the only one: the number of
\* pages is the rounded up quotient of both layouts.
LEMMA PageCountExact ==
    ASSUME NEW is \in BOOLEAN, NEW n \in Nat
    PROVE  /\ PageCount(is, n) \in Nat \ {0}
           /\ n <= PageCount(is, n) * PerPage(is)
           /\ (PageCount(is, n) - 1) * PerPage(is) <= n
<1> DEFINE t == PerPage(is)
<1>0. t \in Nat \ {0}
  BY PerPageType
<1> HIDE DEF t
<1>1. CASE ~is /\ n <= TilesPerPage
  <2>1. PageCount(is, n) = 1
    BY <1>1 DEF PageCount, GridPageCount
  <2>2. t = TilesPerPage
    BY <1>1 DEF t, PerPage
  <2> QED
    BY <1>0, <1>1, <2>1, <2>2 DEF t
<1>2. CASE ~is /\ ~(n <= TilesPerPage)
  <2> DEFINE d == (n + t - 1) \div t
  <2>1. t = TilesPerPage
    BY <1>2 DEF t, PerPage
  <2>2. PageCount(is, n) = d
    BY <1>2, <2>1 DEF PageCount, GridPageCount
  <2>3. n + t - 1 \in Nat
    BY <1>0
  <2>4. /\ d \in Nat
        /\ d * t <= n + t - 1
        /\ n + t - 1 < d * t + t
    BY <1>0, <2>3, Quotient
  <2> HIDE DEF d
  <2>5. d # 0
    BY <1>0, <1>2, <2>1, <2>4
  <2>6. (d - 1) * t = d * t - t
    BY <1>0, <2>4, SMT
  <2>7. d * t \in Nat
    BY <1>0, <2>4, SMT
  <2> QED
    BY <1>0, <2>2, <2>4, <2>5, <2>6, <2>7 DEF t
<1>3. CASE is
  <2> DEFINE a == SaturatingSub(n, 1)
             d == a \div t
  <2>1. t = RailTilesPerPage
    BY <1>3 DEF t, PerPage
  <2>2. PageCount(is, n) = d + 1
    BY <1>3, <2>1 DEF PageCount, RailPageCount
  <2>3. a \in Nat /\ a <= n /\ n <= a + 1
    BY DEF SaturatingSub
  <2> HIDE DEF a
  <2>4. /\ d \in Nat
        /\ d * t <= a
        /\ a < d * t + t
    BY <1>0, <2>3, Quotient
  <2> HIDE DEF d
  <2>5. (d + 1) * t = d * t + t
    BY <1>0, <2>4, SMT
  <2>6. d * t \in Nat
    BY <1>0, <2>4, SMT
  <2>7. (d + 1) - 1 = d
    BY <2>4
  <2> QED
    BY <1>0, <2>2, <2>3, <2>4, <2>5, <2>6, <2>7 DEF t
<1> QED
  BY <1>1, <1>2, <1>3

\* The clamp always gives a page that exists.
LEMMA ClampExists ==
    ASSUME NEW index \in Nat, NEW pages \in Nat \ {0}
    PROVE  /\ ClampPage(index, pages) \in 0..(pages - 1)
           /\ index \in 0..(pages - 1) => ClampPage(index, pages) = index
  BY DEF ClampPage, Least, SaturatingSub

\* Whatever page the user is on, the slice of the participants is legal.
LEMMA SliceLegal ==
    ASSUME NEW is \in BOOLEAN, NEW n \in Nat, NEW index \in Nat
    PROVE  /\ FirstTile(is, n, index) <= EndTile(is, n, index)
           /\ EndTile(is, n, index) <= n
<1> DEFINE t == PerPage(is)
           pages == PageCount(is, n)
           p == ClampPage(index, pages)
<1>1. t \in Nat \ {0}
  BY PerPageType
<1>2. pages \in Nat \ {0} /\ (pages - 1) * t <= n
  BY PageCountExact
<1>3. p \in Nat /\ p <= pages - 1
  BY <1>2, ClampExists
<1>4. FirstTile(is, n, index) = p * t
  BY DEF FirstTile
<1>5. EndTile(is, n, index) = Least(p * t + t, n)
  BY <1>4 DEF EndTile
<1> HIDE DEF t, pages, p
<1>6. p * t <= (pages - 1) * t
  BY <1>1, <1>2, <1>3, SMTT(30)
<1>7. p * t \in Nat /\ (pages - 1) * t \in Nat
  BY <1>1, <1>2, <1>3, SMTT(30)
<1>8. p * t <= n
  BY <1>2, <1>6, <1>7
<1> QED
  BY <1>1, <1>4, <1>5, <1>7, <1>8 DEF Least

\* Every participant is on exactly one page.
LEMMA TileOnOnePage ==
    ASSUME NEW is \in BOOLEAN, NEW n \in Nat, NEW k \in 0..(n - 1)
    PROVE  \E p \in 0..(PageCount(is, n) - 1) :
             /\ FirstTile(is, n, p) <= k /\ k < EndTile(is, n, p)
             /\ \A q \in 0..(PageCount(is, n) - 1) :
                  FirstTile(is, n, q) <= k /\ k < EndTile(is, n, q) => q = p
<1> DEFINE t == PerPage(is)
           pages == PageCount(is, n)
           p == k \div t
<1>1. t \in Nat \ {0}
  BY PerPageType
<1>2. pages \in Nat \ {0} /\ n <= pages * t
  BY PageCountExact
<1>3. p \in Nat /\ p * t <= k /\ k < p * t + t
  BY <1>1, Quotient
<1> HIDE DEF t, p
<1>4. ASSUME NEW q \in 0..(pages - 1)
      PROVE  /\ FirstTile(is, n, q) = q * t
             /\ EndTile(is, n, q) = Least(q * t + t, n)
  <2>1. ClampPage(q, pages) = q
    BY <1>2, ClampExists
  <2> QED
    BY <2>1 DEF FirstTile, EndTile, t, pages
<1>5. p \in 0..(pages - 1)
  <2> HIDE DEF pages
  <2>1. SUFFICES ASSUME pages <= p
                 PROVE  FALSE
    BY <1>2, <1>3
  <2>2. pages * t <= p * t
    BY <1>1, <1>2, <1>3, <2>1, SMTT(30)
  <2>3. pages * t \in Nat /\ p * t \in Nat
    BY <1>1, <1>2, <1>3, SMTT(30)
  <2> QED
    BY <1>2, <1>3, <2>2, <2>3
<1>6. FirstTile(is, n, p) <= k /\ k < EndTile(is, n, p)
  <2>1. p * t \in Nat
    BY <1>1, <1>3, SMTT(30)
  <2> QED
    BY <1>1, <1>3, <1>4, <1>5, <2>1 DEF Least
<1>7. ASSUME NEW q \in 0..(pages - 1),
             FirstTile(is, n, q) <= k, k < EndTile(is, n, q)
      PROVE  q = p
  <2> HIDE DEF pages
  <2>1. q \in Nat
    BY <1>2
  <2>2. p * t \in Nat /\ q * t \in Nat
    BY <1>1, <1>3, <2>1, SMTT(30)
  <2>3. q * t <= k /\ k < q * t + t
    BY <1>1, <1>4, <1>7, <2>2 DEF Least
  <2>4. ~(q < p)
    <3>1. SUFFICES ASSUME q < p
                   PROVE  FALSE
      OBVIOUS
    <3>2. q * t + t <= p * t
      BY <1>1, <1>3, <2>1, <3>1, PagesApart
    <3> QED
      BY <1>1, <1>3, <2>2, <2>3, <3>2
  <2>5. ~(p < q)
    <3>1. SUFFICES ASSUME p < q
                   PROVE  FALSE
      OBVIOUS
    <3>2. p * t + t <= q * t
      BY <1>1, <1>3, <2>1, <3>1, PagesApart
    <3> QED
      BY <1>1, <1>3, <2>2, <2>3, <3>2
  <2> QED
    BY <1>3, <2>1, <2>4, <2>5
<1> QED
  BY <1>5, <1>6, <1>7
-----------------------------------------------------------------------------
(* Invariants *)

Form(kind) ==
    IF kind = "auth" THEN "Nickname" ELSE IF kind = "create" THEN "MainMenu" ELSE "JoinRoom"

\* A client has its start, a socket that still connects has said nothing, and
\* the flag of the socket is up only with one that is not known to be closed.
Wired ==
    /\ client # None => start # None
    /\ client # None /\ client.socket = "connecting" => client.at = "new"
    /\ ws_connected => start # None /\ ~(client # None /\ client.socket = "closed")

\* A request whose form is there belongs to what is on the screen, and no login
\* is without its form.
FormsLive ==
    \A i \in Requests : reqs[i] # None =>
        /\ reqs[i].kind = "auth" => reqs[i].mounted
        /\ reqs[i].mounted =>
              /\ screen = Form(reqs[i].kind)
              /\ reqs[i].kind # "auth" => reqs[i].session = session
              /\ \A j \in Requests : reqs[j] # None /\ reqs[j].mounted => j = i

\* While no answer came late a client on its way to a room comes from no room.
Settled ==
    ~diverted =>
        /\ (active_room # None) <=> (screen = "Room")
        /\ FormsLive
        /\ screen = "Nickname" => client = None
        /\ client # None => start.session = session
        /\ client # None /\ client.at \in {"new", "attach", "asked"} => active_room = None
        /\ (client # None /\ client.at = "in room" /\ media # None) =>
              media.transport = client.serial

IInv == TypeOK /\ Wired /\ NoGhost /\ MediaFollowsRoom /\ Settled

RequestMap == [Requests -> Request \cup {None}]

\* The number of participants is a natural number.
LEMMA CountType ==
    ASSUME NEW room \in ActiveRoom \cup {None}
    PROVE  Count(room) \in Nat
<1>1. CASE room = None
  BY <1>1 DEF Count
<1>2. CASE room # None
  <2>1. room.participants \subseteq Nicks
    BY <1>2 DEF ActiveRoom
  <2>2. IsFiniteSet(Nicks)
    BY PeersFiniteAssumption, FS_AddElement DEF Nicks
  <2>3. Cardinality(room.participants) \in Nat
    BY <2>1, <2>2, FS_Subset, FS_CardinalityType
  <2> QED
    BY <1>2, <2>3 DEF Count
<1> QED
  BY <1>1, <1>2

\* Whether somebody presents is a Boolean.
LEMMA PresentingType ==
    ASSUME NEW share \in BOOLEAN, NEW scrs, NEW room
    PROVE  Presenting(share, scrs, room) \in BOOLEAN
  BY DEF Presenting

\* The effects keep the type of the component's state.
LEMMA RoomComponentType ==
    ASSUME NEW index \in Nat, NEW share \in BOOLEAN, RoomComponent(index, share),
           active_room' \in ActiveRoom \cup {None}
    PROVE  page_index' \in Nat /\ sharing' \in BOOLEAN
<1> DEFINE is == Presenting(share, screens', active_room')
           pages == PageCount(is, Count(active_room'))
<1>1. is \in BOOLEAN
  BY PresentingType
<1>2. Count(active_room') \in Nat
  BY CountType
<1>3. pages \in Nat \ {0}
  BY <1>1, <1>2, PageCountExact
<1>4. ClampPage(index, pages) \in Nat
  BY <1>3, ClampExists
<1>5. \/ page_index' = 0 /\ sharing' = FALSE
      \/ sharing' = share /\ page_index' = index
      \/ sharing' = share /\ page_index' = ClampPage(index, pages)
  BY Zenon DEF RoomComponent
<1> HIDE DEF is, pages
<1>6. page_index' \in Nat
  BY <1>4, <1>5
<1>7. sharing' \in BOOLEAN
  BY <1>5, Zenon
<1> QED
  BY <1>6, <1>7

\* What a render does to the media session and the requests.
LEMMA RenderedFacts ==
    ASSUME TypeOK, MediaFollowsRoom, NEW rs \in RequestMap, Rendered(rs),
           client' \in Client \cup {None}, active_room' \in ActiveRoom \cup {None}
    PROVE  /\ reqs' \in RequestMap
           /\ media' \in Media \cup {None}
           /\ screens' \subseteq Peers
           /\ page_index' \in Nat /\ sharing' \in BOOLEAN
           /\ MediaFollowsRoom'
           /\ \/ media' = None
              \/ media' = media /\ RoomId(active_room') = RoomId(active_room)
              \/ client' # None /\ media'.transport = client'.serial
           /\ \A i \in Requests : reqs'[i] # None =>
                /\ rs[i] # None
                /\ reqs'[i].kind = rs[i].kind /\ reqs'[i].session = rs[i].session
                /\ reqs'[i].mounted <=> (rs[i].mounted /\ screen' = screen)
<1> USE ClientNoneAssumption
<1>1. MediaLifecycle /\ RequestsKept(rs) /\ RoomComponent(page_index, sharing)
  BY DEF Rendered
<1>2. page_index' \in Nat /\ sharing' \in BOOLEAN
  BY <1>1, RoomComponentType DEF TypeOK
<1>3. /\ media' \in Media \cup {None}
      /\ screens' \subseteq Peers
      /\ MediaFollowsRoom'
      /\ \/ media' = None
         \/ media' = media /\ RoomId(active_room') = RoomId(active_room)
         \/ client' # None /\ media'.transport = client'.serial
  <2>1. CASE RoomId(active_room') = RoomId(active_room)
    <3>1. media' = media /\ screens' = screens
      BY <1>1, <2>1 DEF MediaLifecycle
    <3>2. MediaFollowsRoom'
      BY <2>1, <3>1 DEF MediaFollowsRoom, RoomId, TypeOK, ActiveRoom
    <3> QED
      BY <2>1, <3>1, <3>2 DEF TypeOK
  <2>2. CASE RoomId(active_room') # RoomId(active_room)
    <3>1. screens' = {}
      BY <1>1, <2>2 DEF MediaLifecycle
    <3>2. CASE media' = None
      BY <3>1, <3>2 DEF MediaFollowsRoom
    <3>3. CASE /\ active_room' # None /\ client' # None
               /\ media' = [room |-> active_room'.room, transport |-> client'.serial]
      BY <3>1, <3>3 DEF MediaFollowsRoom, ActiveRoom, Client, Media
    <3> QED
      BY <1>1, <2>2, <3>2, <3>3 DEF MediaLifecycle
  <2> QED
    BY <2>1, <2>2
<1>4. /\ reqs' \in RequestMap
      /\ \A i \in Requests : reqs'[i] # None =>
           /\ rs[i] # None
           /\ reqs'[i].kind = rs[i].kind /\ reqs'[i].session = rs[i].session
           /\ reqs'[i].mounted <=> (rs[i].mounted /\ screen' = screen)
  <2>1. CASE screen' = screen
    BY <1>1, <2>1 DEF RequestsKept
  <2>2. CASE screen' # screen
    <3>1. reqs' = Unmounted(rs)
      BY <1>1, <2>2 DEF RequestsKept
    <3>2. ASSUME NEW i \in Requests, rs[i] # None
          PROVE  /\ reqs'[i] \in Request
                 /\ reqs'[i].kind = rs[i].kind /\ reqs'[i].session = rs[i].session
                 /\ reqs'[i].mounted = FALSE
      BY <3>1, <3>2 DEF Unmounted, RequestMap, Request
    <3>3. ASSUME NEW i \in Requests, rs[i] = None
          PROVE  reqs'[i] = None
      BY <3>1, <3>3 DEF Unmounted
    <3>4. reqs' \in RequestMap
      BY <3>1, <3>2, <3>3 DEF Unmounted, RequestMap
    <3> QED
      BY <2>2, <3>2, <3>3, <3>4
  <2> QED
    BY <2>1, <2>2
<1> QED
  BY <1>2, <1>3, <1>4

\* With the user past the nickname form no login is under way.
LEMMA NoLoginPending ==
    ASSUME IInv, ~diverted, screen # "Nickname"
    PROVE  \A i \in Requests : reqs[i] # None => reqs[i].kind # "auth"
  BY DEF IInv, Settled, FormsLive, Form

\* Forgetting an answered request keeps the others.
LEMMA AnsweredFacts ==
    ASSUME TypeOK, NEW i \in Requests
    PROVE  /\ Answered(i) \in RequestMap
           /\ Answered(i)[i] = None
           /\ \A j \in Requests : Answered(i)[j] # None => j # i /\ Answered(i)[j] = reqs[j]
  BY DEF TypeOK, Answered, RequestMap

-----------------------------------------------------------------------------
(* Steps *)

\* Initially nothing is under way.
LEMMA InitKeeps == Init => IInv
<1> SUFFICES ASSUME Init PROVE IInv
  OBVIOUS
<1>1. TypeOK
  <2>1. /\ reqs \in [Requests -> Request \cup {None}]
        /\ opened \in 0..MaxSockets
        /\ page_index \in Nat
    BY MaxSocketsAssumption DEF Init
  <2>2. /\ ws_connected \in BOOLEAN /\ sharing \in BOOLEAN /\ diverted \in BOOLEAN
    BY Zenon DEF Init
  <2> QED
    BY <2>1, <2>2 DEF Init, TypeOK
<1>2. Wired /\ NoGhost /\ MediaFollowsRoom
  BY DEF Init, Wired, NoGhost, MediaFollowsRoom
<1>3. Settled
  BY DEF Init, Settled, FormsLive
<1> QED
  BY <1>1, <1>2, <1>3 DEF IInv

\* Every way out of a call: it leaves no client, no room and no media session.
LEMMA CallOverKeeps ==
    ASSUME IInv, CallOver, screen' \in {"MainMenu", "Nickname"},
           session' \in Sessions \cup {None}, issued' \subseteq Sessions,
           opened' = opened, diverted' = diverted,
           NEW rs \in RequestMap, Rendered(rs),
           \A i \in Requests : rs[i] # None => rs[i] = reqs[i],
           ~diverted => \A i \in Requests : rs[i] # None => rs[i].kind # "auth",
           ~diverted => screen' # screen \/ session' = session
    PROVE  IInv'
<1>0. /\ start' = None /\ client' = None
      /\ active_room' = None /\ ws_connected' = FALSE
  BY DEF CallOver, ClientDropped
<1>1. /\ reqs' \in RequestMap
      /\ media' \in Media \cup {None}
      /\ screens' \subseteq Peers
      /\ page_index' \in Nat /\ sharing' \in BOOLEAN
      /\ MediaFollowsRoom'
      /\ \A i \in Requests : reqs'[i] # None =>
           /\ rs[i] # None
           /\ reqs'[i].kind = rs[i].kind /\ reqs'[i].session = rs[i].session
           /\ reqs'[i].mounted <=> (rs[i].mounted /\ screen' = screen)
  BY <1>0, RenderedFacts DEF IInv
<1>2. TypeOK'
  BY <1>0, <1>1 DEF IInv, TypeOK, RequestMap
<1>3. Wired' /\ NoGhost'
  BY <1>0 DEF Wired, NoGhost
<1>4. ASSUME ~diverted PROVE FormsLive'
  <2>1. FormsLive
    BY <1>4 DEF IInv, Settled
  <2>2. ASSUME NEW i \in Requests, reqs'[i] # None
        PROVE  /\ reqs[i] # None /\ reqs'[i].kind = reqs[i].kind
               /\ reqs'[i].kind # "auth"
               /\ reqs'[i].session = reqs[i].session
               /\ reqs'[i].mounted =>
                    reqs[i].mounted /\ screen' = screen /\ session' = session
    BY <1>1, <1>4, <2>2
  <2> QED
    BY <2>1, <2>2 DEF FormsLive, Form
<1>5. Settled'
  BY <1>0, <1>4 DEF Settled
<1> QED
  BY <1>1, <1>2, <1>3, <1>5 DEF IInv

\* Steps that touch neither the forms nor what is on the screen.
LEMMA FormsFrame ==
    ASSUME FormsLive, UNCHANGED <<reqs, screen, session>>
    PROVE  FormsLive'
  BY DEF FormsLive

\* A form without a request under way sends one.
LEMMA AskKeeps ==
    ASSUME IInv, NEW kind, NEW sess, NEW room, Ask(kind, sess, room), ~Busy,
           \/ kind = "auth" /\ sess = None /\ room = None
           \/ kind = "create" /\ sess = session /\ room = None
           \/ kind = "join" /\ sess = session /\ room \in Rooms,
           screen = Form(kind)
    PROVE  IInv'
<1> DEFINE r == [kind |-> kind, session |-> sess, room |-> room, mounted |-> TRUE]
<1>1. PICK i \in Requests :
        /\ reqs[i] = None
        /\ reqs' = [reqs EXCEPT ![i] = r]
        /\ UNCHANGED <<screen, session, issued, start, client, ws_connected,
                       active_room, media, screens, page_index, sharing, opened, diverted>>
  BY DEF Ask
<1>2. r \in Request
  BY DEF IInv, TypeOK, Request
<1>3. TypeOK'
  BY <1>1, <1>2 DEF IInv, TypeOK
<1>4. Wired' /\ NoGhost' /\ MediaFollowsRoom'
  BY <1>1 DEF IInv, Wired, NoGhost, MediaFollowsRoom
<1>5. ASSUME FormsLive PROVE FormsLive'
  <2>1. reqs'[i] = r
    BY <1>1 DEF IInv, TypeOK
  <2>2. \A j \in Requests : j # i => reqs'[j] = reqs[j]
    BY <1>1 DEF IInv, TypeOK
  <2>3. \A j \in Requests : j # i => (reqs'[j] # None => ~reqs'[j].mounted)
    BY <2>2 DEF Busy
  <2>4. \A j \in Requests : j # i =>
          (reqs'[j] # None => reqs'[j].kind # "auth")
    BY <1>5, <2>2, <2>3 DEF FormsLive
  <2> QED
    BY <1>1, <2>1, <2>3, <2>4 DEF FormsLive
<1>6. Settled'
  BY <1>1, <1>5 DEF IInv, Settled
<1> QED
  BY <1>3, <1>4, <1>6 DEF IInv

\* The forms, the ways out of a call and the login.
LEMMA UserKeeps ==
    ASSUME IInv,
           \/ SubmitNickname \/ ClickCreate \/ \E r \in Rooms : SubmitJoin(r)
           \/ OnBackToNickname \/ OnBackToMainMenu \/ FatalError \/ RoomGone
           \/ \E i \in Requests : AuthOk(i)
    PROVE  IInv'
<1>0. reqs \in RequestMap
  BY DEF IInv, TypeOK, RequestMap
<1>1. CASE SubmitNickname
  BY <1>1, AskKeeps DEF SubmitNickname, Form
<1>2. CASE ClickCreate
  BY <1>2, AskKeeps DEF ClickCreate, Form
<1>3. ASSUME NEW r \in Rooms, SubmitJoin(r) PROVE IInv'
  BY <1>3, AskKeeps DEF SubmitJoin, Form
<1>4. CASE OnBackToNickname
  BY <1>0, <1>4, NoLoginPending, CallOverKeeps DEF OnBackToNickname, IInv, TypeOK
<1>5. CASE OnBackToMainMenu
  BY <1>0, <1>5, NoLoginPending, CallOverKeeps DEF OnBackToMainMenu, Mounted, IInv, TypeOK
<1>6. CASE FatalError \/ RoomGone
  <2>1. ~diverted => screen # "Nickname"
    BY <1>6 DEF FatalError, RoomGone, Says, IInv, Settled
  <2> QED
    BY <1>0, <1>6, <2>1, NoLoginPending, CallOverKeeps DEF FatalError, RoomGone, IInv, TypeOK
<1>7. ASSUME NEW i \in Requests, AuthOk(i) PROVE IInv'
  <2>1. /\ Answered(i) \in RequestMap
        /\ \A j \in Requests : Answered(i)[j] # None => j # i /\ Answered(i)[j] = reqs[j]
    BY AnsweredFacts DEF IInv
  <2>2. ASSUME ~diverted
        PROVE  /\ screen = "Nickname"
               /\ \A j \in Requests : Answered(i)[j] # None => Answered(i)[j].kind # "auth"
    <3>1. FormsLive
      BY <2>2 DEF IInv, Settled
    <3>2. reqs[i] # None /\ reqs[i].kind = "auth"
      BY <1>7 DEF AuthOk
    <3>3. reqs[i].mounted /\ screen = "Nickname"
      BY <3>1, <3>2 DEF FormsLive, Form
    <3>4. ASSUME NEW j \in Requests, reqs[j] # None, reqs[j].kind = "auth"
          PROVE  j = i
      BY <3>1, <3>2, <3>3, <3>4 DEF FormsLive
    <3> HIDE DEF Answered
    <3> QED
      BY <2>1, <3>3, <3>4
  <2>3. session' \in Sessions /\ issued' \subseteq Sessions
    BY <1>7 DEF AuthOk, IInv, TypeOK
  <2> HIDE DEF Answered
  <2> QED
    BY <1>7, <2>1, <2>2, <2>3, CallOverKeeps DEF AuthOk
<1> QED
  BY <1>1, <1>2, <1>3, <1>4, <1>5, <1>6, <1>7

\* The main menu opens the join form.
LEMMA OpenJoinKeeps ==
    ASSUME IInv, OnOpenJoinRoom
    PROVE  IInv'
<1>0. /\ screen = "MainMenu" /\ screen' = "JoinRoom"
      /\ UNCHANGED <<session, issued, start, client, ws_connected, active_room, opened, diverted>>
      /\ reqs \in RequestMap /\ Rendered(reqs)
  BY DEF OnOpenJoinRoom, IInv, TypeOK, RequestMap
<1>1. /\ reqs' \in RequestMap
      /\ media' \in Media \cup {None}
      /\ screens' \subseteq Peers
      /\ page_index' \in Nat /\ sharing' \in BOOLEAN
      /\ MediaFollowsRoom'
      /\ \/ media' = None
         \/ media' = media /\ RoomId(active_room') = RoomId(active_room)
         \/ client' # None /\ media'.transport = client'.serial
      /\ \A i \in Requests : reqs'[i] # None =>
           /\ reqs[i] # None
           /\ reqs'[i].kind = reqs[i].kind
           /\ reqs'[i].mounted <=> (reqs[i].mounted /\ screen' = screen)
  BY <1>0, RenderedFacts DEF IInv, TypeOK
<1>2. TypeOK'
  BY <1>0, <1>1 DEF IInv, TypeOK, RequestMap
<1>3. Wired' /\ NoGhost'
  BY <1>0 DEF IInv, Wired, NoGhost
<1>4. ASSUME ~diverted PROVE FormsLive'
  BY <1>0, <1>1, <1>4, NoLoginPending DEF FormsLive
<1>5. Settled'
  BY <1>0, <1>1, <1>4 DEF IInv, Settled
<1> QED
  BY <1>1, <1>2, <1>3, <1>5 DEF IInv

\* An answer of the connector starts a socket, whatever is on the screen.
LEMMA ReadyKeeps ==
    ASSUME IInv, NEW i \in Requests, OnSignalingReady(i)
    PROVE  IInv'
<1> DEFINE rs == Answered(i)
<1>1. /\ rs \in RequestMap
      /\ \A j \in Requests : rs[j] # None => j # i /\ rs[j] = reqs[j]
  BY AnsweredFacts DEF IInv
<1> HIDE DEF rs
<1>2. /\ reqs[i] \in Request /\ reqs[i].kind # "auth" /\ reqs[i].session \in Sessions
      /\ reqs[i].room \in Rooms \cup {None}
  BY DEF OnSignalingReady, IInv, TypeOK, Request
<1>3. opened' \in 1..MaxSockets
  BY MaxSocketsAssumption DEF OnSignalingReady, IInv, TypeOK
<1>4. /\ start' = [serial |-> opened', session |-> reqs[i].session, room |-> reqs[i].room]
      /\ \/ /\ client' = [serial |-> opened', socket |-> "connecting",
                           at |-> "new", room |-> None]
            /\ screen' = screen
         \/ client' = None /\ screen' = "MainMenu"
      /\ diverted' = (diverted \/ ~reqs[i].mounted)
      /\ UNCHANGED <<session, issued, ws_connected, active_room>>
      /\ Rendered(rs)
  BY DEF OnSignalingReady, Connect, ClientDropped, rs
<1>5. start' \in Start /\ start' # None /\ client' \in Client \cup {None}
  <2>1. start' \in Start
    BY <1>2, <1>3, <1>4 DEF Start
  <2>2. client' \in Client \cup {None}
    <3>1. CASE client' = [serial |-> opened', socket |-> "connecting",
                          at |-> "new", room |-> None]
      BY <1>3, <3>1 DEF Client
    <3> QED
      BY <1>4, <3>1
  <2> QED
    BY <2>1, <2>2, ClientNoneAssumption
<1>5a. /\ start'.session = reqs[i].session
       /\ client' = None \/ (client'.socket = "connecting" /\ client'.at = "new")
  BY <1>4
<1>6. /\ reqs' \in RequestMap
      /\ media' \in Media \cup {None}
      /\ screens' \subseteq Peers
      /\ page_index' \in Nat /\ sharing' \in BOOLEAN
      /\ MediaFollowsRoom'
      /\ \A j \in Requests : reqs'[j] # None =>
           /\ rs[j] # None
           /\ reqs'[j].kind = rs[j].kind
           /\ reqs'[j].mounted <=> (rs[j].mounted /\ screen' = screen)
  BY <1>1, <1>4, <1>5, RenderedFacts DEF IInv, TypeOK
<1>7. diverted' \in BOOLEAN
  BY <1>4, Zenon
<1>8. TypeOK'
  BY <1>3, <1>4, <1>5, <1>6, <1>7 DEF IInv, TypeOK, RequestMap
<1>9. Wired' /\ NoGhost'
  BY <1>5, <1>5a DEF Wired, NoGhost
<1>10. ASSUME ~diverted' PROVE ~diverted /\ reqs[i].mounted
  BY <1>4, <1>10, Zenon
<1>11. ASSUME ~diverted'
       PROVE  /\ screen \in {"MainMenu", "JoinRoom"} /\ active_room = None
              /\ reqs[i].session = session
              /\ \A j \in Requests : rs[j] # None =>
                   ~rs[j].mounted /\ rs[j].kind # "auth"
  <2>1. ~diverted /\ reqs[i].mounted /\ reqs[i] # None
    BY <1>2, <1>10, <1>11, ClientNoneAssumption
  <2>2. FormsLive /\ ((active_room # None) <=> (screen = "Room"))
    BY <2>1 DEF IInv, Settled
  <2>3. screen = Form(reqs[i].kind) /\ reqs[i].session = session
    BY <1>2, <2>1, <2>2 DEF FormsLive
  <2>4. screen \in {"MainMenu", "JoinRoom"}
    BY <1>2, <2>3 DEF Form, Request
  <2>5. ASSUME NEW j \in Requests, rs[j] # None
        PROVE  ~rs[j].mounted
    BY <1>1, <2>1, <2>2, <2>5 DEF FormsLive
  <2>6. ASSUME NEW j \in Requests, rs[j] # None
        PROVE  rs[j].kind # "auth"
    BY <1>1, <2>1, <2>4, <2>6, NoLoginPending
  <2> QED
    BY <2>2, <2>3, <2>4, <2>5, <2>6
<1>12. ASSUME ~diverted' PROVE FormsLive'
  BY <1>6, <1>11, <1>12 DEF FormsLive
<1>13. Settled'
  <2> SUFFICES ASSUME ~diverted' PROVE Settled'
    BY DEF Settled
  <2>1. /\ active_room' = None /\ session' = session
        /\ screen' \in {"MainMenu", "JoinRoom"}
    BY <1>4, <1>11
  <2>2. FormsLive'
    BY <1>12
  <2> QED
    BY <1>5a, <1>11, <2>1, <2>2 DEF Settled
<1> QED
  BY <1>6, <1>8, <1>9, <1>13 DEF IInv

\* A client that only moves on in its conversation, with its socket.
LEMMA ClientMovesKeeps ==
    ASSUME IInv, client # None, client' \in Client,
           client'.serial = client.serial,
           client'.socket = "open", client'.at # "in room",
           client'.at \in {"new", "attach", "asked"} => client.at \in {"new", "attach", "asked"},
           ws_connected' \in BOOLEAN, start # None,
           UNCHANGED <<screen, session, issued, reqs, start, active_room,
                       media, screens, page_index, sharing, opened, diverted>>
    PROVE  IInv'
<1>1. TypeOK'
  BY DEF IInv, TypeOK
<1>2. Wired' /\ NoGhost' /\ MediaFollowsRoom'
  BY DEF IInv, Wired, NoGhost, MediaFollowsRoom
<1>3. Settled'
  BY FormsFrame DEF IInv, Settled
<1> QED
  BY <1>1, <1>2, <1>3 DEF IInv

\* Opening, attaching and errors that are only shown.
LEMMA ConversationKeeps ==
    ASSUME IInv, SocketOpens \/ Attached \/ OtherError
    PROVE  IInv'
<1>0. client # None => client \in Client
  BY DEF IInv, TypeOK
<1>1. CASE SocketOpens
  <2>1. /\ client # None /\ client.socket = "connecting"
        /\ client' = [client EXCEPT !.socket = "open", !.at = "attach"]
        /\ ws_connected' = TRUE
        /\ UNCHANGED <<screen, session, issued, reqs, start, active_room,
                       media, screens, page_index, sharing, opened, diverted>>
    BY <1>1 DEF SocketOpens
  <2>2. /\ client' \in Client
        /\ client'.serial = client.serial /\ client'.socket = "open" /\ client'.at = "attach"
    BY <1>0, <2>1 DEF Client
  <2>3. client.at = "new" /\ start # None
    BY <2>1 DEF IInv, Wired
  <2>4. ws_connected' \in BOOLEAN
    BY <2>1, Zenon
  <2> QED
    BY <2>1, <2>2, <2>3, <2>4, ClientMovesKeeps
<1>2. CASE Attached \/ OtherError
  <2>1. /\ client # None /\ client.socket = "open" /\ client.at \in {"attach", "asked"}
        /\ \/ client' = [client EXCEPT !.at = "asked"]
           \/ client' = [client EXCEPT !.at = "refused"]
        /\ UNCHANGED <<screen, session, issued, reqs, start, ws_connected, active_room,
                       media, screens, page_index, sharing, opened, diverted>>
    BY <1>2 DEF Attached, OtherError, Says, Quiet
  <2>2. /\ client' \in Client
        /\ client'.serial = client.serial /\ client'.socket = "open"
        /\ client'.at \in {"asked", "refused"}
    BY <1>0, <2>1 DEF Client
  <2>3. ws_connected' \in BOOLEAN /\ start # None
    BY <2>1 DEF IInv, TypeOK, Wired
  <2> QED
    BY <2>1, <2>2, <2>3, ClientMovesKeeps
<1> QED
  BY <1>1, <1>2

\* A close outside a call ends the attempt; in a call the room stays.
LEMMA CloseKeeps ==
    ASSUME IInv, SocketCloses
    PROVE  IInv'
<1>1. CASE active_room = None
  <2>1. reqs \in RequestMap /\ Rendered(reqs) /\ screen' = "MainMenu" /\ CallOver
    BY <1>1 DEF SocketCloses, IInv, TypeOK, RequestMap, CallOver
  <2>2. ~diverted => screen # "Nickname"
    BY DEF SocketCloses, IInv, Settled
  <2>3. UNCHANGED <<session, issued, opened, diverted>>
    BY DEF SocketCloses
  <2> QED
    BY <2>1, <2>2, <2>3, NoLoginPending, CallOverKeeps DEF IInv, TypeOK
<1>2. CASE active_room # None
  <2>1. /\ client \in Client /\ client # None
        /\ client' = [client EXCEPT !.socket = "closed", !.at = "refused", !.room = None]
        /\ ws_connected' = FALSE
        /\ UNCHANGED <<start, screen, session, issued, active_room, opened, diverted>>
        /\ reqs \in RequestMap /\ Rendered(reqs)
    BY <1>2 DEF SocketCloses, IInv, TypeOK, RequestMap
  <2>2. /\ client' \in Client
        /\ client'.socket = "closed" /\ client'.at = "refused"
    BY <2>1 DEF Client
  <2>3. /\ media' \in Media \cup {None}
        /\ screens' \subseteq Peers
        /\ page_index' \in Nat /\ sharing' \in BOOLEAN
        /\ MediaFollowsRoom'
    BY <2>1, <2>2, RenderedFacts DEF IInv, TypeOK
  <2>4. reqs' = reqs
    BY <2>1 DEF Rendered, RequestsKept
  <2>5. TypeOK'
    BY <2>1, <2>2, <2>3, <2>4 DEF IInv, TypeOK
  <2>6. Wired' /\ NoGhost'
    BY <2>1, <2>2 DEF IInv, Wired, NoGhost
  <2>7. Settled'
    BY <2>1, <2>2, <2>4, FormsFrame DEF IInv, Settled
  <2> QED
    BY <2>3, <2>5, <2>6, <2>7 DEF IInv
<1> QED
  BY <1>1, <1>2

\* The room the client asked for is shown.
LEMMA RoomReadyKeeps ==
    ASSUME IInv, NEW room \in Rooms, NEW others \in SUBSET Peers, RoomReady(room, others)
    PROVE  IInv'
<1>1. /\ client \in Client /\ client # None /\ client.socket = "open" /\ client.at = "asked"
      /\ client' = [client EXCEPT !.at = "in room", !.room = room]
      /\ active_room' = [room |-> room, participants |-> others \cup {Me}]
      /\ screen' = "Room"
      /\ UNCHANGED <<session, issued, start, ws_connected, opened, diverted>>
      /\ reqs \in RequestMap /\ Rendered(reqs)
  BY DEF RoomReady, Says, IInv, TypeOK, RequestMap
<1>2. /\ client' \in Client /\ client' # None
      /\ client'.socket = "open" /\ client'.at = "in room"
      /\ client'.room = room /\ client'.serial = client.serial
  <2>1. client' \in Client
    BY <1>1 DEF Client
  <2> QED
    BY <1>1, <2>1, ClientNoneAssumption DEF Client
<1>3. active_room' \in ActiveRoom /\ active_room' # None /\ active_room'.room = room
  <2>1. active_room' \in ActiveRoom
    BY <1>1 DEF ActiveRoom, Nicks
  <2> QED
    BY <1>1, <2>1, ClientNoneAssumption
<1>4. /\ reqs' \in RequestMap
      /\ media' \in Media \cup {None}
      /\ screens' \subseteq Peers
      /\ page_index' \in Nat /\ sharing' \in BOOLEAN
      /\ MediaFollowsRoom'
      /\ \/ media' = None
         \/ media' = media /\ RoomId(active_room') = RoomId(active_room)
         \/ client' # None /\ media'.transport = client'.serial
      /\ \A i \in Requests : reqs'[i] # None =>
           /\ reqs[i] # None
           /\ reqs'[i].kind = reqs[i].kind
           /\ reqs'[i].mounted <=> (reqs[i].mounted /\ screen' = screen)
  BY <1>1, <1>2, <1>3, RenderedFacts DEF IInv
<1>5. TypeOK'
  BY <1>1, <1>2, <1>3, <1>4 DEF IInv, TypeOK, RequestMap
<1>6. Wired' /\ NoGhost'
  BY <1>1, <1>2, <1>3 DEF IInv, Wired, NoGhost
<1>7. ASSUME ~diverted
      PROVE  active_room = None /\ screen # "Room" /\ screen # "Nickname"
  BY <1>1, <1>7 DEF IInv, Settled
<1>8. ASSUME ~diverted PROVE FormsLive'
  BY <1>1, <1>4, <1>7, <1>8, NoLoginPending DEF FormsLive
<1>9. ASSUME ~diverted, media' # None PROVE media'.transport = client'.serial
  <2>1. RoomId(active_room') # RoomId(active_room)
    BY <1>3, <1>7, <1>9, ClientNoneAssumption DEF RoomId
  <2> QED
    BY <1>4, <1>9, <2>1
<1>10. Settled'
  BY <1>1, <1>2, <1>3, <1>8, <1>9 DEF IInv, Settled
<1> QED
  BY <1>4, <1>5, <1>6, <1>10 DEF IInv

\* The list of the room changes.
LEMMA ParticipantsKeeps ==
    ASSUME IInv, NEW nick \in Nicks, ParticipantJoined(nick) \/ ParticipantLeft(nick)
    PROVE  IInv'
<1>1. /\ client \in Client /\ client # None /\ client.at = "in room"
      /\ active_room \in ActiveRoom /\ active_room # None
      /\ UNCHANGED <<screen, session, issued, start, client, ws_connected, opened, diverted>>
      /\ reqs \in RequestMap /\ Rendered(reqs)
  BY DEF ParticipantJoined, ParticipantLeft, Says, IInv, TypeOK, NoGhost, RequestMap
<1>2. /\ active_room' \in ActiveRoom /\ active_room' # None
      /\ active_room'.room = active_room.room
  <2>1. active_room' \in ActiveRoom /\ active_room'.room = active_room.room
    BY <1>1 DEF ParticipantJoined, ParticipantLeft, ActiveRoom
  <2> QED
    BY <2>1, ClientNoneAssumption
<1>3. /\ media' \in Media \cup {None}
      /\ screens' \subseteq Peers
      /\ page_index' \in Nat /\ sharing' \in BOOLEAN
      /\ MediaFollowsRoom'
      /\ \/ media' = None
         \/ media' = media /\ RoomId(active_room') = RoomId(active_room)
         \/ client' # None /\ media'.transport = client'.serial
  BY <1>1, <1>2, RenderedFacts DEF IInv
<1>4. reqs' = reqs
  BY <1>1 DEF Rendered, RequestsKept
<1>5. TypeOK'
  BY <1>1, <1>2, <1>3, <1>4 DEF IInv, TypeOK
<1>6. Wired' /\ NoGhost'
  BY <1>1, <1>2 DEF IInv, Wired, NoGhost
<1>7. Settled'
  BY <1>1, <1>2, <1>3, <1>4, FormsFrame DEF IInv, Settled
<1> QED
  BY <1>3, <1>5, <1>6, <1>7 DEF IInv

\* Steps inside the room screen.
LEMMA RoomScreenKeeps ==
    ASSUME IInv, TurnPage \/ OnToggleScreen \/ \E n \in Peers : RemoteScreen(n)
    PROVE  IInv'
<1>0. UNCHANGED <<screen, session, issued, reqs, start, client, ws_connected,
                  active_room, media, opened, diverted>>
  BY DEF TurnPage, OnToggleScreen, RemoteScreen
<1>1. page_index' \in Nat /\ sharing' \in BOOLEAN /\ screens' \subseteq Peers
  <2>0. /\ page_index \in Nat /\ sharing \in BOOLEAN /\ screens \subseteq Peers
        /\ active_room \in ActiveRoom \cup {None}
    BY DEF IInv, TypeOK
  <2>1. CASE TurnPage
    <3>1. PageCount(Presenting(sharing, screens, active_room), Count(active_room)) \in Nat
      BY <2>0, PresentingType, CountType, PageCountExact
    <3>2. sharing' = sharing /\ screens' = screens
      BY <2>1 DEF TurnPage
    <3>3. page_index' \in Nat
      BY <2>0, <2>1, <3>1 DEF TurnPage, SaturatingSub, Least
    <3> QED
      BY <2>0, <3>2, <3>3
  <2>2. CASE OnToggleScreen
    <3>0. (~sharing) \in BOOLEAN
      BY Zenon
    <3>1. RoomComponent(page_index, ~sharing) /\ screens' = screens
      BY <2>2, Zenon DEF OnToggleScreen
    <3> QED
      BY <1>0, <2>0, <3>0, <3>1, RoomComponentType
  <2>3. ASSUME NEW n \in Peers, RemoteScreen(n)
        PROVE  page_index' \in Nat /\ sharing' \in BOOLEAN /\ screens' \subseteq Peers
    BY <1>0, <2>0, <2>3, RoomComponentType DEF RemoteScreen
  <2> QED
    BY <2>1, <2>2, <2>3
<1>2. TypeOK'
  BY <1>0, <1>1 DEF IInv, TypeOK
<1>3. Wired' /\ NoGhost' /\ MediaFollowsRoom'
  BY <1>0 DEF IInv, Wired, NoGhost, MediaFollowsRoom
<1>4. Settled'
  BY <1>0, FormsFrame DEF IInv, Settled
<1> QED
  BY <1>2, <1>3, <1>4 DEF IInv

\* An answer that is only shown frees its form.
LEMMA FailKeeps ==
    ASSUME IInv, NEW i \in Requests, RequestFails(i)
    PROVE  IInv'
<1>1. /\ reqs' \in RequestMap
      /\ \A j \in Requests : reqs'[j] # None => reqs'[j] = reqs[j]
      /\ UNCHANGED <<screen, session, issued, start, client, ws_connected,
                     active_room, media, screens, page_index, sharing, opened, diverted>>
  BY AnsweredFacts DEF RequestFails, IInv
<1>2. TypeOK'
  BY <1>1 DEF IInv, TypeOK, RequestMap
<1>3. Wired' /\ NoGhost' /\ MediaFollowsRoom'
  BY <1>1 DEF IInv, Wired, NoGhost, MediaFollowsRoom
<1>4. ASSUME FormsLive PROVE FormsLive'
  BY <1>1, <1>4 DEF FormsLive
<1>5. Settled'
  BY <1>1, <1>4 DEF IInv, Settled
<1> QED
  BY <1>2, <1>3, <1>5 DEF IInv

\* Every step keeps the strengthening.
LEMMA StepKeeps == IInv /\ [Next]_vars => IInv'
<1> SUFFICES ASSUME IInv, [Next]_vars PROVE IInv'
  OBVIOUS
<1>1. CASE UNCHANGED vars
  BY <1>1, FormsFrame
     DEF vars, IInv, TypeOK, Wired, NoGhost, MediaFollowsRoom, Settled
<1>2. CASE Next
  BY <1>2, UserKeeps, OpenJoinKeeps, ReadyKeeps, ConversationKeeps, CloseKeeps,
     RoomReadyKeeps, ParticipantsKeeps, RoomScreenKeeps, FailKeeps DEF Next
<1> QED
  BY <1>1, <1>2

\* The strengthening is an invariant.
LEMMA Invariance == Spec => []IInv
  BY InitKeeps, StepKeeps, PTL DEF Spec
-----------------------------------------------------------------------------
(* Theorems *)

\* The states of app.rs and of the room component keep their types.
THEOREM ClientTypes == Spec => []TypeOK
  BY Invariance, PTL DEF IInv

\* The server never holds the client in a room it does not show.
THEOREM ClientNoGhost == Spec => []NoGhost
  BY Invariance, PTL DEF IInv

\* webrtc_session holds a session only during a call, and it is the one made for
\* the room of that call.
THEOREM ClientMediaFollowsRoom == Spec => []MediaFollowsRoom
  BY Invariance, PTL DEF IInv

\* A socket known to be dead never keeps the HTTP renewal off.
THEOREM ClientDeadSocketRenews == Spec => []DeadSocketRenews
<1>1. IInv => DeadSocketRenews
  BY DEF IInv, Wired, DeadSocketRenews, Renews
<1> QED
  BY <1>1, Invariance, PTL

\* Only an answer that comes after its form was left diverts the user.
THEOREM ClientOnlyLateAnswersDivert == Spec => []OnlyLateAnswersDivert
<1>1. IInv => OnlyLateAnswersDivert
  BY DEF IInv, Settled, OnlyLateAnswersDivert
<1> QED
  BY <1>1, Invariance, PTL

\* For every number of participants and both page sizes, each participant is on
\* exactly one page.
THEOREM ClientPagesPartition == Spec => []PagesPartition
<1>1. TypeOK => PagesPartition
  <2> SUFFICES ASSUME TypeOK PROVE PagesPartition
    OBVIOUS
  <2> DEFINE is == Presenting(sharing, screens, active_room)
             n == Count(active_room)
  <2>1. is \in BOOLEAN /\ n \in Nat
    BY PresentingType, CountType DEF TypeOK
  <2>2. \A k \in 0..(n - 1) : \E p \in 0..(PageCount(is, n) - 1) :
          /\ FirstTile(is, n, p) <= k /\ k < EndTile(is, n, p)
          /\ \A q \in 0..(PageCount(is, n) - 1) :
               FirstTile(is, n, q) <= k /\ k < EndTile(is, n, q) => q = p
    <3> HIDE DEF is, n
    <3> QED
      BY <2>1, TileOnOnePage
  <2> QED
    BY <2>2, Zenon DEF PagesPartition
<1> QED
  BY <1>1, Invariance, PTL DEF IInv

\* Every render takes a legal slice, also before the clamp effect has run.
THEOREM ClientSliceInBounds == Spec => SliceInBounds
<1>1. IInv /\ IInv' /\ [Next]_vars =>
        [Mounted(screen, active_room) /\ Mounted(screen', active_room') =>
         LET is == Presenting(sharing', screens', active_room')
             n == Count(active_room')
         IN /\ FirstTile(is, n, page_index) <= EndTile(is, n, page_index)
            /\ EndTile(is, n, page_index) <= n]_vars
  <2> SUFFICES ASSUME IInv, IInv' PROVE
         LET is == Presenting(sharing', screens', active_room')
             n == Count(active_room')
         IN /\ FirstTile(is, n, page_index) <= EndTile(is, n, page_index)
            /\ EndTile(is, n, page_index) <= n
    BY Zenon
  <2>1. /\ sharing' \in BOOLEAN /\ page_index \in Nat
        /\ active_room' \in ActiveRoom \cup {None}
    BY DEF IInv, TypeOK
  <2>2. Presenting(sharing', screens', active_room') \in BOOLEAN
    BY <2>1, PresentingType
  <2>3. Count(active_room') \in Nat
    BY <2>1, CountType
  <2> QED
    BY <2>1, <2>2, <2>3, SliceLegal
<1> QED
  BY <1>1, Invariance, PTL DEF Spec, SliceInBounds
=============================================================================

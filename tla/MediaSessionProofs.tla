-------------------------- MODULE MediaSessionProofs --------------------------
(***************************************************************************)
(* Proofs about MediaSession.                                              *)
(*                                                                         *)
(* What settles a call is the order of its operations: a media operation   *)
(* that is not stale and not overtaken follows every older one through the *)
(* operations chain of the connection (InLine, MediaOrdered), so that the  *)
(* newest one has the last word on senders, preview and graph              *)
(* (LatestRules).  Display and camera streams never get into each          *)
(* other's place (Apart), which is what keeps the preview alive.           *)
(***************************************************************************)
EXTENDS MediaSession, TLAPS

\* The operations in the chain of the connection, and their order in it.
Queued == {chain[i] : i \in 1..Len(chain)}
Ahead(g, h) == \E i, j \in 1..Len(chain) : i < j /\ chain[i] = g /\ chain[j] = h

Display == {"share", "unshare"}
Media == {"start", "apply"}

\* The chain holds the operations that wait for the connection, once.
Chained ==
    \A g \in Gens : /\ g \in Queued <=> ops[g].at \in {"audio", "video", "screen", "offer"}
                    /\ ~Ahead(g, g)

\* What an operation that is not over can be, by its place.
OpShape(g) ==
    Under(g) =>
        /\ g <= media_generation /\ (call = "closed" => g < media_generation)
        /\ ops[g].kind = "start" => g = 1
        /\ ops[g].at \in {"capture", "resume", "audio", "video"} => ops[g].kind \in Media
        /\ At(g, "screen") => ops[g].kind \in Display
        /\ At(g, "offer") => ops[g].kind \in {"start", "unshare"}
        /\ At(g, "resume") => ops[g].mic
        /\ At(g, "capture") => ops[g].mic \/ ops[g].cam
        /\ ops[g].kind = "start" /\ At(g, "audio") => ops[g].mic
        /\ ops[g].kind = "start" /\ At(g, "video") => ops[g].cam

Shape == Chained /\ \A g \in Gens : OpShape(g)

\* Before the call nothing has happened; during it generations are in use.
Calm ==
    /\ call = "none" =>
         /\ media_generation = 0 /\ pickers = 0 /\ live = {} /\ shared = None
         /\ {local_stream, screen_stream, audio, video, screen, graph} = {None}
    /\ call # "closed" => media_generation <= MaxGen
    /\ call = "open" => media_generation > 0
    /\ call = "open" => shared <= media_generation /\ \A s \in live : s <= media_generation
    /\ local_stream <= media_generation /\ screen_stream <= media_generation

\* Streams of display and of camera and microphone are different ones, and an
\* operation that has captured has its stream.
Apart ==
    call = "open" =>
        /\ shared # None => shared # local_stream
        /\ screen_stream # None => screen_stream # local_stream
        /\ \A g \in Gens : Under(g) =>
             /\ ops[g].kind \in Media => g # shared /\ g # screen_stream
             /\ ~At(g, "offer") => g # local_stream
             /\ ops[g].kind \in Display => g # local_stream
             /\ At(g, "screen") => g # screen_stream
             /\ ops[g].at \in {"resume", "audio", "video"} /\ (ops[g].mic \/ ops[g].cam)
                  => g \in live

\* Screen operations settle in the order of their generations.
ScreenOrdered ==
    \A g, h \in Gens : Ahead(g, h) /\ At(g, "screen") /\ At(h, "screen") => g < h

\* An operation on camera and microphone that is going to have an effect.
Pending(g) ==
    /\ ops[g].kind \in Media
    /\ ops[g].at \in {"capture", "resume", "audio", "video"}
    /\ At(g, "capture") => media_generation = g

\* Older ones are in the chain, and not behind.
InLine ==
    "overtaken" \notin mishaps =>
        \A g, h \in Gens : Pending(g) /\ Pending(h) /\ g < h =>
            ops[g].at \in {"audio", "video"} /\ (At(h, "video") => At(g, "video"))

MediaOrdered ==
    "overtaken" \notin mishaps =>
        \A g, h \in Gens : Ahead(g, h) /\ ops[g].at = ops[h].at /\ ops[g].at \in {"audio", "video"}
            => g < h

\* start finds no stream to overwrite.
StartFirst ==
    "overtaken" \notin mishaps =>
        \A g \in Gens : Pending(g) /\ ops[g].kind = "start" =>
            local_stream = None /\ (call = "closed" => At(g, "capture"))

\* Who has a stream that is live.
Holders ==
    /\ \A g \in Gens : Under(g) =>
         /\ At(g, "capture") => g \notin live
         /\ ops[g].kind = "apply" /\ ~ops[g].mic /\ ~ops[g].cam => g \notin live
         /\ ops[g].kind = "unshare" => g \notin live
    /\ "overtaken" \notin mishaps =>
         \A g \in Gens :
            /\ At(g, "offer") /\ g \in live => call = "open" /\ g = local_stream
            /\ call = "closed" /\ At(g, "video") /\ ~ops[g].cam => ~ops[g].mic

\* The newest one.
Latest(g) == Pending(g) /\ \A h \in Gens : Pending(h) => h <= g

Regular(excepted) == call = "open" /\ mishaps \cap excepted = {}

\* It has the switches as they are, and what it has not replaced yet is as it
\* has to be.
LatestRules ==
    Regular({"refused", "overtaken"}) =>
        /\ \A g \in Gens : Latest(g) =>
             /\ ops[g].mic = mic /\ ops[g].cam = cam
             /\ At(g, "video") => audio = IF ops[g].mic THEN g ELSE None
             /\ At(g, "resume") => graph = None
             /\ ops[g].at \in {"audio", "video"} =>
                  graph = None \/ (graph = g /\ ops[g].mic)
        /\ \A g \in Gens : Pending(g) /\ ops[g].kind = "start" =>
             /\ video = None
             /\ ~At(g, "video") => audio = None

\* With none pending the senders have settled.
Settled ==
    Regular({"refused", "overtaken"}) /\ (\A g \in Gens : ~Pending(g)) =>
        /\ audio = IF mic THEN local_stream ELSE None
        /\ video = IF cam THEN local_stream ELSE None
        /\ (local_stream # None) = (mic \/ cam)
        /\ graph \in {None, audio}

\* The newest screen operation agrees with the room, and only the browser ends
\* the stream it is about.
LastScreen(g) == At(g, "screen") /\ \A h \in Gens : At(h, "screen") => h <= g

Screens ==
    Regular({"refused"}) =>
        /\ \A g \in Gens : LastScreen(g) =>
             /\ ops[g].kind = "share" => shared = g /\ g \in live \cup ended
             /\ ops[g].kind = "unshare" => shared = None
        /\ (\A g \in Gens : ~At(g, "screen")) =>
             /\ screen = shared /\ screen_stream = shared
             /\ shared # None => shared \in live \cup ended

\* start is on its way to its offer, or an offer was sent.
Offering ==
    Regular({"refused", "hurried"}) =>
        \/ offered
        \/ \E g \in Gens : /\ Under(g) /\ ops[g].kind = "start"
                           /\ At(g, "capture") => media_generation = g

\* The part that holds whatever the browser refuses, and the part about what a
\* call settles to.
Core ==
    /\ TypeOK /\ Shape /\ Calm
    /\ Apart /\ PreviewAlive /\ ScreenOrdered
    /\ InLine /\ MediaOrdered /\ StartFirst
    /\ Holders /\ CaptureOwned

Outcome == LatestRules /\ Settled /\ Screens /\ Offering

IInv == Core /\ Outcome
-----------------------------------------------------------------------------
(* Types *)

\* What the types of the operations say.
LEMMA OpTypes ==
    ASSUME TypeOK
    PROVE  \A g \in Gens : /\ ops[g] \in Op
                           /\ ops[g].mic \in BOOLEAN /\ ops[g].cam \in BOOLEAN
                           /\ g \in Nat /\ g > 0 /\ g <= MaxGen
  BY MaxGenAssumption DEF TypeOK, Op, Gens

\* The head of the chain is an operation.
LEMMA HeadIsOp ==
    ASSUME TypeOK, chain # <<>>
    PROVE  Head1 \in Gens /\ Tail(chain) \in Seq(Gens)
  BY DEF TypeOK, Head1

\* An operation moves on or is over.
LEMMA MovedTypes ==
    ASSUME TypeOK, NEW g \in Gens
    PROVE  /\ Moved(g, "resume") \in [Gens -> Op]
           /\ Moved(g, "audio") \in [Gens -> Op]
           /\ Moved(g, "video") \in [Gens -> Op]
           /\ Moved(g, "offer") \in [Gens -> Op]
           /\ Over(g) \in [Gens -> Op]
           /\ \A s \in Seq(Gens) : Append(s, g) \in Seq(Gens)
  BY DEF TypeOK, Op, Moved, Over, NoOp

\* The beginning of an operation keeps the types.
LEMMA BeginTypes ==
    ASSUME TypeOK, NEW k \in {"start", "apply", "share", "unshare"}, NEW m \in BOOLEAN, NEW c \in BOOLEAN,
           NEW p \in {"capture", "resume", "audio", "video", "screen", "offer"},
           Begin(k, m, c, p)
    PROVE  /\ media_generation + 1 \in Gens /\ media_generation' \in 0..(MaxGen + 1)
           /\ ops' \in [Gens -> Op] /\ chain' \in Seq(Gens) /\ mishaps' \subseteq Mishaps
<1>1. media_generation + 1 \in Gens /\ media_generation' \in 0..(MaxGen + 1)
  BY MaxGenAssumption DEF TypeOK, Begin, Gens
<1>2. ops' \in [Gens -> Op]
  BY <1>1 DEF TypeOK, Begin, Op
<1>3. chain' \in Seq(Gens)
  BY <1>1 DEF TypeOK, Begin
<1>4. mishaps' \subseteq Mishaps
  BY DEF TypeOK, Begin, Disturbed, Mishaps
<1> QED
  BY <1>1, <1>2, <1>3, <1>4

\* The first await of an operation is one of its places.
LEMMA FirstAwaits ==
    \A k, m, c : FirstAwait(k, m, c) \in {"capture", "resume", "audio", "video", "screen", "offer"}
  BY DEF FirstAwait

\* Steps of the user keep the types.
LEMMA UserTypes ==
    ASSUME TypeOK, Calm,
           StartSession \/ Close \/ (\E m, c \in BOOLEAN : SettingsChanged(m, c))
             \/ OpenPicker \/ Picked \/ PickerFails \/ StopSharing
    PROVE  TypeOK'
<1> USE MaxGenAssumption, MaxPickersAssumption, FirstAwaits DEF TypeOK, None
<1>1. CASE StartSession
  BY <1>1, BeginTypes DEF StartSession
<1>2. CASE Close
  <2>1. media_generation' \in 0..(MaxGen + 1)
    BY <1>2 DEF Close, Calm
  <2>2. mishaps' \subseteq Mishaps
    BY <1>2 DEF Close, Mishaps
  <2> QED
    BY <1>2, <2>1, <2>2 DEF Close, StopTracks, TeardownMicGraph
<1>3. ASSUME NEW m \in BOOLEAN, NEW c \in BOOLEAN, SettingsChanged(m, c) PROVE TypeOK'
  <2>1. mic' \in BOOLEAN /\ cam' \in BOOLEAN
    BY <1>3, Zenon DEF SettingsChanged, Toggled
  <2> QED
    BY <1>3, <2>1, BeginTypes DEF SettingsChanged, ApplyLocalMedia, TeardownMicGraph
<1>4. CASE OpenPicker \/ PickerFails
  BY <1>4 DEF OpenPicker, PickerFails
<1>5. CASE Picked
  <2>1. media_generation + 1 \in Streams
    BY DEF Streams
  <2>2. call = "open" => /\ media_generation' \in 0..(MaxGen + 1)
           /\ ops' \in [Gens -> Op] /\ chain' \in Seq(Gens) /\ mishaps' \subseteq Mishaps
    BY <1>5, BeginTypes DEF Picked, PublishScreenShare
  <2>3. call # "open" => /\ mishaps' \subseteq Mishaps
                         /\ UNCHANGED <<media_generation, ops, chain>>
    BY <1>5 DEF Picked, Mishaps
  <2> QED
    BY <1>5, <2>1, <2>2, <2>3 DEF Picked
<1>6. CASE StopSharing
  BY <1>6, BeginTypes DEF StopSharing, StopScreenShare, StopTracks
<1> QED
  BY <1>1, <1>2, <1>3, <1>4, <1>5, <1>6

\* Captures keep the types.
LEMMA CaptureTypes ==
    ASSUME TypeOK, NEW g \in Gens, Captured(g) \/ CaptureFails(g) \/ Resumed(g)
    PROVE  TypeOK'
<1>1. CASE Captured(g)
  <2>1. g \in Streams
    BY MaxGenAssumption DEF Gens, Streams
  <2>2. ops' \in {Over(g), Moved(g, "resume"), Moved(g, "audio"), Moved(g, "video")}
    BY <1>1 DEF Captured, AfterCapture
  <2>3. ops' \in [Gens -> Op]
    BY <2>2, MovedTypes
  <2>4. chain' \in {chain, Append(chain, g)}
    BY <1>1 DEF Captured
  <2>5. chain' \in Seq(Gens)
    BY <2>4, MovedTypes DEF TypeOK
  <2> QED
    BY <1>1, <2>1, <2>3, <2>5 DEF Captured, TeardownMicGraph, TypeOK, None
<1>2. CASE CaptureFails(g)
  <2>1. ops' \in [Gens -> Op] /\ chain' \in Seq(Gens)
    BY <1>2, MovedTypes DEF CaptureFails, TypeOK
  <2> QED
    BY <1>2, <2>1 DEF CaptureFails, Mishaps, TypeOK
<1>3. CASE Resumed(g)
  <2>1. ops' \in [Gens -> Op] /\ chain' \in Seq(Gens)
    BY <1>3, MovedTypes DEF Resumed, TypeOK
  <2> QED
    BY <1>3, <2>1 DEF Resumed, TypeOK
<1> QED
  BY <1>1, <1>2, <1>3

\* What the connection settles keeps the types.
LEMMA SettleTypes ==
    ASSUME TypeOK,
           \/ ReplaceAudio \/ ReplaceAudioFails \/ ReplaceVideo \/ ReplaceVideoFails
           \/ ReplaceScreen \/ ReplaceScreenFails \/ SendLocalOffer \/ OfferFails
    PROVE  TypeOK'
<1>1. chain # <<>>
  BY DEF ReplaceAudio, ReplaceAudioFails, ReplaceVideo, ReplaceVideoFails, ReplaceScreen,
         ReplaceScreenFails, SendLocalOffer, OfferFails, Settles
<1>2. Head1 \in Gens /\ Tail(chain) \in Seq(Gens)
  BY <1>1, HeadIsOp
<1>3. GoesOn("video") \/ GoesOn("offer") \/ Ends
        => ops' \in [Gens -> Op] /\ chain' \in Seq(Gens)
  BY <1>2, MovedTypes DEF GoesOn, Ends
<1>4. Refused => mishaps' \subseteq Mishaps
  BY DEF Refused, TypeOK, Mishaps
<1> USE <1>2, <1>3, <1>4 DEF TypeOK, None
<1>5. CASE ReplaceAudio
  BY <1>5 DEF ReplaceAudio
<1>6. CASE ReplaceAudioFails
  BY <1>6 DEF ReplaceAudioFails
<1>7. CASE ReplaceVideo
  BY <1>7 DEF ReplaceVideo, Stored, StopTracks
<1>8. CASE ReplaceVideoFails
  BY <1>8 DEF ReplaceVideoFails, Stored, StopTracks
<1>9. CASE ReplaceScreen
  BY <1>9 DEF ReplaceScreen, StopTracks
<1>10. CASE ReplaceScreenFails
  BY <1>10 DEF ReplaceScreenFails, StopTracks
<1>11. CASE SendLocalOffer
  BY <1>11 DEF SendLocalOffer
<1>12. CASE OfferFails
  BY <1>12 DEF OfferFails
<1> QED
  BY <1>5, <1>6, <1>7, <1>8, <1>9, <1>10, <1>11, <1>12
-----------------------------------------------------------------------------
(* The chain *)

\* The head is ahead of all others.
LEMMA HeadFirst ==
    ASSUME TypeOK, chain # <<>>
    PROVE  Head1 \in Queued /\ \A g \in Queued : g # Head1 => Ahead(Head1, g)
<1>1. chain[1] = Head1 /\ Len(chain) \in Nat /\ Len(chain) > 0
  BY DEF TypeOK, Head1
<1>2. Head1 \in Queued
  BY <1>1 DEF Queued
<1>3. ASSUME NEW g \in Queued, g # Head1 PROVE Ahead(Head1, g)
  <2>1. PICK i \in 1..Len(chain) : chain[i] = g
    BY DEF Queued
  <2>2. 1 \in 1..Len(chain) /\ 1 < i
    BY <1>1, <1>3, <2>1
  <2> QED
    BY <1>1, <2>1, <2>2 DEF Ahead
<1> QED
  BY <1>2, <1>3

\* A call to the connection is the last one.
LEMMA Pushed ==
    ASSUME TypeOK, NEW g \in Gens, chain' = Append(chain, g)
    PROVE  /\ Queued' = Queued \cup {g}
           /\ \A a, b \in Gens : Ahead(a, b)' => Ahead(a, b) \/ (a \in Queued /\ b = g)
<1>1. /\ Len(chain') = Len(chain) + 1 /\ chain'[Len(chain) + 1] = g /\ Len(chain) \in Nat
      /\ \A i \in 1..Len(chain) : chain'[i] = chain[i]
  BY DEF TypeOK
<1>2. Queued' = Queued \cup {g}
  <2>1. ASSUME NEW x, x \in Queued' PROVE x \in Queued \cup {g}
    BY <1>1, <2>1 DEF Queued
  <2>2. ASSUME NEW x, x \in Queued \cup {g} PROVE x \in Queued'
    BY <1>1, <2>2 DEF Queued
  <2> QED
    BY <2>1, <2>2
<1>3. ASSUME NEW a \in Gens, NEW b \in Gens, Ahead(a, b)'
      PROVE  Ahead(a, b) \/ (a \in Queued /\ b = g)
  <2>1. PICK i, j \in 1..Len(chain') : i < j /\ chain'[i] = a /\ chain'[j] = b
    BY <1>3 DEF Ahead
  <2>2. i \in 1..Len(chain)
    BY <1>1, <2>1
  <2>3. CASE j \in 1..Len(chain)
    BY <1>1, <2>1, <2>2, <2>3 DEF Ahead
  <2>4. CASE j = Len(chain) + 1
    BY <1>1, <2>1, <2>2, <2>4 DEF Queued
  <2> QED
    BY <1>1, <2>1, <2>3, <2>4
<1> QED
  BY <1>2, <1>3

\* The head has settled and leaves.
LEMMA Popped ==
    ASSUME TypeOK, chain # <<>>, ~Ahead(Head1, Head1), chain' = Tail(chain)
    PROVE  /\ Queued' = Queued \ {Head1}
           /\ \A a, b \in Gens : Ahead(a, b)' => Ahead(a, b)
<1>1. /\ Len(chain') = Len(chain) - 1 /\ chain[1] = Head1 /\ Len(chain) \in Nat /\ Len(chain) > 0
      /\ \A i \in 1..Len(chain') : chain'[i] = chain[i + 1]
  BY DEF TypeOK, Head1
<1>2. \A i \in 1..Len(chain) : i > 1 => chain[i] # Head1
  BY <1>1 DEF Ahead
<1>3. Queued' = Queued \ {Head1}
  <2>1. ASSUME NEW x, x \in Queued' PROVE x \in Queued \ {Head1}
    <3>1. PICK i \in 1..Len(chain') : chain'[i] = x
      BY <2>1 DEF Queued
    <3>2. i + 1 \in 1..Len(chain) /\ i + 1 > 1 /\ chain[i + 1] = x
      BY <1>1, <3>1
    <3> QED
      BY <1>2, <3>2 DEF Queued
  <2>2. ASSUME NEW x, x \in Queued \ {Head1} PROVE x \in Queued'
    <3>1. PICK i \in 1..Len(chain) : chain[i] = x
      BY <2>2 DEF Queued
    <3>2. i - 1 \in 1..Len(chain') /\ chain'[i - 1] = x
      BY <1>1, <2>2, <3>1
    <3> QED
      BY <3>2 DEF Queued
  <2> QED
    BY <2>1, <2>2
<1>4. ASSUME NEW a \in Gens, NEW b \in Gens, Ahead(a, b)' PROVE Ahead(a, b)
  <2>1. PICK i, j \in 1..Len(chain') : i < j /\ chain'[i] = a /\ chain'[j] = b
    BY <1>4 DEF Ahead
  <2>2. i + 1 \in 1..Len(chain) /\ j + 1 \in 1..Len(chain) /\ i + 1 < j + 1
        /\ chain[i + 1] = a /\ chain[j + 1] = b
    BY <1>1, <2>1
  <2> QED
    BY <2>2 DEF Ahead
<1> QED
  BY <1>3, <1>4

\* The head has settled, and its next call is the last one.
LEMMA Turned ==
    ASSUME TypeOK, chain # <<>>, ~Ahead(Head1, Head1)
    PROVE  chain' = Append(Tail(chain), Head1) =>
             /\ Queued' = Queued
             /\ \A a, b \in Gens : Ahead(a, b)' =>
                  a # Head1 /\ a \in Queued /\ (b # Head1 => Ahead(a, b))
<1> SUFFICES ASSUME Len(chain') = Len(chain), chain'[Len(chain)] = Head1,
                    \A i \in 1..(Len(chain) - 1) : chain'[i] = chain[i + 1]
             PROVE  /\ Queued' = Queued
                    /\ \A a, b \in Gens : Ahead(a, b)' =>
                         a # Head1 /\ a \in Queued /\ (b # Head1 => Ahead(a, b))
  BY DEF TypeOK, Head1
<1>1. /\ Len(chain') = Len(chain) /\ chain[1] = Head1 /\ Len(chain) \in Nat /\ Len(chain) > 0
      /\ \A i \in 1..(Len(chain) - 1) : chain'[i] = chain[i + 1]
      /\ chain'[Len(chain)] = Head1
  BY DEF TypeOK, Head1
<1>2. \A i \in 1..Len(chain) : i > 1 => chain[i] # Head1
  BY <1>1 DEF Ahead
<1>3. Queued' = Queued
  <2>1. ASSUME NEW x, x \in Queued' PROVE x \in Queued
    <3>1. PICK i \in 1..Len(chain) : chain'[i] = x
      BY <1>1, <2>1 DEF Queued
    <3>2. CASE i = Len(chain)
      BY <1>1, <3>1, <3>2 DEF Queued
    <3>3. CASE i # Len(chain)
      <4>1. i + 1 \in 1..Len(chain) /\ chain[i + 1] = x
        BY <1>1, <3>1, <3>3
      <4> QED
        BY <4>1 DEF Queued
    <3> QED
      BY <3>2, <3>3
  <2>2. ASSUME NEW x, x \in Queued PROVE x \in Queued'
    <3>1. PICK i \in 1..Len(chain) : chain[i] = x
      BY <2>2 DEF Queued
    <3>2. CASE i = 1
      BY <1>1, <3>1, <3>2 DEF Queued
    <3>3. CASE i # 1
      <4>1. i - 1 \in 1..Len(chain') /\ chain'[i - 1] = x
        BY <1>1, <3>1, <3>3
      <4> QED
        BY <4>1 DEF Queued
    <3> QED
      BY <3>2, <3>3
  <2> QED
    BY <2>1, <2>2
<1>4. ASSUME NEW a \in Gens, NEW b \in Gens, Ahead(a, b)'
      PROVE  a # Head1 /\ a \in Queued /\ (b # Head1 => Ahead(a, b))
  <2>1. PICK i, j \in 1..Len(chain) : i < j /\ chain'[i] = a /\ chain'[j] = b
    BY <1>1, <1>4 DEF Ahead
  <2>2. i + 1 \in 1..Len(chain) /\ i + 1 > 1 /\ chain[i + 1] = a
    BY <1>1, <2>1
  <2>3. a # Head1 /\ a \in Queued
    BY <1>2, <2>2 DEF Queued
  <2>4. ASSUME b # Head1 PROVE Ahead(a, b)
    <3>1. j + 1 \in 1..Len(chain) /\ i + 1 < j + 1 /\ chain[j + 1] = b
      BY <1>1, <2>1, <2>4
    <3> QED
      BY <2>2, <3>1 DEF Ahead
  <2> QED
    BY <2>3, <2>4
<1> QED
  BY <1>3, <1>4

Waiting == {"audio", "video", "screen", "offer"}

\* One operation changes.
Only(g) == \A h \in Gens : h # g => ops'[h] = ops[h]

\* What Moved and Over do.
LEMMA OpsFacts ==
    ASSUME TypeOK, NEW g \in Gens
    PROVE  /\ ops' = Over(g) => ops'[g] = NoOp /\ Only(g)
           /\ \A p : ops' = Moved(g, p) =>
                /\ ops'[g].at = p /\ ops'[g].kind = ops[g].kind
                /\ ops'[g].mic = ops[g].mic /\ ops'[g].cam = ops[g].cam /\ Only(g)
  BY DEF TypeOK, Op, Over, Moved, Only

\* A step of an operation outside of the chain.
LEMMA OutsideChain ==
    ASSUME TypeOK, Chained, NEW g \in Gens, Only(g), g \notin Queued,
           ops'[g].at \notin Waiting, chain' = chain
    PROVE  Chained'
  BY DEF Chained, Only, Waiting, Queued, Ahead

\* An operation enters the chain.
LEMMA EntersChain ==
    ASSUME TypeOK, Chained, NEW g \in Gens, Only(g), g \notin Queued,
           ops'[g].at \in Waiting, chain' = Append(chain, g)
    PROVE  /\ Chained'
           /\ \A a, b \in Gens : Ahead(a, b)' => Ahead(a, b) \/ (a \in Queued /\ b = g)
<1>1. /\ Queued' = Queued \cup {g}
      /\ \A a, b \in Gens : Ahead(a, b)' => Ahead(a, b) \/ (a \in Queued /\ b = g)
  BY Pushed
<1> QED
  BY <1>1 DEF Chained, Only, Waiting

\* The head of the chain.
LEMMA HeadFacts ==
    ASSUME TypeOK, Chained, chain # <<>>
    PROVE  /\ Head1 \in Gens /\ ops[Head1].at \in Waiting
           /\ \A g \in Gens : ops[g].at \in Waiting /\ g # Head1 => Ahead(Head1, g)
  BY HeadFirst, HeadIsOp DEF Chained, Waiting

\* The head's operation is over.
LEMMA EndsFacts ==
    ASSUME TypeOK, Chained, chain # <<>>, Ends
    PROVE  /\ Chained' /\ ops'[Head1] = NoOp /\ Only(Head1)
           /\ \A a, b \in Gens : Ahead(a, b)' => Ahead(a, b)
<1>1. Head1 \in Gens
  BY HeadFacts
<1>2. ops'[Head1] = NoOp /\ Only(Head1)
  BY <1>1, OpsFacts DEF Ends
<1>3. /\ Queued' = Queued \ {Head1}
      /\ \A a, b \in Gens : Ahead(a, b)' => Ahead(a, b)
  BY <1>1, Popped DEF Ends, Chained
<1>4. PICK h \in Gens : h = Head1
  BY <1>1
<1>5. Chained'
  BY <1>2, <1>3, <1>4 DEF Chained, Only, NoOp
<1> QED
  BY <1>2, <1>3, <1>5

\* The head's operation goes on.
LEMMA GoesOnFacts ==
    ASSUME TypeOK, Chained, chain # <<>>, NEW p \in Waiting, GoesOn(p)
    PROVE  /\ Chained' /\ Only(Head1) /\ ops'[Head1].at = p
           /\ ops'[Head1].kind = ops[Head1].kind /\ ops'[Head1].mic = ops[Head1].mic
           /\ ops'[Head1].cam = ops[Head1].cam
           /\ \A a, b \in Gens : Ahead(a, b)' =>
                a # Head1 /\ ops[a].at \in Waiting /\ (b # Head1 => Ahead(a, b))
<1>1. Head1 \in Gens /\ ops[Head1].at \in Waiting
  BY HeadFacts
<1>2. /\ Only(Head1) /\ ops'[Head1].at = p /\ ops'[Head1].kind = ops[Head1].kind
      /\ ops'[Head1].mic = ops[Head1].mic /\ ops'[Head1].cam = ops[Head1].cam
  BY <1>1, OpsFacts DEF GoesOn
<1>3. /\ Queued' = Queued
      /\ \A a, b \in Gens : Ahead(a, b)' =>
           a # Head1 /\ a \in Queued /\ (b # Head1 => Ahead(a, b))
  BY <1>1, Turned DEF GoesOn, Chained
<1>4. PICK h \in Gens : h = Head1
  BY <1>1
<1>5. Chained'
  BY <1>1, <1>2, <1>3, <1>4 DEF Chained, Only, Waiting
<1>6. \A a \in Gens : a \in Queued => ops[a].at \in Waiting
  BY DEF Chained, Waiting
<1> QED
  BY <1>2, <1>3, <1>5, <1>6
-----------------------------------------------------------------------------
(* What the connection settles *)

\* No step of the connection is a mishap other than a refusal.
Quiet == ("overtaken" \in mishaps' <=> "overtaken" \in mishaps)
         /\ ("late" \in mishaps' <=> "late" \in mishaps)

\* The head settles: it is an operation of the call, ahead of the others.
LEMMA SettleFacts ==
    ASSUME Core, NEW p \in Waiting, Settles(p)
    PROVE  /\ chain # <<>> /\ Head1 \in Gens /\ At(Head1, p) /\ call # "none"
           /\ \A g \in Gens : ops[g].at \in Waiting /\ g # Head1 => Ahead(Head1, g)
           /\ p \in {"audio", "video"} => ops[Head1].kind \in Media
<1>1. chain # <<>> /\ At(Head1, p)
  BY DEF Settles, At
<1>2. /\ Head1 \in Gens
      /\ \A g \in Gens : ops[g].at \in Waiting /\ g # Head1 => Ahead(Head1, g)
  BY <1>1, HeadFacts DEF Core, Shape
<1>3. Under(Head1) /\ OpShape(Head1) /\ Head1 > 0
  BY <1>1, <1>2, OpTypes DEF Core, Shape, Under, At, Waiting
<1>4. call # "none"
  BY <1>2, <1>3, OpTypes DEF Core, OpShape, Calm
<1> QED
  BY <1>1, <1>2, <1>3, <1>4 DEF OpShape, At

\* What is pending, seen from the head at "audio".
LEMMA AtAudio ==
    ASSUME Core, Settles("audio"), "overtaken" \notin mishaps
    PROVE  \A g \in Gens : Pending(g) /\ g # Head1 =>
             /\ At(g, "video") => g < Head1
             /\ At(g, "audio") => Head1 < g
             /\ g < Head1 => At(g, "video")
<1>1. PICK h \in Gens : h = Head1
  BY SettleFacts DEF Waiting
<1>2. /\ At(h, "audio") /\ Pending(h)
      /\ \A g \in Gens : ops[g].at \in Waiting /\ g # h => Ahead(h, g)
  BY <1>1, SettleFacts DEF Waiting, Pending, At
<1> QED
  BY <1>1, <1>2, OpTypes DEF Core, InLine, MediaOrdered, At, Waiting

\* After "audio" comes "video", and at the end the preview of start and its
\* offer.
LEMMA MediaGoesOn ==
    ASSUME Core, NEW q \in {"audio", "video"}, Settles(q), NEW p \in {"video", "offer"}, GoesOn(p),
           p = "video" => q = "audio" /\ local_stream' = local_stream,
           p = "offer" => local_stream' = Head1 /\ ops[Head1].kind = "start",
           ops[Head1].kind = "start" /\ p = "video" => ops[Head1].cam,
           call = "open" \/ (ops[Head1].kind = "apply" => ~ops[Head1].mic),
           UNCHANGED <<call, media_generation, live, screen_stream, pickers, shared, ended>>,
           Quiet, TypeOK'
    PROVE  Core'
<1> USE DEF Core, Shape
<1>1. PICK h \in Gens : h = Head1
  BY SettleFacts DEF Waiting
<1>2. /\ At(h, q) /\ call # "none" /\ ops[h].kind \in Media
      /\ \A g \in Gens : ops[g].at \in Waiting /\ g # h => Ahead(h, g)
  BY <1>1, SettleFacts DEF Waiting
<1>3. /\ Chained' /\ Only(h) /\ ops'[h].at = p
      /\ ops'[h].kind = ops[h].kind /\ ops'[h].mic = ops[h].mic /\ ops'[h].cam = ops[h].cam
      /\ \A a, b \in Gens : Ahead(a, b)' =>
           a # h /\ ops[a].at \in Waiting /\ (b # h => Ahead(a, b))
  BY <1>1, SettleFacts, GoesOnFacts DEF Waiting
<1>4. \A g \in Gens : OpShape(g)'
  BY <1>1, <1>2, <1>3 DEF OpShape, Only, Under, At, Media
<1>5. Calm'
  BY <1>1, <1>2 DEF Calm, OpShape, Under, At
<1>6. Apart'
  BY <1>1, <1>2, <1>3 DEF Apart, Only, Under, At, Media, Display
<1>7. PreviewAlive'
  BY <1>1, <1>2 DEF PreviewAlive, Apart, Under, At, OpShape
<1>8. ScreenOrdered'
  BY <1>3 DEF ScreenOrdered, Only, At
<1>9. InLine'
  BY <1>2, <1>3, OpTypes DEF InLine, MediaOrdered, Pending, Only, At, Waiting, Media, Quiet
<1>10. \A g \in Gens : ops[g].at \in {"audio", "video"} => Pending(g)
  BY DEF Pending, At, OpShape, Under
<1>11. MediaOrdered'
  BY <1>1, <1>3, <1>10, AtAudio DEF MediaOrdered, Only, At, Quiet
<1>12. StartFirst'
  BY <1>1, <1>2, <1>3 DEF StartFirst, Pending, Only, At, Media, OpShape, Under, Quiet
<1>13. Holders'
  <2>1. ASSUME NEW g \in Gens, ops'[g].at # "over"
        PROVE  /\ ops'[g].at = "capture" => g \notin live
               /\ ops'[g].kind = "apply" /\ ~ops'[g].mic /\ ~ops'[g].cam => g \notin live
               /\ ops'[g].kind = "unshare" => g \notin live
    BY <1>2, <1>3, <2>1 DEF Holders, Only, At, Under
  <2>2. ASSUME "overtaken" \notin mishaps, ops[h].kind = "start" PROVE call = "open"
    BY <1>2, <1>10, <2>2 DEF StartFirst, At, TypeOK
  <2>3. ASSUME NEW g \in Gens, "overtaken" \notin mishaps, ops'[g].at = "offer", g \in live
        PROVE  call = "open" /\ g = local_stream'
    BY <1>1, <1>2, <1>3, <2>2, <2>3 DEF Holders, OpShape, Only, At, Under
  <2>4. ASSUME NEW g \in Gens, "overtaken" \notin mishaps, call = "closed",
               ops'[g].at = "video", ~ops'[g].cam
        PROVE  ~ops'[g].mic
    BY <1>1, <1>2, <1>3, <2>4 DEF Holders, Only, At, Media
  <2> QED
    BY <2>1, <2>3, <2>4 DEF Holders, Quiet, At, Under
<1>14. CaptureOwned'
  <2>1. 0 \notin live
    BY DEF TypeOK, Streams
  <2>2. "overtaken" \notin mishaps /\ p = "offer" => local_stream = None
    BY <1>1, <1>2, <1>10 DEF StartFirst, At
  <2>3. mishaps' \cap {"overtaken", "late"} = {} => mishaps \cap {"overtaken", "late"} = {}
    BY DEF Quiet
  <2> QED
    BY <1>1, <1>2, <1>3, <2>1, <2>2, <2>3 DEF CaptureOwned, Only, At, Under, None
<1> QED
  BY <1>3, <1>4, <1>5, <1>6, <1>7, <1>8, <1>9, <1>11, <1>12, <1>13, <1>14

\* replaceTrack of the audio sender.
LEMMA AudioKeeps ==
    ASSUME IInv, ReplaceAudio
    PROVE  IInv'
<1> USE DEF IInv, Core, Outcome, Shape
<1>1. PICK h \in Gens : h = Head1
  BY SettleFacts DEF Waiting, ReplaceAudio
<1>2. /\ Settles("audio") /\ chain # <<>> /\ call = "open"
      /\ At(h, "audio") /\ ops[h].kind \in Media
  BY <1>1, SettleFacts DEF Waiting, ReplaceAudio
<1>3. PICK p \in {"video", "offer"} :
        /\ GoesOn(p)
        /\ p = "video" => local_stream' = local_stream /\ (ops[h].kind = "apply" \/ ops[h].cam)
        /\ p = "offer" => local_stream' = h /\ ops[h].kind = "start" /\ ~ops[h].cam
  BY <1>1, <1>2 DEF ReplaceAudio, Media
<1>4. /\ Only(h) /\ ops'[h].at = p
      /\ ops'[h].kind = ops[h].kind /\ ops'[h].mic = ops[h].mic /\ ops'[h].cam = ops[h].cam
  BY <1>1, <1>2, <1>3, GoesOnFacts DEF Waiting
<1>5. /\ audio' = IF ops[h].mic THEN h ELSE None
      /\ UNCHANGED <<call, mic, cam, media_generation, live, screen_stream, video, screen,
                     graph, offered, pickers, shared, ended, mishaps>>
  BY <1>1 DEF ReplaceAudio
<1>6. Core'
  BY <1>1, <1>2, <1>3, <1>5, SettleTypes, MediaGoesOn DEF Quiet
<1>7. /\ \A g \in Gens : Pending(g)' <=> Pending(g) /\ ~(g = h /\ p = "offer")
      /\ Pending(h) /\ (p = "offer" => h = 1)
  BY <1>2, <1>3, <1>4, <1>5 DEF Pending, Only, At, OpShape, Under, Media
<1>8. "overtaken" \notin mishaps =>
        \A g \in Gens : Pending(g) /\ g # h =>
          (At(g, "video") => g < h) /\ (At(g, "audio") => h < g) /\ (g < h => At(g, "video"))
  BY <1>1, <1>2, AtAudio
<1>9. LatestRules'
  <2> SUFFICES ASSUME Regular({"refused", "overtaken"})' PROVE LatestRules'
    BY DEF LatestRules
  <2>1. Regular({"refused", "overtaken"}) /\ "overtaken" \notin mishaps
    BY <1>5 DEF Regular
  <2>2. \A g \in Gens : Latest(g)' => Latest(g) /\ (g # h => ~At(g, "video"))
    BY <1>7, <1>8, <2>1, OpTypes DEF Latest
  <2>3. \A g \in Gens : Pending(g) /\ ops[g].kind = "start" /\ ~At(g, "video") => g = h
    BY <1>8, <2>1, OpTypes DEF OpShape, Under, Pending, Media
  <2> QED
    BY <1>2, <1>3, <1>4, <1>5, <1>7, <2>1, <2>2, <2>3, OpTypes
       DEF LatestRules, Only, At, Under, Pending
<1>10. Settled'
  <2> SUFFICES ASSUME Regular({"refused", "overtaken"})', \A g \in Gens : ~Pending(g)' PROVE Settled'
    BY DEF Settled
  <2>1. Regular({"refused", "overtaken"}) /\ Latest(h) /\ p = "offer" /\ ops[h].mic
    BY <1>2, <1>3, <1>5, <1>7, OpTypes DEF Regular, Latest, At, OpShape, Under
  <2>2. mic /\ ~cam /\ video = None /\ graph \in {None, h}
    BY <1>2, <1>3, <1>7, <2>1 DEF LatestRules, At
  <2> QED
    BY <1>3, <1>5, <2>1, <2>2, OpTypes DEF Settled, None
<1>11. Screens'
  BY <1>2, <1>3, <1>4, <1>5 DEF Screens, Regular, LastScreen, Only, At
<1>12. Offering'
  BY <1>2, <1>3, <1>4, <1>5 DEF Offering, Regular, Only, At, Under
<1> QED
  BY <1>6, <1>9, <1>10, <1>11, <1>12

\* After a refusal, and after the call, nothing is said about the outcome.
LEMMA NoOutcome ==
    ASSUME call' # "open" \/ "refused" \in mishaps'
    PROVE  Outcome'
  BY DEF Outcome, LatestRules, Settled, Screens, Offering, Regular

\* The head gives up its stream and is over: apply_local_media after a failed
\* replaceTrack, publish_screen_share too.
LEMMA GivesUp ==
    ASSUME Core, NEW p \in {"audio", "video", "screen"}, Settles(p), Ends,
           ops[Head1].kind \in {"apply", "share"}, live' = live \ {Head1},
           UNCHANGED <<call, media_generation, local_stream, screen_stream, pickers, shared, ended>>,
           "refused" \in mishaps' \/ call = "closed", Quiet, TypeOK'
    PROVE  Core'
<1> USE DEF Core, Shape
<1>1. PICK h \in Gens : h = Head1
  BY SettleFacts DEF Waiting
<1>2. At(h, p) /\ call # "none"
  BY <1>1, SettleFacts DEF Waiting
<1>3. /\ Chained' /\ Only(h) /\ ops'[h].at = "over"
      /\ \A a, b \in Gens : Ahead(a, b)' => Ahead(a, b)
  BY <1>1, SettleFacts, EndsFacts DEF Waiting, NoOp
<1>4. \A g \in Gens : OpShape(g)'
  BY <1>3 DEF OpShape, Only, Under, At
<1>5. Calm'
  BY <1>2 DEF Calm
<1>6. Apart'
  BY <1>1, <1>2, <1>3 DEF Apart, Only, Under, At
<1>7. PreviewAlive'
  BY <1>1, <1>2 DEF PreviewAlive, Apart, Under, At
<1>8. ScreenOrdered'
  BY <1>3 DEF ScreenOrdered, Only, At
<1>9. InLine'
  BY <1>3 DEF InLine, Pending, Only, At, Quiet
<1>10. MediaOrdered'
  BY <1>3 DEF MediaOrdered, Only, Quiet
<1>11. StartFirst'
  BY <1>3 DEF StartFirst, Pending, Only, At, Quiet
<1>12. Holders'
  BY <1>3 DEF Holders, Only, At, Under, Quiet
<1>13. CaptureOwned'
  BY <1>1, <1>3 DEF CaptureOwned, Only, Under, Quiet
<1> QED
  BY <1>3, <1>4, <1>5, <1>6, <1>7, <1>8, <1>9, <1>10, <1>11, <1>12, <1>13

\* replaceTrack of the audio sender fails.
LEMMA AudioFailsKeeps ==
    ASSUME IInv, ReplaceAudioFails
    PROVE  IInv'
<1> USE DEF IInv
<1>1. Settles("audio") /\ ops[Head1].kind \in Media /\ call # "none" /\ TypeOK
  BY SettleFacts DEF Waiting, ReplaceAudioFails, Core
<1>2. /\ UNCHANGED <<call, media_generation, screen_stream, pickers, shared, ended>> /\ Quiet
      /\ "refused" \in mishaps' \/ call = "closed"
  BY <1>1 DEF ReplaceAudioFails, Refused, Quiet, TypeOK
<1>3. TypeOK'
  BY <1>1, SettleTypes
<1>4. CASE ops[Head1].kind = "apply" /\ ops[Head1].mic
  BY <1>1, <1>2, <1>3, <1>4, GivesUp, NoOutcome DEF ReplaceAudioFails
<1>5. CASE ~(ops[Head1].kind = "apply" /\ ops[Head1].mic)
  <2>1. PICK p \in {"video", "offer"} :
          /\ GoesOn(p)
          /\ p = "video" => local_stream' = local_stream /\ (ops[Head1].kind = "apply" \/ ops[Head1].cam)
          /\ p = "offer" => local_stream' = Head1 /\ ops[Head1].kind = "start" /\ ~ops[Head1].cam
    BY <1>1, <1>5 DEF ReplaceAudioFails, Media
  <2>2. live' = live
    BY <1>5 DEF ReplaceAudioFails
  <2> QED
    BY <1>1, <1>2, <1>3, <1>5, <2>1, <2>2, MediaGoesOn, NoOutcome
<1> QED
  BY <1>4, <1>5

\* What is pending when the head is at "video" is newer.
LEMMA AtVideo ==
    ASSUME Core, Settles("video"), "overtaken" \notin mishaps
    PROVE  \A g \in Gens : Pending(g) /\ g # Head1 => Head1 < g
<1>1. PICK h \in Gens : h = Head1
  BY SettleFacts DEF Waiting
<1>2. /\ At(h, "video") /\ Pending(h)
      /\ \A g \in Gens : ops[g].at \in Waiting /\ g # h => Ahead(h, g)
  BY <1>1, SettleFacts DEF Waiting, Pending, At
<1> QED
  BY <1>1, <1>2, OpTypes DEF Core, InLine, MediaOrdered, At, Waiting

\* apply_local_media stops the old preview and stores its own.
LEMMA ApplyStored ==
    ASSUME Core, Settles("video"), Ends, ops[Head1].kind = "apply", live' = live \ {local_stream},
           local_stream' = IF ops[Head1].mic \/ ops[Head1].cam THEN Head1 ELSE None,
           call = "open" \/ ~ops[Head1].cam,
           UNCHANGED <<call, media_generation, screen_stream, pickers, shared, ended>>,
           Quiet, TypeOK'
    PROVE  Core'
<1> USE DEF Core, Shape
<1>1. PICK h \in Gens : h = Head1
  BY SettleFacts DEF Waiting
<1>2. At(h, "video") /\ call # "none" /\ Under(h)
  BY <1>1, SettleFacts DEF Waiting, At, Under
<1>3. /\ Chained' /\ Only(h) /\ ops'[h].at = "over"
      /\ \A a, b \in Gens : Ahead(a, b)' => Ahead(a, b)
  BY <1>1, SettleFacts, EndsFacts DEF Waiting, NoOp
<1>4. \A g \in Gens : OpShape(g)'
  BY <1>3 DEF OpShape, Only, Under, At
<1>5. Calm'
  BY <1>1, <1>2 DEF Calm, OpShape, TypeOK, None
<1>6. Apart'
  BY <1>1, <1>2, <1>3, OpTypes DEF Apart, Only, Under, At, Media, None
<1>7. PreviewAlive'
  BY <1>1, <1>2 DEF PreviewAlive, Apart, Under, At
<1>8. ScreenOrdered'
  BY <1>3 DEF ScreenOrdered, Only, At
<1>9. InLine'
  BY <1>3 DEF InLine, Pending, Only, At, Quiet
<1>10. MediaOrdered'
  BY <1>3 DEF MediaOrdered, Only, Quiet
<1>11. StartFirst'
  <2>1. "overtaken" \notin mishaps => \A g \in Gens : ~(Pending(g) /\ ops[g].kind = "start")
    BY <1>1, AtVideo, OpTypes DEF OpShape, Pending, Under
  <2> QED
    BY <1>1, <1>3, <2>1 DEF StartFirst, Pending, Only, At, Quiet
<1>12. Holders'
  BY <1>3 DEF Holders, Only, At, Under, Quiet
<1>13. CaptureOwned'
  <2>1. h \in live => ops[h].mic \/ ops[h].cam
    BY <1>1, <1>2 DEF Holders
  <2>2. "overtaken" \notin mishaps /\ call = "closed" => h \notin live
    BY <1>1, <1>2, <2>1 DEF Holders
  <2> QED
    BY <1>1, <1>2, <1>3, <2>1, <2>2 DEF CaptureOwned, Only, Under, Quiet, TypeOK
<1> QED
  BY <1>3, <1>4, <1>5, <1>6, <1>7, <1>8, <1>9, <1>10, <1>11, <1>12, <1>13

\* replaceTrack of the video sender.
LEMMA VideoKeeps ==
    ASSUME IInv, ReplaceVideo
    PROVE  IInv'
<1> USE DEF IInv, Core, Outcome, Shape
<1>1. PICK h \in Gens : h = Head1
  BY SettleFacts DEF Waiting, ReplaceVideo
<1>2. /\ Settles("video") /\ chain # <<>> /\ call = "open"
      /\ At(h, "video") /\ ops[h].kind \in Media /\ Pending(h) /\ Under(h)
  BY <1>1, SettleFacts DEF Waiting, ReplaceVideo, Pending, At, Under
<1>3. /\ video' = IF ops[h].cam THEN h ELSE None
      /\ UNCHANGED <<call, mic, cam, media_generation, screen_stream, audio, screen, graph,
                     offered, pickers, shared, ended, mishaps>>
  BY <1>1 DEF ReplaceVideo
<1>4. ops[h].kind = "start" => GoesOn("offer") /\ local_stream' = h /\ live' = live
  BY <1>1, <1>2 DEF ReplaceVideo, Stored
<1>5. ops[h].kind = "apply" =>
        /\ Ends /\ live' = live \ {local_stream}
        /\ local_stream' = IF ops[h].mic \/ ops[h].cam THEN h ELSE None
  BY <1>1, <1>2 DEF ReplaceVideo, Stored, StopTracks
<1>6. /\ Only(h)
      /\ ops[h].kind = "start" => ops'[h].at = "offer" /\ ops'[h].kind = "start"
      /\ ops[h].kind = "apply" => ops'[h].at = "over"
  BY <1>1, <1>2, <1>4, <1>5, GoesOnFacts, EndsFacts DEF Waiting, NoOp, Media
<1>7. Core'
  <2>1. TypeOK' /\ Quiet
    BY <1>3, SettleTypes DEF Quiet
  <2>2. CASE ops[h].kind = "start"
    BY <1>1, <1>2, <1>3, <1>4, <2>1, <2>2, MediaGoesOn
  <2>3. CASE ops[h].kind = "apply"
    BY <1>1, <1>2, <1>3, <1>5, <2>1, <2>3, ApplyStored
  <2> QED
    BY <1>2, <2>2, <2>3 DEF Media
<1>8. \A g \in Gens : Pending(g)' <=> Pending(g) /\ g # h
  BY <1>2, <1>3, <1>6 DEF Pending, Only, At, Media
<1>9. "overtaken" \notin mishaps => \A g \in Gens : Pending(g) /\ g # h => h < g
  BY <1>1, <1>2, AtVideo
<1>10. LatestRules'
  <2> SUFFICES ASSUME Regular({"refused", "overtaken"})' PROVE LatestRules'
    BY DEF LatestRules
  <2>1. Regular({"refused", "overtaken"}) /\ "overtaken" \notin mishaps
    BY <1>3 DEF Regular
  <2>2. \A g \in Gens : Latest(g)' => Latest(g) /\ g # h
    BY <1>2, <1>8, <1>9, <2>1, OpTypes DEF Latest
  <2>3. \A g \in Gens : Pending(g) /\ ops[g].kind = "start" => g = h
    BY <1>9, <2>1, OpTypes DEF OpShape, Under, Pending
  <2> QED
    BY <1>3, <1>6, <1>8, <2>1, <2>2, <2>3 DEF LatestRules, Only, At
<1>11. Settled'
  <2> SUFFICES ASSUME Regular({"refused", "overtaken"})', \A g \in Gens : ~Pending(g)' PROVE Settled'
    BY DEF Settled
  <2>1. Regular({"refused", "overtaken"}) /\ Latest(h)
    BY <1>2, <1>3, <1>8, OpTypes DEF Regular, Latest
  <2>2. /\ ops[h].mic = mic /\ ops[h].cam = cam /\ audio = IF ops[h].mic THEN h ELSE None
        /\ graph = None \/ (graph = h /\ ops[h].mic)
    BY <1>2, <2>1 DEF LatestRules, At
  <2>3. ops[h].kind = "start" => ops[h].cam
    BY <1>2 DEF OpShape
  <2> QED
    BY <1>2, <1>3, <1>4, <1>5, <2>1, <2>2, <2>3, OpTypes DEF Settled, None, Media
<1>12. Screens'
  <2>1. \A g \in Gens : At(g, "screen")' <=> At(g, "screen")
    BY <1>2, <1>6 DEF At, Only, Media
  <2>2. live' \in {live, live \ {local_stream}}
    BY <1>2, <1>4, <1>5 DEF Media
  <2> QED
    BY <1>2, <1>3, <1>6, <2>1, <2>2 DEF Screens, Regular, LastScreen, Only, At, Apart, Under
<1>13. Offering'
  BY <1>2, <1>3, <1>6 DEF Offering, Regular, Only, At, Under, Media
<1> QED
  BY <1>7, <1>10, <1>11, <1>12, <1>13

\* replaceTrack of the video sender fails.
LEMMA VideoFailsKeeps ==
    ASSUME IInv, ReplaceVideoFails
    PROVE  IInv'
<1> USE DEF IInv
<1>1. Settles("video") /\ ops[Head1].kind \in Media /\ call # "none" /\ TypeOK
  BY SettleFacts DEF Waiting, ReplaceVideoFails, Core
<1>2. /\ UNCHANGED <<call, media_generation, screen_stream, pickers, shared, ended>> /\ Quiet
      /\ "refused" \in mishaps' \/ call = "closed"
  BY <1>1 DEF ReplaceVideoFails, Refused, Quiet, TypeOK
<1>3. TypeOK'
  BY <1>1, SettleTypes
<1>4. CASE ops[Head1].kind = "apply" /\ ops[Head1].cam
  BY <1>1, <1>2, <1>3, <1>4, GivesUp, NoOutcome DEF ReplaceVideoFails, StopTracks
<1>5. CASE ops[Head1].kind = "apply" /\ ~ops[Head1].cam
  BY <1>1, <1>2, <1>3, <1>5, ApplyStored, NoOutcome DEF ReplaceVideoFails, Stored, StopTracks
<1>6. CASE ops[Head1].kind = "start"
  BY <1>1, <1>2, <1>3, <1>6, MediaGoesOn, NoOutcome DEF ReplaceVideoFails, Stored
<1> QED
  BY <1>1, <1>4, <1>5, <1>6 DEF Media

\* The display stream of the session is stored or taken away, the old one
\* stopped.
LEMMA ScreenStored ==
    ASSUME Core, Settles("screen"), live' = live \ {screen_stream},
           ops[Head1].kind = "share" => Ends /\ screen_stream' = Head1 /\ call = "open",
           ops[Head1].kind # "share" => GoesOn("offer") /\ screen_stream' = None,
           UNCHANGED <<call, media_generation, local_stream, pickers, shared, ended>>,
           Quiet, TypeOK'
    PROVE  Core'
<1> USE DEF Core, Shape
<1>1. PICK h \in Gens : h = Head1
  BY SettleFacts DEF Waiting
<1>2. At(h, "screen") /\ call # "none" /\ Under(h) /\ ops[h].kind \in Display
  BY <1>1, SettleFacts DEF Waiting, At, Under, OpShape
<1>3. /\ Chained' /\ Only(h)
      /\ ops[h].kind = "share" => ops'[h].at = "over"
      /\ ops[h].kind # "share" => ops'[h].at = "offer" /\ ops'[h].kind = "unshare"
      /\ \A a, b \in Gens : Ahead(a, b)' => Ahead(a, b) \/ b = h
  BY <1>1, <1>2, SettleFacts, EndsFacts, GoesOnFacts DEF Waiting, NoOp, Display
<1>4. \A g \in Gens : OpShape(g)'
  BY <1>2, <1>3 DEF OpShape, Only, Under, At
<1>5. Calm'
  <2>1. h <= media_generation /\ 0 <= media_generation
    BY <1>2 DEF OpShape, TypeOK
  <2>2. screen_stream' \in {h, None}
    BY <1>1
  <2>3. screen_stream' <= media_generation'
    BY <2>1, <2>2 DEF None
  <2> QED
    BY <1>2, <2>3 DEF Calm
<1>6. Apart'
  <2> SUFFICES ASSUME call' = "open" PROVE Apart'
    BY DEF Apart
  <2>1. call = "open" /\ h # local_stream /\ screen_stream' \in {h, None}
    BY <1>1, <1>2 DEF Apart
  <2>2. ASSUME NEW g \in Gens, g # h, Under(g) PROVE ops[g].kind \in Media => g # screen_stream'
    BY <2>1, <2>2, OpTypes DEF None
  <2>3. \A g \in Gens : At(g, "screen")' => g # screen_stream'
    BY <1>2, <1>3, <2>1, OpTypes DEF At, None
  <2>4. ASSUME NEW g \in Gens, Under(g)'
        PROVE  /\ ops'[g].kind \in Media => g # shared /\ g # screen_stream'
               /\ ops'[g].at # "offer" => g # local_stream
               /\ ops'[g].kind \in Display => g # local_stream
               /\ ops'[g].at \in {"resume", "audio", "video"} /\ (ops'[g].mic \/ ops'[g].cam)
                    => g \in live'
    <3>1. CASE g = h
      BY <1>2, <1>3, <2>1, <2>4, <3>1 DEF Under, Media
    <3>2. CASE g # h
      <4>1. ops'[g] = ops[g] /\ Under(g)
        BY <1>3, <2>4, <3>2 DEF Only, Under
      <4> QED
        BY <2>1, <2>2, <3>2, <4>1 DEF Apart, At, OpShape
    <3> QED
      BY <3>1, <3>2
  <2> QED
    BY <2>1, <2>3, <2>4 DEF Apart, At
<1>7. PreviewAlive'
  BY <1>2 DEF PreviewAlive, Apart
<1>8. ScreenOrdered'
  BY <1>2, <1>3 DEF ScreenOrdered, Only, At
<1>9. InLine'
  BY <1>2, <1>3 DEF InLine, Pending, Only, At, Quiet
<1>10. MediaOrdered'
  BY <1>2, <1>3 DEF MediaOrdered, Only, Quiet, At
<1>11. StartFirst'
  BY <1>2, <1>3 DEF StartFirst, Pending, Only, At, Quiet
<1>12. Holders'
  BY <1>2, <1>3 DEF Holders, Only, At, Under, Quiet, Display
<1>13. CaptureOwned'
  BY <1>1, <1>2, <1>3 DEF CaptureOwned, Only, Under, Quiet
<1> QED
  BY <1>3, <1>4, <1>5, <1>6, <1>7, <1>8, <1>9, <1>10, <1>11, <1>12, <1>13

\* What is pending stays, and so does what it is about.
LEMMA MediaFrame ==
    ASSUME Outcome, \A g \in Gens : Pending(g)' <=> Pending(g),
           \A g \in Gens : Pending(g) => ops'[g] = ops[g],
           UNCHANGED <<call, mic, cam, local_stream, audio, video, graph>>, mishaps \subseteq mishaps'
    PROVE  LatestRules' /\ Settled'
<1>1. Regular({"refused", "overtaken"})' => Regular({"refused", "overtaken"})
  BY DEF Regular
<1>2. \A g \in Gens : Latest(g)' <=> Latest(g)
  BY DEF Latest
<1>3. LatestRules'
  BY <1>1, <1>2 DEF Outcome, LatestRules, Latest, At
<1>4. Settled'
  BY <1>1 DEF Outcome, Settled
<1> QED
  BY <1>3, <1>4

\* replaceTrack of the screen sender.
LEMMA ScreenKeeps ==
    ASSUME IInv, ReplaceScreen
    PROVE  IInv'
<1> USE DEF IInv, Core, Shape
<1>1. PICK h \in Gens : h = Head1
  BY SettleFacts DEF Waiting, ReplaceScreen
<1>2. /\ Settles("screen") /\ chain # <<>> /\ call = "open" /\ At(h, "screen") /\ Under(h)
      /\ ops[h].kind \in Display
      /\ \A g \in Gens : ops[g].at \in Waiting /\ g # h => Ahead(h, g)
  BY <1>1, SettleFacts DEF Waiting, ReplaceScreen, At, Under, OpShape
<1>3. /\ live' = live \ {screen_stream}
      /\ UNCHANGED <<call, mic, cam, media_generation, local_stream, audio, video, graph,
                     offered, pickers, shared, ended, mishaps>>
  BY DEF ReplaceScreen, StopTracks
<1>4. /\ ops[h].kind = "share" => Ends /\ screen' = h /\ screen_stream' = h
      /\ ops[h].kind # "share" => GoesOn("offer") /\ screen' = None /\ screen_stream' = None
  BY <1>1 DEF ReplaceScreen
<1>5. /\ Only(h)
      /\ ops[h].kind = "share" => ops'[h].at = "over"
      /\ ops[h].kind # "share" => ops'[h].at = "offer"
  BY <1>1, <1>2, <1>4, GoesOnFacts, EndsFacts DEF Waiting, NoOp, Media
<1>6. Core'
  BY <1>1, <1>2, <1>3, <1>4, SettleTypes, ScreenStored DEF Quiet
<1>7. \A g \in Gens : (Pending(g)' <=> Pending(g)) /\ (Pending(g) => ops'[g] = ops[g])
  BY <1>2, <1>3, <1>5 DEF Pending, Only, At
<1>8. LatestRules' /\ Settled'
  BY <1>3, <1>7, MediaFrame
<1>9. Screens'
  <2> SUFFICES ASSUME Regular({"refused"})' PROVE Screens'
    BY DEF Screens
  <2>1. Screens /\ Regular({"refused"})
    BY <1>3 DEF Regular, Outcome
  <2>2. /\ \A g \in Gens : At(g, "screen")' <=> At(g, "screen") /\ g # h
        /\ \A g \in Gens : g # h => ops'[g] = ops[g]
    BY <1>5 DEF At, Only
  <2>3. \A g \in Gens : At(g, "screen") /\ g # h => h < g
    BY <1>2 DEF ScreenOrdered, At, Waiting
  <2>4. \A g \in Gens : LastScreen(g)' => LastScreen(g) /\ g # h
    BY <1>2, <2>2, <2>3, OpTypes DEF LastScreen
  <2>5. \A g \in Gens : At(g, "screen") => g # screen_stream
    BY <1>2 DEF Apart, At, Under
  <2>6. (\A g \in Gens : ~At(g, "screen")') => LastScreen(h)
    BY <1>2, <2>2, OpTypes DEF LastScreen
  <2>7. /\ LastScreen(h) /\ ops[h].kind = "share" => shared = h /\ h \in live \cup ended
        /\ LastScreen(h) /\ ops[h].kind = "unshare" => shared = None
    BY <2>1 DEF Screens
  <2>8. (\A g \in Gens : ~At(g, "screen")') =>
          /\ screen' = shared' /\ screen_stream' = shared'
          /\ shared' # None => shared' \in live' \cup ended'
    BY <1>2, <1>3, <1>4, <2>5, <2>6, <2>7 DEF Display
  <2>9. \A g \in Gens : LastScreen(g)' =>
          /\ ops'[g].kind = "share" => shared' = g /\ g \in live' \cup ended'
          /\ ops'[g].kind = "unshare" => shared' = None
    BY <1>3, <2>1, <2>2, <2>4, <2>5 DEF Screens, LastScreen
  <2> QED
    BY <2>8, <2>9 DEF Screens
<1>10. Offering'
  BY <1>2, <1>3, <1>5 DEF Outcome, Offering, Regular, Only, At, Under, Display
<1> QED
  BY <1>6, <1>8, <1>9, <1>10 DEF Outcome

\* replaceTrack of the screen sender fails.
LEMMA ScreenFailsKeeps ==
    ASSUME IInv, ReplaceScreenFails
    PROVE  IInv'
<1> USE DEF IInv
<1>1. Settles("screen") /\ call # "none" /\ TypeOK
  BY SettleFacts DEF Waiting, ReplaceScreenFails, Core
<1>2. /\ UNCHANGED <<call, media_generation, local_stream, pickers, shared, ended>> /\ Quiet
      /\ "refused" \in mishaps' \/ call = "closed"
  BY <1>1 DEF ReplaceScreenFails, Refused, Quiet, TypeOK
<1>3. TypeOK'
  BY <1>1, SettleTypes
<1>4. CASE ops[Head1].kind = "share"
  BY <1>1, <1>2, <1>3, <1>4, GivesUp, NoOutcome DEF ReplaceScreenFails, StopTracks
<1>5. CASE ops[Head1].kind # "share"
  BY <1>1, <1>2, <1>3, <1>5, ScreenStored, NoOutcome DEF ReplaceScreenFails, StopTracks
<1> QED
  BY <1>4, <1>5

\* An offer is the end of its operation.
LEMMA OfferEnds ==
    ASSUME Core, Settles("offer"), Ends,
           UNCHANGED <<call, media_generation, live, local_stream, screen_stream, pickers, shared, ended>>,
           Quiet, TypeOK'
    PROVE  Core'
<1> USE DEF Core, Shape
<1>1. PICK h \in Gens : h = Head1
  BY SettleFacts DEF Waiting
<1>2. At(h, "offer") /\ call # "none"
  BY <1>1, SettleFacts DEF Waiting
<1>3. /\ Chained' /\ Only(h) /\ ops'[h].at = "over"
      /\ \A a, b \in Gens : Ahead(a, b)' => Ahead(a, b)
  BY <1>1, SettleFacts, EndsFacts DEF Waiting, NoOp
<1>4. \A g \in Gens : OpShape(g)'
  BY <1>3 DEF OpShape, Only, Under, At
<1>5. Calm' /\ PreviewAlive'
  BY <1>2 DEF Calm, PreviewAlive
<1>6. Apart'
  BY <1>3 DEF Apart, Only, Under, At
<1>7. ScreenOrdered'
  BY <1>3 DEF ScreenOrdered, Only, At
<1>8. InLine'
  BY <1>3 DEF InLine, Pending, Only, At, Quiet
<1>9. MediaOrdered'
  BY <1>3 DEF MediaOrdered, Only, Quiet
<1>10. StartFirst'
  BY <1>3 DEF StartFirst, Pending, Only, At, Quiet
<1>11. Holders'
  BY <1>3 DEF Holders, Only, At, Under, Quiet
<1>12. CaptureOwned'
  BY <1>2, <1>3 DEF CaptureOwned, Holders, Only, Under, Quiet
<1> QED
  BY <1>3, <1>4, <1>5, <1>6, <1>7, <1>8, <1>9, <1>10, <1>11, <1>12

\* send_local_offer, and its failure.
LEMMA OfferKeeps ==
    ASSUME IInv, SendLocalOffer \/ OfferFails
    PROVE  IInv'
<1> USE DEF IInv, Core, Shape
<1>1. PICK h \in Gens : h = Head1
  BY SettleFacts DEF Waiting, SendLocalOffer, OfferFails
<1>2. Settles("offer") /\ Ends /\ call # "none" /\ chain # <<>> /\ At(h, "offer")
  BY <1>1, SettleFacts DEF Waiting, SendLocalOffer, OfferFails
<1>3. /\ UNCHANGED <<call, mic, cam, media_generation, live, local_stream, screen_stream, audio,
                     video, screen, graph, pickers, shared, ended>>
      /\ Quiet /\ mishaps \subseteq mishaps'
  BY DEF SendLocalOffer, OfferFails, Refused, Quiet
<1>4. Core'
  BY <1>2, <1>3, SettleTypes, OfferEnds
<1>5. CASE OfferFails
  <2>1. "refused" \in mishaps' \/ call' # "open"
    BY <1>5 DEF OfferFails, Refused
  <2> QED
    BY <1>4, <2>1, NoOutcome
<1>6. CASE SendLocalOffer
  <2>1. Only(h) /\ ops'[h].at = "over"
    BY <1>1, <1>2, EndsFacts DEF NoOp
  <2>2. \A g \in Gens : (Pending(g)' <=> Pending(g)) /\ (Pending(g) => ops'[g] = ops[g])
    BY <1>2, <1>3, <2>1 DEF Pending, Only, At
  <2>3. LatestRules' /\ Settled'
    BY <1>3, <2>2, MediaFrame
  <2>4. Screens'
    BY <1>2, <1>3, <2>1 DEF Outcome, Screens, Regular, LastScreen, Only, At
  <2>5. Offering'
    BY <1>6 DEF SendLocalOffer, Offering
  <2> QED
    BY <1>4, <2>3, <2>4, <2>5 DEF Outcome
<1> QED
  BY <1>5, <1>6
-----------------------------------------------------------------------------
(* Captures *)

\* getUserMedia, for an operation that is no longer the newest.
LEMMA StaleKeeps ==
    ASSUME IInv, NEW g \in Gens, Captured(g), IsStale(g)
    PROVE  IInv'
<1> USE DEF IInv, Core, Shape
<1>1. /\ At(g, "capture") /\ ops' = Over(g)
      /\ UNCHANGED <<call, mic, cam, media_generation, chain, live, graph, local_stream,
                     screen_stream, audio, video, screen, offered, pickers, shared, ended, mishaps>>
  BY DEF Captured
<1>2. Only(g) /\ ops'[g].at = "over" /\ media_generation # g
  BY <1>1, OpsFacts, OpTypes DEF NoOp, IsStale, OpShape, Under, At
<1>3. Chained'
  BY <1>1, <1>2, OutsideChain DEF Chained, At, Waiting
<1>4. TypeOK'
  BY CaptureTypes
<1>5. \A a, b \in Gens : Ahead(a, b)' <=> Ahead(a, b)
  BY <1>1 DEF Ahead
<1>6. \A h \in Gens : OpShape(h)'
  BY <1>1, <1>2 DEF OpShape, Only, Under, At
<1>7. Calm' /\ PreviewAlive'
  BY <1>1 DEF Calm, PreviewAlive
<1>8. Apart' /\ ScreenOrdered'
  BY <1>1, <1>2, <1>5 DEF Apart, ScreenOrdered, Only, Under, At
<1>9. \A h \in Gens : (Pending(h)' <=> Pending(h)) /\ (Pending(h) => ops'[h] = ops[h])
  BY <1>1, <1>2 DEF Pending, Only, At
<1>10. InLine' /\ MediaOrdered' /\ StartFirst'
  BY <1>1, <1>2, <1>5, <1>9 DEF InLine, MediaOrdered, StartFirst, Only, At
<1>11. Holders'
  BY <1>1, <1>2 DEF Holders, Only, At, Under
<1>12. CaptureOwned'
  BY <1>1, <1>2 DEF CaptureOwned, Holders, Only, Under, At
<1>13. LatestRules' /\ Settled'
  BY <1>1, <1>9, MediaFrame
<1>14. Screens'
  BY <1>1, <1>2 DEF Outcome, Screens, Regular, LastScreen, Only, At
<1>15. Offering'
  BY <1>1, <1>2 DEF Outcome, Offering, Regular, Only, At, Under
<1> QED
  BY <1>3, <1>4, <1>6, <1>7, <1>8, <1>10, <1>11, <1>12, <1>13, <1>14, <1>15 DEF Outcome

\* getUserMedia, for the newest operation.
LEMMA CapturedKeeps ==
    ASSUME IInv, NEW g \in Gens, Captured(g), ~IsStale(g)
    PROVE  IInv'
<1> USE DEF IInv, Core, Shape
<1>1. /\ At(g, "capture") /\ ops' = Moved(g, AfterCapture(g)) /\ live' = live \cup {g}
      /\ graph' = None /\ chain' = IF ops[g].mic THEN chain ELSE Append(chain, g)
      /\ UNCHANGED <<call, mic, cam, media_generation, local_stream, screen_stream, audio,
                     video, screen, offered, pickers, shared, ended, mishaps>>
  BY DEF Captured, TeardownMicGraph
<1>2. /\ Only(g) /\ ops'[g].at = AfterCapture(g) /\ ops'[g].kind = ops[g].kind
      /\ ops'[g].mic = ops[g].mic /\ ops'[g].cam = ops[g].cam
  BY <1>1, OpsFacts
<1>3. /\ Under(g) /\ Pending(g) /\ media_generation = g /\ ops[g].kind \in Media
      /\ ops[g].mic \/ ops[g].cam
  BY <1>1 DEF IsStale, OpShape, Under, At, Pending
<1>4. call = "open"
  BY <1>3, OpTypes DEF IsStale, Calm, TypeOK
<1>5. /\ ops[g].mic => ops'[g].at = "resume"
      /\ ~ops[g].mic /\ ops[g].kind = "apply" => ops'[g].at = "audio"
      /\ ~ops[g].mic /\ ops[g].kind = "start" => ops'[g].at = "video"
  BY <1>2 DEF AfterCapture
<1>6. g \notin Queued
  BY <1>1 DEF Chained, At
<1>7. Chained' /\ \A a, b \in Gens : Ahead(a, b)' => Ahead(a, b) \/ (a \in Queued /\ b = g)
  <2>1. CASE ops[g].mic
    BY <1>1, <1>2, <1>5, <1>6, <2>1, OutsideChain DEF Ahead, Waiting
  <2>2. CASE ~ops[g].mic
    BY <1>1, <1>2, <1>3, <1>5, <1>6, <2>2, EntersChain DEF Waiting, Media
  <2> QED
    BY <2>1, <2>2
<1>8. TypeOK'
  BY CaptureTypes
<1>9. \A h \in Gens : Under(h) => h <= g
  BY <1>3 DEF OpShape
<1>10. \A h \in Gens : OpShape(h)'
  BY <1>1, <1>2, <1>3, <1>4, <1>5 DEF OpShape, Only, Under, At, Media
<1>11. Calm' /\ PreviewAlive'
  <2>1. \A s \in live' : s <= media_generation
    BY <1>1, <1>3, <1>4, OpTypes DEF Calm
  <2> QED
    BY <1>1, <1>4, <2>1 DEF Calm, PreviewAlive
<1>12. Apart'
  BY <1>1, <1>2, <1>3, <1>4, <1>5 DEF Apart, Only, Under, At, Media
<1>13. ScreenOrdered'
  BY <1>2, <1>3, <1>5, <1>7 DEF ScreenOrdered, Only, At, Media
<1>14. \A h \in Gens : Pending(h)' <=> Pending(h)
  BY <1>1, <1>2, <1>3, <1>5 DEF Pending, Only, At, Media
<1>15. \A h \in Gens : Pending(h) => h <= g
  BY <1>9 DEF Pending, Under
<1>16. InLine'
  <2>1. ops[g].kind = "start" => g = 1
    BY <1>3 DEF OpShape
  <2> QED
    BY <1>1, <1>2, <1>3, <1>5, <1>14, <1>15, <2>1, OpTypes DEF InLine, Only, At, Media
<1>17. MediaOrdered'
  <2>1. \A a \in Gens : a # g /\ ops[a].at \in {"audio", "video"} => a < g
    BY <1>9, OpTypes DEF Under
  <2>2. \A b \in Gens : ~Ahead(g, b)'
    BY <1>6, <1>7 DEF Ahead, Queued
  <2> QED
    BY <1>1, <1>2, <1>7, <2>1, <2>2 DEF MediaOrdered, Only
<1>18. StartFirst'
  BY <1>1, <1>2, <1>4, <1>14 DEF StartFirst, Only
<1>19. Holders'
  BY <1>1, <1>2, <1>3, <1>4, <1>5 DEF Holders, Only, At, Under, Media
<1>20. CaptureOwned'
  BY <1>1, <1>2, <1>3, <1>4, <1>5 DEF CaptureOwned, Only, Under, Media
<1>21. LatestRules'
  <2> SUFFICES ASSUME Regular({"refused", "overtaken"})' PROVE LatestRules'
    BY DEF LatestRules
  <2>1. LatestRules /\ Regular({"refused", "overtaken"})
    BY <1>1 DEF Regular, Outcome
  <2>2. \A h \in Gens : Latest(h)' => h = g /\ Latest(h)
    BY <1>3, <1>14, <1>15, OpTypes DEF Latest
  <2> QED
    BY <1>1, <1>2, <1>3, <1>5, <1>14, <2>1, <2>2 DEF LatestRules, Only, At, Media
<1>22. Settled'
  BY <1>3, <1>14 DEF Settled
<1>23. Screens'
  BY <1>1, <1>2, <1>3, <1>5 DEF Outcome, Screens, Regular, LastScreen, Only, At, Media
<1>24. Offering'
  BY <1>1, <1>2, <1>3, <1>5 DEF Outcome, Offering, Regular, Only, At, Under, Media
<1> QED
  BY <1>7, <1>8, <1>10, <1>11, <1>12, <1>13, <1>16, <1>17, <1>18, <1>19, <1>20, <1>21,
     <1>22, <1>23, <1>24 DEF Outcome

\* getUserMedia fails.
LEMMA CaptureFailsKeeps ==
    ASSUME IInv, NEW g \in Gens, CaptureFails(g)
    PROVE  IInv'
<1> USE DEF IInv, Core, Shape
<1>1. /\ At(g, "capture") /\ Under(g) /\ g \notin live /\ ops[g].kind \in Media
      /\ UNCHANGED <<call, mic, cam, media_generation, live, local_stream, screen_stream,
                     audio, video, screen, graph, offered, pickers, shared, ended>>
      /\ Quiet /\ "refused" \in mishaps'
  BY DEF CaptureFails, At, Under, Holders, OpShape, Quiet
<1>2. /\ Only(g)
      /\ ops[g].kind = "start" => ops'[g].at = "offer" /\ ops'[g].kind = "start"
      /\ ops[g].kind # "start" => ops'[g].at = "over"
  BY OpsFacts DEF CaptureFails, NoOp
<1>3. g \notin Queued
  BY <1>1 DEF Chained, At
<1>4. Chained' /\ \A a, b \in Gens : Ahead(a, b)' => Ahead(a, b) \/ b = g
  <2>1. CASE ops[g].kind # "start"
    BY <1>2, <1>3, <2>1, OutsideChain DEF CaptureFails, Ahead, Waiting
  <2>2. CASE ops[g].kind = "start"
    BY <1>2, <1>3, <2>2, EntersChain DEF CaptureFails, Waiting
  <2> QED
    BY <2>1, <2>2
<1>5. TypeOK'
  BY CaptureTypes
<1>6. \A h \in Gens : OpShape(h)'
  BY <1>1, <1>2 DEF OpShape, Only, Under, At, Media
<1>7. Calm' /\ PreviewAlive'
  BY <1>1 DEF Calm, PreviewAlive
<1>8. Apart' /\ ScreenOrdered'
  BY <1>1, <1>2, <1>4 DEF Apart, ScreenOrdered, Only, Under, At, Display, Media
<1>9. \A h \in Gens : Pending(h)' => Pending(h) /\ h # g /\ ops'[h] = ops[h]
  BY <1>1, <1>2 DEF Pending, Only, At, Media
<1>10. InLine' /\ StartFirst'
  BY <1>1, <1>2, <1>9 DEF InLine, StartFirst, Only, At, Quiet
<1>11. MediaOrdered'
  BY <1>1, <1>2, <1>4 DEF MediaOrdered, Only, Quiet
<1>12. Holders'
  BY <1>1, <1>2 DEF Holders, Only, At, Under, Quiet
<1>13. CaptureOwned'
  BY <1>1, <1>2 DEF CaptureOwned, Only, Under, Quiet
<1> QED
  BY <1>1, <1>4, <1>5, <1>6, <1>7, <1>8, <1>10, <1>11, <1>12, <1>13, NoOutcome

\* AudioContext.resume is over: no newer operation has passed by.
LEMMA ResumedKeeps ==
    ASSUME IInv, NEW g \in Gens, Resumed(g)
    PROVE  IInv'
<1> USE DEF IInv, Core, Shape
<1>1. /\ At(g, "resume") /\ ops' = Moved(g, "audio") /\ chain' = Append(chain, g)
      /\ graph' = g \/ graph' = graph
      /\ UNCHANGED <<call, mic, cam, media_generation, live, local_stream, screen_stream,
                     audio, video, screen, offered, pickers, shared, ended, mishaps>>
  BY DEF Resumed, Window
<1>2. /\ Only(g) /\ ops'[g].at = "audio" /\ ops'[g].kind = ops[g].kind
      /\ ops'[g].mic = ops[g].mic /\ ops'[g].cam = ops[g].cam
  BY <1>1, OpsFacts
<1>3. /\ Under(g) /\ Pending(g) /\ ops[g].kind \in Media /\ ops[g].mic /\ g \notin Queued
      /\ call # "none"
  BY <1>1, OpTypes DEF OpShape, Under, At, Pending, Chained, Calm
<1>4. Chained' /\ \A a, b \in Gens : Ahead(a, b)' => Ahead(a, b) \/ (a \in Queued /\ b = g)
  BY <1>1, <1>2, <1>3, EntersChain DEF Waiting
<1>5. TypeOK'
  BY CaptureTypes
<1>6. \A h \in Gens : OpShape(h)'
  <2> SUFFICES ASSUME NEW h \in Gens PROVE OpShape(h)'
    OBVIOUS
  <2>1. OpShape(h)
    OBVIOUS
  <2> HIDE DEF IInv, Core, Shape
  <2>2. CASE h = g
    BY <1>1, <1>2, <1>3, <2>1, <2>2 DEF OpShape, Under, At
  <2>3. CASE h # g
    BY <1>1, <1>2, <2>1, <2>3 DEF OpShape, Only, Under, At
  <2> QED
    BY <2>2, <2>3
<1>7. Calm' /\ PreviewAlive'
  BY <1>1, <1>3 DEF Calm, PreviewAlive
<1>8. Apart'
  BY <1>1, <1>2, <1>3 DEF Apart, Only, Under, At
<1>9. ScreenOrdered'
  BY <1>2, <1>4 DEF ScreenOrdered, Only, At
<1>10. \A h \in Gens : Pending(h)' <=> Pending(h)
  BY <1>1, <1>2, <1>3 DEF Pending, Only, At
<1>11. "overtaken" \notin mishaps => \A h \in Gens : Pending(h) => h <= g
  BY <1>1, <1>3, OpTypes DEF InLine, At
<1>12. InLine'
  BY <1>1, <1>2, <1>3, <1>10, <1>11, OpTypes DEF InLine, Only, At
<1>13. MediaOrdered'
  <2>1. "overtaken" \notin mishaps =>
          \A a \in Gens : a # g /\ ops[a].at \in {"audio", "video"} => a < g
    <3>1. \A a \in Gens : ops[a].at \in {"audio", "video"} => Pending(a)
      BY DEF Pending, OpShape, Under, At
    <3>2. \A a \in Gens : a \in Nat
      BY OpTypes
    <3> HIDE DEF IInv, Core, Shape
    <3> QED
      BY <1>11, <3>1, <3>2
  <2>2. \A b \in Gens : ~Ahead(g, b)'
    BY <1>3, <1>4 DEF Ahead, Queued
  <2> QED
    BY <1>1, <1>2, <1>4, <2>1, <2>2 DEF MediaOrdered, Only
<1>14. StartFirst'
  BY <1>1, <1>2, <1>3, <1>10 DEF StartFirst, Only, At
<1>15. Holders'
  <2>1. Holders
    OBVIOUS
  <2> HIDE DEF IInv, Core, Shape
  <2>2. ASSUME NEW h \in Gens, h # g
        PROVE  UNCHANGED <<ops[h], At(h, "capture"), At(h, "offer"), At(h, "video"), Under(h)>>
    BY <1>1, <1>2, <2>2 DEF Only, At, Under
  <2>3. ASSUME NEW h \in Gens, Under(h)'
        PROVE  /\ At(h, "capture")' => h \notin live'
               /\ ops'[h].kind = "apply" /\ ~ops'[h].mic /\ ~ops'[h].cam => h \notin live'
               /\ ops'[h].kind = "unshare" => h \notin live'
    <3>1. CASE h = g
      BY <1>1, <1>2, <1>3, <2>1, <3>1 DEF Holders, At, Media
    <3>2. CASE h # g
      BY <1>1, <2>1, <2>2, <2>3, <3>2 DEF Holders
    <3> QED
      BY <3>1, <3>2
  <2>4. ASSUME NEW h \in Gens, "overtaken" \notin mishaps'
        PROVE  /\ At(h, "offer")' /\ h \in live' => call' = "open" /\ h = local_stream'
               /\ call' = "closed" /\ At(h, "video")' /\ ~ops'[h].cam => ~ops'[h].mic
    <3>1. CASE h = g
      BY <1>1, <1>2, <3>1 DEF At
    <3>2. CASE h # g
      BY <1>1, <2>1, <2>2, <2>4, <3>2 DEF Holders
    <3> QED
      BY <3>1, <3>2
  <2> QED
    BY <2>3, <2>4 DEF Holders
<1>16. CaptureOwned'
  BY <1>1, <1>2 DEF CaptureOwned, Only, Under
<1>17. LatestRules'
  <2> SUFFICES ASSUME Regular({"refused", "overtaken"})' PROVE LatestRules'
    BY DEF LatestRules
  <2>1. LatestRules /\ Regular({"refused", "overtaken"}) /\ "overtaken" \notin mishaps
    BY <1>1 DEF Regular, Outcome
  <2>2. Latest(g) /\ \A h \in Gens : Latest(h)' => h = g
    BY <1>3, <1>10, <1>11, <2>1, OpTypes DEF Latest
  <2> HIDE DEF IInv, Core, Shape
  <2>3. \A h \in Gens : Pending(h)' /\ ops'[h].kind = "start" =>
          /\ Pending(h) /\ ops[h].kind = "start"
          /\ ops'[h].at # "video" => ops[h].at # "video"
    BY <1>1, <1>2, <1>10 DEF Only, At
  <2> QED
    BY <1>1, <1>2, <1>3, <2>1, <2>2, <2>3 DEF LatestRules, At
<1>18. Settled'
  BY <1>3, <1>10 DEF Settled
<1>19. Screens'
  BY <1>1, <1>2 DEF Outcome, Screens, Regular, LastScreen, Only, At
<1>20. Offering'
  BY <1>1, <1>2, <1>3 DEF Outcome, Offering, Regular, Only, At, Under
<1> QED
  BY <1>4, <1>5, <1>6, <1>7, <1>8, <1>9, <1>12, <1>13, <1>14, <1>15, <1>16, <1>17,
     <1>18, <1>19, <1>20 DEF Outcome
-----------------------------------------------------------------------------
(* The user *)

\* An operation that begins is new, and says what it disturbs.
Began(n, k, m, c, p) ==
    /\ n \in Gens /\ media_generation' = n /\ n \notin live /\ n \notin Queued
    /\ n # local_stream /\ n # screen_stream /\ n # shared /\ n # None
    /\ \A g \in Gens : Under(g) => g < n
    /\ Only(n) /\ ops'[n] = [kind |-> k, mic |-> m, cam |-> c, at |-> p]
    /\ Chained'
    /\ \A a, b \in Gens : Ahead(a, b)' => Ahead(a, b) \/ (a \in Queued /\ b = n)
    /\ \A b \in Gens : ~Ahead(n, b)'
    /\ mishaps \subseteq mishaps' /\ ("late" \in mishaps' <=> "late" \in mishaps)
    /\ "hurried" \notin mishaps' => \A g \in Gens : ~(At(g, "capture") /\ ops[g].kind = "start")
    /\ "overtaken" \notin mishaps' =>
         \A g \in Gens : IF k = "apply" THEN ~At(g, "resume") ELSE ~At(g, "capture")

\* That is what Begin does.
LEMMA BeginFacts ==
    ASSUME Core, call # "closed", NEW k \in {"start", "apply", "share", "unshare"},
           NEW m \in BOOLEAN, NEW c \in BOOLEAN,
           NEW p \in {"capture", "audio", "screen", "offer"}, Begin(k, m, c, p),
           NEW n, n = media_generation + 1
    PROVE  Began(n, k, m, c, p)
<1>1. n \in Gens /\ media_generation' = n /\ media_generation \in Nat /\ n # None
  <2>1. TypeOK /\ p \in {"capture", "resume", "audio", "video", "screen", "offer"}
    BY DEF Core
  <2>2. media_generation + 1 \in Gens
    BY <2>1, BeginTypes
  <2> QED
    BY <2>1, <2>2 DEF Begin, TypeOK, None
<1> USE DEF Core, Shape
<1>2. n \notin live /\ n # local_stream /\ n # screen_stream /\ n # shared
  BY <1>1 DEF Calm, TypeOK, None, Streams, Gens
<1>3. ASSUME NEW g \in Gens, Under(g) PROVE g < n
  <2>1. g \in Nat /\ g <= media_generation
    BY <1>3, OpTypes DEF OpShape
  <2> QED
    BY <1>1, <2>1
<1>4. n \notin Queued
  BY <1>1, <1>3, OpTypes DEF Chained, Under
<1>5. Only(n) /\ ops'[n] = [kind |-> k, mic |-> m, cam |-> c, at |-> p]
  BY <1>1 DEF Begin, TypeOK, Only
<1>6. Chained' /\ \A a, b \in Gens : Ahead(a, b)' => Ahead(a, b) \/ (a \in Queued /\ b = n)
  <2>1. ops'[n].at = p
    BY <1>5
  <2>2. CASE p = "capture"
    <3>1. chain' = chain
      BY <2>2 DEF Begin
    <3> QED
      BY <1>1, <1>4, <1>5, <2>1, <2>2, <3>1, OutsideChain DEF Ahead, Waiting
  <2>3. CASE p # "capture"
    <3>1. chain' = Append(chain, n)
      BY <2>3 DEF Begin
    <3> QED
      BY <1>1, <1>4, <1>5, <2>1, <2>3, <3>1, EntersChain DEF Waiting
  <2> QED
    BY <2>2, <2>3
<1>7. \A b \in Gens : ~Ahead(n, b)'
  BY <1>1, <1>4, <1>6 DEF Ahead, Queued
<1>8. /\ mishaps \subseteq mishaps' /\ ("late" \in mishaps' <=> "late" \in mishaps)
      /\ "hurried" \notin mishaps' => \A g \in Gens : ~(At(g, "capture") /\ ops[g].kind = "start")
      /\ "overtaken" \notin mishaps' =>
           \A g \in Gens : IF k = "apply" THEN ~At(g, "resume") ELSE ~At(g, "capture")
  BY DEF Begin, Disturbed, Window
<1> QED
  BY <1>1, <1>2, <1>3, <1>4, <1>5, <1>6, <1>7, <1>8 DEF Began

\* The beginning of an operation, with what the room does to its streams.
LEMMA BeginCore ==
    ASSUME Core, NEW k \in {"start", "apply", "share", "unshare"},
           NEW m \in BOOLEAN, NEW c \in BOOLEAN,
           NEW p \in {"capture", "audio", "screen", "offer"}, Begin(k, m, c, p),
           IF k = "start" THEN call = "none" ELSE call = "open",
           p = IF k \in Media THEN FirstAwait(k, m, c) ELSE "screen",
           call' = "open",
           k \in Media => UNCHANGED <<live, shared, ended>>,
           k = "share" => live' = live \cup {media_generation + 1} /\ shared' = media_generation + 1,
           k = "unshare" => live' = live \ {shared} /\ shared' = None /\ shared # None,
           UNCHANGED <<local_stream, screen_stream>>, TypeOK'
    PROVE  Core'
<1>1. PICK n : n = media_generation + 1
  OBVIOUS
<1>2. call # "closed" /\ (k = "start" => call = "none") /\ (k # "start" => call = "open")
  OBVIOUS
<1>3. Began(n, k, m, c, p)
  BY <1>1, <1>2, BeginFacts
<1> USE DEF Core, Shape, Began
<1>4. /\ ops'[n].kind = k /\ ops'[n].mic = m /\ ops'[n].cam = c /\ ops'[n].at = p /\ p # "over"
      /\ \A g \in Gens : g # n => ops'[g] = ops[g]
  BY <1>3 DEF Only
<1>5. /\ p = "capture" => k \in Media /\ (m \/ c)
      /\ p = "audio" => k = "apply" /\ ~m /\ ~c
      /\ p = "offer" => k = "start" /\ ~m /\ ~c
      /\ p = "screen" => k \in Display
      /\ k \in Display => p = "screen"
      /\ k = "apply" /\ ~m /\ ~c => p = "audio"
  BY DEF FirstAwait, Media, Display
<1>6. media_generation \in Nat /\ (call = "none" => n = 1)
  BY <1>1 DEF TypeOK, Calm
<1>7. \A g \in Gens : OpShape(g)'
  BY <1>2, <1>3, <1>4, <1>5, <1>6, OpTypes DEF OpShape, Under, At
<1>8. Calm'
  <2>1. media_generation' > 0 /\ media_generation' <= MaxGen /\ media_generation < media_generation'
    BY <1>1, <1>3, <1>6, OpTypes
  <2>2. local_stream <= media_generation' /\ screen_stream <= media_generation'
    BY <1>1, <1>3, <1>6 DEF Calm, TypeOK, Gens, None
  <2>3. shared' <= media_generation' /\ \A s \in live' : s <= media_generation'
    BY <1>1, <1>2, <1>3, <1>6 DEF Calm, TypeOK, Streams, None, Media
  <2> QED
    BY <2>1, <2>2, <2>3 DEF Calm
<1>9. Apart'
  <2>1. shared' \in {shared, n, None} /\ (k # "share" => shared' \in {shared, None})
    BY <1>1 DEF Media
  <2>2. CASE call = "none"
    <3>1. shared = None /\ local_stream = None /\ screen_stream = None
          /\ (\A g \in Gens : ~Under(g)) /\ k = "start"
      BY <2>2, <1>2, OpTypes DEF Calm, OpShape
    <3> QED
      BY <1>3, <1>4, <1>5, <2>1, <3>1, OpTypes DEF Apart, Under, At, None, Display
  <2>3. CASE call = "open"
    <3>1. shared' # None => shared' # local_stream
      BY <1>3, <2>1, <2>3 DEF Apart
    <3>2. ASSUME NEW g \in Gens, Under(g), g # n
          PROVE  /\ ops[g].kind \in Media => g # shared' /\ g # screen_stream
                 /\ ops[g].at \in {"resume", "audio", "video"} /\ (ops[g].mic \/ ops[g].cam)
                      => g \in live'
      BY <1>1, <2>1, <2>3, <3>2, OpTypes DEF Apart, None, OpShape, Media
    <3> QED
      BY <1>3, <1>4, <1>5, <2>1, <2>3, <3>1, <3>2 DEF Apart, Under, At, Media
  <2> QED
    BY <1>2, <2>2, <2>3
<1>10. PreviewAlive'
  BY <1>1, <1>2 DEF PreviewAlive, Apart, Calm, Media
<1>11. /\ \A a \in Gens : a \in Queued => a < n
       /\ \A a, b \in Gens : Ahead(a, b) => a # n /\ b # n
  <2>1. \A a, b \in Gens : Ahead(a, b) => a \in Queued /\ b \in Queued
    BY DEF Ahead, Queued
  <2> QED
    BY <1>3, <2>1 DEF Chained, Under
<1>12. ScreenOrdered'
  BY <1>3, <1>4, <1>11 DEF ScreenOrdered, At
<1>13. MediaOrdered'
  BY <1>3, <1>4, <1>11 DEF MediaOrdered
<1>14. \A g \in Gens : Pending(g)' /\ g # n => Pending(g) /\ ~At(g, "capture") /\ ops'[g] = ops[g]
  BY <1>3, <1>4 DEF Pending, At
<1>15. Pending(n)' => k \in Media /\ p \in {"capture", "audio"}
  BY <1>4 DEF Pending
<1>16. InLine'
  <2> SUFFICES ASSUME "overtaken" \notin mishaps' PROVE InLine'
    BY DEF InLine
  <2>1. "overtaken" \notin mishaps /\ (k = "apply" => \A g \in Gens : ~At(g, "resume"))
    BY <1>3
  <2>2. k = "start" => \A g \in Gens : ~Under(g)
    BY <1>2, OpTypes DEF OpShape, Calm
  <2>3. \A g \in Gens : Pending(g)' /\ g # n => g < n
    BY <1>3, <1>14 DEF Pending, Under
  <2>4. \A g \in Gens : Pending(g)' /\ g # n /\ Pending(n)' => ops[g].at \in {"audio", "video"}
    BY <1>14, <1>15, <2>1, <2>2 DEF Pending, Under, At, Media
  <2> QED
    BY <1>3, <1>4, <1>14, <1>15, <2>1, <2>3, <2>4, OpTypes DEF InLine, At
<1>17. StartFirst'
  BY <1>2, <1>3, <1>4, <1>14 DEF StartFirst, Calm
<1>18. Holders'
  <2>1. \A g \in Gens : Under(g) /\ g \notin live => g \notin live'
    BY <1>1, <1>3, OpTypes DEF Media
  <2>2. k # "share" => n \notin live'
    BY <1>3 DEF Media
  <2>3. k = "share" => p = "screen"
    BY <1>5 DEF Display
  <2>4. \A g \in Gens : At(g, "offer") /\ g \in live' => g \in live
    BY <2>1 DEF At, Under
  <2> QED
    BY <1>2, <1>3, <1>4, <1>5, <2>1, <2>2, <2>3, <2>4 DEF Holders, At, Under
<1>19. CaptureOwned'
  <2>1. live' \subseteq live \cup {n} /\ \A s \in live' : s = n \/ s \in live
    BY <1>1 DEF Media
  <2>2. call = "none" => live = {}
    BY DEF Calm
  <2> QED
    BY <1>2, <1>3, <1>4, <2>1, <2>2 DEF CaptureOwned, Under
<1> QED
  BY <1>3, <1>7, <1>8, <1>9, <1>10, <1>12, <1>13, <1>16, <1>17, <1>18, <1>19

\* The first await of start and apply.
LEMMA FirstAwaitPlaces ==
    ASSUME NEW k \in Media, NEW m \in BOOLEAN, NEW c \in BOOLEAN
    PROVE  /\ FirstAwait(k, m, c) \in {"capture", "audio", "screen", "offer"}
           /\ m \/ c => FirstAwait(k, m, c) = "capture"
           /\ ~(m \/ c) => FirstAwait(k, m, c) = IF k = "start" THEN "offer" ELSE "audio"
  BY DEF FirstAwait

\* The session starts.
LEMMA StartKeeps ==
    ASSUME IInv, StartSession
    PROVE  IInv'
<1>1. Core /\ Outcome /\ TypeOK /\ Calm
  BY DEF IInv, Core
<1>2. PICK n : n = media_generation + 1
  OBVIOUS
<1>3. PICK p : p = FirstAwait("start", mic, cam)
  OBVIOUS
<1>4. /\ mic \in BOOLEAN /\ cam \in BOOLEAN /\ call = "none" /\ call' = "open"
      /\ UNCHANGED <<mic, cam, live, local_stream, screen_stream, audio, video,
                     screen, graph, offered, pickers, shared, ended>>
      /\ Begin("start", mic, cam, p)
  BY <1>1, <1>3 DEF StartSession, TypeOK
<1>5. /\ p \in {"capture", "audio", "screen", "offer"}
      /\ mic \/ cam => p = "capture"
      /\ ~(mic \/ cam) => p = "offer"
  BY <1>3, <1>4, FirstAwaitPlaces DEF Media
<1>6. Began(n, "start", mic, cam, p)
  BY <1>1, <1>2, <1>4, <1>5, BeginFacts
<1>7. Core'
  BY <1>1, <1>3, <1>4, <1>5, UserTypes, BeginCore DEF Media
<1>8. /\ n \in Gens /\ ops'[n].kind = "start" /\ ops'[n].at = p
      /\ ops'[n].mic = mic /\ ops'[n].cam = cam
      /\ \A g \in Gens : g # n => ops'[g] = ops[g] /\ ~Under(g)
      /\ media_generation' = n
  BY <1>1, <1>4, <1>6, OpTypes DEF Began, Only, Core, Shape, OpShape, Calm
<1>9. /\ shared = None /\ screen = None /\ screen_stream = None /\ local_stream = None
      /\ audio = None /\ video = None /\ graph = None
  BY <1>1, <1>4 DEF Calm
<1>10. \A g \in Gens : Pending(g)' <=> g = n /\ p = "capture"
  BY <1>5, <1>8 DEF Pending, At, Media, Under
<1>11. LatestRules'
  BY <1>4, <1>8, <1>9, <1>10 DEF LatestRules, Latest, At
<1>12. Settled'
  BY <1>4, <1>5, <1>8, <1>9, <1>10 DEF Settled
<1>13. Screens'
  BY <1>4, <1>5, <1>8, <1>9 DEF Screens, LastScreen, At, Under
<1>14. Offering'
  BY <1>5, <1>8 DEF Offering, Under, At
<1> QED
  BY <1>7, <1>11, <1>12, <1>13, <1>14 DEF IInv, Outcome

\* The switches change, or a device.
LEMMA SettingsKeep ==
    ASSUME IInv, NEW m \in BOOLEAN, NEW c \in BOOLEAN, SettingsChanged(m, c)
    PROVE  IInv'
<1>1. Core /\ Outcome /\ TypeOK
  BY DEF IInv, Core
<1>2. PICK n : n = media_generation + 1
  OBVIOUS
<1>3. PICK p : p = FirstAwait("apply", m, c)
  OBVIOUS
<1>4. /\ call = "open" /\ call' = "open" /\ mic' = m /\ cam' = c
      /\ UNCHANGED <<live, local_stream, screen_stream, audio, video, screen,
                     offered, pickers, shared, ended>>
      /\ graph' = IF m \/ c THEN graph ELSE None
      /\ Begin("apply", m, c, p)
  BY <1>3 DEF SettingsChanged, Toggled, ApplyLocalMedia, TeardownMicGraph
<1>5. /\ p \in {"capture", "audio", "screen", "offer"}
      /\ m \/ c => p = "capture"
      /\ ~(m \/ c) => p = "audio"
  BY <1>3, FirstAwaitPlaces DEF Media
<1>6. Began(n, "apply", m, c, p)
  BY <1>1, <1>2, <1>4, <1>5, BeginFacts
<1>7. Core'
  <2>1. TypeOK'
    BY <1>1, UserTypes DEF Core
  <2>2. "apply" \in Media /\ UNCHANGED <<live, shared, ended, local_stream, screen_stream>>
    BY <1>4 DEF Media
  <2> QED
    BY <1>1, <1>3, <1>4, <1>5, <2>1, <2>2, BeginCore
<1>8. /\ n \in Gens /\ ops'[n].kind = "apply" /\ ops'[n].at = p
      /\ ops'[n].mic = m /\ ops'[n].cam = c
      /\ \A g \in Gens : g # n => ops'[g] = ops[g]
      /\ \A g \in Gens : Under(g) => g < n
      /\ media_generation' = n /\ mishaps \subseteq mishaps'
      /\ "hurried" \notin mishaps' => \A g \in Gens : ~(At(g, "capture") /\ ops[g].kind = "start")
  BY <1>6 DEF Began, Only
<1>9. /\ Pending(n)'
      /\ \A g \in Gens : Pending(g)' => g = n \/ (Pending(g) /\ g < n /\ ops'[g] = ops[g])
  BY <1>5, <1>8 DEF Pending, At, Media, Under
<1>10. LatestRules'
  <2>1. \A g \in Gens : Latest(g)' => g = n
    BY <1>8, <1>9, <1>1, OpTypes DEF Latest
  <2>2. Regular({"refused", "overtaken"})' => Regular({"refused", "overtaken"})
    BY <1>4, <1>8 DEF Regular
  <2> QED
    BY <1>1, <1>4, <1>5, <1>8, <1>9, <2>1, <2>2 DEF Outcome, LatestRules, At
<1>11. Settled'
  BY <1>8, <1>9 DEF Settled
<1>12. Screens'
  <2>1. \A g \in Gens : At(g, "screen")' <=> At(g, "screen")
    BY <1>1, <1>5, <1>8, OpTypes DEF At, Under
  <2>2. \A g \in Gens : At(g, "screen") => ops'[g] = ops[g]
    BY <1>1, <1>8, OpTypes DEF At, Under
  <2>3. Regular({"refused"})' => Regular({"refused"})
    BY <1>4, <1>8 DEF Regular
  <2> QED
    BY <1>1, <1>4, <2>1, <2>2, <2>3 DEF Outcome, Screens, LastScreen
<1>13. Offering'
  <2>1. Regular({"refused", "hurried"})' => Regular({"refused", "hurried"}) /\ "hurried" \notin mishaps'
    BY <1>4, <1>8 DEF Regular
  <2>2. \A g \in Gens : Under(g) => g # n
    BY <1>1, <1>8, OpTypes
  <2> QED
    BY <1>1, <1>4, <1>8, <2>1, <2>2 DEF Outcome, Offering, Under, At
<1> QED
  BY <1>7, <1>10, <1>11, <1>12, <1>13 DEF IInv, Outcome

\* A screen share begins or ends: the newest operation agrees with the room.
LEMMA DisplayKeeps ==
    ASSUME IInv, NEW k \in {"share", "unshare"}, Begin(k, FALSE, FALSE, "screen"),
           k = "share" => live' = live \cup {media_generation + 1} /\ shared' = media_generation + 1,
           k = "unshare" => live' = live \ {shared} /\ shared' = None /\ shared # None,
           call = "open", TypeOK',
           UNCHANGED <<call, mic, cam, local_stream, screen_stream, audio, video, screen,
                       graph, offered>>
    PROVE  IInv'
<1>1. Core /\ Outcome /\ TypeOK
  BY DEF IInv, Core
<1>2. PICK n : n = media_generation + 1
  OBVIOUS
<1>3. Began(n, k, FALSE, FALSE, "screen")
  BY <1>1, <1>2, BeginFacts
<1>4. Core'
  <2>1. k \notin Media /\ k # "start"
    BY DEF Media
  <2> QED
    BY <1>1, <2>1, BeginCore
<1>5. /\ n \in Gens /\ ops'[n].kind = k /\ ops'[n].at = "screen"
      /\ \A g \in Gens : g # n => ops'[g] = ops[g]
      /\ \A g \in Gens : Under(g) => g < n /\ g # n
      /\ media_generation' = n /\ mishaps \subseteq mishaps'
      /\ "hurried" \notin mishaps' => \A g \in Gens : ~(At(g, "capture") /\ ops[g].kind = "start")
      /\ "overtaken" \notin mishaps' => \A g \in Gens : ~At(g, "capture")
  BY <1>1, <1>3, OpTypes DEF Began, Only
<1>6. LatestRules' /\ Settled'
  <2>1. CASE "overtaken" \in mishaps'
    BY <2>1 DEF LatestRules, Settled, Regular
  <2>2. CASE "overtaken" \notin mishaps'
    <3>1. \A g \in Gens : (Pending(g)' <=> Pending(g)) /\ (Pending(g) => ops'[g] = ops[g])
      BY <1>5, <2>2 DEF Pending, At, Under, Media
    <3> QED
      BY <1>1, <1>5, <3>1, MediaFrame
  <2> QED
    BY <2>1, <2>2
<1>7. Screens'
  <2>1. At(n, "screen")' /\ \A g \in Gens : LastScreen(g)' => g = n
    BY <1>1, <1>5, OpTypes DEF LastScreen, At, Under
  <2> QED
    BY <1>2, <1>5, <2>1 DEF Screens
<1>8. Offering'
  <2>1. Regular({"refused", "hurried"})' => Regular({"refused", "hurried"}) /\ "hurried" \notin mishaps'
    BY <1>5 DEF Regular
  <2> QED
    BY <1>1, <1>5, <2>1 DEF Outcome, Offering, Under, At
<1> QED
  BY <1>4, <1>6, <1>7, <1>8 DEF IInv, Outcome

\* What the invariant is about, but for the number of pickers.
LEMMA PickerFrame ==
    ASSUME IInv, TypeOK', call = "none" => pickers' = pickers,
           UNCHANGED <<call, mic, cam, media_generation, ops, chain, live, local_stream,
                       screen_stream, audio, video, screen, graph, offered, shared, ended, mishaps>>
    PROVE  IInv'
<1>1. /\ Queued' = Queued /\ \A a, b \in Gens : Ahead(a, b)' <=> Ahead(a, b)
      /\ \A g \in Gens : (Pending(g)' <=> Pending(g)) /\ (Under(g)' <=> Under(g))
  BY DEF Queued, Ahead, Pending, Under, At
<1>2. Shape' /\ Calm' /\ Apart' /\ PreviewAlive' /\ ScreenOrdered'
  BY <1>1 DEF IInv, Core, Shape, Chained, OpShape, Calm, Apart, PreviewAlive, ScreenOrdered, At
<1>3. InLine' /\ MediaOrdered' /\ StartFirst' /\ Holders' /\ CaptureOwned'
  BY <1>1 DEF IInv, Core, InLine, MediaOrdered, StartFirst, Holders, CaptureOwned, At
<1>4. LatestRules' /\ Settled'
  BY <1>1, MediaFrame DEF IInv
<1>5. Screens' /\ Offering'
  BY <1>1 DEF IInv, Outcome, Screens, Offering, Regular, LastScreen, At
<1> QED
  BY <1>2, <1>3, <1>4, <1>5 DEF IInv, Core, Outcome

\* A picker that answers after the call.
LEMMA LateKeeps ==
    ASSUME IInv, Picked, call # "open"
    PROVE  IInv'
<1> USE DEF IInv, Core, Shape
<1>1. /\ call = "closed" /\ live' = live \cup {media_generation + 1}
      /\ mishaps' = mishaps \cup {"late"}
      /\ UNCHANGED <<call, media_generation, ops, chain, local_stream, screen_stream>>
  BY DEF Picked, TypeOK, Calm
<1>2. /\ Queued' = Queued /\ \A a, b \in Gens : Ahead(a, b)' <=> Ahead(a, b)
      /\ \A g \in Gens : (Pending(g)' <=> Pending(g)) /\ (Under(g)' <=> Under(g))
  BY <1>1 DEF Queued, Ahead, Pending, Under, At
<1>3. \A g \in Gens : Under(g) => g # media_generation + 1
  BY <1>1, OpTypes DEF OpShape, TypeOK
<1>4. Shape' /\ Calm' /\ Apart' /\ PreviewAlive' /\ ScreenOrdered'
  BY <1>1, <1>2 DEF Chained, OpShape, Calm, Apart, PreviewAlive, ScreenOrdered, At
<1>5. InLine' /\ MediaOrdered' /\ StartFirst'
  BY <1>1, <1>2 DEF InLine, MediaOrdered, StartFirst, At
<1>6. Holders' /\ CaptureOwned'
  BY <1>1, <1>2, <1>3 DEF Holders, CaptureOwned, At, Under
<1> QED
  BY <1>1, <1>4, <1>5, <1>6, UserTypes, NoOutcome

\* The browser ends a display: the stream is not the preview's and not one of
\* an operation on camera and microphone.
LEMMA DisplayEndsKeeps ==
    ASSUME IInv, NEW s \in Streams, DisplayEnds(s)
    PROVE  IInv'
<1> USE DEF IInv, Core, Shape
<1>1. /\ s \in live /\ s \in Displays
      /\ live' = live \ {s} /\ ended' = ended \cup {s}
      /\ UNCHANGED <<call, mic, cam, media_generation, ops, chain, local_stream, screen_stream,
                     audio, video, screen, graph, offered, pickers, shared, mishaps>>
  BY DEF DisplayEnds, StopTracks
<1>2. TypeOK'
  BY <1>1 DEF DisplayEnds, TypeOK
<1>3. /\ Queued' = Queued /\ \A a, b \in Gens : Ahead(a, b)' <=> Ahead(a, b)
      /\ \A g \in Gens : (Pending(g)' <=> Pending(g)) /\ (Under(g)' <=> Under(g))
  BY <1>1 DEF Queued, Ahead, Pending, Under, At
<1>4. Shape' /\ Calm' /\ ScreenOrdered'
  BY <1>1, <1>3 DEF Chained, OpShape, Calm, ScreenOrdered, At
<1>5. s # None
  BY DEF Streams, None
<1>6. call = "open" => s # local_stream
  BY <1>1, <1>5 DEF Apart, Displays, Display
<1>7. call = "open" => \A g \in Gens : Under(g) /\ ops[g].kind \in Media => g # s
  BY <1>1 DEF Apart, Displays, Media
<1>8. PreviewAlive'
  BY <1>1, <1>6 DEF PreviewAlive
<1>9. Apart'
  BY <1>1, <1>3, <1>7 DEF Apart, At, OpShape
<1>10. InLine' /\ MediaOrdered' /\ StartFirst'
  BY <1>1, <1>3 DEF InLine, MediaOrdered, StartFirst, At
<1>11. Holders' /\ CaptureOwned'
  BY <1>1, <1>3 DEF Holders, CaptureOwned, At
<1>12. LatestRules' /\ Settled'
  BY <1>1, <1>3, MediaFrame
<1>13. Screens' /\ Offering'
  BY <1>1, <1>3 DEF Outcome, Screens, Offering, Regular, LastScreen, At
<1> QED
  BY <1>2, <1>4, <1>8, <1>9, <1>10, <1>11, <1>12, <1>13 DEF Outcome

\* The end of the call.
LEMMA CloseKeeps ==
    ASSUME IInv, Close
    PROVE  IInv'
<1> USE DEF IInv, Core, Shape
<1>1. /\ call = "open" /\ call' = "closed" /\ media_generation' = media_generation + 1
      /\ live' = live \ {local_stream, screen_stream}
      /\ mishaps \subseteq mishaps' /\ ("late" \in mishaps' <=> "late" \in mishaps)
      /\ "overtaken" \notin mishaps' => \A g \in Gens : ~Outlives(g)
      /\ UNCHANGED <<ops, chain, local_stream, screen_stream>>
  BY DEF Close, StopTracks
<1>2. /\ Queued' = Queued /\ \A a, b \in Gens : Ahead(a, b)' <=> Ahead(a, b)
      /\ media_generation \in Nat
  BY <1>1 DEF Queued, Ahead, TypeOK
<1>3. \A g \in Gens : Pending(g)' => Pending(g) /\ ~At(g, "capture")
  BY <1>1, <1>2, OpTypes DEF Pending, At, OpShape, Under
<1>4. \A g \in Gens : OpShape(g)'
  BY <1>1, <1>2, OpTypes DEF OpShape, Under, At
<1>5. Chained' /\ Calm' /\ Apart' /\ PreviewAlive' /\ ScreenOrdered'
  BY <1>1, <1>2 DEF Chained, Calm, Apart, PreviewAlive, ScreenOrdered, At, TypeOK, Gens, None
<1>6. InLine' /\ MediaOrdered'
  BY <1>1, <1>2, <1>3 DEF InLine, MediaOrdered, At
<1>7. StartFirst'
  BY <1>1, <1>3 DEF StartFirst, Outlives, Pending, At
<1>8. Holders'
  <2>1. "overtaken" \notin mishaps' => \A g \in Gens : ~(At(g, "video") /\ ~ops[g].cam)
    BY <1>1 DEF Outlives, OpShape, Under, At, Media
  <2> QED
    BY <1>1, <2>1 DEF Holders, At, Under
<1>9. CaptureOwned'
  BY <1>1 DEF CaptureOwned, Under
<1> QED
  BY <1>1, <1>4, <1>5, <1>6, <1>7, <1>8, <1>9, UserTypes, NoOutcome
-----------------------------------------------------------------------------
(* The invariant *)

\* Before the call nothing is under way.
LEMMA InitInv == Init => IInv
<1> SUFFICES ASSUME Init PROVE IInv
  OBVIOUS
<1>1. TypeOK
  <2>1. offered \in BOOLEAN
    BY Zenon DEF Init
  <2> QED
    BY <2>1, MaxGenAssumption, MaxPickersAssumption DEF Init, TypeOK, NoOp, Op, None
<1>2. /\ \A g \in Gens : ops[g].at = "over" /\ ~Under(g) /\ ~Pending(g)
      /\ Queued = {} /\ \A a, b \in Gens : ~Ahead(a, b)
  BY DEF Init, NoOp, Under, Pending, Queued, Ahead
<1>3. Shape /\ ScreenOrdered /\ InLine /\ MediaOrdered /\ StartFirst
  BY <1>2 DEF Shape, Chained, OpShape, ScreenOrdered, InLine, MediaOrdered, StartFirst
<1>4. Calm
  BY MaxGenAssumption DEF Init, Calm, None
<1>5. Apart /\ PreviewAlive /\ Holders /\ CaptureOwned
  BY <1>2 DEF Init, Apart, PreviewAlive, Holders, CaptureOwned, At
<1>6. Outcome
  BY DEF Init, Outcome, LatestRules, Settled, Screens, Offering, Regular
<1> QED
  BY <1>1, <1>3, <1>4, <1>5, <1>6 DEF IInv, Core

\* Every step keeps the invariant.
LEMMA StepInv == IInv /\ [Next]_vars => IInv'
<1> SUFFICES ASSUME IInv, [Next]_vars PROVE IInv'
  OBVIOUS
<1>1. TypeOK /\ Calm
  BY DEF IInv, Core
<1>2. CASE OpenPicker \/ PickerFails
  BY <1>1, <1>2, UserTypes, PickerFrame DEF OpenPicker, PickerFails, Calm, TypeOK
<1>3. CASE Picked /\ call = "open"
  <2>1. TypeOK'
    BY <1>1, <1>3, UserTypes
  <2> QED
    BY <1>3, <2>1, DisplayKeeps DEF Picked, PublishScreenShare
<1>4. CASE StopSharing
  <2>1. TypeOK'
    BY <1>1, <1>4, UserTypes
  <2> QED
    BY <1>4, <2>1, DisplayKeeps DEF StopSharing, StopScreenShare, StopTracks
<1>5. ASSUME NEW g \in Gens, Captured(g) \/ CaptureFails(g) \/ Resumed(g) PROVE IInv'
  BY <1>5, StaleKeeps, CapturedKeeps, CaptureFailsKeeps, ResumedKeeps
<1>6. CASE UNCHANGED vars
  <2>1. TypeOK'
    BY <1>1, <1>6 DEF vars, TypeOK
  <2> QED
    BY <1>6, <2>1, PickerFrame DEF vars
<1> QED
  BY <1>2, <1>3, <1>4, <1>5, <1>6, StartKeeps, SettingsKeep, LateKeeps, DisplayEndsKeeps, CloseKeeps,
     AudioKeeps, AudioFailsKeeps, VideoKeeps, VideoFailsKeeps, ScreenKeeps, ScreenFailsKeeps, OfferKeeps
     DEF Next

\* The strengthening is an invariant.
LEMMA Invariance == Spec => []IInv
  BY InitInv, StepInv, PTL DEF Spec
-----------------------------------------------------------------------------
(* Theorems *)

\* Operations, chain, streams and senders keep their types: what is previewed,
\* sent or behind the gain is a stream of an operation of the call.
THEOREM MediaTypes == Spec => []TypeOK
  BY Invariance, PTL DEF IInv, Core

\* The preview of an open call never shows a stopped stream, for any number of
\* operations, refusals included (local_stream of webrtc_room.rs).
THEOREM PreviewStaysAlive == Spec => []PreviewAlive
  BY Invariance, PTL DEF IInv, Core

\* A stream with live tracks has an owner who stops it: after the call no
\* camera, no display and no track that was sent stays on, unless an operation
\* was overtaken or a picker answered late (stop_all_tracks, close).  The
\* microphone behind a gain graph is in no stream (raw_mics), and nothing is
\* claimed about it: it stays on.
THEOREM CapturesOwned == Spec => []CaptureOwned
  BY Invariance, PTL DEF IInv, Core

\* With nothing under way the senders carry what the switches say, in whatever
\* order the captures were granted (apply_local_media).
THEOREM MutesSettle == Spec => []MuteSettles
<1>1. IInv => MuteSettles
  BY DEF IInv, Outcome, Settled, Regular, MuteSettles, Idle, Pending, Under
<1> QED
  BY <1>1, Invariance, PTL

\* The gain belongs to the microphone that is sent (mic_gain_param).
THEOREM GainsFollow == Spec => []GainFollowsMic
<1>1. IInv => GainFollowsMic
  BY DEF IInv, Outcome, Settled, Regular, GainFollowsMic, Idle, Pending, Under
<1> QED
  BY <1>1, Invariance, PTL

\* What the room shows as shared is what is sent and stored, and the client
\* itself never stopped it: only the browser ends it, which leaves a dead track
\* shown and sent (publish_screen_share, stop_screen_share).
THEOREM ScreensSettle == Spec => []ScreenSettles
<1>1. IInv => ScreenSettles
  BY DEF IInv, Outcome, Screens, Regular, ScreenSettles, Idle, Under, At
<1> QED
  BY <1>1, Invariance, PTL

\* An offer was sent once nothing is under way (send_local_offer).
THEOREM OffersSent == Spec => []OfferSent
<1>1. IInv => OfferSent
  BY DEF IInv, Outcome, Offering, Regular, OfferSent, Idle
<1> QED
  BY <1>1, Invariance, PTL
=============================================================================

-------------------------- MODULE NegotiationProofs --------------------------
(***************************************************************************)
(* Proofs about Negotiation, for any number of offers and candidates and   *)
(* any limit of backlog and channel.                                       *)
(*                                                                         *)
(* AnswerMatches is not inductive alone.  An offer is handled once         *)
(* (OffersOnce: the messages of the socket), so a thread begins without an *)
(* answer; one thread at a time is inside applyRemoteOffer                 *)
(* (OneNegotiates: the flag); and the promise is that of the thread that   *)
(* waits, with at most its own description under way (PromiseKept).        *)
(*                                                                         *)
(* Converges follows from Rounds, the one place where the last offer is,   *)
(* and CandidatesUsable from InOrder and OutOrder, the queues in which a   *)
(* description is ahead of its candidates.  Both need that the handler of  *)
(* the socket stays with its thread (Attended, Progress, Remembered).      *)
(*                                                                         *)
(* EventsExact follows from Queued and Carried, which number the           *)
(* candidates queue by queue.                                              *)
(***************************************************************************)
EXTENDS Negotiation, SequenceTheorems, TLAPS

InMessage == [kind : {"offer", "candidate"}, id : Offers]
OutMessage ==
    [kind : {"answer"}, id : Offers \cup {None}] \cup [kind : {"candidate"}, id : Events]

\* What travels on the socket.
Wire == inbox \in Seq(InMessage) /\ outbox \in Seq(OutMessage)

Busy == {"apply", "wait"}

\* An offer in the socket has no thread yet and is there once.
OffersOnce ==
    /\ \A n \in Offers : n > local => thread[n] = "none"
    /\ \A i \in 1..Len(inbox) : inbox[i].kind = "offer" =>
          /\ inbox[i].id <= local
          /\ thread[inbox[i].id] = "none"
          /\ \A j \in 1..Len(inbox) :
                inbox[j].kind = "offer" /\ inbox[j].id = inbox[i].id => j = i

\* The flag keeps every other thread out of applyRemoteOffer.
OneNegotiates ==
    /\ \A n \in Offers : thread[n] \in Busy => negotiating
    /\ \A m, n \in Offers : thread[m] \in Busy /\ thread[n] \in Busy => m = n

\* The promise belongs to the thread that waits; until a wait was given up the
\* only description under way is the one it waits for.
PromiseKept ==
    /\ \A n \in Offers : thread[n] \in {"none", "enter", "apply"} => answer[n] = None
    /\ promise # None => thread[promise] = "wait" /\ answer[promise] = None
    /\ "stuck" \notin mishaps /\ descriptions # <<>> =>
          promise # None /\ descriptions = <<promise>>
-----------------------------------------------------------------------------
(* Sequences *)

\* Head and tail of a queue that is not empty.
LEMMA TailFacts ==
    ASSUME NEW S, NEW s \in Seq(S), s # <<>>
    PROVE  /\ Len(s) \in Nat /\ Len(s) > 0
           /\ Head(s) = s[1] /\ Head(s) \in S
           /\ Tail(s) \in Seq(S) /\ Len(Tail(s)) = Len(s) - 1
           /\ \A i \in 1..Len(Tail(s)) : i + 1 \in 1..Len(s) /\ Tail(s)[i] = s[i + 1]
  OBVIOUS

\* A queue with one more element.
LEMMA AppendFacts ==
    ASSUME NEW S, NEW s \in Seq(S), NEW e \in S
    PROVE  /\ Append(s, e) \in Seq(S)
           /\ Len(Append(s, e)) = Len(s) + 1
           /\ \A i \in 1..Len(s) : Append(s, e)[i] = s[i]
           /\ Append(s, e)[Len(s) + 1] = e
  OBVIOUS

\* The constants are numbers, and no offer is None.
LEMMA ConstantTypes ==
    /\ \A n \in Offers : n \in Nat /\ n # None
    /\ None \notin Offers
    /\ MaxOffers \in Nat /\ MaxEvents \in Nat
  BY NegotiationAssumption DEF Offers, None
-----------------------------------------------------------------------------
(* Types *)

\* Initially nothing is on the wire.
LEMMA InitTypes == Init => TypeOK /\ Wire
<1> SUFFICES ASSUME Init PROVE TypeOK /\ Wire
  OBVIOUS
<1>1. /\ have_local \in BOOLEAN /\ registered \in BOOLEAN /\ alive \in BOOLEAN
      /\ negotiating \in BOOLEAN /\ subscribed \in BOOLEAN
  BY Zenon DEF Init
<1>2. /\ thread \in [Offers -> {"none", "enter", "apply", "wait", "ok", "failed"}]
      /\ answer \in [Offers -> Offers \cup {None}]
  BY DEF Init
<1> QED
  BY <1>1, <1>2, NegotiationAssumption DEF Init, TypeOK, Wire, None

Types == TypeOK /\ Wire

\* The browser's steps.
LEMMA BrowserTypes ==
    ASSUME Types,
           SendLocalOffer \/ SendIceCandidate \/ HandleRemoteSdp \/ HandleRemoteIceCandidate
    PROVE  Types'
<1> USE NegotiationAssumption
<1>1. CASE SendLocalOffer
  <2>1. local + 1 \in Offers
    BY <1>1 DEF SendLocalOffer, Types, TypeOK, Offers, None
  <2>2. Msg("offer", local + 1) \in InMessage /\ Msg("offer", local + 1) \in Message
    BY <2>1 DEF Msg, InMessage, Message, Offers
  <2>3. inbox' \in Seq(InMessage) /\ inbox' \in Seq(Message)
    BY <1>1, <2>2, AppendFacts DEF SendLocalOffer, Types, TypeOK, Wire
  <2>4. have_local' \in BOOLEAN
    BY <1>1, Zenon DEF SendLocalOffer
  <2>5. mishaps' \subseteq Mishaps
    BY <1>1 DEF SendLocalOffer, Note, If, Mishaps, Types, TypeOK
  <2> QED
    BY <1>1, <2>1, <2>3, <2>4, <2>5
       DEF SendLocalOffer, Types, TypeOK, Wire, server, delivery, peer, events
<1>2. CASE SendIceCandidate
  <2>1. local \in Offers
    BY <1>2 DEF SendIceCandidate, Types, TypeOK, Offers, None
  <2>2. Msg("candidate", local) \in InMessage /\ Msg("candidate", local) \in Message
    BY <2>1 DEF Msg, InMessage, Message, Offers
  <2>3. inbox' \in Seq(InMessage) /\ inbox' \in Seq(Message)
    BY <1>2, <2>2, AppendFacts DEF SendIceCandidate, Types, TypeOK, Wire
  <2> QED
    BY <1>2, <2>1, <2>3
       DEF SendIceCandidate, Types, TypeOK, Wire, server, delivery, peer, events
<1>3. CASE HandleRemoteSdp
  <2>1. /\ Head(outbox) \in OutMessage
        /\ outbox' \in Seq(OutMessage) /\ outbox' \in Seq(Message)
    BY <1>3, TailFacts DEF HandleRemoteSdp, Types, TypeOK, Wire
  <2>2. Head(outbox).id \in Offers \cup {None}
    BY <1>3, <2>1 DEF HandleRemoteSdp, OutMessage
  <2>3. have_local' \in BOOLEAN
    BY <1>3, Zenon DEF HandleRemoteSdp, Types, TypeOK
  <2>4. remote' \in Offers \cup {None}
    BY <1>3, <2>2 DEF HandleRemoteSdp, Types, TypeOK
  <2> QED
    BY <1>3, <2>1, <2>3, <2>4
       DEF HandleRemoteSdp, Types, TypeOK, Wire, server, delivery, peer, events
<1>4. CASE HandleRemoteIceCandidate
  <2>1. /\ Head(outbox) \in OutMessage
        /\ outbox' \in Seq(OutMessage) /\ outbox' \in Seq(Message)
    BY <1>4, TailFacts DEF HandleRemoteIceCandidate, Types, TypeOK, Wire
  <2>2. Head(outbox).id \in Events
    BY <1>4, <2>1 DEF HandleRemoteIceCandidate, OutMessage
  <2>3. got' \in Seq(Events)
    BY <1>4, <2>2, AppendFacts DEF HandleRemoteIceCandidate, Types, TypeOK
  <2>4. mishaps' \subseteq Mishaps
    BY <1>4 DEF HandleRemoteIceCandidate, Note, If, Mishaps, Types, TypeOK
  <2> QED
    BY <1>4, <2>1, <2>3, <2>4
       DEF HandleRemoteIceCandidate, Types, TypeOK, Wire, server, delivery, peer, events
<1> QED
  BY <1>1, <1>2, <1>3, <1>4

\* The handlers of the socket and the end of their call.
LEMMA SocketTypes ==
    ASSUME Types, Socket \/ Rpc
    PROVE  Types'
<1> USE NegotiationAssumption
<1>0. inbox # <<>> => /\ Head(inbox) \in InMessage
                      /\ Tail(inbox) \in Seq(InMessage) /\ Tail(inbox) \in Seq(Message)
  BY TailFacts DEF Types, TypeOK, Wire
<1>00. inbox # <<>> => Head(inbox).id \in Offers
  BY <1>0 DEF InMessage
<1>1. CASE HandleSdp
  <2>1. thread' \in [Offers -> {"none", "enter", "apply", "wait", "ok", "failed"}]
    BY <1>00, <1>1 DEF HandleSdp, Types, TypeOK
  <2> QED
    BY <1>0, <1>00, <1>1, <2>1
       DEF HandleSdp, Types, TypeOK, Wire, browser, delivery, events
<1>2. CASE RefuseSdp
  <2>1. mishaps' \subseteq Mishaps
    BY <1>2 DEF RefuseSdp, Note, Mishaps, Types, TypeOK
  <2> QED
    BY <1>0, <1>00, <1>2, <2>1
       DEF RefuseSdp, Types, TypeOK, Wire, browser, delivery, peer, events
<1>3. CASE HandleCandidate
  <2>1. mishaps' \subseteq Mishaps
    BY <1>3 DEF HandleCandidate, Note, Mishaps, Types, TypeOK
  <2> QED
    BY <1>0, <1>3, <2>1
       DEF HandleCandidate, Types, TypeOK, Wire, browser, server, delivery, peer, events
<1>4. CASE Rpc
  <2>1. mishaps' \subseteq Mishaps
    BY <1>4 DEF Rpc, ReplyAnswer, ReplyRejected, RpcTimeout, Note, Mishaps, Types, TypeOK
  <2>2. handling \in Offers
    BY <1>4 DEF Rpc, ReplyAnswer, ReplyRejected, RpcTimeout, Types, TypeOK
  <2>3. ASSUME NEW messages \in Seq(OutMessage), messages \in Seq(Message), Reply(messages)
        PROVE  Types'
    <3>1. outbox' \in Seq(OutMessage) /\ outbox' \in Seq(Message)
      BY <2>3, ConcatProperties DEF Reply, Types, TypeOK, Wire
    <3>2. handling' \in Offers \cup {None} /\ replied' \subseteq Offers
      BY <2>2, <2>3 DEF Reply, Types, TypeOK
    <3> QED
      BY <2>1, <2>3, <3>1, <3>2
         DEF Reply, Types, TypeOK, Wire, browser, delivery, peer, events
  <2>4. <<>> \in Seq(OutMessage) /\ <<>> \in Seq(Message)
    OBVIOUS
  <2>5. LET a == Msg("answer", answer[handling])
        IN <<a>> \in Seq(OutMessage) /\ <<a>> \in Seq(Message)
    <3>1. answer[handling] \in Offers \cup {None} /\ answer[handling] \in Nat
      BY <2>2 DEF Types, TypeOK, Offers, None
    <3>2. /\ Msg("answer", answer[handling]) \in OutMessage
          /\ Msg("answer", answer[handling]) \in Message
      BY <3>1 DEF Msg, OutMessage, Message
    <3> QED
      BY <3>2
  <2> QED
    BY <1>4, <2>3, <2>4, <2>5 DEF Rpc, ReplyAnswer, ReplyRejected, RpcTimeout
<1> QED
  BY <1>1, <1>2, <1>3, <1>4 DEF Socket

\* The threads of the SFU and the callbacks of the connection.
LEMMA PeerTypes ==
    ASSUME Types,
           \/ \E n \in Offers : Thread(n)
           \/ OnLocalDescription \/ RemovePeer
    PROVE  Types'
<1> USE NegotiationAssumption
<1>1. ASSUME NEW n \in Offers, EnterHandleSdp(n) PROVE Types'
  <2>1. thread' \in [Offers -> {"none", "enter", "apply", "wait", "ok", "failed"}]
    BY <1>1 DEF EnterHandleSdp, Types, TypeOK
  <2>2. negotiating' \in BOOLEAN
    BY <1>1, Zenon DEF EnterHandleSdp
  <2> QED
    BY <1>1, <2>1, <2>2
       DEF EnterHandleSdp, Types, TypeOK, Wire, browser, server, delivery, events
<1>2. ASSUME NEW n \in Offers, ApplyRemoteOffer(n) PROVE Types'
  <2>1. thread' \in [Offers -> {"none", "enter", "apply", "wait", "ok", "failed"}]
    BY <1>2 DEF ApplyRemoteOffer, Types, TypeOK
  <2>2. descriptions' \in Seq(Offers)
    BY <1>2, AppendFacts DEF ApplyRemoteOffer, Types, TypeOK
  <2> QED
    BY <1>2, <2>1, <2>2
       DEF ApplyRemoteOffer, Types, TypeOK, Wire, browser, server, delivery, events
<1>3. ASSUME NEW n \in Offers, RefuseRemoteOffer(n) PROVE Types'
  <2>1. thread' \in [Offers -> {"none", "enter", "apply", "wait", "ok", "failed"}]
    BY <1>3 DEF RefuseRemoteOffer, Types, TypeOK
  <2>2. negotiating' \in BOOLEAN
    BY <1>3, Zenon DEF RefuseRemoteOffer
  <2>3. promise' \in Offers \cup {None}
    BY <1>3 DEF RefuseRemoteOffer, Types, TypeOK
  <2> QED
    BY <1>3, <2>1, <2>2, <2>3
       DEF RefuseRemoteOffer, Types, TypeOK, Wire, browser, server, delivery, events
<1>4. ASSUME NEW n \in Offers, AnswerReady(n) PROVE Types'
  <2>1. thread' \in [Offers -> {"none", "enter", "apply", "wait", "ok", "failed"}]
    BY <1>4 DEF AnswerReady, Types, TypeOK
  <2>2. negotiating' \in BOOLEAN
    BY <1>4, Zenon DEF AnswerReady
  <2> QED
    BY <1>4, <2>1, <2>2
       DEF AnswerReady, Types, TypeOK, Wire, browser, server, delivery, events
<1>5. ASSUME NEW n \in Offers, AnswerWaitOver(n) PROVE Types'
  <2>1. thread' \in [Offers -> {"none", "enter", "apply", "wait", "ok", "failed"}]
    BY <1>5 DEF AnswerWaitOver, Types, TypeOK
  <2>2. negotiating' \in BOOLEAN
    BY <1>5, Zenon DEF AnswerWaitOver
  <2>3. promise' \in Offers \cup {None} /\ mishaps' \subseteq Mishaps
    BY <1>5 DEF AnswerWaitOver, Note, Mishaps, Types, TypeOK
  <2> QED
    BY <1>5, <2>1, <2>2, <2>3
       DEF AnswerWaitOver, Types, TypeOK, Wire, browser, server, delivery, events
<1>6. CASE OnLocalDescription
  <2>1. Head(descriptions) \in Offers /\ descriptions' \in Seq(Offers)
    BY <1>6, TailFacts DEF OnLocalDescription, Types, TypeOK
  <2>2. answer' \in [Offers -> Offers \cup {None}]
    BY <1>6, <2>1 DEF OnLocalDescription, Types, TypeOK
  <2> QED
    BY <1>6, <2>1, <2>2
       DEF OnLocalDescription, Types, TypeOK, Wire, browser, server, delivery, events
<1>7. CASE RemovePeer
  <2>1. alive' \in BOOLEAN /\ registered' \in BOOLEAN
    BY <1>7, Zenon DEF RemovePeer, Shutdown
  <2>2. /\ promise' \in Offers \cup {None} /\ descriptions' \in Seq(Offers)
        /\ mishaps' \subseteq Mishaps
    BY <1>7 DEF RemovePeer, Shutdown, Note, Mishaps, Types, TypeOK
  <2> QED
    BY <1>7, <2>1, <2>2
       DEF RemovePeer, Shutdown, Types, TypeOK, Wire, browser, server, events
<1> QED
  BY <1>1, <1>2, <1>3, <1>4, <1>5, <1>6, <1>7 DEF Thread

\* The events of the SFU on their way.
LEMMA EventTypes ==
    ASSUME Types,
           \/ EmitIceCandidate \/ RegisterSignaling \/ FlushPending \/ StreamLost
           \/ HandleSfuEvent \/ WriteOutbound
    PROVE  Types'
<1> USE NegotiationAssumption
<1>1. CASE EmitIceCandidate
  <2>1. emitted + 1 \in Events
    BY <1>1 DEF EmitIceCandidate, Types, TypeOK, Events
  <2> DEFINE e == emitted + 1
             q == Append(pending, e)
  <2>2. q \in Seq(Events) /\ Len(q) = Len(pending) + 1 /\ q # <<>>
    <3>1. pending \in Seq(Events)
      BY DEF Types, TypeOK
    <3>2. q \in Seq(Events) /\ Len(q) = Len(pending) + 1
      <4> HIDE DEF e
      <4>1. e \in Events
        BY <2>1 DEF e
      <4> QED
        BY <3>1, <4>1, AppendFacts
    <3> QED
      BY <3>1, <3>2
  <2>3. Append(stream, e) \in Seq(Events)
    <3>1. stream \in Seq(Events)
      BY DEF Types, TypeOK
    <3> QED
      BY <2>1, <3>1, AppendFacts
  <2>4. Tail(q) \in Seq(Events) /\ Len(Tail(q)) = Len(pending)
    BY <2>2, TailFacts
  <2>5. /\ stream' \in Seq(Events)
        /\ pending' \in Seq(Events) /\ Len(pending') <= MaxPending
        /\ mishaps' \subseteq Mishaps
    <3> HIDE DEF e
    <3>1. RouteEvent(e)
      BY <1>1 DEF EmitIceCandidate, e
    <3>2. mishaps' \subseteq Mishaps
      BY <3>1 DEF RouteEvent, Note, If, Mishaps, Types, TypeOK
    <3>3. CASE subscribed
      BY <2>3, <3>1, <3>2, <3>3 DEF RouteEvent, Types, TypeOK
    <3>4. CASE ~subscribed
      <4>1. stream' = stream /\ pending' = IF Len(q) > MaxPending THEN Tail(q) ELSE q
        BY <3>1, <3>4 DEF RouteEvent
      <4>2. Len(pending) \in Nat
        BY DEF Types, TypeOK
      <4> HIDE DEF q
      <4> QED
        BY <2>2, <2>4, <3>2, <4>1, <4>2 DEF Types, TypeOK
    <3> QED
      BY <3>3, <3>4
  <2> QED
    BY <1>1, <2>1, <2>5
       DEF EmitIceCandidate, Types, TypeOK, Wire, browser, server, delivery, peer
<1>2. CASE RegisterSignaling
  <2>1. subscribed' \in BOOLEAN
    BY <1>2, Zenon DEF RegisterSignaling
  <2> QED
    BY <1>2, <2>1 DEF RegisterSignaling, Types, TypeOK, Wire, browser, server, delivery, peer
<1>3. CASE FlushPending
  <2>1. Head(batch) \in Events /\ batch' \in Seq(Events)
    BY <1>3, TailFacts DEF FlushPending, Types, TypeOK
  <2>2. stream' \in Seq(Events)
    BY <1>3, <2>1, AppendFacts DEF FlushPending, Types, TypeOK
  <2> QED
    BY <1>3, <2>1, <2>2 DEF FlushPending, Types, TypeOK, Wire, browser, server, delivery, peer
<1>4. CASE StreamLost
  <2>1. alive' \in BOOLEAN /\ registered' \in BOOLEAN /\ subscribed' \in BOOLEAN
    BY <1>4, Zenon DEF StreamLost, Shutdown
  <2>2. /\ promise' \in Offers \cup {None} /\ descriptions' \in Seq(Offers)
        /\ mishaps' \subseteq Mishaps
        /\ batch' \in Seq(Events) /\ stream' \in Seq(Events)
    BY <1>4 DEF StreamLost, Shutdown, Note, Mishaps, Types, TypeOK
  <2> QED
    BY <1>4, <2>1, <2>2
       DEF StreamLost, Shutdown, Types, TypeOK, Wire, browser, server
<1>5. CASE HandleSfuEvent
  <2>1. Head(stream) \in Events /\ stream' \in Seq(Events)
    BY <1>5, TailFacts DEF HandleSfuEvent, Types, TypeOK
  <2>2. CASE DeliveryStatus = "Delivered"
    <3>1. /\ Len(outbound) < Capacity
          /\ outbound' = Append(outbound, Head(stream))
          /\ UNCHANGED <<registered, peer, mishaps>>
      BY <1>5, <2>2 DEF HandleSfuEvent, SendToPeer, DeliveryStatus
    <3>2. outbound' \in Seq(Events) /\ Len(outbound') = Len(outbound) + 1
      BY <2>1, <3>1, AppendFacts DEF Types, TypeOK
    <3>3. Len(outbound') <= Capacity
      BY <3>1, <3>2 DEF Types, TypeOK
    <3> QED
      BY <1>5, <2>1, <3>1, <3>2, <3>3
         DEF HandleSfuEvent, Types, TypeOK, Wire, browser, server, peer
  <2>3. CASE DeliveryStatus = "Missing"
    BY <1>5, <2>1, <2>3
       DEF HandleSfuEvent, SendToPeer, Types, TypeOK, Wire, browser, server, delivery, peer
  <2>4. CASE DeliveryStatus = "Stale"
    <3>0. registered' = FALSE /\ Shutdown /\ Note({"removed"}) /\ outbound' = outbound
      BY <1>5, <2>4 DEF HandleSfuEvent, SendToPeer
    <3>1. alive' \in BOOLEAN /\ registered' \in BOOLEAN
      BY <3>0, Zenon DEF Shutdown
    <3>2. /\ promise' \in Offers \cup {None} /\ descriptions' \in Seq(Offers)
          /\ outbound' = outbound
          /\ UNCHANGED <<negotiating, applied, thread, answer>>
      BY <3>0 DEF Shutdown
    <3>3. mishaps' \subseteq Mishaps
      BY <3>0 DEF Note, Mishaps, Types, TypeOK
    <3> QED
      BY <1>5, <2>1, <3>1, <3>2, <3>3
         DEF HandleSfuEvent, Types, TypeOK, Wire, browser, server
  <2> QED
    BY <1>5, <2>2, <2>3, <2>4 DEF HandleSfuEvent, SendToPeer
<1>6. CASE WriteOutbound
  <2>1. Head(outbound) \in Events /\ outbound' \in Seq(Events) /\ Len(outbound') <= Capacity
    BY <1>6, TailFacts DEF WriteOutbound, Types, TypeOK
  <2>2. /\ Msg("candidate", Head(outbound)) \in OutMessage
        /\ Msg("candidate", Head(outbound)) \in Message
    BY <2>1 DEF Msg, OutMessage, Message, Events
  <2>3. outbox' \in Seq(OutMessage) /\ outbox' \in Seq(Message)
    BY <1>6, <2>2, AppendFacts DEF WriteOutbound, Types, TypeOK, Wire
  <2>4. UNCHANGED <<browser, inbox, server, registered, peer, events, mishaps>>
    BY <1>6 DEF WriteOutbound
  <2>5. Wire'
    BY <2>3, <2>4 DEF Types, Wire
  <2>6. TypeOK'
    BY <2>1, <2>3, <2>4 DEF Types, TypeOK, browser, server, peer, events
  <2> QED
    BY <2>5, <2>6 DEF Types
<1> QED
  BY <1>1, <1>2, <1>3, <1>4, <1>5, <1>6

\* Every step keeps the types and what may travel.
LEMMA StepTypes == Types /\ [Next]_vars => Types'
<1> SUFFICES ASSUME Types, [Next]_vars PROVE Types'
  OBVIOUS
<1>1. CASE UNCHANGED vars
  BY <1>1 DEF vars, Types, TypeOK, Wire, browser, server, delivery, peer, events
<1> QED
  BY <1>1, BrowserTypes, SocketTypes, PeerTypes, EventTypes DEF Next
-----------------------------------------------------------------------------
(* An offer is handled once *)

\* The socket takes its next message; a thread begins for an offer at most.
LEMMA QueueTail ==
    ASSUME Types, OffersOnce, inbox # <<>>, inbox' = Tail(inbox), local' = local,
           \/ thread' = thread
           \/ /\ Head(inbox).kind = "offer"
              /\ thread' = [thread EXCEPT ![Head(inbox).id] = "enter"]
    PROVE  OffersOnce'
<1>1. /\ Len(inbox) \in Nat /\ Len(inbox) > 0 /\ Len(inbox') = Len(inbox) - 1
      /\ Head(inbox) = inbox[1] /\ Head(inbox) \in InMessage
      /\ \A i \in 1..Len(inbox') : i + 1 \in 1..Len(inbox) /\ inbox'[i] = inbox[i + 1]
  BY TailFacts DEF Types, Wire
<1>2. 1 \in 1..Len(inbox) /\ Head(inbox).id \in Offers
  BY <1>1 DEF InMessage
<1>3. ASSUME NEW n \in Offers, ~(Head(inbox).kind = "offer" /\ Head(inbox).id = n)
      PROVE  thread'[n] = thread[n]
  BY <1>3 DEF Types, TypeOK
<1>4. ASSUME NEW n \in Offers, n > local'
      PROVE  thread'[n] = "none"
  <2>1. Head(inbox).kind = "offer" => Head(inbox).id <= local
    BY <1>1, <1>2 DEF OffersOnce
  <2>2. n \in Nat /\ local \in Nat
    BY ConstantTypes DEF Types, TypeOK, None, Offers
  <2> QED
    BY <1>2, <1>3, <1>4, <2>1, <2>2, ConstantTypes DEF OffersOnce
<1>5. ASSUME NEW i \in 1..Len(inbox'), inbox'[i].kind = "offer"
      PROVE  /\ inbox'[i].id <= local'
             /\ thread'[inbox'[i].id] = "none"
             /\ \A j \in 1..Len(inbox') :
                  inbox'[j].kind = "offer" /\ inbox'[j].id = inbox'[i].id => j = i
  <2>1. i + 1 \in 1..Len(inbox) /\ inbox'[i] = inbox[i + 1] /\ i + 1 # 1
    BY <1>1
  <2>2. inbox[i + 1] \in InMessage
    BY <2>1 DEF Types, Wire
  <2>3. inbox[i + 1].id \in Offers
    BY <2>2 DEF InMessage
  <2>4. ~(Head(inbox).kind = "offer" /\ Head(inbox).id = inbox[i + 1].id)
    BY <1>1, <1>2, <1>5, <2>1 DEF OffersOnce
  <2>5. thread'[inbox[i + 1].id] = "none" /\ inbox[i + 1].id <= local
    BY <1>3, <1>5, <2>1, <2>3, <2>4 DEF OffersOnce
  <2>6. ASSUME NEW j \in 1..Len(inbox'), inbox'[j].kind = "offer",
               inbox'[j].id = inbox'[i].id
        PROVE  j = i
    <3>1. j + 1 \in 1..Len(inbox) /\ inbox'[j] = inbox[j + 1]
      BY <1>1
    <3>2. j + 1 = i + 1
      BY <1>5, <2>1, <2>6, <3>1 DEF OffersOnce
    <3> QED
      BY <1>1, <3>2
  <2> QED
    BY <2>1, <2>5, <2>6
<1> QED
  BY <1>4, <1>5 DEF OffersOnce

\* The browser sends; only an offer it has just numbered is new.
LEMMA QueueAppend ==
    ASSUME Types, OffersOnce, NEW m \in InMessage, inbox' = Append(inbox, m),
           thread' = thread, local' \in Nat, local <= local',
           m.kind = "offer" => local < m.id /\ m.id <= local'
    PROVE  OffersOnce'
<1>1. /\ Len(inbox) \in Nat /\ Len(inbox') = Len(inbox) + 1
      /\ \A i \in 1..Len(inbox) : inbox'[i] = inbox[i]
      /\ inbox'[Len(inbox) + 1] = m
  BY AppendFacts DEF Types, Wire
<1>2. local \in Nat /\ \A n \in Offers : n \in Nat
  BY ConstantTypes DEF Types, TypeOK, None
<1>3. ASSUME NEW i \in 1..Len(inbox) PROVE inbox[i].id \in Nat
  <2>1. inbox[i] \in InMessage
    BY DEF Types, Wire
  <2> QED
    BY <1>2, <2>1 DEF InMessage
<1>4. m.id \in Offers
  BY DEF InMessage
<1>5. \A n \in Offers : n > local' => thread'[n] = "none"
  BY <1>2 DEF OffersOnce
<1>6. ASSUME NEW i \in 1..Len(inbox'), inbox'[i].kind = "offer"
      PROVE  /\ inbox'[i].id <= local'
             /\ thread'[inbox'[i].id] = "none"
             /\ \A j \in 1..Len(inbox') :
                  inbox'[j].kind = "offer" /\ inbox'[j].id = inbox'[i].id => j = i
  <2>1. CASE i = Len(inbox) + 1
    <3>1. thread[m.id] = "none" /\ inbox'[i] = m
      BY <1>1, <1>2, <1>4, <1>6, <2>1 DEF OffersOnce
    <3>2. ASSUME NEW j \in 1..Len(inbox), inbox[j].kind = "offer"
          PROVE  inbox[j].id # m.id
      BY <1>2, <1>3, <1>4, <1>6, <3>1, <3>2 DEF OffersOnce
    <3> QED
      BY <1>1, <1>6, <2>1, <3>1, <3>2
  <2>2. CASE i \in 1..Len(inbox)
    <3>1. /\ inbox'[i] = inbox[i] /\ inbox[i].id <= local /\ inbox[i].id \in Nat
          /\ thread[inbox[i].id] = "none"
      BY <1>1, <1>3, <1>6, <2>2 DEF OffersOnce
    <3>2. ASSUME NEW j \in 1..Len(inbox'), inbox'[j].kind = "offer",
                 inbox'[j].id = inbox'[i].id
          PROVE  j = i
      <4>1. CASE j = Len(inbox) + 1
        BY <1>1, <1>2, <1>4, <3>1, <3>2, <4>1
      <4>2. CASE j \in 1..Len(inbox)
        BY <1>1, <1>6, <2>2, <3>1, <3>2, <4>2 DEF OffersOnce
      <4> QED
        BY <1>1, <4>1, <4>2
    <3> QED
      BY <1>2, <3>1, <3>2
  <2> QED
    BY <1>1, <2>1, <2>2
<1> QED
  BY <1>5, <1>6 DEF OffersOnce

\* A thread that has begun belongs to no offer in the socket.
LEMMA ThreadMoves ==
    ASSUME Types, OffersOnce, UNCHANGED <<inbox, local>>, NEW n \in Offers, NEW at,
           thread[n] # "none", thread' = [thread EXCEPT ![n] = at]
    PROVE  OffersOnce'
<1>1. \A k \in Offers : k # n => thread'[k] = thread[k]
  BY DEF Types, TypeOK
<1>2. ASSUME NEW i \in 1..Len(inbox) PROVE inbox[i].id \in Offers
  <2>1. inbox[i] \in InMessage
    BY DEF Types, Wire
  <2> QED
    BY <2>1 DEF InMessage
<1> QED
  BY <1>1, <1>2 DEF OffersOnce

\* Every step keeps the offers of the socket without a thread, and there once.
LEMMA OffersStep ==
    ASSUME Types, OffersOnce, [Next]_vars
    PROVE  OffersOnce'
<1>1. CASE SendLocalOffer
  <2>1. local + 1 \in Offers /\ local \in Nat
    BY <1>1, NegotiationAssumption DEF SendLocalOffer, Types, TypeOK, Offers, None
  <2>2. /\ Msg("offer", local + 1) \in InMessage
        /\ Msg("offer", local + 1).id = local + 1
    BY <2>1 DEF Msg, InMessage
  <2> QED
    BY <1>1, <2>1, <2>2, QueueAppend DEF SendLocalOffer, peer
<1>2. CASE SendIceCandidate
  <2>1. local \in Offers /\ local \in Nat
    BY <1>2, NegotiationAssumption DEF SendIceCandidate, Types, TypeOK, Offers, None
  <2>2. /\ Msg("candidate", local) \in InMessage
        /\ Msg("candidate", local).kind = "candidate"
    BY <2>1 DEF Msg, InMessage
  <2> QED
    BY <1>2, <2>1, <2>2, QueueAppend DEF SendIceCandidate, peer
<1>3. CASE Socket
  BY <1>3, QueueTail DEF Socket, HandleSdp, RefuseSdp, HandleCandidate, browser, peer
<1>4. ASSUME NEW n \in Offers, Thread(n) PROVE OffersOnce'
  <2>1. thread[n] # "none" /\ UNCHANGED <<inbox, local>>
    BY <1>4 DEF Thread, EnterHandleSdp, ApplyRemoteOffer, RefuseRemoteOffer, AnswerReady,
                AnswerWaitOver, browser
  <2>2. \E at : thread' = [thread EXCEPT ![n] = at]
    BY <1>4 DEF Thread, EnterHandleSdp, ApplyRemoteOffer, RefuseRemoteOffer, AnswerReady,
                AnswerWaitOver
  <2> QED
    BY <2>1, <2>2, ThreadMoves
<1>5. CASE UNCHANGED <<inbox, local, thread>>
  BY <1>5 DEF OffersOnce
<1>6. \/ HandleRemoteSdp \/ HandleRemoteIceCandidate \/ Rpc
      \/ OnLocalDescription \/ RemovePeer
      \/ EmitIceCandidate \/ RegisterSignaling \/ FlushPending \/ StreamLost
      \/ HandleSfuEvent \/ WriteOutbound \/ UNCHANGED vars
      => UNCHANGED <<inbox, local, thread>>
  BY DEF HandleRemoteSdp, HandleRemoteIceCandidate, Rpc, ReplyAnswer, ReplyRejected, RpcTimeout,
         Reply, OnLocalDescription, RemovePeer, Shutdown, EmitIceCandidate, RegisterSignaling,
         FlushPending, StreamLost, HandleSfuEvent, SendToPeer, WriteOutbound, vars, browser, peer
<1> QED
  BY <1>1, <1>2, <1>3, <1>4, <1>5, <1>6 DEF Next
-----------------------------------------------------------------------------
(* The promise and its description *)

PeerInv == OneNegotiates /\ PromiseKept /\ AnswerMatches

\* Steps that leave the threads and the promise alone.
LEMMA PeerFrame ==
    ASSUME PeerInv, mishaps \subseteq mishaps',
           UNCHANGED <<negotiating, promise, descriptions, thread, answer>>
    PROVE  PeerInv'
  BY DEF PeerInv, OneNegotiates, PromiseKept, AnswerMatches

\* The connection goes, and with it the promise and every description.
LEMMA ShutdownKeeps ==
    ASSUME PeerInv, mishaps \subseteq mishaps', Shutdown
    PROVE  PeerInv'
  BY DEF PeerInv, OneNegotiates, PromiseKept, AnswerMatches, Shutdown

\* The five steps of a HandleSDP thread; the flag lets one of them in.
LEMMA ThreadKeeps ==
    ASSUME Types, PeerInv, NEW n \in Offers, Thread(n)
    PROVE  PeerInv'
<1> USE ConstantTypes
<1>0. /\ promise \in Offers \cup {None} /\ descriptions \in Seq(Offers)
      /\ negotiating \in BOOLEAN
      /\ thread \in [Offers -> {"none", "enter", "apply", "wait", "ok", "failed"}]
      /\ answer \in [Offers -> Offers \cup {None}]
  BY DEF Types, TypeOK
<1>1. CASE EnterHandleSdp(n)
  <2>1. /\ thread[n] = "enter"
        /\ UNCHANGED <<promise, descriptions, answer, mishaps>>
        /\ \A k \in Offers : k # n => thread'[k] = thread[k]
        /\ negotiating => negotiating'
        /\ \/ thread'[n] = "failed"
           \/ thread'[n] = "apply" /\ ~negotiating /\ negotiating'
    BY <1>0, <1>1 DEF EnterHandleSdp
  <2>2. OneNegotiates'
    BY <2>1 DEF PeerInv, OneNegotiates, Busy
  <2>3. PromiseKept' /\ AnswerMatches'
    BY <1>0, <2>1 DEF PeerInv, PromiseKept, AnswerMatches
  <2> QED
    BY <2>2, <2>3 DEF PeerInv
<1>2. CASE ApplyRemoteOffer(n)
  <2>1. /\ thread[n] = "apply"
        /\ promise' = n /\ descriptions' = Append(descriptions, n)
        /\ UNCHANGED <<negotiating, answer, mishaps>>
        /\ \A k \in Offers : k # n => thread'[k] = thread[k]
        /\ thread'[n] = "wait"
    BY <1>0, <1>2 DEF ApplyRemoteOffer
  <2>2. OneNegotiates'
    BY <2>1 DEF PeerInv, OneNegotiates, Busy
  <2>3. promise = None
    BY <1>0, <2>1 DEF PeerInv, OneNegotiates, PromiseKept, Busy
  <2>4. "stuck" \notin mishaps => descriptions = <<>>
    BY <2>3 DEF PeerInv, PromiseKept
  <2>5. "stuck" \notin mishaps' => descriptions' = <<n>>
    BY <1>0, <2>1, <2>4
  <2>6. PromiseKept' /\ AnswerMatches'
    BY <2>1, <2>5 DEF PeerInv, PromiseKept, AnswerMatches
  <2> QED
    BY <2>2, <2>6 DEF PeerInv
<1>3. CASE RefuseRemoteOffer(n)
  <2>1. /\ thread[n] = "apply"
        /\ promise' \in {None, promise}
        /\ UNCHANGED <<descriptions, answer, mishaps>>
        /\ \A k \in Offers : k # n => thread'[k] = thread[k]
        /\ thread'[n] = "failed"
    BY <1>0, <1>3 DEF RefuseRemoteOffer
  <2>2. OneNegotiates'
    BY <2>1 DEF PeerInv, OneNegotiates, Busy
  <2>3. promise = None
    BY <1>0, <2>1 DEF PeerInv, OneNegotiates, PromiseKept, Busy
  <2>4. PromiseKept' /\ AnswerMatches'
    BY <2>1, <2>3 DEF PeerInv, PromiseKept, AnswerMatches
  <2> QED
    BY <2>2, <2>4 DEF PeerInv
<1>4. CASE AnswerReady(n)
  <2>1. /\ thread[n] = "wait" /\ answer[n] # None
        /\ UNCHANGED <<promise, descriptions, answer, mishaps>>
        /\ \A k \in Offers : k # n => thread'[k] = thread[k]
        /\ thread'[n] = "ok"
    BY <1>0, <1>4 DEF AnswerReady
  <2>2. OneNegotiates'
    BY <2>1 DEF PeerInv, OneNegotiates, Busy
  <2>3. PromiseKept' /\ AnswerMatches'
    BY <1>0, <2>1 DEF PeerInv, PromiseKept, AnswerMatches
  <2> QED
    BY <2>2, <2>3 DEF PeerInv
<1>5. CASE AnswerWaitOver(n)
  <2>1. /\ thread[n] = "wait" /\ promise' = None /\ "stuck" \in mishaps'
        /\ UNCHANGED <<descriptions, answer>>
        /\ \A k \in Offers : k # n => thread'[k] = thread[k]
        /\ thread'[n] = "failed"
    BY <1>0, <1>5 DEF AnswerWaitOver, Note
  <2>2. OneNegotiates'
    BY <2>1 DEF PeerInv, OneNegotiates, Busy
  <2>3. PromiseKept' /\ AnswerMatches'
    BY <2>1 DEF PeerInv, PromiseKept, AnswerMatches
  <2> QED
    BY <2>2, <2>3 DEF PeerInv
<1> QED
  BY <1>1, <1>2, <1>3, <1>4, <1>5 DEF Thread

\* The description the connection made is the one the promise waits for.
LEMMA DescriptionKeeps ==
    ASSUME Types, PeerInv, OnLocalDescription
    PROVE  PeerInv'
<1>0. /\ promise \in Offers \cup {None} /\ descriptions \in Seq(Offers)
      /\ answer \in [Offers -> Offers \cup {None}]
  BY DEF Types, TypeOK
<1>1. /\ descriptions # <<>> /\ descriptions' = Tail(descriptions) /\ promise' = None
      /\ UNCHANGED <<negotiating, thread, mishaps>>
      /\ promise = None => answer' = answer
      /\ promise # None =>
           /\ \A k \in Offers : k # promise => answer'[k] = answer[k]
           /\ answer'[promise] = Head(descriptions)
  BY <1>0 DEF OnLocalDescription
<1>2. "stuck" \notin mishaps => promise # None /\ descriptions = <<promise>>
  BY <1>1 DEF PeerInv, PromiseKept
<1>3. OneNegotiates'
  BY <1>1 DEF PeerInv, OneNegotiates
<1>4. "stuck" \notin mishaps => descriptions' = <<>> /\ answer'[promise] = promise
  <2> SUFFICES ASSUME "stuck" \notin mishaps
               PROVE  descriptions' = <<>> /\ answer'[promise] = promise
    OBVIOUS
  <2>1. promise \in Offers /\ descriptions = <<promise>>
    BY <1>0, <1>2
  <2>2. Tail(<<promise>>) = <<>> /\ Head(<<promise>>) = promise
    BY <2>1
  <2> QED
    BY <1>1, <1>2, <2>1, <2>2
<1>5. PromiseKept'
  BY <1>0, <1>1, <1>4 DEF PeerInv, PromiseKept
<1>6. AnswerMatches'
  BY <1>0, <1>1, <1>4 DEF PeerInv, AnswerMatches
<1> QED
  BY <1>3, <1>5, <1>6 DEF PeerInv

\* The thread of an offer begins.
LEMMA BeginKeeps ==
    ASSUME Types, OffersOnce, PeerInv, HandleSdp
    PROVE  PeerInv'
<1> DEFINE n == Head(inbox).id
<1>1. /\ 1 \in 1..Len(inbox) /\ Head(inbox) = inbox[1] /\ Head(inbox) \in InMessage
      /\ Head(inbox).kind = "offer"
  BY TailFacts DEF HandleSdp, Types, Wire
<1>2. n \in Offers /\ thread[n] = "none"
  BY <1>1 DEF OffersOnce, InMessage
<1>3. /\ \A k \in Offers : k # n => thread'[k] = thread[k]
      /\ thread'[n] = "enter"
      /\ UNCHANGED <<negotiating, promise, descriptions, answer, mishaps>>
  BY <1>2 DEF HandleSdp, Types, TypeOK
<1>4. promise \in Offers \cup {None}
  BY DEF Types, TypeOK
<1> HIDE DEF n
<1>5. OneNegotiates'
  BY <1>2, <1>3 DEF PeerInv, OneNegotiates, Busy
<1>6. PromiseKept' /\ AnswerMatches'
  BY <1>2, <1>3, <1>4 DEF PeerInv, PromiseKept, AnswerMatches
<1> QED
  BY <1>5, <1>6 DEF PeerInv

\* Every step keeps flag, promise and answers together.
LEMMA PeerStep ==
    ASSUME Types, OffersOnce, PeerInv, [Next]_vars
    PROVE  PeerInv'
<1>1. \/ SendLocalOffer \/ SendIceCandidate \/ HandleRemoteSdp \/ HandleRemoteIceCandidate
      \/ RefuseSdp \/ HandleCandidate \/ Rpc
      \/ EmitIceCandidate \/ RegisterSignaling \/ FlushPending \/ WriteOutbound
      \/ UNCHANGED vars
      => /\ mishaps \subseteq mishaps'
         /\ UNCHANGED <<negotiating, promise, descriptions, thread, answer>>
  BY DEF SendLocalOffer, SendIceCandidate, HandleRemoteSdp, HandleRemoteIceCandidate,
         RefuseSdp, HandleCandidate, Rpc, ReplyAnswer, ReplyRejected, RpcTimeout, Reply,
         EmitIceCandidate, RouteEvent, RegisterSignaling, FlushPending, WriteOutbound,
         vars, peer, Note
<1>2. RemovePeer \/ StreamLost => Shutdown /\ mishaps \subseteq mishaps'
  BY DEF RemovePeer, StreamLost, Note
<1>3. HandleSfuEvent =>
        /\ mishaps \subseteq mishaps'
        /\ Shutdown \/ UNCHANGED <<negotiating, promise, descriptions, thread, answer>>
  BY DEF HandleSfuEvent, SendToPeer, Note, peer
<1> QED
  BY <1>1, <1>2, <1>3, PeerFrame, ShutdownKeeps, ThreadKeeps, DescriptionKeeps, BeginKeeps
     DEF Next, Socket
-----------------------------------------------------------------------------
(* The handler and its thread *)

\* Nothing of what the browser asked has failed so far.
Calm == mishaps \cap {"timeout", "refused"} = {}

\* A thread ends well with an answer, an answer is a description the connection
\* has made, and there is no candidate before one.
Progress ==
    /\ \A n \in Offers : thread[n] = "ok" => answer[n] # None
    /\ \A n \in Offers : answer[n] # None => applied # None
    /\ "stuck" \notin mishaps /\ applied # None => \E n \in Offers : answer[n] # None
    /\ applied = None => outbound = <<>> /\ stream = <<>> /\ batch = <<>> /\ pending = <<>>

\* Until a call timed out or was refused, the handler of the socket waits for
\* every thread that is not through, and for the one that gave up its wait.
Attended ==
    Calm => /\ \A n \in Offers :
                 thread[n] \in {"enter", "apply", "wait", "failed"} => handling = n
            /\ "stuck" \in mishaps => handling # None /\ thread[handling] = "failed"

\* The history only grows.
LEMMA MishapsGrow ==
    ASSUME [Next]_vars
    PROVE  mishaps \subseteq mishaps'
  BY DEF Next, vars, SendLocalOffer, SendIceCandidate, HandleRemoteSdp, HandleRemoteIceCandidate,
         Socket, HandleSdp, RefuseSdp, HandleCandidate, Rpc, ReplyAnswer, ReplyRejected, RpcTimeout,
         Thread, EnterHandleSdp, ApplyRemoteOffer, RefuseRemoteOffer, AnswerReady, AnswerWaitOver,
         OnLocalDescription, RemovePeer, EmitIceCandidate, RouteEvent, RegisterSignaling,
         FlushPending, StreamLost, HandleSfuEvent, SendToPeer, WriteOutbound, Note

\* What a step of the thread of offer n does to the threads.
LEMMA ThreadFacts ==
    ASSUME Types, NEW n \in Offers, Thread(n)
    PROVE  /\ thread[n] \in {"enter", "apply", "wait"}
           /\ \A k \in Offers : k # n => thread'[k] = thread[k]
           /\ thread'[n] \in {"apply", "wait", "failed", "ok"}
           /\ thread'[n] = "ok" => answer[n] # None
           /\ "stuck" \in mishaps' => "stuck" \in mishaps \/ thread'[n] = "failed"
           /\ UNCHANGED <<local, have_local, remote, inbox, outbox, handling, outbound, alive,
                          applied, answer, stream, batch, pending>>
<1>1. thread \in [Offers -> {"none", "enter", "apply", "wait", "ok", "failed"}]
  BY DEF Types, TypeOK
<1>2. \/ EnterHandleSdp(n) \/ ApplyRemoteOffer(n) \/ RefuseRemoteOffer(n)
      \/ AnswerReady(n) \/ AnswerWaitOver(n)
  BY DEF Thread
<1> QED
  BY <1>1, <1>2
     DEF EnterHandleSdp, ApplyRemoteOffer, RefuseRemoteOffer, AnswerReady, AnswerWaitOver, Note,
         browser, server, delivery, events

\* What the beginning of a handler does: the offer at the head gets its thread.
LEMMA BeginFacts ==
    ASSUME Types, OffersOnce, HandleSdp
    PROVE  /\ handling = None /\ handling' \in Offers
           /\ 1 \in 1..Len(inbox) /\ inbox[1].kind = "offer" /\ inbox[1].id = handling'
           /\ thread[handling'] = "none" /\ thread'[handling'] = "enter"
           /\ \A k \in Offers : k # handling' => thread'[k] = thread[k]
           /\ Len(inbox) \in Nat /\ Len(inbox') = Len(inbox) - 1
           /\ \A i \in 1..Len(inbox') : i + 1 \in 1..Len(inbox) /\ inbox'[i] = inbox[i + 1]
           /\ UNCHANGED <<local, have_local, remote, outbox, outbound, alive, applied, answer,
                          stream, batch, pending, mishaps>>
<1>1. /\ Len(inbox) \in Nat /\ Len(inbox) > 0 /\ Len(inbox') = Len(inbox) - 1
      /\ Head(inbox) = inbox[1] /\ Head(inbox) \in InMessage
      /\ \A i \in 1..Len(inbox') : i + 1 \in 1..Len(inbox) /\ inbox'[i] = inbox[i + 1]
  BY TailFacts DEF HandleSdp, Types, Wire
<1>2. 1 \in 1..Len(inbox) /\ inbox[1].kind = "offer" /\ inbox[1].id = handling'
  BY <1>1 DEF HandleSdp
<1>3. handling' \in Offers /\ thread[handling'] = "none"
  BY <1>1, <1>2 DEF OffersOnce, InMessage
<1> QED
  BY <1>1, <1>2, <1>3 DEF HandleSdp, Types, TypeOK, browser, delivery, events

\* Every step keeps answers behind descriptions and candidates behind answers.
LEMMA ProgressStep ==
    ASSUME Types, OffersOnce, PeerInv, Progress, [Next]_vars
    PROVE  Progress'
<1>0. mishaps \subseteq mishaps'
  BY MishapsGrow
<1>1. CASE UNCHANGED <<applied, answer, thread>>
           /\ (applied = None =>
                 outbound' = <<>> /\ stream' = <<>> /\ batch' = <<>> /\ pending' = <<>>)
  BY <1>0, <1>1 DEF Progress
<1>2. ASSUME NEW n \in Offers, Thread(n) PROVE Progress'
  BY <1>0, <1>2, ThreadFacts DEF Progress
<1>3. CASE HandleSdp
  BY <1>0, <1>3, BeginFacts DEF Progress
<1>4. CASE OnLocalDescription
  <2>1. /\ promise \in Offers \cup {None} /\ answer \in [Offers -> Offers \cup {None}]
        /\ Head(descriptions) \in Offers
    BY <1>4, TailFacts DEF OnLocalDescription, Types, TypeOK
  <2>2. /\ UNCHANGED <<thread, mishaps, outbound, stream, batch, pending>>
        /\ applied' = Head(descriptions) /\ applied' # None
        /\ promise = None => answer' = answer
        /\ promise # None => answer'[promise] # None
        /\ \A n \in Offers : answer[n] # None => answer'[n] # None
    BY <1>4, <2>1, ConstantTypes DEF OnLocalDescription, delivery, events
  <2>3. "stuck" \notin mishaps => promise # None
    BY <1>4 DEF OnLocalDescription, PeerInv, PromiseKept
  <2> QED
    BY <2>1, <2>2, <2>3 DEF Progress
<1>5. CASE HandleSfuEvent
  <2>1. stream # <<>> /\ UNCHANGED <<applied, answer, thread>>
    BY <1>5 DEF HandleSfuEvent, SendToPeer, Shutdown, peer
  <2> QED
    BY <1>1, <2>1 DEF Progress
<1>6. \/ SendLocalOffer \/ SendIceCandidate \/ HandleRemoteSdp \/ HandleRemoteIceCandidate
      \/ RefuseSdp \/ HandleCandidate \/ Rpc \/ RemovePeer
      \/ EmitIceCandidate \/ RegisterSignaling \/ FlushPending \/ StreamLost \/ WriteOutbound
      \/ UNCHANGED vars
      => UNCHANGED <<applied, answer, thread>>
  BY DEF SendLocalOffer, SendIceCandidate, HandleRemoteSdp, HandleRemoteIceCandidate,
         RefuseSdp, HandleCandidate, Rpc, ReplyAnswer, ReplyRejected, RpcTimeout, Reply,
         RemovePeer, Shutdown, EmitIceCandidate, RegisterSignaling, FlushPending, StreamLost,
         WriteOutbound, vars, peer
<1>7. \/ SendLocalOffer \/ SendIceCandidate \/ HandleRemoteSdp \/ HandleRemoteIceCandidate
      \/ RefuseSdp \/ HandleCandidate \/ Rpc \/ RemovePeer
      \/ EmitIceCandidate \/ RegisterSignaling \/ FlushPending \/ StreamLost \/ WriteOutbound
      \/ UNCHANGED vars
      => (applied = None =>
            outbound' = <<>> /\ stream' = <<>> /\ batch' = <<>> /\ pending' = <<>>)
  BY DEF SendLocalOffer, SendIceCandidate, HandleRemoteSdp, HandleRemoteIceCandidate,
         RefuseSdp, HandleCandidate, Rpc, ReplyAnswer, ReplyRejected, RpcTimeout, Reply,
         RemovePeer, Shutdown, EmitIceCandidate, RegisterSignaling, FlushPending, StreamLost,
         WriteOutbound, vars, delivery, events, Progress
<1> QED
  BY <1>1, <1>2, <1>3, <1>4, <1>5, <1>6, <1>7 DEF Next, Socket

\* Every step keeps the handler at its thread.
LEMMA AttendedStep ==
    ASSUME Types, OffersOnce, Attended, [Next]_vars
    PROVE  Attended'
<1>0. mishaps \subseteq mishaps' /\ (Calm' => Calm)
  BY MishapsGrow DEF Calm
<1>1. CASE UNCHANGED <<thread, handling>> /\ ("stuck" \in mishaps' => "stuck" \in mishaps)
  BY <1>0, <1>1 DEF Attended
<1>2. ASSUME NEW n \in Offers, Thread(n) PROVE Attended'
  <2>1. n # None
    BY ConstantTypes
  <2> QED
    BY <1>0, <1>2, <2>1, ThreadFacts DEF Attended
<1>3. CASE HandleSdp
  BY <1>0, <1>3, BeginFacts, ConstantTypes DEF Attended
<1>4. CASE ReplyAnswer
  BY <1>0, <1>4 DEF Attended, ReplyAnswer, Reply, peer
<1>5. CASE ReplyRejected \/ RpcTimeout
  BY <1>5 DEF Attended, Calm, ReplyRejected, RpcTimeout, Note
<1>6. \/ SendLocalOffer \/ SendIceCandidate \/ HandleRemoteSdp \/ HandleRemoteIceCandidate
      \/ RefuseSdp \/ HandleCandidate \/ OnLocalDescription \/ RemovePeer
      \/ EmitIceCandidate \/ RegisterSignaling \/ FlushPending \/ StreamLost
      \/ HandleSfuEvent \/ WriteOutbound
      \/ UNCHANGED vars
      => UNCHANGED <<thread, handling>> /\ ("stuck" \in mishaps' => "stuck" \in mishaps)
  BY DEF SendLocalOffer, SendIceCandidate, HandleRemoteSdp, HandleRemoteIceCandidate,
         RefuseSdp, HandleCandidate, OnLocalDescription, RemovePeer, Shutdown, EmitIceCandidate,
         RouteEvent, RegisterSignaling, FlushPending, StreamLost, HandleSfuEvent, SendToPeer,
         WriteOutbound, vars, peer, server, Note, If
<1> QED
  BY <1>1, <1>2, <1>3, <1>4, <1>5, <1>6 DEF Next, Socket, Rpc
-----------------------------------------------------------------------------
(* Offer and answer take turns *)

OfferIn(n) == \E i \in 1..Len(inbox) : inbox[i].kind = "offer" /\ inbox[i].id = n
AnswerOut == \E i \in 1..Len(outbox) : outbox[i].kind = "answer"

\* No offer got an error, and none was sent while another was unanswered.
Clean == mishaps \cap {"overlap", "timeout", "refused"} = {}

\* An answer in the socket answers something; the browser that has no offer out
\* has set an answer to an earlier one.
Remembered ==
    /\ \A i \in 1..Len(outbox) : outbox[i].kind = "answer" =>
          outbox[i].id # None /\ local # None
    /\ ~have_local /\ local # None => remote # None

\* The last offer is in one place: in the socket, with the handler, or as its
\* answer in the socket; else the browser has set the answer.
Rounds ==
    Clean =>
      /\ \A i \in 1..Len(inbox) : inbox[i].kind = "offer" =>
            have_local /\ inbox[i].id = local /\ handling = None /\ ~AnswerOut
      /\ handling # None => have_local /\ handling = local /\ ~AnswerOut
      /\ \A i \in 1..Len(outbox) : outbox[i].kind = "answer" =>
            /\ have_local /\ outbox[i].id = local
            /\ \A j \in 1..Len(outbox) : outbox[j].kind = "answer" => j = i
      /\ have_local => OfferIn(local) \/ handling # None \/ AnswerOut
      /\ ~have_local => remote = local

\* The browser takes a message off the socket.
LEMMA TakeFacts ==
    ASSUME Types, outbox # <<>>, outbox' = Tail(outbox)
    PROVE  /\ Len(outbox) \in Nat /\ Len(outbox') = Len(outbox) - 1
           /\ 1 \in 1..Len(outbox) /\ Head(outbox) = outbox[1]
           /\ \A i \in 1..Len(outbox') : i + 1 \in 1..Len(outbox) /\ outbox'[i] = outbox[i + 1]
           /\ \A i \in 2..Len(outbox) : i - 1 \in 1..Len(outbox') /\ outbox'[i - 1] = outbox[i]
<1>1. /\ Len(outbox) \in Nat /\ Len(outbox) > 0 /\ Len(outbox') = Len(outbox) - 1
      /\ Head(outbox) = outbox[1]
      /\ \A i \in 1..Len(outbox') : i + 1 \in 1..Len(outbox) /\ outbox'[i] = outbox[i + 1]
  BY TailFacts DEF Types, Wire
<1>2. ASSUME NEW i \in 2..Len(outbox)
      PROVE  i - 1 \in 1..Len(outbox') /\ outbox'[i - 1] = outbox[i]
  <2>1. i - 1 \in 1..Len(outbox') /\ (i - 1) + 1 = i
    BY <1>1
  <2> QED
    BY <1>1, <2>1
<1> QED
  BY <1>1, <1>2

\* A handler ends with an answer, the last message of the socket.
LEMMA AnswerFacts ==
    ASSUME Types, ReplyAnswer
    PROVE  /\ handling \in Offers /\ thread[handling] = "ok" /\ handling' = None
           /\ Len(outbox) \in Nat /\ Len(outbox') = Len(outbox) + 1
           /\ \A i \in 1..Len(outbox) : outbox'[i] = outbox[i]
           /\ Len(outbox) + 1 \in 1..Len(outbox')
           /\ outbox'[Len(outbox) + 1].kind = "answer"
           /\ outbox'[Len(outbox) + 1].id = answer[handling]
           /\ UNCHANGED <<local, have_local, remote, inbox, outbound, alive, applied, thread,
                          answer, stream, batch, pending, mishaps>>
<1>1. /\ handling \in Offers /\ thread[handling] = "ok" /\ handling' = None
      /\ outbox' = outbox \o <<Msg("answer", answer[handling])>>
  BY DEF ReplyAnswer, Reply, Types, TypeOK
<1>2. answer[handling] \in Offers \cup {None}
  BY <1>1 DEF Types, TypeOK
<1>3. PICK m \in OutMessage : m = Msg("answer", answer[handling])
  BY <1>2 DEF OutMessage, Msg
<1>4. outbox \in Seq(OutMessage) /\ outbox' = outbox \o <<m>>
  BY <1>1, <1>3 DEF Types, Wire
<1>5. /\ Len(outbox) \in Nat /\ Len(outbox') = Len(outbox) + 1
      /\ \A i \in 1..Len(outbox) : outbox'[i] = outbox[i]
      /\ outbox'[Len(outbox) + 1] = m
  BY <1>4
<1>6. m.kind = "answer" /\ m.id = answer[handling]
  BY <1>3 DEF Msg
<1> QED
  BY <1>1, <1>5, <1>6 DEF ReplyAnswer, Reply, browser, delivery, peer, events

\* The channel is written: a candidate is the last message of the socket.
LEMMA WriteFacts ==
    ASSUME Types, WriteOutbound
    PROVE  /\ handling = None /\ outbound # <<>>
           /\ Len(outbox) \in Nat /\ Len(outbox') = Len(outbox) + 1
           /\ \A i \in 1..Len(outbox) : outbox'[i] = outbox[i]
           /\ Len(outbox) + 1 \in 1..Len(outbox')
           /\ outbox'[Len(outbox) + 1].kind = "candidate"
           /\ outbox'[Len(outbox) + 1].id = Head(outbound)
           /\ UNCHANGED <<local, have_local, remote, got, inbox, handling, alive, applied, thread,
                          answer, emitted, stream, batch, pending, mishaps>>
<1>1. Head(outbound) \in Events
  BY TailFacts DEF WriteOutbound, Types, TypeOK
<1>2. PICK m \in OutMessage : m = Msg("candidate", Head(outbound))
  BY <1>1 DEF OutMessage, Msg
<1>3. m.kind = "candidate" /\ m.id = Head(outbound)
  BY <1>2 DEF Msg
<1>4. /\ Len(outbox) \in Nat /\ Len(outbox') = Len(outbox) + 1
      /\ \A i \in 1..Len(outbox) : outbox'[i] = outbox[i]
      /\ outbox'[Len(outbox) + 1] = m
  BY <1>2, AppendFacts DEF WriteOutbound, Types, Wire
<1> QED
  BY <1>3, <1>4 DEF WriteOutbound, browser, server, peer, events

\* The browser's next offer, the last message to the server.
LEMMA OfferFacts ==
    ASSUME Types, SendLocalOffer
    PROVE  /\ local \in Nat /\ local' = local + 1 /\ local' \in Offers /\ have_local' = TRUE
           /\ Len(inbox) \in Nat /\ Len(inbox') = Len(inbox) + 1
           /\ \A i \in 1..Len(inbox) : inbox'[i] = inbox[i]
           /\ Len(inbox) + 1 \in 1..Len(inbox')
           /\ inbox'[Len(inbox) + 1].kind = "offer"
           /\ inbox'[Len(inbox) + 1].id = local'
           /\ have_local => "overlap" \in mishaps'
           /\ UNCHANGED <<remote, outbox, handling, alive, thread>>
<1>1. local \in Nat /\ local + 1 \in Offers
  BY NegotiationAssumption DEF SendLocalOffer, Types, TypeOK, Offers, None
<1>2. PICK m \in InMessage : m = Msg("offer", local + 1)
  BY <1>1 DEF InMessage, Msg
<1>3. m.kind = "offer" /\ m.id = local + 1
  BY <1>2 DEF Msg
<1>4. /\ Len(inbox) \in Nat /\ Len(inbox') = Len(inbox) + 1
      /\ \A i \in 1..Len(inbox) : inbox'[i] = inbox[i]
      /\ inbox'[Len(inbox) + 1] = m
  BY <1>2, AppendFacts DEF SendLocalOffer, Types, Wire
<1> QED
  BY <1>1, <1>3, <1>4 DEF SendLocalOffer, Note, If, server, peer

\* Every step keeps an answer for the browser that waits for none.
LEMMA RememberedStep ==
    ASSUME Types, OffersOnce, Progress, Remembered, [Next]_vars
    PROVE  Remembered'
<1> USE ConstantTypes
<1>1. CASE UNCHANGED <<local, have_local, remote, outbox>>
  BY <1>1 DEF Remembered
<1>2. CASE SendLocalOffer
  <2>1. /\ local' # None /\ have_local' /\ UNCHANGED outbox
    BY <1>2, OfferFacts
  <2> QED
    BY <2>1 DEF Remembered
<1>3. CASE HandleRemoteSdp
  <2>1. /\ outbox # <<>> /\ outbox' = Tail(outbox) /\ local' = local
        /\ Head(outbox).kind = "answer"
        /\ have_local => remote' = Head(outbox).id /\ ~have_local'
        /\ ~have_local => remote' = remote /\ have_local' = have_local
    BY <1>3 DEF HandleRemoteSdp
  <2>2. remote' # None
    BY <2>1, TakeFacts DEF Remembered
  <2> QED
    BY <2>1, <2>2, TakeFacts DEF Remembered
<1>4. CASE HandleRemoteIceCandidate
  BY <1>4, TakeFacts DEF Remembered, HandleRemoteIceCandidate
<1>5. CASE ReplyAnswer
  <2>1. answer[handling] # None /\ local # None
    <3>1. handling \in Offers /\ handling \in Nat /\ local \in Nat /\ ~(handling > local)
      <4>1. handling \in Offers /\ thread[handling] = "ok"
        BY <1>5, AnswerFacts
      <4>2. local \in Nat
        BY DEF Types, TypeOK, None
      <4> QED
        BY <4>1, <4>2 DEF OffersOnce
    <3> QED
      BY <1>5, <3>1, AnswerFacts DEF Progress, None
  <2>2. ASSUME NEW i \in 1..Len(outbox'), outbox'[i].kind = "answer"
        PROVE  outbox'[i].id # None
    <3>1. i \in 1..Len(outbox) \/ i = Len(outbox) + 1
      BY <1>5, AnswerFacts
    <3> QED
      BY <1>5, <2>1, <2>2, <3>1, AnswerFacts DEF Remembered
  <2> QED
    BY <1>5, <2>1, <2>2, AnswerFacts DEF Remembered
<1>6. CASE WriteOutbound
  <2>1. ASSUME NEW i \in 1..Len(outbox'), outbox'[i].kind = "answer"
        PROVE  i \in 1..Len(outbox) /\ outbox'[i] = outbox[i]
    BY <1>6, <2>1, WriteFacts
  <2> QED
    BY <1>6, <2>1, WriteFacts DEF Remembered
<1>7. CASE ReplyRejected \/ RpcTimeout
  <2>1. outbox' = outbox
    BY <1>7 DEF ReplyRejected, RpcTimeout, Reply, Types, TypeOK
  <2> QED
    BY <1>1, <1>7, <2>1 DEF ReplyRejected, RpcTimeout, Reply, browser
<1>8. ASSUME NEW n \in Offers, Thread(n) PROVE Remembered'
  BY <1>1, <1>8, ThreadFacts
<1>9. \/ SendIceCandidate \/ Socket \/ OnLocalDescription \/ RemovePeer
      \/ EmitIceCandidate \/ RegisterSignaling \/ FlushPending \/ StreamLost
      \/ HandleSfuEvent \/ UNCHANGED vars
      => UNCHANGED <<local, have_local, remote, outbox>>
  BY DEF SendIceCandidate, Socket, HandleSdp, RefuseSdp, HandleCandidate, OnLocalDescription,
         RemovePeer, EmitIceCandidate, RegisterSignaling, FlushPending, StreamLost,
         HandleSfuEvent, vars, browser
<1> QED
  BY <1>1, <1>2, <1>3, <1>4, <1>5, <1>6, <1>7, <1>8, <1>9 DEF Next, Rpc

\* The browser's next candidate, the last message to the server.
LEMMA TrickleFacts ==
    ASSUME Types, SendIceCandidate
    PROVE  /\ local \in Offers
           /\ Len(inbox) \in Nat /\ Len(inbox') = Len(inbox) + 1
           /\ \A i \in 1..Len(inbox) : inbox'[i] = inbox[i]
           /\ Len(inbox) + 1 \in 1..Len(inbox')
           /\ inbox'[Len(inbox) + 1].kind = "candidate"
           /\ inbox'[Len(inbox) + 1].id = local
           /\ UNCHANGED <<local, have_local, remote, outbox, handling, alive, thread, mishaps>>
<1>1. local \in Offers
  BY NegotiationAssumption DEF SendIceCandidate, Types, TypeOK, Offers, None
<1>2. PICK m \in InMessage : m = Msg("candidate", local)
  BY <1>1 DEF InMessage, Msg
<1>3. m.kind = "candidate" /\ m.id = local
  BY <1>2 DEF Msg
<1>4. /\ Len(inbox) \in Nat /\ Len(inbox') = Len(inbox) + 1
      /\ \A i \in 1..Len(inbox) : inbox'[i] = inbox[i]
      /\ inbox'[Len(inbox) + 1] = m
  BY <1>2, AppendFacts DEF SendIceCandidate, Types, Wire
<1> QED
  BY <1>1, <1>3, <1>4 DEF SendIceCandidate, server, peer

\* The server takes a candidate off the socket.
LEMMA CandidateFacts ==
    ASSUME Types, HandleCandidate
    PROVE  /\ handling = None
           /\ 1 \in 1..Len(inbox) /\ inbox[1].kind = "candidate" /\ inbox[1].id \in Offers
           /\ Len(inbox) \in Nat /\ Len(inbox') = Len(inbox) - 1
           /\ \A i \in 1..Len(inbox') : i + 1 \in 1..Len(inbox) /\ inbox'[i] = inbox[i + 1]
           /\ \A i \in 2..Len(inbox) : i - 1 \in 1..Len(inbox') /\ inbox'[i - 1] = inbox[i]
           /\ UNCHANGED <<local, have_local, remote, outbox, handling, alive, thread>>
<1>1. /\ Len(inbox) \in Nat /\ Len(inbox) > 0 /\ Len(inbox') = Len(inbox) - 1
      /\ Head(inbox) = inbox[1] /\ Head(inbox) \in InMessage
      /\ \A i \in 1..Len(inbox') : i + 1 \in 1..Len(inbox) /\ inbox'[i] = inbox[i + 1]
  BY TailFacts DEF HandleCandidate, Types, Wire
<1>2. ASSUME NEW i \in 2..Len(inbox)
      PROVE  i - 1 \in 1..Len(inbox') /\ inbox'[i - 1] = inbox[i]
  <2>1. i - 1 \in 1..Len(inbox') /\ (i - 1) + 1 = i
    BY <1>1
  <2> QED
    BY <1>1, <2>1
<1>3. 1 \in 1..Len(inbox) /\ inbox[1].kind = "candidate" /\ inbox[1].id \in Offers
  BY <1>1 DEF HandleCandidate, InMessage
<1> QED
  BY <1>1, <1>2, <1>3 DEF HandleCandidate, browser, server, peer

\* The answer of a handler that nothing disturbed is the one to its offer.
LEMMA AnswerRight ==
    ASSUME Types, PeerInv, Progress, Attended, Calm, ReplyAnswer
    PROVE  answer[handling] = handling
<1>1. handling \in Offers /\ thread[handling] = "ok"
  BY AnswerFacts
<1>2. "stuck" \notin mishaps
  BY <1>1 DEF Attended
<1> QED
  BY <1>1, <1>2 DEF PeerInv, AnswerMatches, Progress

\* Every step keeps the last offer in one place.
LEMMA RoundsStep ==
    ASSUME Types, OffersOnce, PeerInv, Progress, Attended, Rounds, [Next]_vars
    PROVE  Rounds'
<1> SUFFICES ASSUME Clean' PROVE Rounds'
  BY DEF Rounds
<1>0. Clean /\ Calm
  BY MishapsGrow DEF Clean, Calm
<1> USE ConstantTypes
<1>1. CASE UNCHANGED <<local, have_local, remote, inbox, outbox, handling>>
  BY <1>0, <1>1 DEF Rounds, OfferIn, AnswerOut
<1>2. CASE SendLocalOffer
  <2>1. ~have_local
    BY <1>2, OfferFacts DEF Clean
  <2>2. /\ \A i \in 1..Len(inbox) : inbox[i].kind # "offer"
        /\ handling = None
        /\ \A i \in 1..Len(outbox) : outbox[i].kind # "answer"
    BY <1>0, <2>1 DEF Rounds
  <2>3. ~AnswerOut' /\ handling' = None
    BY <1>2, <2>2, OfferFacts DEF AnswerOut
  <2>4. \A i \in 1..Len(inbox') : inbox'[i].kind = "offer" => inbox'[i].id = local'
    <3> SUFFICES ASSUME NEW i \in 1..Len(inbox'), inbox'[i].kind = "offer"
                 PROVE  inbox'[i].id = local'
      OBVIOUS
    <3>1. i \in 1..Len(inbox) \/ i = Len(inbox) + 1
      BY <1>2, OfferFacts
    <3> QED
      BY <1>2, <2>2, <3>1, OfferFacts
  <2>5. OfferIn(local)'
    BY <1>2, OfferFacts DEF OfferIn
  <2> QED
    BY <1>2, <2>2, <2>3, <2>4, <2>5, OfferFacts DEF Rounds
<1>3. CASE SendIceCandidate
  <2>1. ASSUME NEW i \in 1..Len(inbox'), inbox'[i].kind = "offer"
        PROVE  i \in 1..Len(inbox) /\ inbox'[i] = inbox[i]
    BY <1>3, <2>1, TrickleFacts
  <2>2. OfferIn(local) => OfferIn(local)'
    BY <1>3, TrickleFacts DEF OfferIn
  <2>3. AnswerOut' = AnswerOut
    BY <1>3, TrickleFacts DEF AnswerOut
  <2> QED
    BY <1>0, <1>3, <2>1, <2>2, <2>3, TrickleFacts DEF Rounds
<1>4. CASE HandleRemoteSdp
  <2>1. /\ outbox # <<>> /\ outbox' = Tail(outbox) /\ Head(outbox).kind = "answer"
        /\ have_local => remote' = Head(outbox).id /\ ~have_local'
        /\ UNCHANGED <<local, inbox, handling>>
    BY <1>4 DEF HandleRemoteSdp, server
  <2>2. 1 \in 1..Len(outbox) /\ outbox[1].kind = "answer" /\ Head(outbox) = outbox[1] /\ AnswerOut
    BY <2>1, TakeFacts DEF AnswerOut
  <2>3. remote' = local' /\ ~have_local' /\ handling' = None
    BY <1>0, <2>1, <2>2 DEF Rounds
  <2>4. \A i \in 1..Len(inbox') : inbox'[i].kind # "offer"
    BY <1>0, <2>1, <2>2 DEF Rounds
  <2>5. \A i \in 1..Len(outbox') : outbox'[i].kind # "answer"
    <3> SUFFICES ASSUME NEW i \in 1..Len(outbox'), outbox'[i].kind = "answer" PROVE FALSE
      OBVIOUS
    <3>1. i + 1 \in 1..Len(outbox) /\ outbox[i + 1].kind = "answer" /\ i + 1 # 1
      BY <2>1, TakeFacts
    <3> QED
      BY <1>0, <2>2, <3>1 DEF Rounds
  <2> QED
    BY <2>3, <2>4, <2>5 DEF Rounds
<1>5. CASE HandleRemoteIceCandidate
  <2>1. /\ outbox # <<>> /\ outbox' = Tail(outbox) /\ Head(outbox).kind = "candidate"
        /\ UNCHANGED <<local, have_local, remote, inbox, handling>>
    BY <1>5 DEF HandleRemoteIceCandidate, server
  <2>2. AnswerOut => AnswerOut'
    <3> SUFFICES ASSUME NEW i \in 1..Len(outbox), outbox[i].kind = "answer" PROVE AnswerOut'
      BY DEF AnswerOut
    <3>1. i \in 2..Len(outbox)
      BY <2>1, TakeFacts
    <3> QED
      BY <2>1, <3>1, TakeFacts DEF AnswerOut
  <2>3. AnswerOut' => AnswerOut
    BY <2>1, TakeFacts DEF AnswerOut
  <2>4. ASSUME NEW i \in 1..Len(outbox'), outbox'[i].kind = "answer"
        PROVE  /\ have_local' /\ outbox'[i].id = local'
               /\ \A j \in 1..Len(outbox') : outbox'[j].kind = "answer" => j = i
    <3>1. i + 1 \in 1..Len(outbox) /\ outbox[i + 1] = outbox'[i]
      BY <2>1, TakeFacts
    <3>2. ASSUME NEW j \in 1..Len(outbox'), outbox'[j].kind = "answer" PROVE j = i
      <4>1. j + 1 \in 1..Len(outbox) /\ outbox[j + 1] = outbox'[j]
        BY <2>1, TakeFacts
      <4>2. j + 1 = i + 1
        BY <1>0, <2>4, <3>1, <3>2, <4>1 DEF Rounds
      <4> QED
        BY <2>1, <4>2, TakeFacts
    <3> QED
      BY <1>0, <2>1, <2>4, <3>1, <3>2 DEF Rounds
  <2>5. OfferIn(local)' = OfferIn(local)
    BY <2>1 DEF OfferIn
  <2> QED
    BY <1>0, <2>1, <2>2, <2>3, <2>4, <2>5 DEF Rounds
<1>6. CASE HandleSdp
  <2>1. have_local /\ handling' = local /\ ~AnswerOut
    BY <1>0, <1>6, BeginFacts DEF Rounds
  <2>2. \A i \in 1..Len(inbox') : inbox'[i].kind # "offer"
    <3> SUFFICES ASSUME NEW i \in 1..Len(inbox'), inbox'[i].kind = "offer" PROVE FALSE
      OBVIOUS
    <3>1. /\ i + 1 \in 1..Len(inbox) /\ inbox[i + 1].kind = "offer" /\ i + 1 # 1
          /\ 1 \in 1..Len(inbox) /\ inbox[1].kind = "offer" /\ inbox[1].id = local
      BY <1>6, <2>1, BeginFacts
    <3>2. inbox[i + 1].id = local
      BY <1>0, <3>1 DEF Rounds
    <3> QED
      BY <3>1, <3>2 DEF OffersOnce
  <2>3. ~AnswerOut' /\ UNCHANGED <<local, have_local, remote, outbox>> /\ handling' # None
    BY <1>6, <2>1, BeginFacts DEF AnswerOut
  <2> QED
    BY <2>1, <2>2, <2>3 DEF Rounds, AnswerOut
<1>7. CASE HandleCandidate
  <2>1. ASSUME NEW i \in 1..Len(inbox'), inbox'[i].kind = "offer"
        PROVE  i + 1 \in 1..Len(inbox) /\ inbox'[i] = inbox[i + 1]
    BY <1>7, CandidateFacts
  <2>2. OfferIn(local) => OfferIn(local)'
    <3> SUFFICES ASSUME NEW i \in 1..Len(inbox), inbox[i].kind = "offer", inbox[i].id = local
                 PROVE  OfferIn(local)'
      BY DEF OfferIn
    <3>1. i \in 2..Len(inbox)
      BY <1>7, CandidateFacts
    <3> QED
      BY <1>7, <3>1, CandidateFacts DEF OfferIn
  <2>3. AnswerOut' = AnswerOut
    BY <1>7, CandidateFacts DEF AnswerOut
  <2> QED
    BY <1>0, <1>7, <2>1, <2>2, <2>3, CandidateFacts DEF Rounds
<1>8. CASE ReplyAnswer
  <2>1. /\ handling # None /\ have_local /\ handling = local /\ answer[handling] = local
        /\ \A i \in 1..Len(outbox) : outbox[i].kind # "answer"
        /\ \A i \in 1..Len(inbox) : inbox[i].kind # "offer"
    BY <1>0, <1>8, AnswerFacts, AnswerRight DEF Rounds, AnswerOut
  <2>2. ASSUME NEW i \in 1..Len(outbox'), outbox'[i].kind = "answer" PROVE i = Len(outbox) + 1
    BY <1>8, <2>1, <2>2, AnswerFacts
  <2>3. AnswerOut'
    BY <1>8, AnswerFacts DEF AnswerOut
  <2> QED
    BY <1>8, <2>1, <2>2, <2>3, AnswerFacts DEF Rounds
<1>9. CASE WriteOutbound
  <2>1. ASSUME NEW i \in 1..Len(outbox'), outbox'[i].kind = "answer"
        PROVE  i \in 1..Len(outbox) /\ outbox'[i] = outbox[i]
    BY <1>9, <2>1, WriteFacts
  <2>2. AnswerOut' = AnswerOut
    <3>1. AnswerOut' => AnswerOut
      BY <2>1 DEF AnswerOut
    <3>2. AnswerOut => AnswerOut'
      BY <1>9, WriteFacts DEF AnswerOut
    <3> QED
      BY <3>1, <3>2 DEF AnswerOut
  <2>3. OfferIn(local)' = OfferIn(local)
    BY <1>9, WriteFacts DEF OfferIn
  <2> QED
    BY <1>0, <1>9, <2>1, <2>2, <2>3, WriteFacts DEF Rounds
<1>10. ASSUME NEW n \in Offers, Thread(n) PROVE Rounds'
  BY <1>1, <1>10, ThreadFacts
<1>11. ~(RefuseSdp \/ ReplyRejected \/ RpcTimeout)
  BY DEF RefuseSdp, ReplyRejected, RpcTimeout, Note, Clean
<1>12. \/ OnLocalDescription \/ RemovePeer
       \/ EmitIceCandidate \/ RegisterSignaling \/ FlushPending \/ StreamLost
       \/ HandleSfuEvent \/ UNCHANGED vars
       => UNCHANGED <<local, have_local, remote, inbox, outbox, handling>>
  BY DEF OnLocalDescription, RemovePeer, EmitIceCandidate, RegisterSignaling, FlushPending,
         StreamLost, HandleSfuEvent, vars, browser, server
<1> QED
  BY <1>1, <1>2, <1>3, <1>4, <1>5, <1>6, <1>7, <1>8, <1>9, <1>10, <1>11, <1>12
     DEF Next, Socket, Rpc
-----------------------------------------------------------------------------
(* Descriptions travel ahead of their candidates *)

\* Nothing has failed, and the peer is still there.
Fine == mishaps \cap {"timeout", "refused", "removed"} = {}

\* A candidate of the browser comes behind the offer it belongs to.
InOrder ==
    Fine =>
      /\ alive
      /\ \A n \in Offers : n <= local /\ thread[n] = "none" => OfferIn(n)
      /\ \A i \in 1..Len(inbox) : inbox[i].kind = "candidate" =>
            \/ thread[inbox[i].id] # "none"
            \/ \E j \in 1..Len(inbox) :
                 j < i /\ inbox[j].kind = "offer" /\ inbox[j].id = inbox[i].id

\* A candidate of the SFU comes behind an answer.
OutOrder ==
    Fine =>
      /\ \A n \in Offers : thread[n] = "ok" /\ handling # n => remote # None \/ AnswerOut
      /\ \A i \in 1..Len(outbox) : outbox[i].kind = "candidate" =>
            remote # None \/ \E j \in 1..Len(outbox) : j < i /\ outbox[j].kind = "answer"

\* Every step keeps the candidates of the browser behind their offers.
LEMMA InOrderStep ==
    ASSUME Types, OffersOnce, InOrder, [Next]_vars
    PROVE  InOrder'
<1> SUFFICES ASSUME Fine' PROVE InOrder'
  BY DEF InOrder
<1>0. Fine
  BY MishapsGrow DEF Fine
<1> USE ConstantTypes
<1>1. CASE UNCHANGED <<local, inbox, alive, thread>>
  BY <1>0, <1>1 DEF InOrder, OfferIn
<1>2. CASE SendLocalOffer
  <2>1. ASSUME NEW n \in Offers, n <= local', thread'[n] = "none" PROVE OfferIn(n)'
    <3>1. CASE n = local'
      BY <1>2, <3>1, OfferFacts DEF OfferIn
    <3>2. CASE n # local'
      <4>1. n <= local /\ thread[n] = "none"
        BY <1>2, <2>1, <3>2, OfferFacts
      <4>2. PICK i \in 1..Len(inbox) : inbox[i].kind = "offer" /\ inbox[i].id = n
        BY <1>0, <4>1 DEF InOrder, OfferIn
      <4>3. i \in 1..Len(inbox') /\ inbox'[i] = inbox[i]
        BY <1>2, OfferFacts
      <4> QED
        BY <4>2, <4>3 DEF OfferIn
    <3> QED
      BY <3>1, <3>2
  <2>2. ASSUME NEW i \in 1..Len(inbox'), inbox'[i].kind = "candidate"
        PROVE  \/ thread'[inbox'[i].id] # "none"
               \/ \E j \in 1..Len(inbox') :
                    j < i /\ inbox'[j].kind = "offer" /\ inbox'[j].id = inbox'[i].id
    <3>1. i \in 1..Len(inbox) /\ inbox'[i] = inbox[i] /\ thread' = thread
      BY <1>2, <2>2, OfferFacts
    <3>2. CASE thread[inbox[i].id] # "none"
      BY <3>1, <3>2
    <3>3. CASE thread[inbox[i].id] = "none"
      <4>1. PICK j \in 1..Len(inbox) :
                   j < i /\ inbox[j].kind = "offer" /\ inbox[j].id = inbox[i].id
        BY <1>0, <2>2, <3>1, <3>3 DEF InOrder
      <4>2. j \in 1..Len(inbox') /\ inbox'[j] = inbox[j]
        BY <1>2, OfferFacts
      <4> QED
        BY <3>1, <4>1, <4>2
    <3> QED
      BY <3>2, <3>3
  <2> QED
    BY <1>0, <1>2, <2>1, <2>2, OfferFacts DEF InOrder
<1>3. CASE SendIceCandidate
  <2>1. ASSUME NEW n \in Offers, OfferIn(n) PROVE OfferIn(n)'
    BY <1>3, <2>1, TrickleFacts DEF OfferIn
  <2>2. ASSUME NEW i \in 1..Len(inbox'), inbox'[i].kind = "candidate"
        PROVE  \/ thread'[inbox'[i].id] # "none"
               \/ \E j \in 1..Len(inbox') :
                    j < i /\ inbox'[j].kind = "offer" /\ inbox'[j].id = inbox'[i].id
    <3>1. CASE i \in 1..Len(inbox)
      <4>1. inbox'[i] = inbox[i] /\ thread' = thread
        BY <1>3, <3>1, TrickleFacts
      <4>2. CASE thread[inbox[i].id] = "none"
        <5>1. PICK j \in 1..Len(inbox) :
                     j < i /\ inbox[j].kind = "offer" /\ inbox[j].id = inbox[i].id
          BY <1>0, <2>2, <3>1, <4>1, <4>2 DEF InOrder
        <5>2. j \in 1..Len(inbox') /\ inbox'[j] = inbox[j]
          BY <1>3, TrickleFacts
        <5> QED
          BY <4>1, <5>1, <5>2
      <4> QED
        BY <4>1, <4>2
    <3>2. CASE i = Len(inbox) + 1
      <4>1. inbox'[i].id = local /\ local \in Offers /\ thread' = thread
        BY <1>3, <3>2, TrickleFacts
      <4>2. CASE thread[local] = "none"
        <5>1. PICK j \in 1..Len(inbox) : inbox[j].kind = "offer" /\ inbox[j].id = local
          BY <1>0, <4>1, <4>2 DEF InOrder, OfferIn
        <5>2. j \in 1..Len(inbox') /\ inbox'[j] = inbox[j] /\ j < i
          BY <1>3, <3>2, TrickleFacts
        <5> QED
          BY <4>1, <5>1, <5>2
      <4> QED
        BY <4>1, <4>2
    <3> QED
      BY <1>3, <3>1, <3>2, TrickleFacts
  <2> QED
    BY <1>0, <1>3, <2>1, <2>2, TrickleFacts DEF InOrder
<1>4. CASE HandleSdp
  <2>0. alive' = alive /\ local' = local
    BY <1>4, BeginFacts
  <2>1. ASSUME NEW n \in Offers, n <= local', thread'[n] = "none" PROVE OfferIn(n)'
    <3>1. n # handling' /\ thread[n] = "none" /\ n <= local
      BY <1>4, <2>1, BeginFacts
    <3>2. PICK i \in 1..Len(inbox) : inbox[i].kind = "offer" /\ inbox[i].id = n
      BY <1>0, <3>1 DEF InOrder, OfferIn
    <3>3. i - 1 \in 1..Len(inbox') /\ (i - 1) + 1 = i
      BY <1>4, <3>1, <3>2, BeginFacts
    <3>4. inbox'[i - 1] = inbox[i]
      BY <1>4, <3>3, BeginFacts
    <3> QED
      BY <3>2, <3>3, <3>4 DEF OfferIn
  <2>2. ASSUME NEW i \in 1..Len(inbox'), inbox'[i].kind = "candidate"
        PROVE  \/ thread'[inbox'[i].id] # "none"
               \/ \E j \in 1..Len(inbox') :
                    j < i /\ inbox'[j].kind = "offer" /\ inbox'[j].id = inbox'[i].id
    <3>1. i + 1 \in 1..Len(inbox) /\ inbox'[i] = inbox[i + 1]
      BY <1>4, BeginFacts
    <3>2. inbox[i + 1] \in InMessage
      BY <3>1 DEF Types, Wire
    <3>3. inbox[i + 1].id \in Offers
      BY <3>2 DEF InMessage
    <3>4. CASE thread'[inbox[i + 1].id] = "none"
      <4>1. inbox[i + 1].id # handling' /\ thread[inbox[i + 1].id] = "none"
        BY <1>4, <3>3, <3>4, BeginFacts
      <4>2. PICK j \in 1..Len(inbox) :
                   j < i + 1 /\ inbox[j].kind = "offer" /\ inbox[j].id = inbox[i + 1].id
        BY <1>0, <2>2, <3>1, <4>1 DEF InOrder
      <4>3. j - 1 \in 1..Len(inbox') /\ (j - 1) + 1 = j /\ j - 1 < i
        BY <1>4, <4>1, <4>2, BeginFacts
      <4>4. inbox'[j - 1] = inbox[j]
        BY <1>4, <4>3, BeginFacts
      <4> QED
        BY <3>1, <4>2, <4>3, <4>4
    <3> QED
      BY <3>1, <3>4
  <2> QED
    BY <1>0, <2>0, <2>1, <2>2 DEF InOrder
<1>5. CASE HandleCandidate
  <2>1. ASSUME NEW n \in Offers, OfferIn(n) PROVE OfferIn(n)'
    <3>1. PICK i \in 1..Len(inbox) : inbox[i].kind = "offer" /\ inbox[i].id = n
      BY <2>1 DEF OfferIn
    <3>2. i \in 2..Len(inbox)
      BY <1>5, <3>1, CandidateFacts
    <3> QED
      BY <1>5, <3>1, <3>2, CandidateFacts DEF OfferIn
  <2>2. ASSUME NEW i \in 1..Len(inbox'), inbox'[i].kind = "candidate"
        PROVE  \/ thread'[inbox'[i].id] # "none"
               \/ \E j \in 1..Len(inbox') :
                    j < i /\ inbox'[j].kind = "offer" /\ inbox'[j].id = inbox'[i].id
    <3>1. i + 1 \in 1..Len(inbox) /\ inbox'[i] = inbox[i + 1] /\ thread' = thread
      BY <1>5, CandidateFacts
    <3>2. CASE thread[inbox[i + 1].id] = "none"
      <4>1. PICK j \in 1..Len(inbox) :
                   j < i + 1 /\ inbox[j].kind = "offer" /\ inbox[j].id = inbox[i + 1].id
        BY <1>0, <2>2, <3>1, <3>2 DEF InOrder
      <4>2. j \in 2..Len(inbox) /\ j - 1 < i
        BY <1>5, <4>1, CandidateFacts
      <4>3. j - 1 \in 1..Len(inbox') /\ inbox'[j - 1] = inbox[j]
        BY <1>5, <4>2, CandidateFacts
      <4> QED
        BY <3>1, <4>1, <4>2, <4>3
    <3> QED
      BY <3>1, <3>2
  <2> QED
    BY <1>0, <1>5, <2>1, <2>2, CandidateFacts DEF InOrder
<1>6. ASSUME NEW n \in Offers, Thread(n) PROVE InOrder'
  <2>1. \A k \in Offers : (thread'[k] = "none") <=> (thread[k] = "none")
    BY <1>6, ThreadFacts
  <2>2. ASSUME NEW i \in 1..Len(inbox) PROVE inbox[i].id \in Offers
    <3>1. inbox[i] \in InMessage
      BY DEF Types, Wire
    <3> QED
      BY <3>1 DEF InMessage
  <2>3. UNCHANGED <<local, inbox, alive>>
    BY <1>6, ThreadFacts
  <2> QED
    BY <1>0, <2>1, <2>2, <2>3 DEF InOrder, OfferIn
<1>7. ~(RefuseSdp \/ ReplyRejected \/ RpcTimeout \/ RemovePeer \/ StreamLost)
  BY DEF RefuseSdp, ReplyRejected, RpcTimeout, RemovePeer, StreamLost, Note, Fine
<1>8. HandleSfuEvent => UNCHANGED <<local, inbox, alive, thread>>
  BY DEF HandleSfuEvent, SendToPeer, Note, Fine, browser, peer
<1>9. \/ HandleRemoteSdp \/ HandleRemoteIceCandidate \/ ReplyAnswer \/ OnLocalDescription
      \/ EmitIceCandidate \/ RegisterSignaling \/ FlushPending \/ WriteOutbound
      \/ UNCHANGED vars
      => UNCHANGED <<local, inbox, alive, thread>>
  BY DEF HandleRemoteSdp, HandleRemoteIceCandidate, ReplyAnswer, Reply, OnLocalDescription,
         EmitIceCandidate, RegisterSignaling, FlushPending, WriteOutbound, vars, browser, peer
<1> QED
  BY <1>1, <1>2, <1>3, <1>4, <1>5, <1>6, <1>7, <1>8, <1>9 DEF Next, Socket, Rpc

\* The channel is written only after an answer: no handler is at work, so the
\* thread that gave the answer has been replied to.
LEMMA WrittenBehind ==
    ASSUME Types, PeerInv, Progress, Attended, OutOrder, Fine, WriteOutbound
    PROVE  remote # None \/ AnswerOut
<1> USE ConstantTypes
<1>0. Calm
  BY DEF Fine, Calm
<1>1. handling = None /\ applied # None
  BY WriteFacts DEF Progress
<1>2. "stuck" \notin mishaps
  BY <1>0, <1>1 DEF Attended
<1>3. PICK n \in Offers : answer[n] # None
  BY <1>1, <1>2 DEF Progress
<1>4. thread[n] \in {"none", "enter", "apply", "wait", "ok", "failed"}
  BY DEF Types, TypeOK
<1>5. thread[n] = "ok" /\ handling # n
  BY <1>0, <1>1, <1>3, <1>4 DEF Attended, PeerInv, PromiseKept
<1> QED
  BY <1>5 DEF OutOrder

\* Every step keeps the candidates of the SFU behind an answer.
LEMMA OutOrderStep ==
    ASSUME Types, OffersOnce, PeerInv, Progress, Attended, Remembered, OutOrder, [Next]_vars
    PROVE  OutOrder'
<1> SUFFICES ASSUME Fine' PROVE OutOrder'
  BY DEF OutOrder
<1>0. Fine /\ Calm
  BY MishapsGrow DEF Fine, Calm
<1> USE ConstantTypes
<1>1. CASE UNCHANGED <<remote, outbox, handling, thread>>
  BY <1>0, <1>1 DEF OutOrder, AnswerOut
<1>2. ASSUME NEW n \in Offers, Thread(n) PROVE OutOrder'
  <2>1. thread[n] \in {"enter", "apply", "wait"} /\ handling = n
    BY <1>0, <1>2, ThreadFacts DEF Attended
  <2>2. UNCHANGED <<remote, outbox, handling>>
    BY <1>2, ThreadFacts
  <2>3. \A k \in Offers : k # n => thread'[k] = thread[k]
    BY <1>2, ThreadFacts
  <2>4. AnswerOut' = AnswerOut
    BY <2>2 DEF AnswerOut
  <2> QED
    BY <1>0, <2>1, <2>2, <2>3, <2>4 DEF OutOrder
<1>3. CASE HandleSdp
  <2>1. AnswerOut' = AnswerOut
    BY <1>3, BeginFacts DEF AnswerOut
  <2> QED
    BY <1>0, <1>3, <2>1, BeginFacts DEF OutOrder
<1>4. CASE HandleRemoteSdp
  <2>1. /\ outbox # <<>> /\ outbox' = Tail(outbox) /\ Head(outbox).kind = "answer"
        /\ have_local => remote' = Head(outbox).id
        /\ ~have_local => remote' = remote
    BY <1>4 DEF HandleRemoteSdp
  <2>2. remote' # None
    BY <2>1, TakeFacts DEF Remembered
  <2> QED
    BY <2>2 DEF OutOrder
<1>5. CASE HandleRemoteIceCandidate
  <2>1. /\ outbox # <<>> /\ outbox' = Tail(outbox) /\ Head(outbox).kind = "candidate"
        /\ UNCHANGED <<remote, handling, thread>>
    BY <1>5 DEF HandleRemoteIceCandidate, server, peer
  <2>2. remote # None
    <3>1. /\ 1 \in 1..Len(outbox) /\ outbox[1].kind = "candidate" /\ Len(outbox) \in Nat
          /\ \A j \in 1..Len(outbox) : ~(j < 1)
      BY <2>1, TakeFacts
    <3> QED
      BY <1>0, <3>1 DEF OutOrder
  <2> QED
    BY <2>1, <2>2 DEF OutOrder
<1>6. CASE ReplyAnswer
  <2>1. AnswerOut'
    BY <1>6, AnswerFacts DEF AnswerOut
  <2>2. ASSUME NEW i \in 1..Len(outbox'), outbox'[i].kind = "candidate", remote' = None
        PROVE  \E j \in 1..Len(outbox') : j < i /\ outbox'[j].kind = "answer"
    <3>1. i \in 1..Len(outbox) /\ outbox'[i] = outbox[i] /\ remote = None
      BY <1>6, <2>2, AnswerFacts
    <3>2. PICK j \in 1..Len(outbox) : j < i /\ outbox[j].kind = "answer"
      BY <1>0, <2>2, <3>1 DEF OutOrder
    <3>3. j \in 1..Len(outbox') /\ outbox'[j] = outbox[j]
      BY <1>6, AnswerFacts
    <3> QED
      BY <3>2, <3>3
  <2> QED
    BY <2>1, <2>2 DEF OutOrder
<1>7. CASE WriteOutbound
  <2>1. AnswerOut => AnswerOut'
    BY <1>7, WriteFacts DEF AnswerOut
  <2>2. ASSUME NEW i \in 1..Len(outbox'), outbox'[i].kind = "candidate", remote' = None
        PROVE  \E j \in 1..Len(outbox') : j < i /\ outbox'[j].kind = "answer"
    <3>0. remote = None
      BY <1>7, <2>2, WriteFacts
    <3>1. PICK j \in 1..Len(outbox) :
                 outbox[j].kind = "answer" /\ (i \in 1..Len(outbox) => j < i)
      <4>1. CASE i \in 1..Len(outbox)
        BY <1>0, <1>7, <2>2, <3>0, <4>1, WriteFacts DEF OutOrder
      <4>2. CASE i \notin 1..Len(outbox)
        BY <1>0, <1>7, <3>0, <4>2, WrittenBehind DEF AnswerOut
      <4> QED
        BY <4>1, <4>2
    <3>2. j \in 1..Len(outbox') /\ outbox'[j] = outbox[j] /\ j < i
      BY <1>7, <3>1, WriteFacts
    <3> QED
      BY <3>1, <3>2
  <2>3. UNCHANGED <<remote, handling, thread>>
    BY <1>7, WriteFacts
  <2> QED
    BY <1>0, <2>1, <2>2, <2>3 DEF OutOrder
<1>8. ~(RefuseSdp \/ ReplyRejected \/ RpcTimeout)
  BY DEF RefuseSdp, ReplyRejected, RpcTimeout, Note, Fine
<1>9. \/ SendLocalOffer \/ SendIceCandidate \/ HandleCandidate \/ OnLocalDescription
      \/ RemovePeer \/ EmitIceCandidate \/ RegisterSignaling \/ FlushPending \/ StreamLost
      \/ HandleSfuEvent \/ UNCHANGED vars
      => UNCHANGED <<remote, outbox, handling, thread>>
  BY DEF SendLocalOffer, SendIceCandidate, HandleCandidate, OnLocalDescription, RemovePeer,
         Shutdown, EmitIceCandidate, RegisterSignaling, FlushPending, StreamLost,
         HandleSfuEvent, SendToPeer, vars, browser, server, peer
<1> QED
  BY <1>1, <1>2, <1>3, <1>4, <1>5, <1>6, <1>7, <1>8, <1>9 DEF Next, Socket, Rpc

\* No step makes a candidate useless before something has failed.
LEMMA UsableStep ==
    ASSUME Types, Progress, Attended, InOrder, OutOrder, CandidatesUsable, [Next]_vars
    PROVE  CandidatesUsable'
<1> SUFFICES ASSUME Fine' PROVE "useless" \notin mishaps'
  BY DEF CandidatesUsable, Fine
<1>0. Fine /\ Calm /\ "useless" \notin mishaps
  BY MishapsGrow DEF Fine, Calm, CandidatesUsable
<1> USE ConstantTypes
<1>1. CASE HandleCandidate
  <2>1. /\ handling = None /\ 1 \in 1..Len(inbox) /\ inbox[1].kind = "candidate"
        /\ inbox[1].id \in Offers /\ Len(inbox) \in Nat
        /\ \A j \in 1..Len(inbox) : ~(j < 1)
    BY <1>1, CandidateFacts
  <2>2. thread[inbox[1].id] # "none"
    BY <1>0, <2>1 DEF InOrder
  <2>3. thread[inbox[1].id] \in {"none", "enter", "apply", "wait", "ok", "failed"}
    BY <2>1 DEF Types, TypeOK
  <2>4. thread[inbox[1].id] = "ok"
    BY <1>0, <2>1, <2>2, <2>3 DEF Attended
  <2>5. applied # None /\ alive
    BY <1>0, <2>1, <2>4 DEF Progress, InOrder
  <2> QED
    BY <1>0, <1>1, <2>5 DEF HandleCandidate, Note
<1>2. CASE HandleRemoteIceCandidate
  <2>1. /\ 1 \in 1..Len(outbox) /\ outbox[1].kind = "candidate" /\ Len(outbox) \in Nat
        /\ \A j \in 1..Len(outbox) : ~(j < 1)
    BY <1>2, TakeFacts DEF HandleRemoteIceCandidate
  <2>2. remote # None
    BY <1>0, <2>1 DEF OutOrder
  <2> QED
    BY <1>0, <1>2, <2>2 DEF HandleRemoteIceCandidate, Note, If
<1>3. CASE ~(HandleCandidate \/ HandleRemoteIceCandidate)
  BY <1>0, <1>3
     DEF Next, vars, SendLocalOffer, SendIceCandidate, HandleRemoteSdp, Socket, HandleSdp,
         RefuseSdp, Rpc, ReplyAnswer, ReplyRejected, RpcTimeout, Thread, EnterHandleSdp,
         ApplyRemoteOffer, RefuseRemoteOffer, AnswerReady, AnswerWaitOver, OnLocalDescription,
         RemovePeer, EmitIceCandidate, RouteEvent, RegisterSignaling, FlushPending, StreamLost,
         HandleSfuEvent, SendToPeer, WriteOutbound, Note, If
<1> QED
  BY <1>1, <1>2, <1>3
-----------------------------------------------------------------------------
(* Every candidate of the SFU, once and in order *)

\* Nothing was dropped or overtaken, and the peer is still there.
Kept == mishaps \cap {"overflow", "overtook", "removed"} = {}

\* The queue holds the numbers after w.
Consecutive(q, w) == \A i \in 1..Len(q) : q[i] = w + i

\* How many candidates were written to the socket.
Written == emitted - (Len(outbound) + Len(stream) + Len(batch) + Len(pending))

\* Backlog and flush exclude each other, and only a peer that was removed has
\* no channel.
OneQueue ==
    /\ subscribed => pending = <<>>
    /\ ~subscribed => batch = <<>> /\ stream = <<>>
    /\ ~registered => "removed" \in mishaps

\* The queues behind the socket hold the newest candidates, one after the other.
Queued ==
    Kept =>
      /\ Consecutive(outbound, Written)
      /\ Consecutive(stream, Written + Len(outbound))
      /\ Consecutive(batch, Written + Len(outbound) + Len(stream))
      /\ Consecutive(pending, Written + Len(outbound) + Len(stream) + Len(batch))

\* The browser has the oldest ones, the socket those between.
Carried ==
    Kept =>
      /\ Len(got) <= Written
      /\ Consecutive(got, 0)
      /\ \A i \in 1..Len(outbox) : outbox[i].kind = "candidate" =>
            Len(got) < outbox[i].id /\ outbox[i].id <= Written
      /\ \A k \in (Len(got) + 1)..Written :
            \E i \in 1..Len(outbox) : outbox[i].kind = "candidate" /\ outbox[i].id = k
      /\ \A i, j \in 1..Len(outbox) :
            outbox[i].kind = "candidate" /\ outbox[j].kind = "candidate" /\ i < j =>
              outbox[i].id < outbox[j].id

\* One queue continued by another.
LEMMA ConsecutiveConcat ==
    ASSUME NEW s \in Seq(Events), NEW t \in Seq(Events), NEW w \in Int,
           Consecutive(s, w), Consecutive(t, w + Len(s))
    PROVE  /\ s \o t \in Seq(Events) /\ Len(s \o t) = Len(s) + Len(t)
           /\ Consecutive(s \o t, w)
<1>1. /\ s \o t \in Seq(Events) /\ Len(s \o t) = Len(s) + Len(t)
      /\ Len(s) \in Nat /\ Len(t) \in Nat
      /\ \A i \in 1..(Len(s) + Len(t)) :
            (s \o t)[i] = IF i <= Len(s) THEN s[i] ELSE t[i - Len(s)]
  OBVIOUS
<1>2. ASSUME NEW i \in 1..Len(s \o t) PROVE (s \o t)[i] = w + i
  <2>1. CASE i <= Len(s)
    BY <1>1, <2>1 DEF Consecutive
  <2>2. CASE ~(i <= Len(s))
    <3>1. i - Len(s) \in 1..Len(t) /\ (s \o t)[i] = t[i - Len(s)]
      BY <1>1, <2>2
    <3>2. t[i - Len(s)] = (w + Len(s)) + (i - Len(s))
      BY <3>1 DEF Consecutive
    <3> QED
      BY <1>1, <3>1, <3>2
  <2> QED
    BY <2>1, <2>2
<1> QED
  BY <1>1, <1>2 DEF Consecutive

\* The next number at the end.
LEMMA ConsecutiveAppend ==
    ASSUME NEW s \in Seq(Events), NEW w \in Int, NEW e \in Events,
           Consecutive(s, w), e = w + Len(s) + 1
    PROVE  Consecutive(Append(s, e), w) /\ Len(Append(s, e)) = Len(s) + 1
<1>1. /\ Len(s) \in Nat /\ Len(Append(s, e)) = Len(s) + 1
      /\ \A i \in 1..Len(s) : Append(s, e)[i] = s[i]
      /\ Append(s, e)[Len(s) + 1] = e
  BY AppendFacts
<1>2. ASSUME NEW i \in 1..Len(Append(s, e)) PROVE Append(s, e)[i] = w + i
  <2>1. i \in 1..Len(s) \/ i = Len(s) + 1
    BY <1>1
  <2> QED
    BY <1>1, <2>1 DEF Consecutive
<1> QED
  BY <1>1, <1>2 DEF Consecutive

\* The first number taken away.
LEMMA ConsecutiveTail ==
    ASSUME NEW s \in Seq(Events), NEW w \in Int, s # <<>>, Consecutive(s, w)
    PROVE  /\ Head(s) = w + 1 /\ Head(s) \in Events
           /\ Consecutive(Tail(s), w + 1)
           /\ Len(s) \in Nat /\ Len(Tail(s)) = Len(s) - 1
<1>1. /\ Len(s) \in Nat /\ Len(s) > 0 /\ Head(s) = s[1] /\ Head(s) \in Events
      /\ Len(Tail(s)) = Len(s) - 1
      /\ \A i \in 1..Len(Tail(s)) : i + 1 \in 1..Len(s) /\ Tail(s)[i] = s[i + 1]
  BY TailFacts
<1>2. 1 \in 1..Len(s)
  BY <1>1
<1> QED
  BY <1>1, <1>2 DEF Consecutive

\* The lengths of the queues.
LEMMA QueueTypes ==
    ASSUME Types
    PROVE  /\ outbound \in Seq(Events) /\ stream \in Seq(Events) /\ batch \in Seq(Events)
           /\ pending \in Seq(Events) /\ got \in Seq(Events)
           /\ Len(outbound) \in Nat /\ Len(stream) \in Nat /\ Len(batch) \in Nat
           /\ Len(pending) \in Nat /\ Len(got) \in Nat
           /\ emitted \in Nat /\ Written \in Int
<1>1. /\ outbound \in Seq(Events) /\ stream \in Seq(Events) /\ batch \in Seq(Events)
      /\ pending \in Seq(Events) /\ got \in Seq(Events)
      /\ emitted \in Nat
  BY NegotiationAssumption DEF Types, TypeOK, Events
<1>2. /\ Len(outbound) \in Nat /\ Len(stream) \in Nat /\ Len(batch) \in Nat
      /\ Len(pending) \in Nat /\ Len(got) \in Nat
  BY <1>1
<1> QED
  BY <1>1, <1>2 DEF Written

\* Every step keeps backlog and flush apart.
LEMMA OneQueueStep ==
    ASSUME Types, OneQueue, [Next]_vars
    PROVE  OneQueue'
<1>0. mishaps \subseteq mishaps'
  BY MishapsGrow
<1>1. CASE UNCHANGED <<registered, events>>
  BY <1>0, <1>1 DEF OneQueue, events
<1>2. CASE RemovePeer
  BY <1>2 DEF OneQueue, RemovePeer, events, Note
<1>3. CASE EmitIceCandidate
  BY <1>0, <1>3 DEF OneQueue, EmitIceCandidate, RouteEvent, delivery
<1>4. CASE RegisterSignaling
  BY <1>0, <1>4 DEF OneQueue, RegisterSignaling, delivery
<1>5. CASE FlushPending
  BY <1>0, <1>5 DEF OneQueue, FlushPending, delivery
<1>6. CASE StreamLost
  BY <1>6 DEF OneQueue, StreamLost, Note
<1>7. CASE HandleSfuEvent
  BY <1>0, <1>7 DEF OneQueue, HandleSfuEvent, SendToPeer, Note, delivery
<1>8. CASE WriteOutbound
  BY <1>0, <1>8 DEF OneQueue, WriteOutbound, events
<1>9. ASSUME NEW n \in Offers, Thread(n) PROVE UNCHANGED <<registered, events>>
  BY <1>9 DEF Thread, EnterHandleSdp, ApplyRemoteOffer, RefuseRemoteOffer, AnswerReady,
              AnswerWaitOver, delivery
<1>10. \/ SendLocalOffer \/ SendIceCandidate \/ HandleRemoteSdp \/ HandleRemoteIceCandidate
       \/ Socket \/ Rpc \/ OnLocalDescription \/ UNCHANGED vars
       => UNCHANGED <<registered, events>>
  BY DEF SendLocalOffer, SendIceCandidate, HandleRemoteSdp, HandleRemoteIceCandidate, Socket,
         HandleSdp, RefuseSdp, HandleCandidate, Rpc, ReplyAnswer, ReplyRejected, RpcTimeout,
         Reply, OnLocalDescription, vars, delivery
<1> QED
  BY <1>1, <1>2, <1>3, <1>4, <1>5, <1>6, <1>7, <1>8, <1>9, <1>10 DEF Next

\* The queues laid out from the first number that is not written.
Laid(w) ==
    /\ emitted = w + Len(outbound) + Len(stream) + Len(batch) + Len(pending)
    /\ Len(outbound) \in Nat /\ Len(stream) \in Nat
    /\ Len(batch) \in Nat /\ Len(pending) \in Nat
    /\ Consecutive(outbound, w)
    /\ Consecutive(stream, w + Len(outbound))
    /\ Consecutive(batch, w + Len(outbound) + Len(stream))
    /\ Consecutive(pending, w + Len(outbound) + Len(stream) + Len(batch))

\* A step that does not write to the socket keeps the queues in order and the
\* number written; WriteOutbound takes the next one.
QueuesMove ==
    /\ Queued'
    /\ WriteOutbound => Head(outbound) = Written + 1 /\ Written' = Written + 1
    /\ ~WriteOutbound => Written' = Written

\* Every step that drops nothing moves the queues in order.
LEMMA QueuedStep ==
    ASSUME Types, OneQueue, Queued, Kept', [Next]_vars
    PROVE  QueuesMove
<1>0. Kept /\ emitted \in Nat
  BY MishapsGrow, QueueTypes DEF Kept
<1>1. PICK w \in Int : w = Written
  BY QueueTypes
<1>2. PICK a \in Nat, b \in Nat, c \in Nat, d \in Nat :
        a = Len(outbound) /\ b = Len(stream) /\ c = Len(batch) /\ d = Len(pending)
  BY QueueTypes
<1>3. emitted = w + a + b + c + d
  BY <1>0, <1>1, <1>2 DEF Written
<1>4. /\ Consecutive(outbound, w) /\ Consecutive(stream, w + a)
      /\ Consecutive(batch, w + a + b) /\ Consecutive(pending, w + a + b + c)
  BY <1>0, <1>1, <1>2 DEF Queued
<1>5. ASSUME NEW w1 \in Int, Laid(w1)'
      PROVE  Queued' /\ Written' = w1
  <2>1. Written' = w1
    BY <1>5 DEF Laid, Written
  <2> QED
    BY <1>5, <2>1 DEF Laid, Queued, Consecutive
<1>6. CASE UNCHANGED <<outbound, events>> /\ ~WriteOutbound
  <2>1. Laid(w)'
    BY <1>2, <1>3, <1>4, <1>6 DEF events, Laid, Consecutive
  <2>2. Queued' /\ Written' = w
    BY <1>5, <2>1
  <2> QED
    BY <1>1, <1>6, <2>2 DEF QueuesMove
<1>7. CASE EmitIceCandidate /\ ~WriteOutbound
  <2>1. /\ emitted + 1 \in Events /\ emitted' = emitted + 1 /\ RouteEvent(emitted + 1)
        /\ UNCHANGED <<outbound, subscribed, batch>>
    BY <1>7, NegotiationAssumption
       DEF EmitIceCandidate, Types, TypeOK, Events, delivery
  <2>2. CASE subscribed
    <3>1. /\ stream' = Append(stream, emitted + 1) /\ UNCHANGED pending
          /\ batch = <<>> /\ pending = <<>>
      BY <2>1, <2>2 DEF RouteEvent, Note, If, Kept, OneQueue
    <3>2. c = 0 /\ d = 0
      BY <1>2, <3>1
    <3>3. Consecutive(stream', w + a) /\ Len(stream') = b + 1
      BY <1>2, <1>3, <1>4, <2>1, <3>1, <3>2, ConsecutiveAppend, QueueTypes
    <3>4. Consecutive(batch', w + a + b + 1) /\ Consecutive(pending', w + a + b + 1)
      BY <2>1, <3>1 DEF Consecutive
    <3>5. Laid(w)'
      BY <1>2, <1>3, <1>4, <2>1, <3>1, <3>2, <3>3, <3>4 DEF Laid, Consecutive
    <3>6. Queued' /\ Written' = w
      BY <1>5, <3>5
    <3> QED
      BY <1>1, <1>7, <3>6 DEF QueuesMove
  <2>3. CASE ~subscribed
    <3>1. /\ pending' = Append(pending, emitted + 1) /\ UNCHANGED stream
      BY <2>1, <2>3 DEF RouteEvent, Note, If, Kept
    <3>2. Consecutive(pending', w + a + b + c) /\ Len(pending') = d + 1
      <4>1. pending \in Seq(Events) /\ w + a + b + c \in Int
        BY QueueTypes
      <4>2. emitted + 1 = (w + a + b + c) + Len(pending) + 1
        BY <1>2, <1>3
      <4> QED
        BY <1>2, <1>4, <2>1, <3>1, <4>1, <4>2, ConsecutiveAppend
    <3>3. Laid(w)'
      BY <1>2, <1>3, <1>4, <2>1, <3>1, <3>2 DEF Laid, Consecutive
    <3>4. Queued' /\ Written' = w
      BY <1>5, <3>3
    <3> QED
      BY <1>1, <1>7, <3>4 DEF QueuesMove
  <2> QED
    BY <2>2, <2>3
<1>8. CASE RegisterSignaling /\ ~WriteOutbound
  <2>1. /\ batch' = pending /\ pending' = <<>> /\ batch = <<>>
        /\ UNCHANGED <<outbound, emitted, stream>>
    BY <1>8 DEF RegisterSignaling, OneQueue, delivery
  <2>2. c = 0 /\ Len(pending') = 0
    BY <1>2, <2>1
  <2>3. Consecutive(pending', w + a + b + d)
    BY <2>1 DEF Consecutive
  <2>4. Laid(w)'
    BY <1>2, <1>3, <1>4, <2>1, <2>2, <2>3 DEF Laid, Consecutive
  <2>5. Queued' /\ Written' = w
    BY <1>5, <2>4
  <2> QED
    BY <1>1, <1>8, <2>5 DEF QueuesMove
<1>9. CASE FlushPending /\ ~WriteOutbound
  <2>1. /\ batch # <<>> /\ batch' = Tail(batch) /\ stream' = Append(stream, Head(batch))
        /\ UNCHANGED <<outbound, emitted, pending>>
    BY <1>9 DEF FlushPending, delivery
  <2>2. /\ Head(batch) = w + a + b + 1 /\ Head(batch) \in Events
        /\ Consecutive(batch', w + a + b + 1) /\ Len(batch') = c - 1 /\ c - 1 \in Nat
    BY <1>2, <1>4, <2>1, ConsecutiveTail, QueueTypes
  <2>3. Consecutive(stream', w + a) /\ Len(stream') = b + 1
    BY <1>2, <1>4, <2>1, <2>2, ConsecutiveAppend, QueueTypes
  <2>4. Laid(w)'
    BY <1>2, <1>3, <1>4, <2>1, <2>2, <2>3 DEF Laid, Consecutive
  <2>5. Queued' /\ Written' = w
    BY <1>5, <2>4
  <2> QED
    BY <1>1, <1>9, <2>5 DEF QueuesMove
<1>10. CASE HandleSfuEvent /\ ~WriteOutbound
  <2>1. /\ stream # <<>> /\ stream' = Tail(stream)
        /\ UNCHANGED <<emitted, batch, pending>>
    BY <1>10 DEF HandleSfuEvent
  <2>2. outbound' = Append(outbound, Head(stream))
    BY <1>0, <1>10
       DEF HandleSfuEvent, SendToPeer, DeliveryStatus, OneQueue, Kept, Note
  <2>3. /\ Head(stream) = w + a + 1 /\ Head(stream) \in Events
        /\ Consecutive(stream', w + a + 1) /\ Len(stream') = b - 1 /\ b - 1 \in Nat
    BY <1>2, <1>4, <2>1, ConsecutiveTail, QueueTypes
  <2>4. Consecutive(outbound', w) /\ Len(outbound') = a + 1
    BY <1>2, <1>4, <2>2, <2>3, ConsecutiveAppend, QueueTypes
  <2>5. Laid(w)'
    BY <1>2, <1>3, <1>4, <2>1, <2>3, <2>4 DEF Laid, Consecutive
  <2>6. Queued' /\ Written' = w
    BY <1>5, <2>5
  <2> QED
    BY <1>1, <1>10, <2>6 DEF QueuesMove
<1>11. CASE WriteOutbound
  <2>1. /\ outbound # <<>> /\ outbound' = Tail(outbound)
        /\ UNCHANGED <<emitted, stream, batch, pending>>
    BY <1>11 DEF WriteOutbound, events
  <2>2. /\ Head(outbound) = w + 1 /\ Consecutive(outbound', w + 1)
        /\ Len(outbound') = a - 1 /\ a - 1 \in Nat
    BY <1>2, <1>4, <2>1, ConsecutiveTail, QueueTypes
  <2>3. Laid(w + 1)'
    BY <1>2, <1>3, <1>4, <2>1, <2>2 DEF Laid, Consecutive
  <2>4. Queued' /\ Written' = w + 1
    BY <1>5, <2>3
  <2> QED
    BY <1>1, <1>11, <2>2, <2>4 DEF QueuesMove
<1>12. ~(RemovePeer \/ StreamLost)
  BY DEF RemovePeer, StreamLost, Note, Kept
<1>13. ASSUME NEW n \in Offers, Thread(n) PROVE UNCHANGED <<outbound, events>>
  BY <1>13 DEF Thread, EnterHandleSdp, ApplyRemoteOffer, RefuseRemoteOffer, AnswerReady,
               AnswerWaitOver, delivery
<1>14. \/ SendLocalOffer \/ SendIceCandidate \/ HandleRemoteSdp \/ HandleRemoteIceCandidate
       \/ Socket \/ Rpc \/ OnLocalDescription \/ UNCHANGED vars
       => UNCHANGED <<outbound, events>>
  BY DEF SendLocalOffer, SendIceCandidate, HandleRemoteSdp, HandleRemoteIceCandidate, Socket,
         HandleSdp, RefuseSdp, HandleCandidate, Rpc, ReplyAnswer, ReplyRejected, RpcTimeout,
         Reply, OnLocalDescription, vars, delivery
<1> QED
  BY <1>6, <1>7, <1>8, <1>9, <1>10, <1>11, <1>12, <1>13, <1>14 DEF Next

\* A message of the socket that is a candidate has a number.
LEMMA SentNumber ==
    ASSUME Types, NEW i \in 1..Len(outbox)
    PROVE  outbox[i].id \in Nat
<1>1. outbox[i] \in OutMessage
  BY DEF Types, Wire
<1>2. Offers \cup {None} \subseteq Nat /\ Events \subseteq Nat
  BY NegotiationAssumption DEF Offers, None, Events
<1> QED
  BY <1>1, <1>2 DEF OutMessage

\* Every step keeps the candidates of the socket between those taken and those
\* still queued, each once and in order.
LEMMA CarriedStep ==
    ASSUME Types, OneQueue, Queued, Carried, [Next]_vars
    PROVE  Carried'
<1> SUFFICES ASSUME Kept' PROVE Carried'
  BY DEF Carried
<1>0. Kept
  BY MishapsGrow DEF Kept
<1>1. QueuesMove
  BY QueuedStep
<1>2. PICK w \in Int, g \in Nat : w = Written /\ g = Len(got)
  BY QueueTypes
<1>3. /\ g <= w /\ Consecutive(got, 0)
      /\ \A i \in 1..Len(outbox) : outbox[i].kind = "candidate" =>
            g < outbox[i].id /\ outbox[i].id <= w
      /\ \A k \in (g + 1)..w :
            \E i \in 1..Len(outbox) : outbox[i].kind = "candidate" /\ outbox[i].id = k
      /\ \A i, j \in 1..Len(outbox) :
            outbox[i].kind = "candidate" /\ outbox[j].kind = "candidate" /\ i < j =>
              outbox[i].id < outbox[j].id
  BY <1>0, <1>2 DEF Carried
<1>4. CASE UNCHANGED <<got, outbox>> /\ ~WriteOutbound
  <2>1. Written' = Written
    BY <1>1, <1>4 DEF QueuesMove
  <2> QED
    BY <1>0, <1>4, <2>1 DEF Carried, Consecutive
<1>5. CASE WriteOutbound
  <2>1. Written' = w + 1 /\ got' = got /\ outbox'[Len(outbox) + 1].id = w + 1
    BY <1>1, <1>2, <1>5, WriteFacts DEF QueuesMove
  <2>2. /\ Len(outbox) \in Nat /\ Len(outbox') = Len(outbox) + 1
        /\ \A i \in 1..Len(outbox) : outbox'[i] = outbox[i]
        /\ Len(outbox) + 1 \in 1..Len(outbox')
        /\ outbox'[Len(outbox) + 1].kind = "candidate"
    BY <1>5, WriteFacts
  <2>3. ASSUME NEW i \in 1..Len(outbox'), outbox'[i].kind = "candidate"
        PROVE  g < outbox'[i].id /\ outbox'[i].id <= w + 1
    <3>1. CASE i \in 1..Len(outbox)
      BY <1>3, <2>2, <2>3, <3>1, SentNumber
    <3>2. CASE i = Len(outbox) + 1
      BY <1>3, <2>1, <3>2
    <3> QED
      BY <2>2, <3>1, <3>2
  <2>4. ASSUME NEW k \in (g + 1)..(w + 1)
        PROVE  \E i \in 1..Len(outbox') : outbox'[i].kind = "candidate" /\ outbox'[i].id = k
    <3>1. CASE k = w + 1
      BY <2>1, <2>2, <3>1
    <3>2. CASE k \in (g + 1)..w
      <4>1. PICK i \in 1..Len(outbox) : outbox[i].kind = "candidate" /\ outbox[i].id = k
        BY <1>3, <2>4, <3>2
      <4>2. i \in 1..Len(outbox') /\ outbox'[i] = outbox[i]
        BY <2>2
      <4> QED
        BY <4>1, <4>2
    <3> QED
      BY <2>4, <3>1, <3>2
  <2>5. ASSUME NEW i \in 1..Len(outbox'), NEW j \in 1..Len(outbox'),
               outbox'[i].kind = "candidate", outbox'[j].kind = "candidate", i < j
        PROVE  outbox'[i].id < outbox'[j].id
    <3>1. i \in 1..Len(outbox) /\ outbox'[i] = outbox[i]
      BY <2>2, <2>5
    <3>2. CASE j \in 1..Len(outbox)
      BY <1>3, <2>2, <2>5, <3>1, <3>2
    <3>3. CASE j = Len(outbox) + 1
      BY <1>3, <2>1, <2>5, <3>1, <3>3, SentNumber
    <3> QED
      BY <2>2, <3>2, <3>3
  <2>6. Len(got') = g /\ g <= w + 1 /\ Consecutive(got', 0)
    BY <1>2, <1>3, <2>1 DEF Consecutive
  <2> QED
    BY <2>1, <2>3, <2>4, <2>5, <2>6 DEF Carried
<1>6. CASE ReplyAnswer /\ got' = got /\ ~WriteOutbound
  <2>1. Written' = w
    BY <1>1, <1>2, <1>6 DEF QueuesMove
  <2>2. \A i \in 1..Len(outbox') : outbox'[i].kind = "candidate" =>
            i \in 1..Len(outbox) /\ outbox'[i] = outbox[i]
    <3> SUFFICES ASSUME NEW i \in 1..Len(outbox'), outbox'[i].kind = "candidate"
                 PROVE  i \in 1..Len(outbox) /\ outbox'[i] = outbox[i]
      OBVIOUS
    <3>1. i \in 1..Len(outbox) \/ i = Len(outbox) + 1
      BY <1>6, AnswerFacts
    <3> QED
      BY <1>6, <3>1, AnswerFacts
  <2>3. \A i \in 1..Len(outbox) : i \in 1..Len(outbox') /\ outbox'[i] = outbox[i]
    BY <1>6, AnswerFacts
  <2>4. ASSUME NEW k \in (g + 1)..w
        PROVE  \E i \in 1..Len(outbox') : outbox'[i].kind = "candidate" /\ outbox'[i].id = k
    <3>1. PICK i \in 1..Len(outbox) : outbox[i].kind = "candidate" /\ outbox[i].id = k
      BY <1>3, <2>4
    <3> QED
      BY <2>3, <3>1
  <2>5. Len(got') = g /\ Consecutive(got', 0)
    BY <1>2, <1>3, <1>6 DEF Consecutive
  <2> QED
    BY <1>3, <2>1, <2>2, <2>4, <2>5 DEF Carried
<1>7. CASE HandleRemoteSdp /\ ~WriteOutbound
  <2>1. /\ outbox # <<>> /\ outbox' = Tail(outbox) /\ Head(outbox).kind = "answer" /\ got' = got
    BY <1>7 DEF HandleRemoteSdp
  <2>2. Written' = w
    BY <1>1, <1>2, <1>7 DEF QueuesMove
  <2>3. /\ \A i \in 1..Len(outbox') : i + 1 \in 1..Len(outbox) /\ outbox'[i] = outbox[i + 1]
        /\ Len(outbox) \in Nat
    BY <2>1, TakeFacts
  <2>4. ASSUME NEW k \in (g + 1)..w
        PROVE  \E i \in 1..Len(outbox') : outbox'[i].kind = "candidate" /\ outbox'[i].id = k
    <3>1. PICK i \in 1..Len(outbox) : outbox[i].kind = "candidate" /\ outbox[i].id = k
      BY <1>3, <2>4
    <3>2. i \in 2..Len(outbox)
      BY <2>1, <3>1, TakeFacts
    <3> QED
      BY <2>1, <3>1, <3>2, TakeFacts
  <2>5. ASSUME NEW i \in 1..Len(outbox'), NEW j \in 1..Len(outbox'),
               outbox'[i].kind = "candidate", outbox'[j].kind = "candidate", i < j
        PROVE  outbox'[i].id < outbox'[j].id
    <3>1. /\ i + 1 \in 1..Len(outbox) /\ outbox'[i] = outbox[i + 1]
          /\ j + 1 \in 1..Len(outbox) /\ outbox'[j] = outbox[j + 1]
          /\ i + 1 < j + 1
      BY <2>3, <2>5
    <3> QED
      BY <1>3, <2>5, <3>1
  <2>6. ASSUME NEW i \in 1..Len(outbox'), outbox'[i].kind = "candidate"
        PROVE  g < outbox'[i].id /\ outbox'[i].id <= w
    <3>1. i + 1 \in 1..Len(outbox) /\ outbox'[i] = outbox[i + 1]
      BY <2>3
    <3> QED
      BY <1>3, <2>6, <3>1
  <2>7. Len(got') = g /\ g <= w /\ Consecutive(got', 0)
    BY <1>2, <1>3, <2>1 DEF Consecutive
  <2> QED
    BY <2>2, <2>4, <2>5, <2>6, <2>7 DEF Carried
<1>8. CASE HandleRemoteIceCandidate /\ ~WriteOutbound
  <2>1. /\ outbox # <<>> /\ outbox' = Tail(outbox) /\ Head(outbox).kind = "candidate"
        /\ got' = Append(got, Head(outbox).id)
    BY <1>8 DEF HandleRemoteIceCandidate
  <2>2. Written' = w
    BY <1>1, <1>2, <1>8 DEF QueuesMove
  <2>3. /\ \A i \in 1..Len(outbox') : i + 1 \in 1..Len(outbox) /\ outbox'[i] = outbox[i + 1]
        /\ Len(outbox) \in Nat
        /\ 1 \in 1..Len(outbox) /\ Head(outbox) = outbox[1] /\ outbox[1].kind = "candidate"
    BY <2>1, TakeFacts
  <2>4. outbox[1].id \in Nat /\ g < outbox[1].id /\ outbox[1].id <= w
    BY <1>3, <2>3, SentNumber
  <2>5. outbox[1].id = g + 1
    <3>1. PICK i \in 1..Len(outbox) : outbox[i].kind = "candidate" /\ outbox[i].id = g + 1
      BY <1>3, <2>4
    <3>2. i = 1 \/ 1 < i
      BY <2>3
    <3> QED
      BY <1>3, <2>3, <2>4, <3>1, <3>2
  <2>6. Consecutive(got', 0) /\ Len(got') = g + 1
    <3>1. Head(outbox) \in OutMessage
      BY <2>3 DEF Types, Wire
    <3>2. Head(outbox).id \in Events
      BY <2>1, <3>1 DEF OutMessage
    <3> QED
      BY <1>2, <1>3, <2>1, <2>3, <2>5, <3>2, ConsecutiveAppend, QueueTypes
  <2>7. ASSUME NEW k \in (g + 2)..w
        PROVE  \E i \in 1..Len(outbox') : outbox'[i].kind = "candidate" /\ outbox'[i].id = k
    <3>0. k \in (g + 1)..w /\ k # g + 1
      OBVIOUS
    <3>1. PICK i \in 1..Len(outbox) : outbox[i].kind = "candidate" /\ outbox[i].id = k
      BY <1>3, <3>0
    <3>2. i \in 2..Len(outbox)
      BY <2>3, <2>5, <3>0, <3>1
    <3> QED
      BY <2>1, <3>1, <3>2, TakeFacts
  <2>8. ASSUME NEW i \in 1..Len(outbox'), outbox'[i].kind = "candidate"
        PROVE  g + 1 < outbox'[i].id /\ outbox'[i].id <= w
    <3>1. /\ i + 1 \in 1..Len(outbox) /\ outbox'[i] = outbox[i + 1] /\ 1 < i + 1
      BY <2>3
    <3> QED
      BY <1>3, <2>3, <2>5, <2>8, <3>1
  <2>9. ASSUME NEW i \in 1..Len(outbox'), NEW j \in 1..Len(outbox'),
               outbox'[i].kind = "candidate", outbox'[j].kind = "candidate", i < j
        PROVE  outbox'[i].id < outbox'[j].id
    <3>1. /\ i + 1 \in 1..Len(outbox) /\ outbox'[i] = outbox[i + 1]
          /\ j + 1 \in 1..Len(outbox) /\ outbox'[j] = outbox[j + 1]
          /\ i + 1 < j + 1
      BY <2>3, <2>9
    <3> QED
      BY <1>3, <2>9, <3>1
  <2>10. g + 1 <= w
    BY <2>4
  <2> QED
    BY <2>2, <2>6, <2>7, <2>8, <2>9, <2>10 DEF Carried
<1>9. CASE Rpc /\ ~WriteOutbound
  <2>1. got' = got
    BY <1>9 DEF Rpc, ReplyAnswer, ReplyRejected, RpcTimeout, Reply, browser
  <2>2. ReplyRejected \/ RpcTimeout => outbox' = outbox
    BY DEF ReplyRejected, RpcTimeout, Reply, Types, TypeOK
  <2> QED
    BY <1>4, <1>6, <1>9, <2>1, <2>2 DEF Rpc
<1>10. ASSUME NEW n \in Offers, Thread(n) PROVE UNCHANGED <<got, outbox>>
  BY <1>10 DEF Thread, EnterHandleSdp, ApplyRemoteOffer, RefuseRemoteOffer, AnswerReady,
               AnswerWaitOver, browser
<1>11. \/ SendLocalOffer \/ SendIceCandidate \/ Socket \/ OnLocalDescription \/ RemovePeer
       \/ EmitIceCandidate \/ RegisterSignaling \/ FlushPending \/ StreamLost
       \/ HandleSfuEvent \/ UNCHANGED vars
       => UNCHANGED <<got, outbox>>
  BY DEF SendLocalOffer, SendIceCandidate, Socket, HandleSdp, RefuseSdp, HandleCandidate,
         OnLocalDescription, RemovePeer, EmitIceCandidate, RegisterSignaling, FlushPending,
         StreamLost, HandleSfuEvent, vars, browser
<1> QED
  BY <1>4, <1>5, <1>7, <1>8, <1>9, <1>10, <1>11 DEF Next

\* What the queues hold, joined.
LEMMA ExactOf ==
    ASSUME Types, Queued, Carried
    PROVE  EventsExact
<1> SUFFICES ASSUME Kept PROVE EventsExact
  BY DEF EventsExact, Kept
<1> DEFINE way == outbound \o stream \o batch \o pending
           sent == {i \in 1..Len(outbox) : outbox[i].kind = "candidate"}
<1>1. PICK w \in Int : w = Written
  BY QueueTypes
<1>2. /\ Consecutive(outbound, w) /\ Consecutive(stream, w + Len(outbound))
      /\ Consecutive(batch, w + Len(outbound) + Len(stream))
      /\ Consecutive(pending, w + Len(outbound) + Len(stream) + Len(batch))
  BY <1>1 DEF Queued
<1>3. way \in Seq(Events) /\ Consecutive(way, w) /\ emitted - Len(way) = w
  <2>1. PICK s2 \in Seq(Events) : s2 = outbound \o stream
    BY QueueTypes, ConcatProperties
  <2>2. Len(s2) = Len(outbound) + Len(stream) /\ Consecutive(s2, w)
    BY <1>2, <2>1, ConsecutiveConcat, QueueTypes
  <2>3. PICK s3 \in Seq(Events) : s3 = s2 \o batch
    BY QueueTypes, ConcatProperties
  <2>4. Consecutive(batch, w + Len(s2))
    BY <1>2, <2>2, QueueTypes DEF Consecutive
  <2>5. Len(s3) = Len(outbound) + Len(stream) + Len(batch) /\ Consecutive(s3, w)
    <3>1. batch \in Seq(Events)
      BY QueueTypes
    <3>2. Len(s3) = Len(s2) + Len(batch) /\ Consecutive(s3, w)
      BY <2>2, <2>3, <2>4, <3>1, ConsecutiveConcat
    <3> QED
      BY <2>2, <3>2
  <2>6. Consecutive(pending, w + Len(s3))
    BY <1>2, <2>5, QueueTypes DEF Consecutive
  <2>7. way = s3 \o pending
    BY <2>1, <2>3
  <2>8. /\ way \in Seq(Events) /\ Consecutive(way, w)
        /\ Len(way) = Len(s3) + Len(pending)
    BY <2>5, <2>6, <2>7, ConsecutiveConcat, QueueTypes
  <2>9. emitted - Len(way) = w
    BY <1>1, <2>5, <2>8, QueueTypes DEF Written
  <2> QED
    BY <2>8, <2>9
<1>4. /\ Len(got) \in Nat /\ Len(got) <= w
      /\ \A i \in 1..Len(got) : got[i] = i
  BY <1>1, QueueTypes DEF Carried, Consecutive
<1>5. {outbox[i].id : i \in sent} = (Len(got) + 1)..w
  <2>1. ASSUME NEW i \in sent PROVE outbox[i].id \in (Len(got) + 1)..w
    BY <1>1, <1>4, SentNumber DEF Carried
  <2>2. ASSUME NEW k \in (Len(got) + 1)..w PROVE \E i \in sent : outbox[i].id = k
    BY <1>1 DEF Carried
  <2> QED
    BY <2>1, <2>2
<1>6. \A i, j \in sent : i < j => outbox[i].id < outbox[j].id
  BY DEF Carried
<1>7. \A i \in 1..Len(way) : way[i] = w + i
  BY <1>3 DEF Consecutive
<1> HIDE DEF sent
<1>8. \A x : x = w => /\ Len(got) <= x
                      /\ \A i \in 1..Len(got) : got[i] = i
                      /\ {outbox[i].id : i \in sent} = (Len(got) + 1)..x
                      /\ \A i, j \in sent : i < j => outbox[i].id < outbox[j].id
                      /\ \A i \in 1..Len(way) : way[i] = x + i
  BY <1>4, <1>5, <1>6, <1>7
<1> HIDE DEF way
<1> QED
  BY <1>3, <1>8 DEF EventsExact, way, sent
-----------------------------------------------------------------------------
(* The invariant *)

IInv ==
    /\ TypeOK /\ Wire /\ OffersOnce
    /\ OneNegotiates /\ PromiseKept /\ AnswerMatches
    /\ Progress /\ Attended /\ Remembered
    /\ Rounds
    /\ InOrder /\ OutOrder /\ CandidatesUsable
    /\ OneQueue /\ Queued /\ Carried

\* Nothing has been sent yet.
LEMMA InitInv == Init => IInv
<1> SUFFICES ASSUME Init PROVE IInv
  OBVIOUS
<1> USE ConstantTypes
<1>1. OffersOnce /\ OneNegotiates /\ PromiseKept /\ AnswerMatches
  BY DEF Init, OffersOnce, OneNegotiates, PromiseKept, AnswerMatches, Busy
<1>2. Progress /\ Attended /\ Remembered
  BY DEF Init, Progress, Attended, Remembered, None
<1>3. Rounds /\ OutOrder /\ CandidatesUsable
  BY DEF Init, Rounds, OutOrder, CandidatesUsable, AnswerOut, None
<1>4. InOrder
  BY DEF Init, InOrder, None, Offers
<1>5. OneQueue /\ Queued /\ Carried
  BY DEF Init, OneQueue, Queued, Carried, Consecutive, Written
<1> QED
  BY <1>1, <1>2, <1>3, <1>4, <1>5, InitTypes DEF IInv

\* Every step keeps the invariant.
LEMMA StepInv == IInv /\ [Next]_vars => IInv'
<1> SUFFICES ASSUME IInv, [Next]_vars PROVE IInv'
  OBVIOUS
<1>1. Types /\ OffersOnce /\ PeerInv
  BY DEF IInv, Types, PeerInv
<1>2. Types' /\ OffersOnce' /\ PeerInv'
  BY <1>1, StepTypes, OffersStep, PeerStep
<1>3. Progress' /\ Attended' /\ Remembered'
  BY <1>1, ProgressStep, AttendedStep, RememberedStep DEF IInv
<1>4. Rounds' /\ InOrder' /\ OutOrder' /\ CandidatesUsable'
  BY <1>1, RoundsStep, InOrderStep, OutOrderStep, UsableStep DEF IInv
<1>5. OneQueue' /\ Queued' /\ Carried'
  <2>1. Kept' => Queued'
    BY <1>1, QueuedStep DEF IInv, QueuesMove
  <2>2. Queued'
    BY <2>1 DEF Queued
  <2> QED
    BY <1>1, <2>2, OneQueueStep, CarriedStep DEF IInv
<1> QED
  BY <1>2, <1>3, <1>4, <1>5 DEF IInv, Types, PeerInv

\* The strengthening is an invariant.
LEMMA Invariance == Spec => []IInv
  BY InitInv, StepInv, PTL DEF Spec
-----------------------------------------------------------------------------
(* Theorems *)

\* Messages, threads, promise, backlog and channel keep their types, and backlog
\* and channel their limits (event_router.cpp, peer_registry.rs).
THEOREM NegotiationTypes == Spec => []TypeOK
  BY Invariance, PTL DEF IInv

\* For any number of offers and retries an answer answers its own offer, until a
\* thread of the SFU gave up its 15 second wait (applyRemoteOffer).
THEOREM AnswersMatch == Spec => []AnswerMatches
  BY Invariance, PTL DEF IInv

\* With no message and no handler under way, and no offer that got an error or
\* crossed another, the browser has set the answer to its last offer
\* (send_local_offer, handle_remote_sdp).
THEOREM AnswersConverge == Spec => []Converges
<1>1. IInv => Converges
  BY DEF IInv, Rounds, Converges, Clean, OfferIn, AnswerOut
<1> QED
  BY <1>1, Invariance, PTL

\* Until something failed, no candidate reaches an end without a remote
\* description, in either direction, however the event stream and the answer of
\* HandleSDP race (websocket.rs, handle_remote_ice_candidate).
THEOREM CandidatesUseful == Spec => []CandidatesUsable
  BY Invariance, PTL DEF IInv

\* For any backlog and any channel the candidates of the SFU reach the browser
\* each once and in order, until one was dropped or overtaken, or the peer removed
\* (registerSignaling, routeEvent, send_to_peer).
THEOREM EventsStayExact == Spec => []EventsExact
<1>1. IInv => EventsExact
  BY ExactOf DEF IInv, Types
<1> QED
  BY <1>1, Invariance, PTL
=============================================================================

--------------------------- MODULE ChatHubProofs ---------------------------
(***************************************************************************)
(* Proofs about the chat service, for any set of connections and rooms and *)
(* any capacity of the channels.                                           *)
(***************************************************************************)
EXTENDS ChatHub, SequenceTheorems, TLAPS

LEMMA AppendIsLonger ==
  ASSUME NEW S, NEW s \in Seq(S), NEW x \in S
  PROVE  /\ Append(s, x) \in Seq(S)
         /\ Len(Append(s, x)) = Len(s) + 1
         /\ DOMAIN s = 1 .. Len(s)
         /\ DOMAIN Append(s, x) = 1 .. Len(s) + 1
         /\ \A i \in 1 .. Len(s) : Append(s, x)[i] = s[i]
         /\ Append(s, x)[Len(s) + 1] = x
  OBVIOUS

LEMMA EntriesOfAppend ==
  ASSUME NEW S, NEW s \in Seq(S), NEW x \in S
  PROVE  Entries(Append(s, x)) = Entries(s) \cup {x}
  BY AppendIsLonger DEF Entries

\* A client still to be served is one of the room of the broadcast under way.
LEMMA ToServe ==
  ASSUME TypeOK, ClientsAreLive, EventIsLast, NEW c \in todo
  PROVE  /\ event \in Message
         /\ event.room \in Rooms
         /\ c \in rooms[event.room]
         /\ c \in Conns
         /\ RoomOf[c] = event.room
         /\ c \notin closed
         /\ serve[c] = "serving"
  <1>1. event \in Message /\ c \in Conns
    BY DEF TypeOK, EventIsLast
  <1>2. event.room \in Rooms
    BY <1>1 DEF Message
  <1>3. c \in rooms[event.room]
    BY <1>1, NoMessageType DEF EventIsLast
  <1>. QED
    BY <1>1, <1>2, <1>3 DEF ClientsAreLive

\* The message a readLoop works on.
LEMMA Drafted ==
  ASSUME TypeOK, DraftIsLast,
         NEW c \in Conns, reader[c] \in {"stamped", "publishing"}
  PROVE  /\ draft[c] \in Message
         /\ draft[c] = [room |-> RoomOf[c], from |-> c, n |-> typed[c]]
         /\ draft[c].room = RoomOf[c]
         /\ draft[c].from = c
         /\ draft[c].n = typed[c]
         /\ RoomOf[c] \in Rooms
  BY RoomOfType DEF TypeOK, DraftIsLast, Message
-----------------------------------------------------------------------------
LEMMA TypeStep ==
  ASSUME IInv, [Next]_vars
  PROVE  TypeOK'
<1> USE CapacityType, RoomOfType DEF TypeOK, IInv
<1>1. ASSUME NEW c \in Conns, Authorize(c) PROVE TypeOK'
  BY <1>1 DEF Authorize
<1>2. ASSUME NEW c \in Conns, Upgrade(c) PROVE TypeOK'
  <2>0. PICK a \in {"upgraded", "refused"} : serve' = [serve EXCEPT ![c] = a]
    BY <1>2, Zenon DEF Upgrade
  <2>1. serve' \in [Conns -> {"new", "authorized", "upgraded", "serving", "refused"}]
    BY <2>0
  <2>2. conn' \in [Conns -> {"none", "open", "closed"}]
    BY <1>2 DEF Upgrade
  <2>. QED  BY <1>2, <2>1, <2>2 DEF Upgrade
<1>3. ASSUME NEW c \in Conns, Register(c) PROVE TypeOK'
  <2>1. RoomOf[c] \in Rooms /\ Len(feed[RoomOf[c]]) \in Nat
    OBVIOUS
  <2>. QED  BY <1>3, <2>1 DEF Register
<1>4. ASSUME NEW c \in Conns, ReadFrame(c) PROVE TypeOK'
  <2>1. \A r \in Rooms : Stamp(c, r) \in Message
    BY DEF Stamp, Message
  <2>. QED  BY <1>4, <2>1 DEF ReadFrame
<1>5. ASSUME NEW c \in Conns, Persist(c) PROVE TypeOK'
  <2>1. draft[c] \in Message
    BY <1>5, Drafted DEF Persist
  <2>2. table' \in Seq(Message)
    BY <1>5, <2>1 DEF Persist
  <2>. QED  BY <1>5, <2>2 DEF Persist
<1>6. ASSUME NEW c \in Conns, PersistFails(c) PROVE TypeOK'
  BY <1>6 DEF PersistFails
<1>7. ASSUME NEW c \in Conns, ReadClosed(c) \/ ReadBadFrame(c) PROVE TypeOK'
  BY <1>7 DEF ReadClosed, ReadBadFrame
<1>8. ASSUME NEW c \in Conns, Broadcast(c) PROVE TypeOK'
  <2>1. draft[c] \in Message /\ draft[c].room \in Rooms
    BY <1>8, Drafted DEF Broadcast
  <2>2. feed' \in [Rooms -> Seq(Message)]
    BY <1>8, <2>1 DEF Broadcast
  <2>3. todo' \in SUBSET Conns /\ event' \in Message \cup {NoMessage}
    BY <1>8, <2>1 DEF Broadcast
  <2>. QED  BY <1>8, <2>2, <2>3 DEF Broadcast
<1>9. ASSUME NEW c \in Conns, Offer(c) PROVE TypeOK'
  <2>1. event \in Message
    BY <1>9, ToServe DEF Offer
  <2>2. /\ sent' \in [Conns -> Seq(Message)]
        /\ \A d \in Conns : sent'[d] = IF d = c THEN Append(sent[c], event) ELSE sent[d]
        /\ Len(Append(sent[c], event)) = Len(sent[c]) + 1
    BY <1>9, <2>1 DEF Offer
  <2>3. \A d \in Conns : taken'[d] \in 0 .. Len(sent'[d]) /\ Len(sent'[d]) - taken'[d] <= Capacity
    BY <1>9, <2>2 DEF Offer
  <2>. QED  BY <1>9, <2>2, <2>3 DEF Offer, Served
<1>10. ASSUME NEW c \in Conns, Evict(c) PROVE TypeOK'
  <2>1. event.room \in Rooms
    BY <1>10, ToServe DEF Evict
  <2>2. /\ rooms' \in [Rooms -> SUBSET Conns]
        /\ closed' \in SUBSET Conns
    BY <1>10, <2>1 DEF Evict
  <2>3. event' \in Message \cup {NoMessage} /\ todo' \in SUBSET Conns
    BY <1>10, <2>1 DEF Evict, Served
  <2>. QED  BY <1>10, <2>2, <2>3 DEF Evict
<1>11. ASSUME NEW c \in Conns, Unregister(c) PROVE TypeOK'
  <2>1. CASE RoomOf[c] \in active
    <3>0. rooms' = [rooms EXCEPT ![RoomOf[c]] = @ \ {c}]
      BY <1>11, <2>1 DEF Unregister
    <3>1. rooms' \in [Rooms -> SUBSET Conns]
      BY <3>0
    <3>4. closed' \in SUBSET Conns
      BY <1>11, <2>1 DEF Unregister, ToClose
    <3>5. active' \in SUBSET Rooms
      BY <1>11, <2>1 DEF Unregister
    <3>3. panicked' \in BOOLEAN
      BY <1>11, <2>1, Zenon DEF Unregister
    <3>2. /\ reader' \in [Conns -> {"off", "reading", "stamped", "publishing", "leaving", "gone"}]
          /\ conn' \in [Conns -> {"none", "open", "closed"}]
      BY <1>11 DEF Unregister
    <3>. QED  BY <1>11, <3>1, <3>2, <3>3, <3>4, <3>5 DEF Unregister
  <2>2. CASE RoomOf[c] \notin active
    BY <1>11, <2>2 DEF Unregister
  <2>. QED  BY <2>1, <2>2
<1>12. ASSUME NEW c \in Conns, WriteFrame(c) PROVE TypeOK'
  <2>1. \A d \in Conns : taken'[d] \in 0 .. Len(sent'[d]) /\ Len(sent'[d]) - taken'[d] <= Capacity
    BY <1>12 DEF WriteFrame
  <2>. QED  BY <1>12, <2>1 DEF WriteFrame
<1>13. ASSUME NEW c \in Conns, WriterReturns(c) PROVE TypeOK'
  BY <1>13 DEF WriterReturns
<1>14. ASSUME NEW c \in Conns, PeerCloses(c) PROVE TypeOK'
  BY <1>14 DEF PeerCloses
<1>15. CASE UNCHANGED vars
  BY <1>15 DEF vars
<1>. QED
  BY <1>1, <1>2, <1>3, <1>4, <1>5, <1>6, <1>7, <1>8, <1>9, <1>10, <1>11,
     <1>12, <1>13, <1>14, <1>15
  DEF Next, Serve, Read, Hub, Write, WriteFails, WriteClosed, WriterDone
-----------------------------------------------------------------------------
\* What the pumps leave alone: only the hub touches rooms and channels.
LEMMA PumpsFrame ==
  ASSUME NEW c \in Conns, Read(c) \/ Write(c) \/ PeerCloses(c)
  PROVE  UNCHANGED <<serve, sent, closed, active, rooms, event, todo, feed, since, panicked>>
  BY DEF Read, ReadFrame, Persist, PersistFails, ReadClosed, ReadBadFrame,
         Write, WriteFrame, WriteFails, WriteClosed, WriterDone, WriterReturns, PeerCloses

\* Before the registration only the request's own state changes.
LEMMA RequestFrame ==
  ASSUME TypeOK, NEW c \in Conns, Authorize(c) \/ Upgrade(c)
  PROVE  /\ serve[c] # "serving" /\ serve'[c] # "serving"
         /\ \A d \in Conns : d # c => serve'[d] = serve[d]
         /\ UNCHANGED <<reader, typed, draft, writer, sent, taken, closed, active, rooms,
                        event, todo, table, feed, since, panicked>>
  <1>1. CASE Authorize(c)
    BY <1>1 DEF Authorize, TypeOK
  <1>2. CASE Upgrade(c)
    <2>1. PICK a \in {"upgraded", "refused"} : serve' = [serve EXCEPT ![c] = a]
      BY <1>2, Zenon DEF Upgrade
    <2>. QED  BY <1>2, <2>1 DEF Upgrade, TypeOK
  <1>. QED  BY <1>1, <1>2

\* A departure, read off Unregister without its IF.
LEMMA Departure ==
  ASSUME IInv, NEW c \in Conns, Unregister(c)
  PROVE  /\ RoomOf[c] \in Rooms
         /\ rooms' = [rooms EXCEPT ![RoomOf[c]] = @ \ {c}]
         /\ closed' = closed \cup ToClose(c)
         /\ active' \subseteq active
         /\ \A r \in active \ active' : r = RoomOf[c] /\ rooms[r] \subseteq {c}
         /\ panicked' = FALSE
         /\ event = NoMessage /\ todo = {} /\ event' = event /\ todo' = todo
         /\ UNCHANGED <<serve, typed, draft, writer, sent, taken, table, feed, since>>
         /\ reader' = [reader EXCEPT ![c] = "gone"]
         /\ reader[c] = "leaving"
  <1>1. RoomOf[c] \in Rooms
    BY RoomOfType
  <1>2. ToClose(c) \cap closed = {}
    BY <1>1 DEF IInv, ClientsAreLive, ToClose
  <1>3. RoomOf[c] \notin active => rooms[RoomOf[c]] = {}
    BY <1>1 DEF IInv, ClientsAreLive
  <1>4. panicked = FALSE
    BY DEF IInv, NeverPanics, TypeOK
  <1>5. CASE RoomOf[c] \in active
    <2>1. panicked' = FALSE
      BY <1>5, <1>2, <1>4, Zenon DEF Unregister
    <2>2. rooms' = [rooms EXCEPT ![RoomOf[c]] = @ \ {c}] /\ closed' = closed \cup ToClose(c)
      BY <1>5 DEF Unregister
    <2>3. active' \subseteq active /\ \A r \in active \ active' : r = RoomOf[c] /\ rooms[r] \subseteq {c}
      BY <1>5 DEF Unregister, LastOut
    <2>. QED  BY <1>1, <2>1, <2>2, <2>3 DEF Unregister, HubIdle, IInv, EventIsLast
  <1>6. CASE RoomOf[c] \notin active
    <2>1. ToClose(c) = {}
      BY <1>6, <1>3 DEF ToClose
    <2>2. rooms = [rooms EXCEPT ![RoomOf[c]] = @ \ {c}]
      BY <1>1, <1>3, <1>6 DEF IInv, TypeOK
    <2>3. UNCHANGED <<rooms, closed, panicked, active>>
      BY <1>6 DEF Unregister
    <2>. QED  BY <1>1, <1>4, <2>1, <2>2, <2>3 DEF Unregister, HubIdle, IInv, EventIsLast
  <1>. QED  BY <1>5, <1>6

LEMMA ClientsStep ==
  ASSUME IInv, [Next]_vars
  PROVE  ClientsAreLive'
<1> USE DEF IInv
<1>1. ASSUME NEW c \in Conns, Authorize(c) \/ Upgrade(c) PROVE ClientsAreLive'
  <2>1. \A r \in Rooms : rooms[r] \subseteq Conns
    BY DEF TypeOK
  <2>. QED  BY <1>1, <2>1, RequestFrame, Zenon DEF ClientsAreLive
<1>2. ASSUME NEW c \in Conns, Register(c) PROVE ClientsAreLive'
  <2>1. c \notin closed
    BY <1>2 DEF Register, NotYetServed
  <2>2. RoomOf[c] \in Rooms
    BY RoomOfType
  <2>3. ASSUME NEW r \in Rooms, NEW d \in rooms'[r]
        PROVE  RoomOf[d] = r /\ serve'[d] = "serving" /\ d \notin closed' /\ r \in active'
    <3>1. d \in Conns
      BY <1>2, <2>2, <2>3 DEF Register, TypeOK
    <3>2. CASE d = c /\ r = RoomOf[c]
      BY <1>2, <2>1, <3>2 DEF Register, TypeOK
    <3>3. CASE ~(d = c /\ r = RoomOf[c])
      <4>1. d \in rooms[r]
        BY <1>2, <2>2, <3>3, <2>3 DEF Register, TypeOK
      <4>2. serve[d] = "serving" /\ RoomOf[d] = r /\ d \notin closed /\ r \in active
        BY <4>1 DEF ClientsAreLive
      <4>. QED  BY <1>2, <3>1, <4>2 DEF Register, TypeOK
    <3>. QED  BY <3>2, <3>3
  <2>. QED  BY <2>3 DEF ClientsAreLive
<1>3. ASSUME NEW c \in Conns, Broadcast(c) \/ Offer(c) PROVE ClientsAreLive'
  BY <1>3 DEF Broadcast, Offer, ClientsAreLive
<1>4. ASSUME NEW c \in Conns, Evict(c) PROVE ClientsAreLive'
  <2>1. c \in rooms[event.room] /\ event.room \in Rooms /\ RoomOf[c] = event.room
    BY <1>4, ToServe DEF Evict
  <2>2. ASSUME NEW r \in Rooms, NEW d \in rooms'[r]
        PROVE  RoomOf[d] = r /\ serve'[d] = "serving" /\ d \notin closed' /\ r \in active'
    <3>1. d \in rooms[r]
      BY <1>4, <2>1, <2>2 DEF Evict, TypeOK
    <3>2. RoomOf[d] = r
      BY <3>1 DEF ClientsAreLive
    <3>3. d # c
      BY <1>4, <2>1, <2>2, <3>2 DEF Evict, TypeOK
    <3>. QED  BY <1>4, <3>1, <3>3 DEF Evict, ClientsAreLive
  <2>. QED  BY <2>2 DEF ClientsAreLive
<1>5. ASSUME NEW c \in Conns, Unregister(c) PROVE ClientsAreLive'
  <2>1. ASSUME NEW r \in Rooms, NEW d \in rooms'[r]
        PROVE  RoomOf[d] = r /\ serve'[d] = "serving" /\ d \notin closed' /\ r \in active'
    <3>0. rooms' = [rooms EXCEPT ![RoomOf[c]] = @ \ {c}] /\ RoomOf[c] \in Rooms
      BY <1>5, Departure
    <3>1. d \in rooms[r] /\ (r = RoomOf[c] => d # c)
      BY <2>1, <3>0 DEF TypeOK
    <3>2. RoomOf[d] = r /\ d # c /\ serve[d] = "serving" /\ d \notin closed /\ r \in active
      BY <3>1 DEF ClientsAreLive
    <3>3. d \notin closed'
      BY <1>5, <3>2, Departure DEF ToClose
    <3>4. r \in active'
      BY <1>5, <3>1, <3>2, Departure
    <3>. QED  BY <1>5, <3>2, <3>3, <3>4, Departure
  <2>. QED  BY <2>1 DEF ClientsAreLive
<1>6. ASSUME NEW c \in Conns, Read(c) \/ Write(c) \/ PeerCloses(c) PROVE ClientsAreLive'
  BY <1>6, PumpsFrame DEF ClientsAreLive
<1>7. CASE UNCHANGED vars
  BY <1>7 DEF vars, ClientsAreLive
<1>. QED
  BY <1>1, <1>2, <1>3, <1>4, <1>5, <1>6, <1>7 DEF Next, Serve, Hub

LEMMA EventStep ==
  ASSUME IInv, [Next]_vars
  PROVE  EventIsLast'
<1> USE DEF IInv
<1>1. ASSUME NEW c \in Conns, Authorize(c) \/ Upgrade(c) PROVE EventIsLast'
  BY <1>1, RequestFrame DEF EventIsLast
<1>2. ASSUME NEW c \in Conns, Register(c) PROVE EventIsLast'
  BY <1>2 DEF Register, HubIdle, EventIsLast
<1>3. ASSUME NEW c \in Conns, Broadcast(c) PROVE EventIsLast'
  <2>1. draft[c] \in Message /\ draft[c].room \in Rooms
    BY <1>3, Drafted DEF Broadcast
  <2> DEFINE r == draft[c].room
  <2>2. feed' = [feed EXCEPT ![r] = Append(@, draft[c])]
    BY <1>3 DEF Broadcast
  <2>3. feed'[r] = Append(feed[r], draft[c]) /\ feed[r] \in Seq(Message)
    BY <2>1, <2>2 DEF TypeOK
  <2>4. feed'[r] # << >> /\ feed'[r][Len(feed'[r])] = draft[c]
    BY <2>1, <2>3
  <2>5. CASE rooms[r] = {}
    BY <1>3, <2>5 DEF Broadcast, EventIsLast
  <2>6. CASE rooms[r] # {}
    <3>1. event' = draft[c] /\ todo' = rooms[r] /\ rooms' = rooms
      BY <1>3, <2>6 DEF Broadcast
    <3>2. event' # NoMessage
      BY <2>1, <3>1, NoMessageType
    <3>. QED  BY <2>4, <2>6, <3>1, <3>2 DEF EventIsLast
  <2>. QED  BY <2>5, <2>6
<1>4. ASSUME NEW c \in Conns, Offer(c) PROVE EventIsLast'
  <2>1. event # NoMessage
    BY <1>4 DEF Offer, EventIsLast
  <2>. QED  BY <1>4, <2>1 DEF Offer, Served, EventIsLast
<1>5. ASSUME NEW c \in Conns, Evict(c) PROVE EventIsLast'
  <2>1. event # NoMessage /\ event \in Message /\ event.room \in Rooms
    BY <1>5, ToServe DEF Evict, EventIsLast
  <2>2. rooms'[event.room] = rooms[event.room] \ {c}
    BY <1>5, <2>1 DEF Evict, TypeOK
  <2>3. todo' = todo \ {c} /\ event' = (IF todo = {c} THEN NoMessage ELSE event) /\ feed' = feed
    BY <1>5 DEF Evict, Served
  <2>4. CASE todo = {c}
    BY <2>3, <2>4 DEF EventIsLast
  <2>5. CASE todo # {c}
    BY <2>1, <2>2, <2>3, <2>5 DEF EventIsLast
  <2>. QED  BY <2>4, <2>5
<1>6. ASSUME NEW c \in Conns, Unregister(c) PROVE EventIsLast'
  BY <1>6, Departure DEF EventIsLast
<1>7. ASSUME NEW c \in Conns, Read(c) \/ Write(c) \/ PeerCloses(c) PROVE EventIsLast'
  BY <1>7, PumpsFrame DEF EventIsLast
<1>8. CASE UNCHANGED vars
  BY <1>8 DEF vars, EventIsLast
<1>. QED
  BY <1>1, <1>2, <1>3, <1>4, <1>5, <1>6, <1>7, <1>8 DEF Next, Serve, Hub

LEMMA NotYetStep ==
  ASSUME IInv, [Next]_vars
  PROVE  NotYetServed'
<1> USE DEF IInv
<1>1. ASSUME NEW c \in Conns, Authorize(c) \/ Upgrade(c) PROVE NotYetServed'
  BY <1>1, RequestFrame, Zenon DEF NotYetServed
<1>2. ASSUME NEW c \in Conns, Register(c) PROVE NotYetServed'
  <2>1. serve'[c] = "serving" /\ \A d \in Conns : d # c => serve'[d] = serve[d]
    BY <1>2 DEF Register, TypeOK
  <2>2. \A d \in Conns : d # c => reader'[d] = reader[d] /\ since'[d] = since[d]
    BY <1>2 DEF Register, TypeOK
  <2>. QED  BY <1>2, <2>1, <2>2 DEF Register, NotYetServed
<1>3. ASSUME NEW c \in Conns, Broadcast(c) PROVE NotYetServed'
  <2>1. serve[c] = "serving"
    BY <1>3 DEF Broadcast, NotYetServed
  <2>2. \A d \in Conns : d # c => reader'[d] = reader[d]
    BY <1>3 DEF Broadcast, TypeOK
  <2>. QED  BY <1>3, <2>1, <2>2 DEF Broadcast, NotYetServed
<1>4. ASSUME NEW c \in Conns, Offer(c) PROVE NotYetServed'
  <2>1. serve[c] = "serving"
    BY <1>4, ToServe DEF Offer
  <2>2. \A d \in Conns : d # c => sent'[d] = sent[d]
    BY <1>4 DEF Offer, TypeOK
  <2>. QED  BY <1>4, <2>1, <2>2 DEF Offer, NotYetServed
<1>5. ASSUME NEW c \in Conns, Evict(c) PROVE NotYetServed'
  <2>1. serve[c] = "serving"
    BY <1>5, ToServe DEF Evict
  <2>. QED  BY <1>5, <2>1 DEF Evict, NotYetServed
<1>6. ASSUME NEW c \in Conns, Unregister(c) PROVE NotYetServed'
  <2>1. serve[c] = "serving"
    BY <1>6 DEF Unregister, NotYetServed
  <2>2. \A d \in Conns : d # c => (d \in closed' => d \in closed)
    BY <1>6, Departure DEF ToClose
  <2>3. \A d \in Conns : d # c => reader'[d] = reader[d]
    BY <1>6 DEF Unregister, TypeOK
  <2>. QED  BY <1>6, <2>1, <2>2, <2>3, Departure DEF NotYetServed
<1>7. ASSUME NEW c \in Conns, Read(c) PROVE NotYetServed'
  <2>1. serve[c] = "serving"
    BY <1>7 DEF Read, ReadFrame, Persist, PersistFails, ReadClosed, ReadBadFrame, NotYetServed
  <2>2. \A d \in Conns : d # c => reader'[d] = reader[d]
    BY <1>7 DEF Read, ReadFrame, Persist, PersistFails, ReadClosed, ReadBadFrame, TypeOK
  <2>. QED  BY <1>7, <2>1, <2>2, PumpsFrame DEF NotYetServed
<1>8. ASSUME NEW c \in Conns, Write(c) \/ PeerCloses(c) PROVE NotYetServed'
  <2>1. reader' = reader
    BY <1>8 DEF Write, WriteFrame, WriteFails, WriteClosed, WriterDone, WriterReturns, PeerCloses
  <2>. QED  BY <1>8, <2>1, PumpsFrame DEF NotYetServed
<1>9. CASE UNCHANGED vars
  BY <1>9 DEF vars, NotYetServed
<1>. QED
  BY <1>1, <1>2, <1>3, <1>4, <1>5, <1>6, <1>7, <1>8, <1>9 DEF Next, Serve, Hub

\* Steps that neither type, store, hand over nor forget a message.
LEMMA DraftFrame ==
  ASSUME TypeOK, NEW c \in Conns,
         \/ Serve(c) \/ Offer(c) \/ Evict(c) \/ Unregister(c)
         \/ ReadClosed(c) \/ ReadBadFrame(c) \/ Write(c) \/ PeerCloses(c)
  PROVE  /\ UNCHANGED <<typed, draft, table, feed>>
         /\ \A d \in Conns : reader'[d] \in {"stamped", "publishing"} => reader'[d] = reader[d]
  <1>1. CASE Serve(c)
    BY <1>1 DEF Serve, Authorize, Upgrade, Register, TypeOK
  <1>2. CASE Offer(c) \/ Evict(c)
    BY <1>2 DEF Offer, Evict
  <1>3. CASE Unregister(c)
    BY <1>3 DEF Unregister, TypeOK
  <1>4. CASE ReadClosed(c) \/ ReadBadFrame(c)
    BY <1>4 DEF ReadClosed, ReadBadFrame, TypeOK
  <1>5. CASE Write(c) \/ PeerCloses(c)
    BY <1>5 DEF Write, WriteFrame, WriteFails, WriteClosed, WriterDone, WriterReturns, PeerCloses
  <1>. QED  BY <1>1, <1>2, <1>3, <1>4, <1>5

LEMMA DraftStep ==
  ASSUME IInv, [Next]_vars
  PROVE  DraftIsLast'
<1> USE DEF IInv
<1>1. ASSUME NEW c \in Conns, ReadFrame(c) PROVE DraftIsLast'
  <2>1. PICK claimed \in Rooms : draft' = [draft EXCEPT ![c] = Stamp(c, claimed)]
    BY <1>1 DEF ReadFrame
  <2>2. draft'[c] = [room |-> RoomOf[c], from |-> c, n |-> typed[c] + 1]
    BY <2>1 DEF Stamp, TypeOK
  <2>. typed[c] < MaxTyped
    BY <1>1 DEF ReadFrame, MayType
  <2>3. typed'[c] = typed[c] + 1 /\ typed'[c] <= MaxTyped /\ typed'[c] > 0
    BY <1>1, MaxTypedType DEF ReadFrame, TypeOK
  <2>4. reader'[c] = "stamped" /\ table' = table
    BY <1>1 DEF ReadFrame, TypeOK
  <2>5. \A d \in Conns : d # c => typed'[d] = typed[d] /\ draft'[d] = draft[d] /\ reader'[d] = reader[d]
    BY <1>1, <2>1 DEF ReadFrame, TypeOK
  <2>. QED  BY <2>2, <2>3, <2>4, <2>5 DEF DraftIsLast
<1>2. ASSUME NEW c \in Conns, Persist(c) PROVE DraftIsLast'
  <2>1. draft[c] \in Message /\ Entries(table') = Entries(table) \cup {draft[c]}
    BY <1>2, Drafted, EntriesOfAppend DEF Persist, TypeOK
  <2>2. \A d \in Conns : d # c => reader'[d] = reader[d]
    BY <1>2 DEF Persist, TypeOK
  <2>. QED  BY <1>2, <2>1, <2>2 DEF Persist, DraftIsLast
<1>3. ASSUME NEW c \in Conns, PersistFails(c) \/ Broadcast(c) PROVE DraftIsLast'
  <2>1. reader'[c] = "reading" /\ UNCHANGED <<typed, table>>
    BY <1>3 DEF PersistFails, Broadcast, TypeOK
  <2>2. \A d \in Conns : d # c => reader'[d] = reader[d] /\ draft'[d] = draft[d]
    BY <1>3 DEF PersistFails, Broadcast, TypeOK
  <2>. QED  BY <2>1, <2>2 DEF DraftIsLast
<1>4. ASSUME NEW c \in Conns,
             \/ Serve(c) \/ Offer(c) \/ Evict(c) \/ Unregister(c)
             \/ ReadClosed(c) \/ ReadBadFrame(c) \/ Write(c) \/ PeerCloses(c)
      PROVE  DraftIsLast'
  <2>1. /\ UNCHANGED <<typed, draft, table, feed>>
        /\ \A d \in Conns : reader'[d] \in {"stamped", "publishing"} => reader'[d] = reader[d]
    BY <1>4, DraftFrame
  <2>. QED  BY <2>1 DEF DraftIsLast
<1>5. CASE UNCHANGED vars
  BY <1>5 DEF vars, DraftIsLast
<1>. QED
  BY <1>1, <1>2, <1>3, <1>4, <1>5 DEF Next, Read, Hub

\* One more entry in the feed of a room.
LEMMA FeedGrows ==
  ASSUME IInv, NEW c \in Conns, Broadcast(c)
  PROVE  /\ draft[c] \in Message /\ RoomOf[c] \in Rooms
         /\ feed' = [feed EXCEPT ![RoomOf[c]] = Append(@, draft[c])]
         /\ Len(feed'[RoomOf[c]]) = Len(feed[RoomOf[c]]) + 1
         /\ feed'[RoomOf[c]][Len(feed[RoomOf[c]]) + 1] = draft[c]
         /\ \A r \in Rooms : r # RoomOf[c] => feed'[r] = feed[r]
         /\ \A r \in Rooms : \A i \in 1 .. Len(feed[r]) : feed'[r][i] = feed[r][i]
         /\ \A r \in Rooms : DOMAIN feed[r] = 1 .. Len(feed[r]) /\ DOMAIN feed'[r] = 1 .. Len(feed'[r])
  <1> USE DEF IInv
  <1>1. draft[c] \in Message /\ draft[c].room = RoomOf[c] /\ RoomOf[c] \in Rooms
    BY Drafted DEF Broadcast
  <1>2. feed' = [feed EXCEPT ![RoomOf[c]] = Append(@, draft[c])]
    BY <1>1 DEF Broadcast
  <1>3. feed'[RoomOf[c]] = Append(feed[RoomOf[c]], draft[c])
    BY <1>1, <1>2 DEF TypeOK
  <1>4. \A r \in Rooms : r # RoomOf[c] => feed'[r] = feed[r]
    BY <1>1, <1>2 DEF TypeOK
  <1>5. \A r \in Rooms : feed[r] \in Seq(Message) /\ feed'[r] \in Seq(Message)
    <2>1. \A r \in Rooms : feed[r] \in Seq(Message)
      BY DEF TypeOK
    <2>2. Append(feed[RoomOf[c]], draft[c]) \in Seq(Message)
      BY <1>1, <2>1
    <2>. QED  BY <1>3, <1>4, <2>1, <2>2
  <1>6. /\ Len(feed'[RoomOf[c]]) = Len(feed[RoomOf[c]]) + 1
        /\ feed'[RoomOf[c]][Len(feed[RoomOf[c]]) + 1] = draft[c]
        /\ \A i \in 1 .. Len(feed[RoomOf[c]]) : feed'[RoomOf[c]][i] = feed[RoomOf[c]][i]
    <2> DEFINE s == feed[RoomOf[c]]
    <2>1. s \in Seq(Message) /\ draft[c] \in Message
      BY <1>1, <1>5
    <2>2. /\ Len(Append(s, draft[c])) = Len(s) + 1
          /\ Append(s, draft[c])[Len(s) + 1] = draft[c]
          /\ \A i \in 1 .. Len(s) : Append(s, draft[c])[i] = s[i]
      <3> HIDE DEF s
      <3>. QED  BY <2>1, AppendIsLonger
    <2>. QED  BY <1>3, <2>2
  <1>7. \A r \in Rooms : DOMAIN feed[r] = 1 .. Len(feed[r]) /\ DOMAIN feed'[r] = 1 .. Len(feed'[r])
    BY <1>5
  <1>. QED  BY <1>1, <1>2, <1>4, <1>6, <1>7

LEMMA FeedTypes ==
  ASSUME TypeOK, NEW r \in Rooms
  PROVE  /\ feed[r] \in Seq(Message)
         /\ DOMAIN feed[r] = 1 .. Len(feed[r])
         /\ Len(feed[r]) \in Nat
         /\ \A i \in DOMAIN feed[r] :
              /\ feed[r][i] \in Message
              /\ feed[r][i].from \in Conns
              /\ feed[r][i].n \in Nat
  <1>1. feed[r] \in Seq(Message)
    BY DEF TypeOK
  <1>2. \A i \in DOMAIN feed[r] : feed[r][i] \in Message
    BY <1>1
  <1>3. \A m \in Message : m.from \in Conns /\ m.n \in Nat
    BY DEF Message
  <1>. QED  BY <1>1, <1>2, <1>3

\* An entry of a feed after a broadcast is an old one, or the message.
LEMMA OldOrNew ==
  ASSUME IInv, NEW c \in Conns, Broadcast(c), NEW r \in Rooms, NEW i \in DOMAIN feed'[r]
  PROVE  \/ r = RoomOf[c] /\ i = Len(feed[r]) + 1 /\ feed'[r][i] = draft[c]
         \/ i \in DOMAIN feed[r] /\ feed'[r][i] = feed[r][i]
  <1>1. DOMAIN feed[r] = 1 .. Len(feed[r]) /\ Len(feed[r]) \in Nat
    BY FeedTypes DEF IInv
  <1>2. CASE r = RoomOf[c]
    <2>1. i \in 1 .. Len(feed[r]) + 1
      BY <1>2, FeedGrows
    <2>. QED  BY <1>1, <1>2, <2>1, FeedGrows
  <1>3. CASE r # RoomOf[c]
    BY <1>3, FeedGrows
  <1>. QED  BY <1>2, <1>3

LEMMA FeedStep ==
  ASSUME IInv, [Next]_vars
  PROVE  FeedIsPast'
<1> USE DEF IInv
<1>0. \A r \in Rooms : \A i \in DOMAIN feed[r] : feed[r][i].from \in Conns /\ feed[r][i].n \in Nat
  BY FeedTypes
<1>1. ASSUME NEW c \in Conns, ReadFrame(c) PROVE FeedIsPast'
  <2>1. feed' = feed /\ typed'[c] = typed[c] + 1 /\ typed[c] \in Nat
    BY <1>1 DEF ReadFrame, TypeOK
  <2>2. \A d \in Conns : d # c => typed'[d] = typed[d] /\ reader'[d] = reader[d]
    BY <1>1 DEF ReadFrame, TypeOK
  <2>. QED  BY <1>0, <2>1, <2>2 DEF FeedIsPast
<1>2. ASSUME NEW c \in Conns, Persist(c) \/ PersistFails(c) PROVE FeedIsPast'
  <2>1. UNCHANGED <<typed, feed>> /\ reader[c] = "stamped"
    BY <1>2 DEF Persist, PersistFails
  <2>2. \A d \in Conns : d # c => reader'[d] = reader[d]
    BY <1>2 DEF Persist, PersistFails, TypeOK
  <2>. QED  BY <1>0, <2>1, <2>2 DEF FeedIsPast
<1>3. ASSUME NEW c \in Conns, Broadcast(c) PROVE FeedIsPast'
  <2>1. draft[c].room = RoomOf[c] /\ draft[c].from = c /\ draft[c].n = typed[c] /\ typed[c] \in Nat
    BY <1>3, Drafted DEF Broadcast, TypeOK
  <2>2. reader'[c] = "reading" /\ typed' = typed
    BY <1>3 DEF Broadcast, TypeOK
  <2>3. \A d \in Conns : d # c => reader'[d] = reader[d]
    BY <1>3 DEF Broadcast, TypeOK
  <2>4. ASSUME NEW r \in Rooms, NEW i \in DOMAIN feed'[r]
        PROVE  LET m == feed'[r][i] IN
               /\ m.room = r
               /\ RoomOf[m.from] = r
               /\ m.n <= typed'[m.from]
               /\ reader'[m.from] \in {"stamped", "publishing"} => m.n < typed'[m.from]
    <3>1. CASE r = RoomOf[c] /\ i = Len(feed[r]) + 1
      BY <1>3, <2>1, <2>2, <3>1, FeedGrows
    <3>2. CASE ~(r = RoomOf[c] /\ i = Len(feed[r]) + 1)
      <4>1. i \in DOMAIN feed[r] /\ feed'[r][i] = feed[r][i]
        BY <1>3, <2>4, <3>2, OldOrNew
      <4>. QED  BY <1>0, <2>2, <2>3, <4>1 DEF FeedIsPast
    <3>. QED  BY <3>1, <3>2
  <2>. QED  BY <2>4 DEF FeedIsPast
<1>4. ASSUME NEW c \in Conns,
             \/ Serve(c) \/ Offer(c) \/ Evict(c) \/ Unregister(c)
             \/ ReadClosed(c) \/ ReadBadFrame(c) \/ Write(c) \/ PeerCloses(c)
      PROVE  FeedIsPast'
  <2>1. /\ UNCHANGED <<typed, draft, table, feed>>
        /\ \A d \in Conns : reader'[d] \in {"stamped", "publishing"} => reader'[d] = reader[d]
    BY <1>4, DraftFrame
  <2>. QED  BY <1>0, <2>1 DEF FeedIsPast
<1>5. CASE UNCHANGED vars
  BY <1>5 DEF vars, FeedIsPast
<1>. QED
  BY <1>1, <1>2, <1>3, <1>4, <1>5 DEF Next, Read, Hub

\* No step sends on, or closes, a closed channel.
LEMMA PanicStep ==
  ASSUME IInv, [Next]_vars
  PROVE  NeverPanics'
<1> USE DEF IInv
<1>1. ASSUME NEW c \in Conns, Offer(c) \/ Evict(c) PROVE NeverPanics'
  <2>1. c \notin closed
    BY <1>1, ToServe DEF Offer, Evict
  <2>2. panicked' = (panicked \/ c \in closed)
    BY <1>1, Zenon DEF Offer, Evict
  <2>. QED  BY <2>1, <2>2, Zenon DEF NeverPanics
<1>2. ASSUME NEW c \in Conns, Unregister(c) PROVE NeverPanics'
  BY <1>2, Departure DEF NeverPanics
<1>3. ASSUME NEW c \in Conns, Serve(c) \/ Broadcast(c) PROVE NeverPanics'
  BY <1>3 DEF Serve, Authorize, Upgrade, Register, Broadcast, NeverPanics
<1>4. ASSUME NEW c \in Conns, Read(c) \/ Write(c) \/ PeerCloses(c) PROVE NeverPanics'
  BY <1>4, PumpsFrame DEF NeverPanics
<1>5. CASE UNCHANGED vars
  BY <1>5 DEF vars, NeverPanics
<1>. QED
  BY <1>1, <1>2, <1>3, <1>4, <1>5 DEF Next, Hub

\* The next entry a client of the room is to be handed is the broadcast itself.
LEMMA NextEntry ==
  ASSUME IInv, NEW c \in todo
  PROVE  /\ c \in Conns
         /\ since[c] \in Nat /\ Len(sent[c]) \in Nat
         /\ sent[c] \in Seq(Message)
         /\ since[c] + Len(sent[c]) + 1 = Len(feed[RoomOf[c]])
         /\ event = feed[RoomOf[c]][since[c] + Len(sent[c]) + 1]
         /\ event \in Message
  <1>1. c \in Conns /\ c \in rooms[RoomOf[c]] /\ RoomOf[c] = event.room /\ event \in Message
    BY ToServe DEF IInv
  <1>2. event # NoMessage
    BY <1>1, NoMessageType
  <1>3. since[c] \in Nat /\ sent[c] \in Seq(Message) /\ Len(sent[c]) \in Nat
    BY <1>1 DEF IInv, TypeOK
  <1>4. since[c] + Len(sent[c]) + 1 = Len(feed[RoomOf[c]])
    BY <1>1 DEF IInv, Stretch
  <1>5. event = feed[RoomOf[c]][Len(feed[RoomOf[c]])]
    BY <1>1, <1>2 DEF IInv, EventIsLast
  <1>. QED  BY <1>1, <1>3, <1>4, <1>5

LEMMA StretchStep ==
  ASSUME IInv, [Next]_vars
  PROVE  Stretch'
<1> USE DEF IInv
<1> DEFINE Straight(d) ==
      /\ since[d] + Len(sent[d]) <= Len(feed[RoomOf[d]])
      /\ \A i \in 1 .. Len(sent[d]) : sent[d][i] = feed[RoomOf[d]][since[d] + i]
      /\ d \in rooms[RoomOf[d]] =>
           since[d] + Len(sent[d]) + (IF d \in todo THEN 1 ELSE 0) = Len(feed[RoomOf[d]])
<1>0. /\ \A d \in Conns : Straight(d)
      /\ \A d \in Conns : /\ since[d] \in Nat /\ Len(sent[d]) \in Nat /\ sent[d] \in Seq(Message)
                          /\ RoomOf[d] \in Rooms /\ Len(feed[RoomOf[d]]) \in Nat
  BY RoomOfType DEF Stretch, TypeOK
<1>1. ASSUME NEW c \in Conns, Authorize(c) \/ Upgrade(c) PROVE Stretch'
  BY <1>1, RequestFrame DEF Stretch
<1>2. ASSUME NEW c \in Conns, Register(c) PROVE Stretch'
  <2>1. /\ sent' = sent /\ feed' = feed /\ todo' = todo /\ todo = {}
        /\ since'[c] = Len(feed[RoomOf[c]])
        /\ \A d \in Conns : d # c => since'[d] = since[d]
    BY <1>2 DEF Register, HubIdle, EventIsLast, TypeOK
  <2>2. sent[c] = << >>
    BY <1>2 DEF Register, NotYetServed
  <2>3. \A d \in Conns : d # c /\ d \in rooms'[RoomOf[d]] => d \in rooms[RoomOf[d]]
    BY <1>0, <1>2 DEF Register, TypeOK
  <2>4. Straight(c)'
    BY <1>0, <2>1, <2>2
  <2>5. \A d \in Conns : d # c => Straight(d)'
    BY <1>0, <2>1, <2>3
  <2>. QED  BY <2>4, <2>5 DEF Stretch
<1>3. ASSUME NEW c \in Conns, Broadcast(c) PROVE Stretch'
  <2>1. UNCHANGED <<since, sent, rooms>> /\ todo = {}
    BY <1>3 DEF Broadcast, HubIdle, EventIsLast
  <2>2. todo' = rooms[RoomOf[c]]
    BY <1>3, Drafted DEF Broadcast
  <2>3. ASSUME NEW d \in Conns PROVE Straight(d)'
    <3>1. \A i \in 1 .. Len(sent[d]) : since[d] + i \in 1 .. Len(feed[RoomOf[d]])
      BY <1>0
    <3>2. \A i \in 1 .. Len(sent[d]) : feed'[RoomOf[d]][since[d] + i] = feed[RoomOf[d]][since[d] + i]
      BY <1>0, <1>3, <3>1, FeedGrows
    <3>3. \A i \in 1 .. Len(sent'[d]) : sent'[d][i] = feed'[RoomOf[d]][since'[d] + i]
      BY <1>0, <2>1, <3>2
    <3>4. CASE RoomOf[d] = RoomOf[c]
      <4>1. Len(feed'[RoomOf[d]]) = Len(feed[RoomOf[d]]) + 1
        BY <1>3, <3>4, FeedGrows
      <4>2. d \in rooms[RoomOf[d]] => d \in todo'
        BY <2>2, <3>4
      <4>. QED  BY <1>0, <2>1, <3>3, <4>1, <4>2
    <3>5. CASE RoomOf[d] # RoomOf[c]
      <4>1. feed'[RoomOf[d]] = feed[RoomOf[d]]
        BY <1>0, <1>3, <3>5, FeedGrows
      <4>2. d \in rooms[RoomOf[d]] => d \notin todo'
        BY <1>0, <2>2, <3>5 DEF ClientsAreLive
      <4>. QED  BY <1>0, <2>1, <3>3, <4>1, <4>2
    <3>. QED  BY <3>4, <3>5
  <2>. QED  BY <2>3 DEF Stretch
<1>4. ASSUME NEW c \in Conns, Offer(c) PROVE Stretch'
  <2>1. /\ UNCHANGED <<since, rooms, feed>>
        /\ c \in todo /\ todo' = todo \ {c}
        /\ sent' = [sent EXCEPT ![c] = Append(@, event)]
    BY <1>4 DEF Offer, Served
  <2>2. /\ event \in Message /\ event = feed[RoomOf[c]][since[c] + Len(sent[c]) + 1]
        /\ since[c] + Len(sent[c]) + 1 = Len(feed[RoomOf[c]])
    BY <2>1, NextEntry
  <2>3. sent'[c] = Append(sent[c], event) /\ \A d \in Conns : d # c => sent'[d] = sent[d]
    BY <2>1 DEF TypeOK
  <2>4. /\ Len(sent'[c]) = Len(sent[c]) + 1
        /\ \A i \in 1 .. Len(sent[c]) : sent'[c][i] = sent[c][i]
        /\ sent'[c][Len(sent[c]) + 1] = event
    BY <1>0, <2>2, <2>3, AppendIsLonger
  <2>5. Straight(c)'
    <3>0. RoomOf[c] \in Rooms /\ since'[c] = since[c] /\ feed' = feed /\ c \notin todo'
      BY <1>0, <2>1
    <3>1. ASSUME NEW i \in 1 .. Len(sent'[c]) PROVE sent'[c][i] = feed[RoomOf[c]][since[c] + i]
      <4>1. CASE i = Len(sent[c]) + 1
        BY <1>0, <2>2, <2>4, <4>1
      <4>2. CASE i # Len(sent[c]) + 1
        <5>1. i \in 1 .. Len(sent[c])
          BY <1>0, <2>4, <4>2
        <5>2. sent'[c][i] = sent[c][i]
          BY <2>4, <5>1
        <5>3. sent[c][i] = feed[RoomOf[c]][since[c] + i]
          BY <1>0, <5>1
        <5>. QED  BY <5>2, <5>3
      <4>. QED  BY <4>1, <4>2
    <3>2. since[c] + Len(sent'[c]) + 0 = Len(feed[RoomOf[c]])
      BY <1>0, <2>2, <2>4
    <3>3. since[c] + Len(sent'[c]) <= Len(feed[RoomOf[c]])
      BY <1>0, <3>0, <3>2
    <3>. QED  BY <3>0, <3>1, <3>2, <3>3
  <2>6. \A d \in Conns : d # c => Straight(d)'
    BY <1>0, <2>1, <2>3
  <2>. QED  BY <2>5, <2>6 DEF Stretch
<1>5. ASSUME NEW c \in Conns, Evict(c) PROVE Stretch'
  <2>1. /\ UNCHANGED <<since, sent, feed>>
        /\ c \in todo /\ todo' = todo \ {c}
    BY <1>5 DEF Evict, Served
  <2>2. event.room \in Rooms /\ RoomOf[c] = event.room
    BY <2>1, ToServe
  <2>3. rooms' = [rooms EXCEPT ![event.room] = @ \ {c}]
    BY <1>5 DEF Evict
  <2>4. c \notin rooms'[RoomOf[c]] /\ \A d \in Conns : d \in rooms'[RoomOf[d]] => d \in rooms[RoomOf[d]]
    BY <1>0, <2>2, <2>3 DEF TypeOK
  <2>5. \A d \in Conns : Straight(d)'
    BY <1>0, <2>1, <2>4
  <2>. QED  BY <2>5 DEF Stretch
<1>6. ASSUME NEW c \in Conns, Unregister(c) PROVE Stretch'
  <2>1. /\ UNCHANGED <<since, sent, feed, todo>>
        /\ rooms' = [rooms EXCEPT ![RoomOf[c]] = @ \ {c}]
    BY <1>6, Departure
  <2>2. \A d \in Conns : d \in rooms'[RoomOf[d]] => d \in rooms[RoomOf[d]]
    BY <1>0, <2>1 DEF TypeOK
  <2>3. \A d \in Conns : Straight(d)'
    BY <1>0, <2>1, <2>2
  <2>. QED  BY <2>3 DEF Stretch
<1>7. ASSUME NEW c \in Conns, Read(c) \/ Write(c) \/ PeerCloses(c) PROVE Stretch'
  BY <1>7, PumpsFrame DEF Stretch
<1>8. CASE UNCHANGED vars
  BY <1>8 DEF vars, Stretch
<1>. QED
  BY <1>1, <1>2, <1>3, <1>4, <1>5, <1>6, <1>7, <1>8 DEF Next, Serve, Hub

LEMMA StoredStep ==
  ASSUME IInv, [Next]_vars
  PROVE  BroadcastIsStored'
<1> USE DEF IInv
<1>1. ASSUME NEW c \in Conns, Broadcast(c) PROVE BroadcastIsStored'
  <2>1. draft[c] \in Entries(table) /\ table' = table
    BY <1>1 DEF Broadcast, DraftIsLast
  <2>2. ASSUME NEW r \in Rooms, NEW i \in DOMAIN feed'[r] PROVE feed'[r][i] \in Entries(table)
    <3>1. CASE i \in DOMAIN feed[r] /\ feed'[r][i] = feed[r][i]
      BY <3>1 DEF BroadcastIsStored, Entries
    <3>2. CASE feed'[r][i] = draft[c]
      BY <2>1, <3>2
    <3>. QED  BY <1>1, <3>1, <3>2, OldOrNew
  <2>. QED  BY <2>1, <2>2 DEF BroadcastIsStored, Entries
<1>2. ASSUME NEW c \in Conns, Persist(c) PROVE BroadcastIsStored'
  <2>1. Entries(table') = Entries(table) \cup {draft[c]} /\ feed' = feed
    BY <1>2, Drafted, EntriesOfAppend DEF Persist, TypeOK
  <2>2. \A r \in Rooms : Entries(feed'[r]) = Entries(feed[r])
    BY <2>1
  <2>. QED  BY <2>1, <2>2 DEF BroadcastIsStored
<1>3. ASSUME NEW c \in Conns, ReadFrame(c) \/ PersistFails(c) PROVE BroadcastIsStored'
  BY <1>3 DEF ReadFrame, PersistFails, BroadcastIsStored
<1>4. ASSUME NEW c \in Conns,
             \/ Serve(c) \/ Offer(c) \/ Evict(c) \/ Unregister(c)
             \/ ReadClosed(c) \/ ReadBadFrame(c) \/ Write(c) \/ PeerCloses(c)
      PROVE  BroadcastIsStored'
  BY <1>4, DraftFrame DEF BroadcastIsStored
<1>5. CASE UNCHANGED vars
  BY <1>5 DEF vars, BroadcastIsStored
<1>. QED
  BY <1>1, <1>2, <1>3, <1>4, <1>5 DEF Next, Read, Hub

LEMMA OrderStep ==
  ASSUME IInv, [Next]_vars
  PROVE  SenderOrder'
<1> USE DEF IInv
<1>1. ASSUME NEW c \in Conns, Broadcast(c) PROVE SenderOrder'
  <2>1. draft[c].from = c /\ draft[c].n = typed[c] /\ reader[c] = "publishing"
    BY <1>1, Drafted DEF Broadcast
  <2>2. ASSUME NEW r \in Rooms, NEW i \in DOMAIN feed'[r], NEW j \in DOMAIN feed'[r],
               i < j, feed'[r][i].from = feed'[r][j].from
        PROVE  feed'[r][i].n < feed'[r][j].n
    <3>1. DOMAIN feed[r] = 1 .. Len(feed[r]) /\ Len(feed[r]) \in Nat
      BY FeedTypes
    <3>2. i \in DOMAIN feed[r] /\ feed'[r][i] = feed[r][i]
      <4>1. CASE i = Len(feed[r]) + 1 /\ r = RoomOf[c]
        <5>1. j \in 1 .. Len(feed[r]) + 1
          BY <1>1, <4>1, FeedGrows
        <5>. QED  BY <2>2, <3>1, <4>1, <5>1
      <4>. QED  BY <1>1, <2>2, <4>1, OldOrNew
    <3>3. CASE j \in DOMAIN feed[r] /\ feed'[r][j] = feed[r][j]
      BY <2>2, <3>2, <3>3 DEF SenderOrder
    <3>4. CASE feed'[r][j] = draft[c]
      <4>1. feed[r][i].from = c
        BY <2>1, <2>2, <3>2, <3>4
      <4>. QED  BY <2>1, <3>2, <3>4, <4>1 DEF FeedIsPast
    <3>. QED  BY <1>1, <2>2, <3>3, <3>4, OldOrNew
  <2>. QED  BY <2>2 DEF SenderOrder
<1>2. ASSUME NEW c \in Conns, ReadFrame(c) \/ Persist(c) \/ PersistFails(c) PROVE SenderOrder'
  BY <1>2 DEF ReadFrame, Persist, PersistFails, SenderOrder
<1>3. ASSUME NEW c \in Conns,
             \/ Serve(c) \/ Offer(c) \/ Evict(c) \/ Unregister(c)
             \/ ReadClosed(c) \/ ReadBadFrame(c) \/ Write(c) \/ PeerCloses(c)
      PROVE  SenderOrder'
  BY <1>3, DraftFrame DEF SenderOrder
<1>4. CASE UNCHANGED vars
  BY <1>4 DEF vars, SenderOrder
<1>. QED
  BY <1>1, <1>2, <1>3, <1>4 DEF Next, Read, Hub
-----------------------------------------------------------------------------
LEMMA InitIsSound == Init => IInv
<1> SUFFICES ASSUME Init PROVE IInv
  OBVIOUS
<1>1. TypeOK
  <2>1. << >> \in Seq(Message) /\ Len(<< >>) = 0
    OBVIOUS
  <2>2. \A c \in Conns : taken[c] = 0 /\ Len(sent[c]) = 0
    BY <2>1 DEF Init
  <2>3. ASSUME NEW c \in Conns
        PROVE  taken[c] \in 0 .. Len(sent[c]) /\ Len(sent[c]) - taken[c] <= Capacity
    <3>1. taken[c] = 0 /\ Len(sent[c]) = 0
      BY <2>2
    <3>. QED  BY <3>1, CapacityType
  <2>. QED  BY <2>1, <2>3 DEF Init, TypeOK
<1>2. ClientsAreLive /\ EventIsLast /\ NotYetServed /\ NeverPanics
  BY DEF Init, ClientsAreLive, EventIsLast, NotYetServed, NeverPanics
<1>3. DraftIsLast
  <2>1. \A c \in Conns : typed[c] = 0 /\ reader[c] = "off"
    BY DEF Init
  <2>2. 0 <= MaxTyped
    BY MaxTypedType
  <2>. QED  BY <2>1, <2>2 DEF DraftIsLast
<1>4. \A r \in Rooms : feed[r] = << >> /\ DOMAIN feed[r] = {} /\ Len(feed[r]) = 0
  BY DEF Init
<1>5. FeedIsPast /\ BroadcastIsStored /\ SenderOrder
  BY <1>4 DEF FeedIsPast, BroadcastIsStored, SenderOrder, Entries
<1>6. Stretch
  <2>1. \A c \in Conns : since[c] = 0 /\ Len(sent[c]) = 0 /\ RoomOf[c] \in Rooms
    BY RoomOfType DEF Init
  <2>2. \A c \in Conns : rooms[RoomOf[c]] = {}
    BY <2>1 DEF Init
  <2>3. ASSUME NEW c \in Conns
        PROVE  /\ since[c] + Len(sent[c]) <= Len(feed[RoomOf[c]])
               /\ \A i \in 1 .. Len(sent[c]) : sent[c][i] = feed[RoomOf[c]][since[c] + i]
               /\ c \notin rooms[RoomOf[c]]
    <3>1. since[c] = 0 /\ Len(sent[c]) = 0 /\ Len(feed[RoomOf[c]]) = 0
      BY <1>4, <2>1
    <3>. QED  BY <2>2, <3>1
  <2>. QED  BY <2>3, Zenon DEF Stretch
<1>. QED  BY <1>1, <1>2, <1>3, <1>5, <1>6 DEF IInv

LEMMA StepIsSound == IInv /\ [Next]_vars => IInv'
  BY TypeStep, ClientsStep, EventStep, NotYetStep, DraftStep, FeedStep, PanicStep,
     StretchStep, StoredStep, OrderStep DEF IInv

\* The inductive invariant of the chat service.
THEOREM Invariance == Spec => []IInv
  BY InitIsSound, StepIsSound, PTL DEF Spec

\* Every variable keeps its type, and no channel holds more than its capacity.
THEOREM TypeCorrect == Spec => []TypeOK
<1>1. IInv => TypeOK
  BY DEF IInv
<1>. QED  BY <1>1, Invariance, PTL

\* The hub never sends on a closed channel and never closes one twice, in
\* whatever order evictions and departures reach it.
THEOREM HubNeverPanics == Spec => []NeverPanics
<1>1. IInv => NeverPanics
  BY DEF IInv
<1>. QED  BY <1>1, Invariance, PTL

\* What a client is sent is a stretch of its room's feed that begins where it
\* joined: no gap, no duplicate, no reordering.
THEOREM DeliveryIsAStretch == Spec => []Stretch
<1>1. IInv => Stretch
  BY DEF IInv
<1>. QED  BY <1>1, Invariance, PTL

\* Whatever is broadcast has been stored.
THEOREM StoredFirst == Spec => []BroadcastIsStored
<1>1. IInv => BroadcastIsStored
  BY DEF IInv
<1>. QED  BY <1>1, Invariance, PTL

\* The messages of one connection are broadcast in the order they were typed,
\* each at most once.
THEOREM SenderOrderKept == Spec => []SenderOrder
<1>1. IInv => SenderOrder
  BY DEF IInv
<1>. QED  BY <1>1, Invariance, PTL

\* A client only receives what was typed in its own room.
THEOREM RoomsAreIsolated == Spec => []RoomIsolation
<1>1. IInv => RoomIsolation
  <2> SUFFICES ASSUME IInv, NEW c \in Conns, NEW i \in DOMAIN sent[c]
               PROVE  RoomOf[sent[c][i].from] = RoomOf[c]
    BY DEF RoomIsolation, Entries
  <2>1. sent[c] \in Seq(Message) /\ since[c] \in Nat /\ RoomOf[c] \in Rooms
    BY RoomOfType DEF IInv, TypeOK
  <2>2. i \in 1 .. Len(sent[c]) /\ Len(sent[c]) \in Nat
    BY <2>1
  <2>3. sent[c][i] = feed[RoomOf[c]][since[c] + i] /\ since[c] + i \in 1 .. Len(feed[RoomOf[c]])
    BY <2>1, <2>2, FeedTypes DEF IInv, Stretch
  <2>. QED  BY <2>1, <2>3, FeedTypes DEF IInv, FeedIsPast
<1>. QED  BY <1>1, Invariance, PTL
-----------------------------------------------------------------------------
\* The service starts as the feed does.
LEMMA FeedInit == Init => Promise!Init
<1> SUFFICES ASSUME Init PROVE Promise!Init
  OBVIOUS
<1>1. Entries(table) = {}
  BY DEF Init, Entries
<1>2. [c \in Conns |-> Phase(c)] = [c \in Conns |-> "out"]
  BY RoomOfType DEF Init, Phase
<1>. QED  BY <1>1, <1>2 DEF Init, Promise!Init

\* A step that leaves alone what the feed sees.
LEMMA Unseen ==
  ASSUME UNCHANGED <<table, feed, since, sent>>, \A c \in Conns : Phase(c)' = Phase(c)
  PROVE  UNCHANGED Promise!vars
  BY Zenon DEF Promise!vars

\* Only the phase of c changes.
LEMMA PhaseOf ==
  ASSUME NEW c \in Conns, NEW p, Phase(c)' = p, \A d \in Conns : d # c => Phase(d)' = Phase(d)
  PROVE  [d \in Conns |-> Phase(d)]' = [[d \in Conns |-> Phase(d)] EXCEPT ![c] = p]
  OBVIOUS

\* Every step of the service is a step of the feed, or none.
LEMMA FeedNext ==
  ASSUME IInv, IInv', [Next]_vars
  PROVE  [Promise!Next]_(Promise!vars)
<1> USE DEF IInv
<1>0. \A d \in Conns : RoomOf[d] \in Rooms
  BY RoomOfType
<1>1. ASSUME NEW c \in Conns, Authorize(c) \/ Upgrade(c) PROVE UNCHANGED Promise!vars
  <2>1. \A d \in Conns : Phase(d)' = Phase(d)
    BY <1>1, RequestFrame, Zenon DEF Phase
  <2>. QED  BY <1>1, <2>1, RequestFrame, Unseen
<1>2. ASSUME NEW c \in Conns, Register(c) PROVE Promise!Join(c)
  <2>1. c \notin rooms[RoomOf[c]] /\ serve[c] # "serving"
    BY <1>0, <1>2 DEF Register, ClientsAreLive
  <2>2. rooms' = [rooms EXCEPT ![RoomOf[c]] = @ \cup {c}] /\ serve' = [serve EXCEPT ![c] = "serving"]
    BY <1>2 DEF Register
  <2>3. Phase(c) = "out" /\ Phase(c)' = "in"
    BY <1>0, <2>1, <2>2 DEF Phase, TypeOK
  <2>4. \A d \in Conns : d # c => Phase(d)' = Phase(d)
    BY <1>0, <2>2 DEF Phase, TypeOK
  <2>5. [d \in Conns |-> Phase(d)]' = [[d \in Conns |-> Phase(d)] EXCEPT ![c] = "in"]
    BY <2>3, <2>4, PhaseOf
  <2>6. UNCHANGED <<Entries(table), feed, sent>> /\ since' = [since EXCEPT ![c] = Len(feed[RoomOf[c]])]
    BY <1>2 DEF Register, Entries
  <2>. QED  BY <2>3, <2>5, <2>6 DEF Promise!Join
<1>3. ASSUME NEW c \in Conns, Persist(c)
      PROVE  \E m \in [room : Rooms, from : Conns, n : 1 .. MaxTyped] : Promise!Archive(m)
  <2>1. draft[c] \in [room : Rooms, from : Conns, n : 1 .. MaxTyped]
    <3>1. typed[c] \in 1 .. MaxTyped
      BY <1>3, MaxTypedType DEF Persist, TypeOK, DraftIsLast
    <3>2. draft[c] = [room |-> RoomOf[c], from |-> c, n |-> typed[c]]
      BY <1>3, Drafted DEF Persist
    <3>. QED  BY <1>0, <3>1, <3>2
  <2>2. Entries(table)' = Entries(table) \cup {draft[c]}
    <3>1. Entries(Append(table, draft[c])) = Entries(table) \cup {draft[c]}
      BY <1>3, Drafted, EntriesOfAppend DEF Persist, TypeOK
    <3>2. table' = Append(table, draft[c])
      BY <1>3 DEF Persist
    <3>. QED  BY <3>1, <3>2 DEF Entries
  <2>3. \A d \in Conns : Phase(d)' = Phase(d)
    BY <1>3 DEF Persist, Phase
  <2>4. Promise!Archive(draft[c])
    BY <1>3, <2>2, <2>3, Zenon DEF Persist, Promise!Archive
  <2>. QED  BY <2>1, <2>4
<1>4. ASSUME NEW c \in Conns,
             \/ ReadFrame(c) \/ PersistFails(c) \/ ReadClosed(c) \/ ReadBadFrame(c)
             \/ Write(c) \/ PeerCloses(c)
      PROVE  UNCHANGED Promise!vars
  <2>1. UNCHANGED <<table, feed, since, sent, rooms, serve>>
    BY <1>4 DEF ReadFrame, PersistFails, ReadClosed, ReadBadFrame, Write, WriteFrame, WriteFails,
                WriteClosed, WriterDone, WriterReturns, PeerCloses
  <2>2. \A d \in Conns : Phase(d)' = Phase(d)
    BY <2>1 DEF Phase
  <2>. QED  BY <2>1, <2>2, Unseen
<1>5. ASSUME NEW c \in Conns, Broadcast(c)
      PROVE  \E m \in [room : Rooms, from : Conns, n : 1 .. MaxTyped] : Promise!Publish(m)
  <2>1. /\ draft[c] \in [room : Rooms, from : Conns, n : 1 .. MaxTyped]
        /\ draft[c].room = RoomOf[c] /\ draft[c].from = c /\ draft[c].n = typed[c]
    BY <1>5, <1>0, MaxTypedType, Drafted DEF Broadcast, TypeOK, DraftIsLast
  <2>2. draft[c] \in Entries(table)
    BY <1>5 DEF Broadcast, DraftIsLast
  <2>3. \A i \in DOMAIN feed[RoomOf[c]] : feed[RoomOf[c]][i] # draft[c]
    <3>1. reader[c] = "publishing" /\ typed[c] \in Nat
      BY <1>5 DEF Broadcast, TypeOK
    <3>. QED  BY <1>0, <2>1, <3>1 DEF FeedIsPast
  <2>4. feed' = [feed EXCEPT ![RoomOf[c]] = Append(@, draft[c])]
    BY <1>5, FeedGrows
  <2>5. UNCHANGED <<Entries(table), since, sent>>
    BY <1>5 DEF Broadcast, Entries
  <2>6. \A d \in Conns : Phase(d)' = Phase(d)
    BY <1>5 DEF Broadcast, Phase
  <2>7. Promise!Publish(draft[c])
    BY <2>1, <2>2, <2>3, <2>4, <2>5, <2>6, Zenon DEF Promise!Publish
  <2>. QED  BY <2>1, <2>7
<1>6. ASSUME NEW c \in Conns, Offer(c) PROVE Promise!Hand(c)
  <2>1. /\ c \in todo
        /\ sent' = [sent EXCEPT ![c] = Append(@, event)]
        /\ UNCHANGED <<Entries(table), feed, since, rooms, serve>>
    BY <1>6 DEF Offer, Entries
  <2>2. /\ since[c] + Len(sent[c]) + 1 = Len(feed[RoomOf[c]])
        /\ event = feed[RoomOf[c]][since[c] + Len(sent[c]) + 1]
        /\ since[c] + Len(sent[c]) + 1 \in Nat
    BY <2>1, NextEntry
  <2>3. Phase(c) = "in"
    BY <2>1, ToServe DEF Phase
  <2>4. \A d \in Conns : Phase(d)' = Phase(d)
    BY <2>1 DEF Phase
  <2>5. since[c] + Len(sent[c]) + 1 <= Len(feed[RoomOf[c]])
    BY <2>2
  <2>6. sent' = [sent EXCEPT ![c] = Append(@, feed[RoomOf[c]][since[c] + Len(sent[c]) + 1])]
    BY <2>1, <2>2
  <2>. QED  BY <2>1, <2>3, <2>4, <2>5, <2>6, Zenon DEF Promise!Hand
<1>7. ASSUME NEW c \in Conns, Evict(c) \/ Unregister(c)
      PROVE  Promise!Drop(c) \/ UNCHANGED Promise!vars
  <2>1. UNCHANGED <<table, feed, since, sent, serve>>
    BY <1>7, Departure DEF Evict
  <2>2. rooms' = [rooms EXCEPT ![RoomOf[c]] = @ \ {c}]
    BY <1>7, Departure, ToServe DEF Evict
  <2>3. \A d \in Conns : d # c => Phase(d)' = Phase(d)
    BY <1>0, <2>1, <2>2 DEF Phase, TypeOK
  <2>4. CASE c \in rooms[RoomOf[c]]
    <3>1. Phase(c) = "in" /\ Phase(c)' = "dropped"
      BY <1>0, <2>1, <2>2, <2>4 DEF Phase, TypeOK, ClientsAreLive
    <3>2. [d \in Conns |-> Phase(d)]' = [[d \in Conns |-> Phase(d)] EXCEPT ![c] = "dropped"]
      BY <2>3, <3>1, PhaseOf
    <3>3. UNCHANGED <<Entries(table), feed, since, sent>>
      BY <2>1 DEF Entries
    <3>. QED  BY <3>1, <3>2, <3>3 DEF Promise!Drop
  <2>5. CASE c \notin rooms[RoomOf[c]]
    <3>1. Phase(c)' = Phase(c)
      BY <1>0, <2>1, <2>2, <2>5 DEF Phase, TypeOK
    <3>. QED  BY <2>1, <2>3, <3>1, Unseen
  <2>. QED  BY <2>4, <2>5
<1>8. CASE UNCHANGED vars
  <2>1. UNCHANGED <<table, feed, since, sent, rooms, serve>>
    BY <1>8 DEF vars
  <2>2. \A d \in Conns : Phase(d)' = Phase(d)
    BY <2>1 DEF Phase
  <2>. QED  BY <2>1, <2>2, Unseen
<1>. QED
  BY <1>1, <1>2, <1>3, <1>4, <1>5, <1>6, <1>7, <1>8 DEF Next, Serve, Read, Hub, Promise!Next

\* The hub, the pumps and the store together keep the promise of one ordered
\* feed per room.
THEOREM ImplementsFeed == Spec => ImplementsRoomFeed
  BY FeedInit, FeedNext, StepIsSound, Invariance, PTL DEF Spec, ImplementsRoomFeed, Promise!Spec
=============================================================================

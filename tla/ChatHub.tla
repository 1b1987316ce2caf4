------------------------------ MODULE ChatHub -------------------------------
(***************************************************************************)
(* The WebSocket chat service of the Go backend                            *)
(* (ytblnd-backend/route_layer/chat.go).                                   *)
(*                                                                         *)
(* One goroutine runs the hub: it owns the map of rooms and takes          *)
(* registrations, departures and broadcasts from three unbuffered          *)
(* channels.  Every connection has a buffered channel "send", filled by    *)
(* the hub and drained by the connection's writeLoop, and a readLoop that  *)
(* stores each incoming message and then hands it to the hub.  A rendezvous*)
(* on an unbuffered channel is one step of two goroutines; the hub's loop  *)
(* over the clients of a room is one step per client.                      *)
(*                                                                         *)
(* The send channel of c is kept as all that was ever put into it, sent[c],*)
(* and the number of entries writeLoop took out, taken[c].                 *)
(***************************************************************************)
EXTENDS Naturals, Sequences, FiniteSets

CONSTANTS
  Conns,       \* the connections (ChatClient objects) of one server run
  Rooms,
  RoomOf,      \* [Conns -> Rooms]: the chat room of the blend it names
  Capacity,    \* of a send channel (256 in the code)
  MaxTyped,    \* bound: messages typed on one connection
  MaxInAll,    \* bound: messages typed on all of them together
  NoMessage

ASSUME RoomOfType == RoomOf \in [Conns -> Rooms]
ASSUME CapacityType == Capacity \in Nat \ {0}
ASSUME MaxTypedType == MaxTyped \in Nat
ASSUME MaxInAllType == MaxInAll \in Nat

\* A message is known by the connection it was typed on and its rank there.
Message == [room : Rooms, from : Conns, n : Nat]

ASSUME NoMessageType == NoMessage \notin Message

VARIABLES
  serve,       \* per connection, how far serveChatWS got
  conn,        \* per connection, the state of the socket
  reader,      \* per connection, where readLoop is
  typed,       \* per connection, the number of messages read from it
  draft,       \* per connection, the message readLoop is working on
  writer,      \* per connection, whether writeLoop runs
  sent, taken, \* per connection, the send channel
  closed,      \* the connections whose send channel is closed
  active,      \* the rooms the hub has an entry for
  rooms,       \* per room, the clients of its entry
  event, todo, \* the broadcast being delivered, the clients not yet served
  table,       \* chat_messages, in order of message_id
  feed,        \* per room, the broadcasts the hub took (history variable)
  since,       \* per connection, Len(feed) when it registered (history)
  panicked     \* a send on, or a close of, a closed channel ends the server

vars == <<serve, conn, reader, typed, draft, writer, sent, taken, closed,
          active, rooms, event, todo, table, feed, since, panicked>>

\* The type of every variable; a channel holds at most Capacity messages, and
\* writeLoop takes no message that was not put into it.
TypeOK ==
  /\ serve \in [Conns -> {"new", "authorized", "upgraded", "serving", "refused"}]
  /\ conn \in [Conns -> {"none", "open", "closed"}]
  /\ reader \in [Conns -> {"off", "reading", "stamped", "publishing", "leaving", "gone"}]
  /\ typed \in [Conns -> Nat]
  /\ draft \in [Conns -> Message \cup {NoMessage}]
  /\ writer \in [Conns -> {"off", "writing", "gone"}]
  /\ sent \in [Conns -> Seq(Message)]
  /\ taken \in [Conns -> Nat]
  /\ \A c \in Conns : taken[c] \in 0 .. Len(sent[c]) /\ Len(sent[c]) - taken[c] <= Capacity
  /\ closed \in SUBSET Conns
  /\ active \in SUBSET Rooms
  /\ rooms \in [Rooms -> SUBSET Conns]
  /\ event \in Message \cup {NoMessage}
  /\ todo \in SUBSET Conns
  /\ table \in Seq(Message)
  /\ feed \in [Rooms -> Seq(Message)]
  /\ since \in [Conns -> Nat]
  /\ panicked \in BOOLEAN

Init ==
  /\ serve = [c \in Conns |-> "new"]
  /\ conn = [c \in Conns |-> "none"]
  /\ reader = [c \in Conns |-> "off"]
  /\ typed = [c \in Conns |-> 0]
  /\ draft = [c \in Conns |-> NoMessage]
  /\ writer = [c \in Conns |-> "off"]
  /\ sent = [c \in Conns |-> << >>]
  /\ taken = [c \in Conns |-> 0]
  /\ closed = {}
  /\ active = {}
  /\ rooms = [r \in Rooms |-> {}]
  /\ event = NoMessage
  /\ todo = {}
  /\ table = << >>
  /\ feed = [r \in Rooms |-> << >>]
  /\ since = [c \in Conns |-> 0]
  /\ panicked = FALSE
-----------------------------------------------------------------------------
(* serveChatWS                                                             *)

\* authorizeChatRoom: the store says that the user is a member, or it says
\* no, fails or knows no such room, and the request ends.
Authorize(c) ==
  /\ serve[c] = "new"
  /\ \E answer \in {"authorized", "refused"} : serve' = [serve EXCEPT ![c] = answer]
  /\ UNCHANGED <<conn, reader, typed, draft, writer, sent, taken, closed,
                 active, rooms, event, todo, table, feed, since, panicked>>

\* The HTTP connection becomes a WebSocket, or the upgrade fails.
Upgrade(c) ==
  /\ serve[c] = "authorized"
  /\ \/ /\ serve' = [serve EXCEPT ![c] = "upgraded"]
        /\ conn' = [conn EXCEPT ![c] = "open"]
     \/ /\ serve' = [serve EXCEPT ![c] = "refused"]
        /\ UNCHANGED conn
  /\ UNCHANGED <<reader, typed, draft, writer, sent, taken, closed,
                 active, rooms, event, todo, table, feed, since, panicked>>

HubIdle == event = NoMessage

\* hub.register <- client meets the hub, which adds the client to its room;
\* serveChatWS then starts both pumps.
Register(c) ==
  /\ serve[c] = "upgraded"
  /\ HubIdle
  /\ active' = active \cup {RoomOf[c]}
  /\ rooms' = [rooms EXCEPT ![RoomOf[c]] = @ \cup {c}]
  /\ since' = [since EXCEPT ![c] = Len(feed[RoomOf[c]])]
  /\ serve' = [serve EXCEPT ![c] = "serving"]
  /\ reader' = [reader EXCEPT ![c] = "reading"]
  /\ writer' = [writer EXCEPT ![c] = "writing"]
  /\ UNCHANGED <<conn, typed, draft, sent, taken, closed, event, todo, table,
                 feed, panicked>>
-----------------------------------------------------------------------------
(* readLoop                                                                *)

\* Mutant: the room is the one the frame claims.
StampClaimed(c, claimed) == [room |-> claimed, from |-> c, n |-> typed[c] + 1]

\* The routing fields a client supplies are overwritten with the trusted
\* ones of its connection.
Stamp(c, claimed) == [room |-> RoomOf[c], from |-> c, n |-> typed[c] + 1]

\* The bounds allow one more message on c.
MayType(c) ==
  /\ typed[c] < MaxTyped
  /\ Cardinality(UNION {{d} \X (1 .. typed[d]) : d \in Conns}) < MaxInAll

\* ReadJSON returns a frame with some content (an empty one is ignored); the
\* frame claims to be for some room.  A frame that had arrived before the
\* socket closed is still in the buffer of the connection.
ReadFrame(c) ==
  /\ reader[c] = "reading"
  /\ MayType(c)
  /\ \E claimed \in Rooms : draft' = [draft EXCEPT ![c] = Stamp(c, claimed)]
  /\ typed' = [typed EXCEPT ![c] = @ + 1]
  /\ reader' = [reader EXCEPT ![c] = "stamped"]
  /\ UNCHANGED <<serve, conn, writer, sent, taken, closed, active, rooms,
                 event, todo, table, feed, since, panicked>>

\* SaveChatMessage succeeds, and the message is to be broadcast ...
\* (Mutant: only while the socket is open.)
PersistWhileOpen(c) ==
  /\ reader[c] = "stamped"
  /\ table' = Append(table, draft[c])
  /\ IF conn[c] = "open"
     THEN reader' = [reader EXCEPT ![c] = "publishing"] /\ UNCHANGED draft
     ELSE /\ reader' = [reader EXCEPT ![c] = "leaving"]
          /\ draft' = [draft EXCEPT ![c] = NoMessage]
  /\ UNCHANGED <<serve, conn, typed, writer, sent, taken, closed,
                 active, rooms, event, todo, feed, since, panicked>>

Persist(c) ==
  /\ reader[c] = "stamped"
  /\ table' = Append(table, draft[c])
  /\ reader' = [reader EXCEPT ![c] = "publishing"]
  /\ UNCHANGED <<serve, conn, typed, draft, writer, sent, taken, closed,
                 active, rooms, event, todo, feed, since, panicked>>

\* ... or it fails, and readLoop forgets the message and reads the next one.
\* (Mutant: the failure is logged and the message broadcast all the same.)
PersistFailsLoudly(c) ==
  /\ reader[c] = "stamped"
  /\ reader' = [reader EXCEPT ![c] = "publishing"]
  /\ UNCHANGED <<serve, conn, typed, draft, writer, sent, taken, closed, active,
                 rooms, event, todo, table, feed, since, panicked>>

PersistFails(c) ==
  /\ reader[c] = "stamped"
  /\ draft' = [draft EXCEPT ![c] = NoMessage]
  /\ reader' = [reader EXCEPT ![c] = "reading"]
  /\ UNCHANGED <<serve, conn, typed, writer, sent, taken, closed, active,
                 rooms, event, todo, table, feed, since, panicked>>

\* ReadJSON fails on a closed socket.
ReadClosed(c) ==
  /\ reader[c] = "reading"
  /\ conn[c] = "closed"
  /\ reader' = [reader EXCEPT ![c] = "leaving"]
  /\ UNCHANGED <<serve, conn, typed, draft, writer, sent, taken, closed,
                 active, rooms, event, todo, table, feed, since, panicked>>

\* ReadJSON fails on a socket that can still be written: a frame that is not
\* JSON or too large, the peer's close frame, or no pong within pongWait.
ReadBadFrame(c) ==
  /\ reader[c] = "reading"
  /\ conn[c] = "open"
  /\ reader' = [reader EXCEPT ![c] = "leaving"]
  /\ UNCHANGED <<serve, conn, typed, draft, writer, sent, taken, closed,
                 active, rooms, event, todo, table, feed, since, panicked>>
-----------------------------------------------------------------------------
(* ChatHub.Run                                                             *)

\* hub.broadcast <- meets the hub; a room without clients is done at once.
\* (Mutant: the message is handed over again in the next turn of readLoop.)
BroadcastAgain(c) ==
  /\ reader[c] = "publishing"
  /\ HubIdle
  /\ LET m == draft[c] IN
       /\ Len(feed[m.room]) < 3
       /\ feed' = [feed EXCEPT ![m.room] = Append(@, m)]
       /\ todo' = rooms[m.room]
       /\ event' = IF rooms[m.room] = {} THEN NoMessage ELSE m
  /\ UNCHANGED <<serve, conn, reader, typed, draft, writer, sent, taken, closed,
                 active, rooms, table, since, panicked>>

Broadcast(c) ==
  /\ reader[c] = "publishing"
  /\ HubIdle
  /\ LET m == draft[c] IN
       /\ feed' = [feed EXCEPT ![m.room] = Append(@, m)]
       /\ todo' = rooms[m.room]
       /\ event' = IF rooms[m.room] = {} THEN NoMessage ELSE m
  /\ draft' = [draft EXCEPT ![c] = NoMessage]
  /\ reader' = [reader EXCEPT ![c] = "reading"]
  /\ UNCHANGED <<serve, conn, typed, writer, sent, taken, closed, active,
                 rooms, table, since, panicked>>

\* The hub's loop over the clients of the room is done with c.
Served(c) ==
  /\ todo' = todo \ {c}
  /\ event' = IF todo = {c} THEN NoMessage ELSE event

\* client.send <- event.message finds room in the buffer.
Offer(c) ==
  /\ c \in todo
  /\ Len(sent[c]) - taken[c] < Capacity
  /\ sent' = [sent EXCEPT ![c] = Append(@, event)]
  /\ panicked' = (panicked \/ c \in closed)
  /\ Served(c)
  /\ UNCHANGED <<serve, conn, reader, typed, draft, writer, taken, closed,
                 active, rooms, table, feed, since>>

\* Mutant: a full buffer only costs the client this message.
SkipSlow(c) ==
  /\ c \in todo
  /\ Len(sent[c]) - taken[c] >= Capacity
  /\ Served(c)
  /\ UNCHANGED <<serve, conn, reader, typed, draft, writer, sent, taken, closed,
                 active, rooms, table, feed, since, panicked>>

\* Mutant: the hub waits for room in the buffer.
AwaitSlow(c) == FALSE /\ SkipSlow(c)

\* The buffer is full: the hub gives the client up without waiting for it.
\* The room's entry stays, even without clients.
Evict(c) ==
  /\ c \in todo
  /\ Len(sent[c]) - taken[c] >= Capacity
  /\ closed' = closed \cup {c}
  /\ panicked' = (panicked \/ c \in closed)
  /\ rooms' = [rooms EXCEPT ![event.room] = @ \ {c}]
  /\ Served(c)
  /\ UNCHANGED <<serve, conn, reader, typed, draft, writer, sent, taken,
                 active, table, feed, since>>

\* Mutant: a departure always closes the channel.
CloseAlways(c) == {c}

\* The channels a departure of c closes: its own if it is still a client.
ToClose(c) == rooms[RoomOf[c]] \cap {c}

\* Mutant: only a client that was still there can end its room.
LastPresentOut(c) == rooms[RoomOf[c]] = {c}

\* Whether the departure of c ends its room.
LastOut(c) == rooms[RoomOf[c]] \subseteq {c}

\* hub.unregister <- meets the hub; readLoop's deferred function then closes
\* the socket.
Unregister(c) ==
  /\ reader[c] = "leaving"
  /\ HubIdle
  /\ IF RoomOf[c] \in active
     THEN /\ rooms' = [rooms EXCEPT ![RoomOf[c]] = @ \ {c}]
          /\ closed' = closed \cup ToClose(c)
          /\ panicked' = (panicked \/ ToClose(c) \cap closed # {})
          /\ active' = IF LastOut(c) THEN active \ {RoomOf[c]} ELSE active
     ELSE UNCHANGED <<rooms, closed, panicked, active>>
  /\ reader' = [reader EXCEPT ![c] = "gone"]
  /\ conn' = [conn EXCEPT ![c] = "closed"]
  /\ UNCHANGED <<serve, typed, draft, writer, sent, taken, event, todo,
                 table, feed, since>>
-----------------------------------------------------------------------------
(* writeLoop                                                               *)

\* Mutant: writeLoop writes what it receives from the channel, closed or not.
WriteFrameAnyway(c) ==
  /\ writer[c] = "writing"
  /\ conn[c] = "open"
  /\ taken[c] < Len(sent[c]) \/ c \in closed
  /\ taken' = [taken EXCEPT ![c] = @ + 1]
  /\ UNCHANGED <<serve, conn, reader, typed, draft, writer, sent, closed,
                 active, rooms, event, todo, table, feed, since, panicked>>

\* The next message of the channel goes out ...
WriteFrame(c) ==
  /\ writer[c] = "writing"
  /\ conn[c] = "open"
  /\ taken[c] < Len(sent[c])
  /\ taken' = [taken EXCEPT ![c] = @ + 1]
  /\ UNCHANGED <<serve, conn, reader, typed, draft, writer, sent, closed,
                 active, rooms, event, todo, table, feed, since, panicked>>

WriterReturns(c) ==
  /\ writer' = [writer EXCEPT ![c] = "gone"]
  /\ conn' = [conn EXCEPT ![c] = "closed"]
  /\ UNCHANGED <<serve, reader, typed, draft, sent, taken, closed, active,
                 rooms, event, todo, table, feed, since, panicked>>

\* ... or it, or a ping, is not written within writeWait ...
WriteFails(c) ==
  /\ writer[c] = "writing"
  /\ conn[c] = "open"
  /\ WriterReturns(c)

\* ... or the socket turns out to be closed ...
WriteClosed(c) ==
  /\ writer[c] = "writing"
  /\ conn[c] = "closed"
  /\ WriterReturns(c)

\* Mutant: writeLoop returns without closing the socket.
WriterDoneQuietly(c) ==
  /\ writer[c] = "writing"
  /\ c \in closed
  /\ taken[c] = Len(sent[c])
  /\ writer' = [writer EXCEPT ![c] = "gone"]
  /\ UNCHANGED <<serve, conn, reader, typed, draft, sent, taken, closed, active,
                 rooms, event, todo, table, feed, since, panicked>>

\* ... or the channel is closed and drained: a close frame ends the socket.
WriterDone(c) ==
  /\ writer[c] = "writing"
  /\ c \in closed
  /\ taken[c] = Len(sent[c])
  /\ WriterReturns(c)

\* The peer goes away.
PeerCloses(c) ==
  /\ conn[c] = "open"
  /\ conn' = [conn EXCEPT ![c] = "closed"]
  /\ UNCHANGED <<serve, reader, typed, draft, writer, sent, taken, closed,
                 active, rooms, event, todo, table, feed, since, panicked>>
-----------------------------------------------------------------------------
Serve(c) == Authorize(c) \/ Upgrade(c) \/ Register(c)

Read(c) ==
  \/ ReadFrame(c)
  \/ Persist(c)
  \/ PersistFails(c)
  \/ ReadClosed(c)
  \/ ReadBadFrame(c)

Hub(c) == Broadcast(c) \/ Offer(c) \/ Evict(c) \/ Unregister(c)

Write(c) == WriteFrame(c) \/ WriteFails(c) \/ WriteClosed(c) \/ WriterDone(c)

Next == \E c \in Conns : Serve(c) \/ Read(c) \/ Hub(c) \/ Write(c) \/ PeerCloses(c)

Spec == Init /\ [][Next]_vars

\* A message that waits in the channel is written, or writing it fails.
WriteOut(c) == WriteFrame(c) \/ (taken[c] < Len(sent[c]) /\ WriteFails(c))

(***************************************************************************)
(* The Go scheduler runs every goroutine that can run, and a database call *)
(* returns.  A goroutine blocked on an unbuffered channel is served first  *)
(* come, first served, and select chooses among the ready channels at      *)
(* random, so a rendezvous that is possible again and again takes place:   *)
(* strong fairness.  A write returns within writeWait, one way or another, *)
(* and a read or write of a closed socket fails.  Nothing else is owed:    *)
(* frames, disconnections and slow peers come or do not come.              *)
(***************************************************************************)
Fairness ==
  \A c \in Conns :
    /\ SF_vars(Register(c)) /\ SF_vars(Broadcast(c)) /\ SF_vars(Unregister(c))
    /\ WF_vars(Offer(c) \/ Evict(c))
    /\ WF_vars(Persist(c) \/ PersistFails(c)) /\ WF_vars(ReadClosed(c))
    /\ WF_vars(WriteOut(c)) /\ WF_vars(WriteClosed(c)) /\ WF_vars(WriterDone(c))

FairSpec == Spec /\ Fairness
-----------------------------------------------------------------------------
Entries(s) == {s[i] : i \in DOMAIN s}

\* The hub never sends on, nor closes, a channel it closed before, whatever
\* the order in which an eviction and the client's own departure reach it:
\* either would panic and end the server for everybody.
NeverPanics == ~panicked

\* Delivery is a stretch of the room's feed: what the hub put into a client's
\* channel is exactly what it broadcast to that room since the client
\* registered, in that order, nothing left out, nothing twice; and a client
\* the room still has is complete, but for the broadcast under way.
Stretch ==
  \A c \in Conns :
    /\ since[c] + Len(sent[c]) <= Len(feed[RoomOf[c]])
    /\ \A i \in 1 .. Len(sent[c]) : sent[c][i] = feed[RoomOf[c]][since[c] + i]
    /\ c \in rooms[RoomOf[c]] =>
         since[c] + Len(sent[c]) + (IF c \in todo THEN 1 ELSE 0) = Len(feed[RoomOf[c]])

\* What the hub broadcasts is stored already, so a history loaded later has
\* it: a message whose insertion failed reaches nobody.
BroadcastIsStored == \A r \in Rooms : Entries(feed[r]) \subseteq Entries(table)

\* Everybody sees the messages of one connection in the order they were typed,
\* and none twice.
SenderOrder ==
  \A r \in Rooms : \A i, j \in DOMAIN feed[r] :
    i < j /\ feed[r][i].from = feed[r][j].from => feed[r][i].n < feed[r][j].n

\* No client receives what was typed on a connection to another room, whatever
\* room the frame claimed.
RoomIsolation ==
  \A c \in Conns : \A m \in Entries(sent[c]) : RoomOf[m.from] = RoomOf[c]

\* However slow its clients are, the hub gets to the end of every broadcast.
BroadcastEnds == event # NoMessage ~> HubIdle

\* What was stored is broadcast, even if its sender disconnects meanwhile.
StoredIsBroadcast ==
  \A c \in Conns : \A k \in 1 .. MaxTyped :
    LET m == [room |-> RoomOf[c], from |-> c, n |-> k]
    IN  m \in Entries(table) ~> m \in Entries(feed[RoomOf[c]])

\* A client whose socket is gone leaves its room.
DeadClientsLeave ==
  \A c \in Conns : (conn[c] = "closed" /\ c \in rooms[RoomOf[c]]) ~> c \notin rooms[RoomOf[c]]

\* A client the hub gave up is disconnected, and both its pumps return.
EvictedAreHungUp ==
  \A c \in Conns : c \in closed ~> (conn[c] = "closed" /\ reader[c] = "gone" /\ writer[c] = "gone")

\* The entry of a room all of whose clients were given up does not stay for
\* ever.
EmptyRoomsAreForgotten ==
  \A r \in Rooms : (r \in active /\ rooms[r] = {}) ~> (r \notin active \/ rooms[r] # {})

(***************************************************************************)
(* What the service keeps true on the way, and the properties above rest   *)
(* on: an inductive invariant.                                             *)
(***************************************************************************)
\* A client of a room is live: it asked for that room, serveChatWS is through
\* and its channel is open.
ClientsAreLive ==
  \A r \in Rooms : \A c \in rooms[r] :
    RoomOf[c] = r /\ serve[c] = "serving" /\ c \notin closed /\ r \in active

\* The hub is busy just as long as a client is still to be served the last
\* entry of the feed.
EventIsLast ==
  /\ event = NoMessage => todo = {}
  /\ event # NoMessage =>
       /\ todo # {}
       /\ todo \subseteq rooms[event.room]
       /\ feed[event.room] # << >>
       /\ event = feed[event.room][Len(feed[event.room])]

\* Before its registration a connection has no pumps and an unused channel.
NotYetServed ==
  \A c \in Conns : serve[c] # "serving" =>
    reader[c] = "off" /\ sent[c] = << >> /\ since[c] = 0 /\ c \notin closed

\* The message readLoop works on is the one typed last, and stored by the
\* time it is handed over.
DraftIsLast ==
  \A c \in Conns :
    /\ typed[c] <= MaxTyped
    /\ reader[c] \in {"stamped", "publishing"} =>
         /\ draft[c] = [room |-> RoomOf[c], from |-> c, n |-> typed[c]]
         /\ typed[c] > 0
    /\ reader[c] = "publishing" => draft[c] \in Entries(table)

\* The feed of a room holds messages typed in it, and not yet the one its
\* readLoop works on.
FeedIsPast ==
  \A r \in Rooms : \A i \in DOMAIN feed[r] :
    LET m == feed[r][i] IN
    /\ m.room = r
    /\ RoomOf[m.from] = r
    /\ m.n <= typed[m.from]
    /\ reader[m.from] \in {"stamped", "publishing"} => m.n < typed[m.from]

IInv ==
  /\ TypeOK
  /\ ClientsAreLive
  /\ EventIsLast
  /\ NotYetServed
  /\ DraftIsLast
  /\ FeedIsPast
  /\ NeverPanics
  /\ Stretch
  /\ BroadcastIsStored
  /\ SenderOrder

\* Where the feed sees a connection: a client of its room, a former one, or
\* not there yet.
Phase(c) ==
  IF c \in rooms[RoomOf[c]] THEN "in"
  ELSE IF serve[c] = "serving" THEN "dropped" ELSE "out"

\* The service implements the feed it promises.
Promise == INSTANCE RoomFeed WITH
  Message <- [room : Rooms, from : Conns, n : 1 .. MaxTyped],
  archive <- Entries(table),
  view <- sent,
  phase <- [c \in Conns |-> Phase(c)]

\* Every step of the service is one of the feed's, or none.
ImplementsRoomFeed == Promise!Spec
=============================================================================

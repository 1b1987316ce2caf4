----------------------------- MODULE ChatPanel -----------------------------
(***************************************************************************)
(* The chat of the desktop client: BlendChatPanel, its ChatWebSocket, the  *)
(* ChatRooms of AppState, and handleOpenChat and handleSendMessage.        *)
(*                                                                         *)
(* The panel shows the room of the active blend.  Opening it loads the     *)
(* history with one request and then opens a socket; the socket's thread   *)
(* puts what it receives into a queue, and a timer moves the queue to the  *)
(* room of whichever blend is active then.  Own messages enter the room    *)
(* when they are sent, and their echoes are skipped.                       *)
(*                                                                         *)
(* The main thread waits for its requests, the server and the socket's     *)
(* thread do not.  The server reads each connection by itself, so what was *)
(* sent on an old one may be stored after what was sent on the next.  It   *)
(* stamps and stores a message and hands it later to the sockets open in   *)
(* its room.  The rest of the session is what the panel sees of it: who is *)
(* logged in and which blend is active.  The notice a departure leaves in  *)
(* the room is left out.                                                   *)
(***************************************************************************)
EXTENDS Positions, HistoryQuery

CONSTANTS
  Users,          \* the accounts used on this client, and on no other
  Others,         \* the accounts of other clients
  Blends, None,
  MaxMessages,    \* bound: messages that are sent
  MaxTime         \* bound: the seconds in which messages are stored

ASSUME NoneType ==
  /\ None \notin Users \cup Others /\ None \notin Blends
  /\ None \notin [blend : Blends, user : Users, via : Nat]
ASSUME OneClient == Users \cap Others = {}
ASSUME MaxType == MaxMessages \in Nat /\ MaxTime \in Nat

\* Messages are told apart by the order in which they were sent; via names the
\* connection of this client that carried it, 0 when none did, and sentAt the
\* second in which the server took it, 0 as long as it did not.
Message == [id : 1 .. MaxMessages, from : Users \cup Others, blend : Blends,
            via : 0 .. MaxMessages + 1, sentAt : 0 .. MaxTime]

Sockets == [blend : Blends, user : Users, via : 0 .. MaxMessages + 1]

VARIABLES
  user, active,   \* AppState
  rooms,          \* AppState.chatRooms: what each shows
  page,           \* the chat is on show, or another page is
  busy,           \* what Reload is doing on the main thread
  drawn,          \* the room whose messages the widgets show
  wsBlend,        \* m_wsBlendID
  socket,         \* m_ws: its room, its user, and its connection, 0 while it has none
  incoming,       \* m_incoming
  up, down,       \* what is on its way to the server, and to the socket
  stored,         \* the server's rooms
  due,            \* messages stored and not yet broadcast
  sent            \* how many messages were sent

session == <<user, active>>
panel == <<page, busy, drawn, wsBlend, socket>>
net == <<incoming, up, down>>
server == <<stored, due>>
vars == <<session, rooms, panel, net, server, sent>>

Empty == [b \in Blends |-> <<>>]

Init ==
  /\ user = None /\ active = None
  /\ rooms = Empty
  /\ page = "away" /\ busy = "no" /\ drawn = None
  /\ wsBlend = None /\ socket = None
  /\ incoming = <<>> /\ up = {} /\ down = <<>>
  /\ stored = Empty /\ due = {}
  /\ sent = 0
-----------------------------------------------------------------------------
(* The server and the network.                                             *)

Open(s) == s # None /\ s.via # 0

\* The server stores a message, stamped t, and has still to broadcast it.
Stores(m, t) ==
  /\ stored' = [stored EXCEPT ![m.blend] = Append(@, [m EXCEPT !.sentAt = t])]
  /\ due' = due \cup {m}

\* Somebody else, with a client of his own.
OtherSends(u, b, t) ==
  /\ sent < MaxMessages
  /\ sent' = sent + 1
  /\ Stores([id |-> sent + 1, from |-> u, blend |-> b, via |-> 0, sentAt |-> 0], t)
  /\ UNCHANGED <<session, rooms, panel, net>>

\* readLoop: one frame of a connection after the other, each stored and handed
\* to the hub before the next is read, and none stamped before an earlier one.
ServerStores(m, t) ==
  /\ m \in up
  /\ \A x \in up : x.via = m.via => m.id <= x.id
  /\ \A x \in due : x.via # m.via
  /\ \A i \in DOMAIN stored[m.blend] :
       stored[m.blend][i].via = m.via => stored[m.blend][i].sentAt <= t
  /\ Stores(m, t)
  /\ up' = up \ {m}
  /\ UNCHANGED <<session, rooms, panel, incoming, down, sent>>

\* A frame goes down with its connection, or the server fails to store it.
FrameLost(m) ==
  /\ m \in up
  /\ up' = up \ {m}
  /\ UNCHANGED <<session, rooms, panel, incoming, down, server, sent>>

\* The panel is told who wrote what, and nothing else.
Heard(m) == [id |-> m.id, from |-> m.from, blend |-> m.blend, via |-> 0, sentAt |-> 0]

Broadcast(m) ==
  /\ m \in due
  /\ due' = due \ {m}
  /\ down' = IF Open(socket) /\ socket.blend = m.blend THEN Append(down, Heard(m)) ELSE down
  /\ UNCHANGED <<session, rooms, panel, incoming, up, stored, sent>>

\* The connections of which the server still has, or keeps, a frame.
Known ==
  {m.via : m \in up \cup due} \cup
  UNION {{stored[b][i].via : i \in DOMAIN stored[b]} : b \in Blends}

\* A connection has a name of its own.
SocketOpens ==
  /\ socket # None /\ socket.via = 0
  /\ \E v \in 1 .. MaxMessages + 1 :
       /\ v \notin Known /\ 1 .. v - 1 \subseteq Known
       /\ socket' = [socket EXCEPT !.via = v]
  /\ UNCHANGED <<session, rooms, page, busy, drawn, wsBlend, net, server, sent>>

\* The connection breaks, with what was on its way to the socket; the library
\* connects again.
SocketBreaks ==
  /\ Open(socket)
  /\ socket' = [socket EXCEPT !.via = 0]
  /\ down' = <<>>
  /\ UNCHANGED <<session, rooms, page, busy, drawn, wsBlend, incoming, up, server, sent>>

\* The callback of the socket's thread.
OnMessage ==
  /\ down # <<>>
  /\ incoming' = Append(incoming, Head(down))
  /\ down' = Tail(down)
  /\ UNCHANGED <<session, rooms, panel, up, server, sent>>
-----------------------------------------------------------------------------
(* The panel.                                                              *)

\* Mutant: the panel forgets that its socket is gone.
ResetOnlySocket ==
  /\ socket' = None /\ down' = <<>>
  /\ UNCHANGED wsBlend

\* Destroying the ChatWebSocket stops its thread.
ResetSocket ==
  /\ socket' = None /\ down' = <<>>
  /\ wsBlend' = None

\* What Reload does when the socket serves the room, or when it does not.
Redraw == busy' = "no" /\ drawn' = active
Reopen == busy' = "history" /\ UNCHANGED drawn

\* Mutant: a socket once open is taken to be the right one.
ReloadUnconnected ==
  IF active = None THEN ResetSocket /\ Redraw
  ELSE /\ IF user # None /\ wsBlend = None THEN Reopen ELSE Redraw
       /\ UNCHANGED <<wsBlend, socket, down>>

\* Reload: without a blend the socket goes; a room other than the socket's is
\* opened, history first; then the widgets are made anew.
Reload ==
  IF active = None THEN ResetSocket /\ Redraw
  ELSE /\ IF user # None /\ active # wsBlend THEN Reopen ELSE Redraw
       /\ UNCHANGED <<wsBlend, socket, down>>

\* What the room may hold once the history came.
Histories(b) ==
  {[k \in DOMAIN h |-> stored[b][h[k]]] : h \in LoadChatMessages(stored[b])}

\* handleOpenChat: the history replaces the room, unless the request fails.
OpenChat ==
  /\ busy = "history"
  /\ rooms' \in {rooms} \cup {[rooms EXCEPT ![active] = h] : h \in Histories(active)}
  /\ busy' = "connect"
  /\ UNCHANGED <<session, page, drawn, wsBlend, socket, net, server, sent>>

\* ConnectWebSocket, and the rest of Reload: the queue of the old socket stays;
\* after an exception there is no socket.
ConnectWebSocket ==
  /\ busy = "connect"
  /\ \/ socket' = [blend |-> active, user |-> user, via |-> 0] /\ wsBlend' = active
     \/ socket' = None /\ wsBlend' = None
  /\ down' = <<>>
  /\ Redraw
  /\ UNCHANGED <<session, rooms, page, incoming, up, server, sent>>

ShowChat ==
  /\ busy = "no" /\ page = "away" /\ active # None
  /\ page' = "chat"
  /\ Reload
  /\ UNCHANGED <<session, rooms, incoming, up, server, sent>>

HideChat ==
  /\ busy = "no" /\ page = "chat"
  /\ page' = "away"
  /\ UNCHANGED <<session, rooms, busy, drawn, wsBlend, socket, net, server, sent>>

AddMessage(table, m) == [table EXCEPT ![m.blend] = Append(@, m)]

\* handleSendMessage: into the room at once, unless the user is not among the
\* room's participants: they are those whose playlists loaded when it was made.
HandleSendMessage(m) ==
  \/ rooms' = AddMessage(rooms, m)
  \/ UNCHANGED rooms

\* DoSend: into the room, and in any case onto the socket if that is open.
DoSend ==
  /\ busy = "no" /\ page = "chat" /\ user # None /\ active # None
  /\ sent < MaxMessages
  /\ sent' = sent + 1
  /\ HandleSendMessage([id |-> sent + 1, from |-> user, blend |-> active,
                        via |-> 0, sentAt |-> 0])
  /\ up' = IF Open(socket)
           THEN up \cup {[id |-> sent + 1, from |-> socket.user, blend |-> socket.blend,
                          via |-> socket.via, sentAt |-> 0]}
           ELSE up
  /\ Reload
  /\ UNCHANGED <<session, page, incoming, server>>

\* Mutant: echoes are shown as well.
Everything(batch) == batch

\* Echoes of the user's own messages are skipped.
Foreign(batch) == At(batch, {i \in DOMAIN batch : batch[i].from # user})

\* Mutant: nothing is drained while the chat is hidden.
PollWhenShown ==
  /\ busy = "no" /\ incoming # <<>> /\ page = "chat"
  /\ incoming' = <<>>
  /\ rooms' = IF active = None THEN rooms
              ELSE [rooms EXCEPT ![active] = @ \o Foreign(incoming)]
  /\ Reload
  /\ UNCHANGED <<session, page, up, server, sent>>

\* The timer empties the queue into the active room; without one it is lost.
OnPollTimer ==
  /\ busy = "no" /\ incoming # <<>>
  /\ incoming' = <<>>
  /\ IF active = None
     THEN UNCHANGED <<rooms, busy, drawn, wsBlend, socket, down>>
     ELSE /\ rooms' = [rooms EXCEPT ![active] = @ \o Foreign(incoming)]
          /\ Reload
  /\ UNCHANGED <<session, page, up, server, sent>>
-----------------------------------------------------------------------------
(* The session, as far as the panel sees it.  A login, a selection and a   *)
(* creation may end while the chat is on show: whoever waits for them can  *)
(* go there meanwhile.                                                     *)

\* A login restores a blend or none; another user's login empties the rooms.
Login(u, b) ==
  /\ busy = "no"
  /\ user' = u
  /\ active' = b
  /\ rooms' = IF user = u THEN rooms ELSE Empty
  /\ UNCHANGED <<panel, net, server, sent>>

\* Creating, opening or leaving a blend.
SwitchBlend(b) ==
  /\ busy = "no" /\ user # None
  /\ active' = b
  /\ UNCHANGED <<user, rooms, panel, net, server, sent>>

\* The listener of "logout"; the session itself stays.
LogOut ==
  /\ busy = "no" /\ page = "away" /\ user # None
  /\ ResetSocket
  /\ UNCHANGED <<session, rooms, page, busy, drawn, incoming, up, server, sent>>

\* Deleting the account clears the session and dispatches no "logout".
DeleteAccount ==
  /\ busy = "no" /\ page = "away" /\ user # None
  /\ user' = None /\ active' = None
  /\ rooms' = Empty
  /\ UNCHANGED <<panel, net, server, sent>>
-----------------------------------------------------------------------------
Next ==
  \/ \E t \in 1 .. MaxTime :
       \/ \E u \in Others, b \in Blends : OtherSends(u, b, t)
       \/ \E m \in up : ServerStores(m, t)
  \/ \E m \in up : FrameLost(m)
  \/ \E m \in due : Broadcast(m)
  \/ SocketOpens \/ SocketBreaks \/ OnMessage
  \/ OpenChat \/ ConnectWebSocket \/ ShowChat \/ HideChat \/ DoSend \/ OnPollTimer
  \/ \E b \in Blends \cup {None} : SwitchBlend(b) \/ \E u \in Users : Login(u, b)
  \/ LogOut \/ DeleteAccount

\* The timer ticks, the socket's thread and the main thread run, requests are
\* answered.
Spec ==
  /\ Init /\ [][Next]_vars
  /\ WF_vars(OnPollTimer) /\ WF_vars(OnMessage)
  /\ WF_vars(OpenChat) /\ WF_vars(ConnectWebSocket)
-----------------------------------------------------------------------------
\* Types; and m_wsBlendID names a blend just while there is a socket.
TypeOK ==
  /\ user \in Users \cup {None} /\ active \in Blends \cup {None}
  /\ rooms \in [Blends -> Seq(Message)]
  /\ page \in {"chat", "away"} /\ busy \in {"no", "history", "connect"}
  /\ drawn \in Blends \cup {None}
  /\ wsBlend \in Blends \cup {None}
  /\ socket \in {None} \cup Sockets
  /\ incoming \in Seq(Message) /\ up \subseteq Message /\ down \in Seq(Message)
  /\ stored \in [Blends -> Seq(Message)] /\ due \subseteq Message
  /\ sent \in 0 .. MaxMessages
  /\ wsBlend = None <=> socket = None

\* The order in which they were written; or the history put both there, and they
\* are of one second or were sent on two connections, which the server reads each
\* by itself.
MayFollow(x, y) ==
  \/ x.id < y.id
  \/ /\ x.id # y.id /\ x.sentAt # 0 /\ y.sentAt # 0
     /\ x.via # y.via \/ x.sentAt = y.sentAt

\* handleSendMessage adds the user's own messages and OnPollTimer skips their
\* echoes: a room shows none of them twice, and they come in the order in which
\* they were written.  Only where the history put both of them may two be
\* swapped, and only of one second or sent on two connections.
OwnOnceInOrder ==
  user # None => \A b \in Blends :
    \A i, j \in {k \in DOMAIN rooms[b] : rooms[b][k].from = user} :
      i < j => MayFollow(rooms[b][i], rooms[b][j])

\* Whichever blends were opened, left or deleted meanwhile: while the main thread
\* is at rest the socket, if there is one, is that of the room on the screen, and
\* what is typed under its messages reaches no other room of the server.
ChatServesItsRoom ==
  busy = "no" /\ socket # None => socket.blend = drawn /\ wsBlend = drawn

\* OnMessage and OnPollTimer: what others wrote and is on its way on the socket
\* of the active room comes to be shown in that room, chat on show or not,
\* unless the session moves on or the connection breaks first.
Arriving(b, i) ==
  /\ user # None /\ active = b /\ Open(socket) /\ socket.blend = b
  /\ \E k \in DOMAIN down : down[k].id = i /\ down[k].from \in Others
Shown(b, i) ==
  \/ \E k \in DOMAIN rooms[b] : rooms[b][k].id = i
  \/ user = None \/ active # b \/ ~Open(socket)
ArrivingIsShown ==
  \A b \in Blends : \A i \in 1 .. MaxMessages : Arriving(b, i) ~> Shown(b, i)
=============================================================================

-------------------------- MODULE ChatPanelProofs --------------------------
(***************************************************************************)
(* Proofs about the chat panel, for any users, blends and messages: what   *)
(* the socket serves, and what a room shows of the user's own messages.    *)
(***************************************************************************)
EXTENDS ChatPanel, FiniteSetTheorems, TLAPS

SessionType ==
  /\ user \in Users \cup {None} /\ active \in Blends \cup {None}
  /\ page \in {"chat", "away"} /\ busy \in {"no", "history", "connect"}
  /\ drawn \in Blends \cup {None}

\* There is a socket just while m_wsBlendID names its blend.
SocketIsNamed ==
  /\ socket \in {None} \cup Sockets
  /\ wsBlend = IF socket = None THEN None ELSE socket.blend

\* The active blend is somebody's, and so is the one that Reload works for.
ChatHasItsSession ==
  /\ active # None => user # None
  /\ busy # "no" => active # None

IInv == SessionType /\ SocketIsNamed /\ ChatHasItsSession /\ ChatServesItsRoom

LEMMA NoSocket == None \notin Sockets
<1>1. ASSUME None \in Sockets PROVE FALSE
  <2>1. None \in [blend : Blends, user : Users, via : Nat]
    BY <1>1, MaxType DEF Sockets
  <2>. QED  BY <2>1, NoneType
<1>. QED  BY <1>1

LEMMA InitIInv == Init => IInv
  BY DEF Init, IInv, SessionType, SocketIsNamed, ChatHasItsSession, ChatServesItsRoom

\* Reload keeps the socket, begins to change it, or ends it.
LEMMA ReloadStep ==
  ASSUME IInv, page' \in {"chat", "away"}, UNCHANGED session, Reload
  PROVE  IInv'
  BY DEF IInv, SessionType, SocketIsNamed, ChatHasItsSession, ChatServesItsRoom, session,
         Reload, ResetSocket, Redraw, Reopen

LEMMA NextIInv == IInv /\ [Next]_vars => IInv'
<1> SUFFICES ASSUME IInv, [Next]_vars PROVE IInv'
  OBVIOUS
<1> USE DEF IInv, SessionType, SocketIsNamed, ChatHasItsSession, ChatServesItsRoom, session, panel,
        net, server
<1>1. ASSUME NEW t, NEW u \in Others, NEW b \in Blends, OtherSends(u, b, t) PROVE IInv'
  BY <1>1 DEF OtherSends
<1>2. ASSUME NEW t, NEW m \in up, ServerStores(m, t) \/ FrameLost(m) PROVE IInv'
  BY <1>2 DEF ServerStores, FrameLost
<1>3. ASSUME NEW m \in due, Broadcast(m) PROVE IInv'
  BY <1>3 DEF Broadcast
<1>4. CASE SocketOpens \/ SocketBreaks
  <2>1. PICK v \in 0 .. MaxMessages + 1 : socket' = [socket EXCEPT !.via = v]
    <3>1. 0 \in 0 .. MaxMessages + 1 /\ 1 .. MaxMessages + 1 \subseteq 0 .. MaxMessages + 1
      BY MaxType
    <3>2. CASE SocketOpens
      BY <3>1, <3>2 DEF SocketOpens
    <3>3. CASE SocketBreaks
      BY <3>1, <3>3 DEF SocketBreaks
    <3>. QED  BY <1>4, <3>2, <3>3
  <2>2. socket \in Sockets
    BY <1>4 DEF SocketOpens, SocketBreaks, Open
  <2>3. socket' \in Sockets /\ socket'.blend = socket.blend
    BY <2>1, <2>2 DEF Sockets
  <2>4. UNCHANGED <<user, active, page, busy, drawn, wsBlend>>
    BY <1>4 DEF SocketOpens, SocketBreaks
  <2>. QED  BY <2>2, <2>3, <2>4, NoSocket
<1>6. CASE OnMessage
  BY <1>6 DEF OnMessage
<1>7. CASE OpenChat
  BY <1>7 DEF OpenChat
<1>8. CASE ConnectWebSocket
  <2>1. /\ active \in Blends /\ user \in Users
        /\ UNCHANGED <<user, active, page>> /\ busy' = "no" /\ drawn' = active
    BY <1>8 DEF ConnectWebSocket, Redraw
  <2>2. CASE socket' = [blend |-> active, user |-> user, via |-> 0] /\ wsBlend' = active
    <3>1. socket' \in Sockets /\ socket'.blend = active
      BY <2>1, <2>2, MaxType DEF Sockets
    <3>. QED  BY <2>1, <2>2, <3>1, NoSocket
  <2>3. CASE socket' = None /\ wsBlend' = None
    BY <2>1, <2>3
  <2>. QED  BY <1>8, <2>2, <2>3 DEF ConnectWebSocket
<1>9. CASE ShowChat
  BY <1>9, ReloadStep DEF ShowChat
<1>10. CASE HideChat
  BY <1>10 DEF HideChat
<1>11. CASE DoSend
  BY <1>11, ReloadStep DEF DoSend
<1>12. CASE OnPollTimer
  <2>1. CASE active = None
    BY <1>12, <2>1 DEF OnPollTimer
  <2>2. CASE active # None
    BY <1>12, <2>2, ReloadStep DEF OnPollTimer
  <2>. QED  BY <2>1, <2>2
<1>13. ASSUME NEW b \in Blends \cup {None}, SwitchBlend(b) PROVE IInv'
  BY <1>13 DEF SwitchBlend
<1>14. ASSUME NEW b \in Blends \cup {None}, NEW u \in Users, Login(u, b) PROVE IInv'
  BY <1>14, NoneType DEF Login
<1>15. CASE LogOut
  BY <1>15 DEF LogOut, ResetSocket
<1>16. CASE DeleteAccount
  BY <1>16 DEF DeleteAccount
<1>17. CASE UNCHANGED vars
  BY <1>17 DEF vars
<1>. QED
  BY <1>1, <1>2, <1>3, <1>4, <1>6, <1>7, <1>8, <1>9, <1>10, <1>11, <1>12, <1>13, <1>14, <1>15,
     <1>16, <1>17 DEF Next

\* Whatever was opened, left, deleted or logged into before, even with the chat on
\* show, and however messages, breaks of the connection and exceptions fall between
\* the steps of Reload: whenever the main thread is at rest, a socket there is
\* serves the room on the screen, so that what is typed reaches no other room.
THEOREM SocketServesRoom == Spec => []ChatServesItsRoom
<1>1. IInv => ChatServesItsRoom
  BY DEF IInv
<1>. QED  BY <1>1, InitIInv, NextIInv, PTL DEF Spec
-----------------------------------------------------------------------------
(* What a room shows.                                                      *)

\* How many numbers of S are below x grows with x.
LEMMA Ranks ==
  ASSUME NEW S \in SUBSET Nat, IsFiniteSet(S)
  PROVE  LET rank(x) == Cardinality({y \in S : y < x}) IN
         /\ Cardinality(S) \in Nat
         /\ \A x \in S : rank(x) \in 0 .. Cardinality(S) - 1
         /\ \A x, y \in S : x < y => rank(x) < rank(y)
         /\ \A k \in 1 .. Cardinality(S) : \E x \in S : rank(x) = k - 1
<1>. DEFINE Below(x) == {y \in S : y < x}
            rank(x) == Cardinality(Below(x))
            n == Cardinality(S)
<1>1. n \in Nat /\ \A x : IsFiniteSet(Below(x)) /\ rank(x) \in Nat
  BY FS_CardinalityType, FS_Subset
<1>2. ASSUME NEW x \in S, NEW T \in SUBSET S, Below(x) \subseteq T, x \in T
      PROVE  rank(x) < Cardinality(T) /\ Cardinality(T) \in Nat
  <2>1. IsFiniteSet(T) /\ Cardinality(T) \in Nat
    BY FS_Subset, FS_CardinalityType
  <2>2. x \notin Below(x)
    OBVIOUS
  <2>3. rank(x) <= Cardinality(T) /\ rank(x) # Cardinality(T)
    BY <1>2, <2>1, <2>2, FS_Subset
  <2>. QED  BY <1>1, <2>1, <2>3
<1>3. \A x \in S : rank(x) \in 0 .. n - 1
  <2>1. \A x \in S : rank(x) < n
    BY <1>2
  <2>. QED  BY <1>1, <2>1
<1>4. ASSUME NEW x \in S, NEW y \in S, x < y PROVE rank(x) < rank(y)
  <2>0. \A z \in S : z \in Nat
    OBVIOUS
  <2>1. \A z \in S : z < x => z < y
    BY <1>4, <2>0
  <2>2. Below(x) \subseteq Below(y) /\ x \in Below(y)
    BY <1>4, <2>1, Zenon
  <2>. QED  BY <1>2, <2>2
<1>5. ASSUME NEW k \in 1 .. n PROVE \E x \in S : rank(x) = k - 1
  <2>. DEFINE f == [x \in S |-> rank(x)]
  <2>1. f \in Injection(S, 0 .. n - 1)
    <3>1. \A x, y \in S : rank(x) = rank(y) => x = y
      BY <1>1, <1>4
    <3>. HIDE DEF rank
    <3>. QED  BY <1>3, <3>1 DEF Injection, IsInjective
  <2>2. IsFiniteSet(0 .. n - 1) /\ Cardinality(0 .. n - 1) = n
    <3>. HIDE DEF n
    <3>. QED  BY <1>1, FS_Interval
  <2>3. f \in Surjection(S, 0 .. n - 1)
    BY <2>1, <2>2, FS_Injection
  <2>. HIDE DEF rank
  <2>4. k - 1 \in 0 .. n - 1
    BY <1>1
  <2>. QED  BY <2>3, <2>4 DEF Surjection
<1>. QED  BY <1>1, <1>3, <1>4, <1>5

\* InOrder lists a set of numbers, each once, in their order.
LEMMA InOrderLists ==
  ASSUME NEW S \in SUBSET Nat, IsFiniteSet(S), NEW o, o = InOrder(S)
  PROVE  /\ Cardinality(S) \in Nat /\ o \in [1 .. Cardinality(S) -> S]
         /\ \A k, l \in 1 .. Cardinality(S) : k < l => o[k] < o[l]
         /\ \A x \in S : \E k \in 1 .. Cardinality(S) : o[k] = x
<1>. DEFINE rank(x) == Cardinality({y \in S : y < x})
            n == Cardinality(S)
<1>1. /\ n \in Nat
      /\ \A x \in S : rank(x) \in 0 .. n - 1
      /\ \A x, y \in S : x < y => rank(x) < rank(y)
      /\ \A k \in 1 .. n : \E x \in S : rank(x) = k - 1
  BY Ranks
<1>2. o = [k \in 1 .. n |-> CHOOSE x \in S : rank(x) = k - 1]
  BY DEF InOrder
<1>. HIDE DEF rank, n
<1>3. \A k \in 1 .. n : o[k] \in S /\ rank(o[k]) = k - 1
  BY <1>1, <1>2
<1>4. o \in [1 .. n -> S]
  BY <1>2, <1>3
<1>5. ASSUME NEW k \in 1 .. n, NEW l \in 1 .. n, k < l PROVE o[k] < o[l]
  <2>1. PICK x \in S, y \in S : x = o[k] /\ y = o[l] /\ rank(x) = k - 1 /\ rank(y) = l - 1
    BY <1>3
  <2>2. x \in Nat /\ y \in Nat /\ k \in Nat /\ l \in Nat
    BY <1>1
  <2>3. ~(y < x) /\ x # y
    BY <1>1, <1>5, <2>1, <2>2
  <2>. QED  BY <2>1, <2>2, <2>3
<1>6. ASSUME NEW x \in S PROVE \E k \in 1 .. n : o[k] = x
  <2>1. PICK k \in 1 .. n : k - 1 = rank(x)
    <3>1. rank(x) + 1 \in 1 .. n /\ (rank(x) + 1) - 1 = rank(x)
      BY <1>1
    <3>. QED  BY <3>1
  <2>2. PICK y \in S : y = o[k] /\ rank(y) = k - 1
    BY <1>3
  <2>3. x \in Nat /\ y \in Nat /\ rank(x) \in Nat
    BY <1>1
  <2>4. ~(x < y) /\ ~(y < x)
    BY <1>1, <2>1, <2>2, <2>3
  <2>5. y = x
    BY <2>3, <2>4
  <2>. QED  BY <2>1, <2>2, <2>5
<1>. QED  BY <1>1, <1>4, <1>5, <1>6 DEF n

\* At keeps what its positions hold, and their order.
LEMMA AtKeeps ==
  ASSUME NEW s, NEW I \in SUBSET Nat, IsFiniteSet(I),
         NEW n, n = Cardinality(I), NEW o, o = InOrder(I)
  PROVE  /\ n \in Nat /\ o \in [1 .. n -> I]
         /\ At(s, I) = [k \in 1 .. n |-> s[o[k]]]
         /\ \A k, l \in 1 .. n : k < l => o[k] < o[l]
         /\ \A i \in I : \E k \in 1 .. n : o[k] = i
<1>1. /\ n \in Nat /\ o \in [1 .. n -> I]
      /\ \A k, l \in 1 .. n : k < l => o[k] < o[l]
      /\ \A i \in I : \E k \in 1 .. n : o[k] = i
  BY InOrderLists
<1>2. DOMAIN o = 1 .. n
  BY <1>1
<1>. QED  BY <1>1, <1>2 DEF At
-----------------------------------------------------------------------------
\* What OnPollTimer keeps of a batch are messages of others.
LEMMA ForeignIsOthers ==
  ASSUME NEW batch \in Seq(Message), NEW f, f = Foreign(batch)
  PROVE  f \in Seq(Message) /\ \A k \in DOMAIN f : f[k].from # user
<1>. DEFINE I == {i \in DOMAIN batch : batch[i].from # user}
            n == Cardinality(I)
            o == InOrder(I)
<1>1. DOMAIN batch = 1 .. Len(batch) /\ Len(batch) \in Nat /\ \A i \in DOMAIN batch : batch[i] \in Message
  OBVIOUS
<1>2. I \in SUBSET Nat /\ IsFiniteSet(I)
  <2>1. IsFiniteSet(DOMAIN batch)
    BY <1>1, FS_Interval
  <2>2. I \in SUBSET DOMAIN batch
    OBVIOUS
  <2>. HIDE DEF I
  <2>. QED  BY <1>1, <2>1, <2>2, FS_Subset
<1>3. \A i \in I : i \in DOMAIN batch /\ batch[i].from # user
  OBVIOUS
<1>4. f = At(batch, I)
  BY DEF Foreign
<1>. HIDE DEF I, n, o
<1>5. n \in Nat /\ o \in [1 .. n -> I] /\ f = [k \in 1 .. n |-> batch[o[k]]]
  BY <1>2, <1>4, AtKeeps DEF n, o
<1>6. f \in [1 .. n -> Message]
  BY <1>1, <1>3, <1>5
<1>. QED  BY <1>3, <1>5, <1>6

MessagesType ==
  /\ rooms \in [Blends -> Seq(Message)] /\ stored \in [Blends -> Seq(Message)]
  /\ incoming \in Seq(Message) /\ down \in Seq(Message)
  /\ up \subseteq Message /\ due \subseteq Message
  /\ sent \in 0 .. MaxMessages

\* What s shows of user u comes as it may, up to message n.
Ordered(s, u, n) ==
  /\ \A i \in DOMAIN s : s[i].from = u => s[i].id <= n
  /\ \A i, j \in DOMAIN s : i < j /\ s[i].from = u /\ s[j].from = u => MayFollow(s[i], s[j])

\* A room of the server holds no message twice, and what came on one connection
\* in the order of sending and of its seconds.
Kept(s, n) ==
  /\ \A i \in DOMAIN s : s[i].id <= n /\ s[i].sentAt # 0 /\ (s[i].from \in Users => s[i].via # 0)
  /\ \A i, j \in DOMAIN s : i < j =>
       /\ s[i].id # s[j].id
       /\ s[i].via # 0 /\ s[i].via = s[j].via => s[i].id < s[j].id /\ s[i].sentAt <= s[j].sentAt

StoredInOrder == \A b \in Blends : Kept(stored[b], sent)

\* What this client has sent and the server not yet stored comes after all that it
\* stored of the same connection.
UpInOrder ==
  /\ \A x \in up : x.from \in Users /\ x.via # 0 /\ x.id <= sent
  /\ \A x, y \in up : x.id = y.id => x = y
  /\ \A b \in Blends : \A i \in DOMAIN stored[b] : \A x \in up :
       stored[b][i].id # x.id /\ (stored[b][i].via = x.via => stored[b][i].id < x.id)

\* The rooms of the client are in order, for who is logged in.
RoomsInOrder == user # None => \A b \in Blends : Ordered(rooms[b], user, sent)

OwnInv == MessagesType /\ UpInOrder /\ StoredInOrder /\ RoomsInOrder

LEMMA Appended ==
  ASSUME NEW s \in Seq(Message), NEW m \in Message, NEW t, t = Append(s, m)
  PROVE  /\ t \in Seq(Message) /\ Len(s) \in Nat
         /\ DOMAIN s = 1 .. Len(s) /\ DOMAIN t = 1 .. Len(s) + 1
         /\ \A i \in DOMAIN s : t[i] = s[i] /\ i < Len(s) + 1
         /\ \A i \in DOMAIN t : i \in DOMAIN s \/ i = Len(s) + 1
         /\ t[Len(s) + 1] = m
  OBVIOUS

LEMMA MessageFields ==
  ASSUME NEW m \in Message
  PROVE  m.id \in Nat /\ m.via \in Nat /\ m.sentAt \in Nat /\ m.from \in Users \cup Others /\ m.blend \in Blends
  BY MaxType DEF Message

LEMMA MessageIds ==
  ASSUME NEW s \in Seq(Message), NEW i \in DOMAIN s
  PROVE  /\ s[i] \in Message /\ s[i].id \in Nat /\ s[i].via \in Nat /\ s[i].sentAt \in Nat
         /\ s[i].from \in Users \cup Others
<1>1. s[i] \in Message
  OBVIOUS
<1>. QED  BY <1>1, MessageFields

LEMMA OrderedMore ==
  ASSUME NEW s \in Seq(Message), NEW u, NEW n \in Nat, NEW k \in Nat, n <= k, Ordered(s, u, n)
  PROVE  Ordered(s, u, k)
  BY MessageIds DEF Ordered

LEMMA OrderedAppend ==
  ASSUME NEW s \in Seq(Message), NEW m \in Message, NEW u, NEW n \in Nat, NEW k \in Nat,
         n <= k, Ordered(s, u, n), m.id <= k, \A i \in DOMAIN s : s[i].from = u => s[i].id < m.id,
         NEW t, t = Append(s, m)
  PROVE  Ordered(t, u, k)
<1>1. /\ Len(s) \in Nat /\ DOMAIN s = 1 .. Len(s)
      /\ \A i \in DOMAIN s : t[i] = s[i] /\ i < Len(s) + 1
      /\ \A i \in DOMAIN t : i \in DOMAIN s \/ i = Len(s) + 1
      /\ t[Len(s) + 1] = m
  BY Appended
<1>2. \A i \in DOMAIN s : s[i].id \in Nat
  BY MessageIds
<1>3. ASSUME NEW i \in DOMAIN t, t[i].from = u PROVE t[i].id <= k
  BY <1>1, <1>2, <1>3 DEF Ordered
<1>4. ASSUME NEW i \in DOMAIN t, NEW j \in DOMAIN t, i < j, t[i].from = u, t[j].from = u
      PROVE  MayFollow(t[i], t[j])
  <2>1. i \in DOMAIN s
    BY <1>1, <1>4
  <2>2. CASE j \in DOMAIN s
    BY <1>1, <1>4, <2>1, <2>2 DEF Ordered
  <2>3. CASE j = Len(s) + 1
    BY <1>1, <1>4, <2>1, <2>3 DEF MayFollow
  <2>. QED  BY <1>1, <2>2, <2>3
<1>. QED  BY <1>3, <1>4 DEF Ordered

LEMMA OrderedWithOthers ==
  ASSUME NEW s \in Seq(Message), NEW f \in Seq(Message), NEW u, NEW n, Ordered(s, u, n),
         \A k \in DOMAIN f : f[k].from # u, NEW t, t = s \o f
  PROVE  t \in Seq(Message) /\ Ordered(t, u, n)
<1>1. /\ t \in Seq(Message)
      /\ DOMAIN s = 1 .. Len(s) /\ Len(s) \in Nat /\ DOMAIN f = 1 .. Len(f) /\ Len(f) \in Nat
      /\ DOMAIN t = 1 .. Len(s) + Len(f)
      /\ \A i \in DOMAIN s : t[i] = s[i]
      /\ \A i \in Len(s) + 1 .. Len(s) + Len(f) : t[i] = f[i - Len(s)]
  OBVIOUS
<1>2. ASSUME NEW i \in DOMAIN t, t[i].from = u PROVE i \in DOMAIN s /\ t[i] = s[i]
  <2>1. i \in DOMAIN s \/ (i \in Len(s) + 1 .. Len(s) + Len(f) /\ i - Len(s) \in DOMAIN f)
    BY <1>1
  <2>. QED  BY <1>1, <1>2, <2>1
<1>. QED  BY <1>1, <1>2 DEF Ordered

LEMMA KeptMore ==
  ASSUME NEW s \in Seq(Message), NEW n \in Nat, NEW k \in Nat, n <= k, Kept(s, n)
  PROVE  Kept(s, k)
  BY MessageIds DEF Kept

LEMMA KeptAppend ==
  ASSUME NEW s \in Seq(Message), NEW m \in Message, NEW n \in Nat, NEW k \in Nat, n <= k, Kept(s, n),
         m.id <= k, m.sentAt # 0, m.from \in Users => m.via # 0,
         \A i \in DOMAIN s :
           s[i].id # m.id /\ (m.via # 0 /\ s[i].via = m.via => s[i].id < m.id /\ s[i].sentAt <= m.sentAt),
         NEW t, t = Append(s, m)
  PROVE  Kept(t, k)
<1>1. /\ Len(s) \in Nat /\ DOMAIN s = 1 .. Len(s)
      /\ \A i \in DOMAIN s : t[i] = s[i] /\ i < Len(s) + 1
      /\ \A i \in DOMAIN t : i \in DOMAIN s \/ i = Len(s) + 1
      /\ t[Len(s) + 1] = m
  BY Appended
<1>2. \A i \in DOMAIN s : s[i].id \in Nat
  BY MessageIds
<1>3. \A i \in DOMAIN t : t[i].id <= k /\ t[i].sentAt # 0 /\ (t[i].from \in Users => t[i].via # 0)
  BY <1>1, <1>2 DEF Kept
<1>4. ASSUME NEW i \in DOMAIN t, NEW j \in DOMAIN t, i < j
      PROVE  /\ t[i].id # t[j].id
             /\ t[i].via # 0 /\ t[i].via = t[j].via => t[i].id < t[j].id /\ t[i].sentAt <= t[j].sentAt
  <2>1. i \in DOMAIN s
    BY <1>1, <1>4
  <2>2. CASE j \in DOMAIN s
    BY <1>1, <1>4, <2>1, <2>2 DEF Kept
  <2>3. CASE j = Len(s) + 1
    BY <1>1, <1>4, <2>1, <2>3
  <2>. QED  BY <1>1, <2>2, <2>3
<1>. QED  BY <1>3, <1>4 DEF Kept

\* A history lists messages of its room, each once, by their seconds.
LEMMA HistoryInOrder ==
  ASSUME NEW s \in Seq(Message), NEW n \in Nat, Kept(s, n), NEW h \in LoadChatMessages(s), NEW u \in Users,
         NEW r, r = [k \in DOMAIN h |-> s[h[k]]]
  PROVE  r \in Seq(Message) /\ Ordered(r, u, n)
<1>. DEFINE S == Recent(s)
            c == Cardinality(S)
<1>1. DOMAIN s = 1 .. Len(s) /\ Len(s) \in Nat
  OBVIOUS
<1>2. S \subseteq DOMAIN s
  BY DEF Recent
<1>3. c \in Nat
  <2>1. IsFiniteSet(DOMAIN s)
    BY <1>1, FS_Interval
  <2>. HIDE DEF S
  <2>2. IsFiniteSet(S)
    BY <1>2, <2>1, FS_Subset
  <2>. QED  BY <2>2, FS_CardinalityType
<1>4. h \in [1 .. c -> S] /\ \A k, l \in 1 .. c : k # l => h[k] # h[l]
  BY DEF LoadChatMessages, SetToSeqs
<1>5. \A k, l \in 1 .. c : k < l => s[h[k]].sentAt <= s[h[l]].sentAt
  BY <1>4 DEF LoadChatMessages
<1>. HIDE DEF S, c
<1>6. DOMAIN r = 1 .. c /\ \A k \in 1 .. c : h[k] \in DOMAIN s /\ r[k] = s[h[k]] /\ r[k] \in Message
  BY <1>2, <1>4
<1>7. r \in Seq(Message)
  BY <1>3, <1>6
<1>8. ASSUME NEW k \in 1 .. c, NEW l \in 1 .. c, k < l, r[k].from = u, r[l].from = u
      PROVE  MayFollow(r[k], r[l])
  <2>. DEFINE i == h[k]
              j == h[l]
  <2>1. /\ i \in DOMAIN s /\ j \in DOMAIN s /\ i # j /\ r[k] = s[i] /\ r[l] = s[j]
        /\ s[i].sentAt <= s[j].sentAt
    BY <1>3, <1>4, <1>5, <1>6, <1>8
  <2>2. /\ s[i].sentAt \in Nat /\ s[j].sentAt \in Nat /\ s[i].id \in Nat /\ s[j].id \in Nat
        /\ s[i].sentAt # 0 /\ s[j].sentAt # 0 /\ s[i].via # 0 /\ s[j].via # 0
    BY <1>8, <2>1, MessageIds DEF Kept
  <2>. HIDE DEF i, j
  <2>3. CASE i < j
    BY <1>8, <2>1, <2>2, <2>3 DEF Kept, MayFollow
  <2>4. CASE j < i
    <3>1. s[j].id # s[i].id /\ (s[j].via = s[i].via => s[j].sentAt <= s[i].sentAt)
      BY <2>1, <2>2, <2>4 DEF Kept
    <3>. QED  BY <2>1, <2>2, <3>1 DEF MayFollow
  <2>5. i < j \/ j < i
    BY <1>1, <2>1
  <2>. QED  BY <2>3, <2>4, <2>5
<1>9. \A k \in 1 .. c : r[k].id <= n
  BY <1>6 DEF Kept
<1>. QED  BY <1>6, <1>7, <1>8, <1>9 DEF Ordered

\* A message gets into its room on the server, after what came on its connection.
LEMMA StoresStep ==
  ASSUME MessagesType, StoredInOrder, NEW m \in Message, NEW t \in 1 .. MaxTime, Stores(m, t),
         sent' \in Nat, sent <= sent', m.id <= sent', m.from \in Users => m.via # 0,
         \A b \in Blends : \A i \in DOMAIN stored[b] :
           stored[b][i].id # m.id /\ (m.via # 0 /\ stored[b][i].via = m.via => stored[b][i].id < m.id),
         \A i \in DOMAIN stored[m.blend] :
           m.via # 0 /\ stored[m.blend][i].via = m.via => stored[m.blend][i].sentAt <= t
  PROVE  /\ stored' \in [Blends -> Seq(Message)] /\ due' \subseteq Message
         /\ StoredInOrder'
         /\ \A b \in Blends : \A i \in DOMAIN stored'[b] :
              \/ i \in DOMAIN stored[b] /\ stored'[b][i] = stored[b][i]
              \/ stored'[b][i].id = m.id /\ stored'[b][i].via = m.via
<1>. DEFINE e == [m EXCEPT !.sentAt = t]
<1>1. /\ m.blend \in Blends /\ sent \in Nat /\ stored \in [Blends -> Seq(Message)]
      /\ stored' = [stored EXCEPT ![m.blend] = Append(stored[m.blend], e)] /\ due' = due \cup {m}
  <2>1. m.blend \in Blends
    BY MessageFields
  <2>2. stored \in [Blends -> Seq(Message)] /\ sent \in Nat
    BY MaxType DEF MessagesType
  <2>. QED  BY <2>1, <2>2 DEF Stores
<1>2. e \in Message /\ e.id = m.id /\ e.from = m.from /\ e.via = m.via /\ e.sentAt = t /\ e.sentAt # 0
  BY MaxType DEF Message
<1>. HIDE DEF e
<1>3. stored' \in [Blends -> Seq(Message)] /\ due' \subseteq Message
  BY <1>1, <1>2 DEF MessagesType
<1>4. \A b \in Blends : stored[b] \in Seq(Message) /\ stored'[b] = IF b = m.blend THEN Append(stored[b], e)
                                                               ELSE stored[b]
  BY <1>1
<1>5. ASSUME NEW b \in Blends PROVE Kept(stored'[b], sent')
  <2>1. Kept(stored[b], sent)
    BY DEF StoredInOrder
  <2>2. CASE b # m.blend
    BY <1>1, <1>4, <2>1, <2>2, KeptMore
  <2>3. CASE b = m.blend
    <3>1. \A i \in DOMAIN stored[b] :
            /\ stored[b][i].id # e.id
            /\ e.via # 0 /\ stored[b][i].via = e.via =>
                 stored[b][i].id < e.id /\ stored[b][i].sentAt <= e.sentAt
      BY <1>2, <2>3
    <3>2. e.id <= sent' /\ (e.from \in Users => e.via # 0)
      BY <1>2
    <3>. QED  BY <1>1, <1>2, <1>4, <2>1, <2>3, <3>1, <3>2, KeptAppend
  <2>. QED  BY <2>2, <2>3
<1>6. ASSUME NEW b \in Blends, NEW i \in DOMAIN stored'[b]
      PROVE  (i \in DOMAIN stored[b] /\ stored'[b][i] = stored[b][i]) \/ stored'[b][i] = e
  <2>1. CASE b # m.blend
    BY <1>4, <2>1
  <2>2. CASE b = m.blend
    <3>1. stored[b] \in Seq(Message) /\ stored'[b] = Append(stored[b], e)
      BY <1>4, <2>2
    <3>. QED  BY <1>2, <3>1, Appended
  <2>. QED  BY <2>1, <2>2
<1>7. StoredInOrder'
  BY <1>5 DEF StoredInOrder
<1>. QED  BY <1>2, <1>3, <1>6, <1>7

LEMMA OwnInit == Init => OwnInv
<1>. SUFFICES ASSUME Init PROVE OwnInv
  OBVIOUS
<1>1. Empty \in [Blends -> Seq(Message)] /\ \A b \in Blends : DOMAIN Empty[b] = {}
  BY DEF Empty
<1>2. MessagesType
  BY <1>1, MaxType DEF Init, MessagesType
<1>. QED  BY <1>1, <1>2 DEF Init, OwnInv, UpInOrder, StoredInOrder, RoomsInOrder, Ordered, Kept

\* DoSend: the room gets the message last, and the connection gets a newer frame
\* than any that it or another has.
LEMMA DoSendStep ==
  ASSUME IInv, OwnInv, DoSend
  PROVE  OwnInv'
<1>0. MessagesType /\ UpInOrder /\ StoredInOrder /\ RoomsInOrder /\ sent \in Nat
  BY MaxType DEF OwnInv, MessagesType
<1>. DEFINE m == [id |-> sent + 1, from |-> user, blend |-> active, via |-> 0, sentAt |-> 0]
            e == [id |-> sent + 1, from |-> socket.user, blend |-> socket.blend,
                  via |-> socket.via, sentAt |-> 0]
<1>1. /\ user \in Users /\ active \in Blends /\ sent' = sent + 1 /\ sent' \in 0 .. MaxMessages
      /\ m \in Message /\ sent' \in Nat
  BY <1>0, MaxType DEF DoSend, IInv, SessionType, MessagesType, Message
<1>2. /\ rooms' = [rooms EXCEPT ![active] = Append(rooms[active], m)] \/ rooms' = rooms
      /\ (up' = up \cup {e} /\ e \in Message /\ e.from \in Users /\ e.via # 0) \/ up' = up
      /\ down' = <<>> \/ down' = down
      /\ UNCHANGED <<user, incoming, stored, due>>
  <2>1. Open(socket) => e \in Message /\ e.from \in Users /\ e.via # 0
    BY <1>0, <1>1, MaxType DEF IInv, SocketIsNamed, Sockets, Open, Message
  <2>2. m.blend = active
    OBVIOUS
  <2>. HIDE DEF m
  <2>3. HandleSendMessage(m) /\ up' = IF Open(socket) THEN up \cup {e} ELSE up
    BY DEF DoSend, m
  <2>. HIDE DEF e
  <2>4. (down' = <<>> \/ down' = down) /\ UNCHANGED <<user, incoming, stored, due>>
    BY DEF DoSend, Reload, ResetSocket, session, server
  <2>. QED  BY <2>1, <2>2, <2>3, <2>4 DEF HandleSendMessage, AddMessage
<1>3. m.id = sent + 1 /\ e.id = sent + 1
  OBVIOUS
<1>. HIDE DEF m, e
<1>4. /\ rooms' \in [Blends -> Seq(Message)] /\ rooms \in [Blends -> Seq(Message)]
      /\ \A b \in Blends : rooms'[b] = rooms[b] \/ rooms'[b] = Append(rooms[b], m)
  <2>1. rooms \in [Blends -> Seq(Message)]
    BY <1>0 DEF MessagesType
  <2>2. Append(rooms[active], m) \in Seq(Message)
    BY <1>1, <2>1
  <2>. QED  BY <1>1, <1>2, <2>1, <2>2
<1>5. up' \subseteq Message /\ down' \in Seq(Message)
  <2>1. up \subseteq Message /\ down \in Seq(Message) /\ <<>> \in Seq(Message)
    BY <1>0 DEF MessagesType
  <2>2. up' \subseteq Message
    BY <1>2, <2>1, Zenon
  <2>3. down' \in Seq(Message)
    BY <1>2, <2>1, Zenon
  <2>. QED  BY <2>2, <2>3
<1>6. MessagesType'
  BY <1>0, <1>1, <1>2, <1>4, <1>5 DEF MessagesType
<1>7. ASSUME NEW b \in Blends PROVE Ordered(rooms'[b], user, sent')
  <2>1. Ordered(rooms[b], user, sent) /\ rooms[b] \in Seq(Message)
    BY <1>0, <1>1, <1>4, NoneType DEF RoomsInOrder
  <2>2. \A i \in DOMAIN rooms[b] : rooms[b][i].from = user => rooms[b][i].id < m.id
    BY <1>0, <1>3, <2>1, MessageIds DEF Ordered
  <2>3. CASE rooms'[b] = rooms[b]
    BY <1>0, <1>1, <2>1, <2>3, OrderedMore
  <2>4. CASE rooms'[b] = Append(rooms[b], m)
    <3>1. sent <= sent' /\ m.id <= sent'
      BY <1>0, <1>1, <1>3
    <3>. QED  BY <1>0, <1>1, <2>1, <2>2, <2>4, <3>1, OrderedAppend
  <2>. QED  BY <1>4, <2>3, <2>4
<1>8. RoomsInOrder'
  BY <1>2, <1>7 DEF RoomsInOrder
<1>9. StoredInOrder'
  BY <1>0, <1>1, <1>2, KeptMore DEF StoredInOrder, MessagesType
<1>10. UpInOrder'
  <2>1. \A x \in up : x.id \in Nat /\ x.from \in Users /\ x.via # 0 /\ x.id <= sent /\ x.id < sent + 1
    BY <1>0, MessageFields DEF UpInOrder, MessagesType
  <2>2. \A b \in Blends : \A i \in DOMAIN stored[b] :
          stored[b][i].id \in Nat /\ stored[b][i].id <= sent /\ stored[b][i].id < sent + 1
    BY <1>0, MessageIds DEF StoredInOrder, Kept, MessagesType
  <2>3. CASE up' = up
    BY <1>0, <1>1, <1>2, <2>1, <2>3 DEF UpInOrder
  <2>4. CASE up' = up \cup {e} /\ e.from \in Users /\ e.via # 0
    <3>1. \A x \in up' : x.from \in Users /\ x.via # 0 /\ x.id <= sent'
      BY <1>0, <1>1, <1>3, <2>1, <2>4
    <3>2. \A x, y \in up' : x.id = y.id => x = y
      BY <1>0, <1>3, <2>1, <2>4 DEF UpInOrder
    <3>3. \A b \in Blends : \A i \in DOMAIN stored[b] : \A x \in up' :
            stored[b][i].id # x.id /\ (stored[b][i].via = x.via => stored[b][i].id < x.id)
      BY <1>0, <1>3, <2>2, <2>4 DEF UpInOrder
    <3>. QED  BY <1>2, <3>1, <3>2, <3>3 DEF UpInOrder
  <2>. QED  BY <1>2, <2>3, <2>4
<1>. QED  BY <1>6, <1>8, <1>9, <1>10 DEF OwnInv

\* OtherSends and ServerStores: a room of the server grows.
LEMMA ServerStep ==
  ASSUME OwnInv, NEW t \in 1 .. MaxTime,
         (\E u \in Others, c \in Blends : OtherSends(u, c, t)) \/ \E m \in up : ServerStores(m, t)
  PROVE  OwnInv'
<1>0. MessagesType /\ UpInOrder /\ StoredInOrder /\ RoomsInOrder /\ sent \in Nat
  BY MaxType DEF OwnInv, MessagesType
<1>1. ASSUME NEW u \in Others, NEW c \in Blends, OtherSends(u, c, t) PROVE OwnInv'
  <2>. DEFINE m == [id |-> sent + 1, from |-> u, blend |-> c, via |-> 0, sentAt |-> 0]
  <2>1. m \in Message /\ m.from \notin Users /\ sent' \in 0 .. MaxMessages /\ sent' \in Nat /\ sent' = sent + 1
    BY <1>0, <1>1, OneClient, MaxType DEF OtherSends, Message, MessagesType
  <2>2. Stores(m, t) /\ UNCHANGED <<user, rooms, incoming, up, down>>
    BY <1>1 DEF OtherSends, session, panel, net
  <2>3. m.id = sent' /\ m.via = 0
    BY <2>1
  <2>. HIDE DEF m
  <2>4. \A b \in Blends : \A i \in DOMAIN stored[b] : stored[b][i].id # m.id
    BY <1>0, <2>1, <2>3, MessageIds DEF StoredInOrder, Kept, MessagesType
  <2>5. /\ stored' \in [Blends -> Seq(Message)] /\ due' \subseteq Message
        /\ StoredInOrder'
        /\ \A b \in Blends : \A i \in DOMAIN stored'[b] :
             \/ i \in DOMAIN stored[b] /\ stored'[b][i] = stored[b][i]
             \/ stored'[b][i].id = m.id /\ stored'[b][i].via = m.via
    <3>1. sent <= sent' /\ m.id <= sent'
      BY <1>0, <2>1, <2>3
    <3>. QED  BY <1>0, <2>1, <2>2, <2>3, <2>4, <3>1, StoresStep
  <2>6. MessagesType'
    BY <1>0, <2>1, <2>2, <2>5 DEF MessagesType
  <2>7. UpInOrder'
    <3>1. \A x \in up : x.id \in Nat /\ x.id < m.id /\ x.via # m.via /\ x.id <= sent'
      BY <1>0, <2>1, <2>3, MessageFields DEF UpInOrder, MessagesType
    <3>2. ASSUME NEW b \in Blends, NEW i \in DOMAIN stored'[b], NEW x \in up
          PROVE  stored'[b][i].id # x.id /\ (stored'[b][i].via = x.via => stored'[b][i].id < x.id)
      BY <1>0, <2>5, <3>1 DEF UpInOrder
    <3>. QED  BY <1>0, <2>2, <3>1, <3>2 DEF UpInOrder
  <2>8. RoomsInOrder'
    BY <1>0, <2>1, <2>2, OrderedMore DEF RoomsInOrder, MessagesType
  <2>. QED  BY <2>5, <2>6, <2>7, <2>8 DEF OwnInv
<1>2. ASSUME NEW m \in up, ServerStores(m, t) PROVE OwnInv'
  <2>1. /\ m \in Message /\ up' = up \ {m} /\ Stores(m, t) /\ \A x \in up : x.via = m.via => m.id <= x.id
        /\ UNCHANGED <<user, rooms, incoming, down, sent>>
    BY <1>0, <1>2 DEF ServerStores, MessagesType, session, panel
  <2>2. /\ m.from \in Users /\ m.via # 0 /\ m.id <= sent
        /\ \A b \in Blends : \A i \in DOMAIN stored[b] :
             stored[b][i].id # m.id /\ (stored[b][i].via = m.via => stored[b][i].id < m.id)
    BY <1>0 DEF UpInOrder
  <2>3. \A i \in DOMAIN stored[m.blend] :
          stored[m.blend][i].via = m.via => stored[m.blend][i].sentAt <= t
    BY <1>2 DEF ServerStores
  <2>4. /\ stored' \in [Blends -> Seq(Message)] /\ due' \subseteq Message
        /\ StoredInOrder'
        /\ \A b \in Blends : \A i \in DOMAIN stored'[b] :
             \/ i \in DOMAIN stored[b] /\ stored'[b][i] = stored[b][i]
             \/ stored'[b][i].id = m.id /\ stored'[b][i].via = m.via
    BY <1>0, <2>1, <2>2, <2>3, StoresStep
  <2>5. MessagesType'
    BY <1>0, <2>1, <2>4 DEF MessagesType
  <2>6. UpInOrder'
    <3>1. \A x \in up' : x \in up /\ x.id # m.id /\ (x.via = m.via => m.id < x.id)
      <4>1. \A x \in up : x.id \in Nat
        BY <1>0, MessageFields DEF MessagesType
      <4>. QED  BY <1>0, <2>1, <4>1 DEF UpInOrder
    <3>2. ASSUME NEW b \in Blends, NEW i \in DOMAIN stored'[b], NEW x \in up'
          PROVE  stored'[b][i].id # x.id /\ (stored'[b][i].via = x.via => stored'[b][i].id < x.id)
      BY <1>0, <2>4, <3>1 DEF UpInOrder
    <3>. QED  BY <1>0, <2>1, <3>1, <3>2 DEF UpInOrder
  <2>7. RoomsInOrder'
    BY <1>0, <2>1 DEF RoomsInOrder
  <2>. QED  BY <2>4, <2>5, <2>6, <2>7 DEF OwnInv
<1>. QED  BY <1>1, <1>2

LEMMA OwnStep ==
  ASSUME IInv, OwnInv, [Next]_vars
  PROVE  OwnInv'
<1>. USE DEF session, panel, net, server
<1>0. MessagesType /\ UpInOrder /\ StoredInOrder /\ RoomsInOrder /\ sent \in Nat
  BY MaxType DEF OwnInv, MessagesType
<1>a. <<>> \in Seq(Message) /\ down \in Seq(Message)
  BY <1>0 DEF MessagesType
<1>1. ASSUME NEW t \in 1 .. MaxTime,
             (\E u \in Others, b \in Blends : OtherSends(u, b, t)) \/ \E m \in up : ServerStores(m, t)
      PROVE  OwnInv'
  BY <1>1, ServerStep
<1>2. ASSUME NEW m \in up, FrameLost(m) PROVE OwnInv'
  <2>1. up' \subseteq up /\ UNCHANGED <<user, rooms, incoming, down, stored, due, sent>>
    BY <1>2 DEF FrameLost
  <2>2. MessagesType'
    BY <1>0, <2>1 DEF MessagesType
  <2>. QED  BY <1>0, <2>1, <2>2 DEF OwnInv, UpInOrder, StoredInOrder, RoomsInOrder
<1>3. ASSUME NEW m \in due, Broadcast(m) PROVE OwnInv'
  <2>1. /\ m \in Message /\ due' \subseteq due /\ (down' = down \/ down' = Append(down, Heard(m)))
        /\ UNCHANGED <<user, rooms, incoming, up, stored, sent>>
    BY <1>0, <1>3 DEF Broadcast, MessagesType
  <2>2. Heard(m) \in Message
    BY <2>1, MaxType DEF Heard, Message
  <2>3. down' \in Seq(Message)
    BY <1>a, <2>1, <2>2
  <2>4. MessagesType'
    BY <1>0, <2>1, <2>3 DEF MessagesType
  <2>. QED  BY <1>0, <2>1, <2>4 DEF OwnInv, UpInOrder, StoredInOrder, RoomsInOrder
<1>5. CASE OnMessage
  <2>1. /\ down \in Seq(Message) /\ down # <<>>
        /\ incoming' = Append(incoming, Head(down)) /\ down' = Tail(down)
        /\ UNCHANGED <<user, rooms, up, stored, due, sent>>
    BY <1>0, <1>5 DEF OnMessage, MessagesType
  <2>2. MessagesType'
    BY <1>0, <2>1 DEF MessagesType
  <2>. QED  BY <1>0, <2>1, <2>2 DEF OwnInv, UpInOrder, StoredInOrder, RoomsInOrder
<1>6. CASE OpenChat
  <2>1. /\ rooms' \in {rooms} \cup {[rooms EXCEPT ![active] = r] : r \in Histories(active)}
        /\ UNCHANGED <<user, active, incoming, up, down, stored, due, sent>>
    BY <1>6 DEF OpenChat
  <2>2. active \in Blends /\ user \in Users
    BY <1>6 DEF OpenChat, IInv, SessionType, ChatHasItsSession
  <2>3. stored[active] \in Seq(Message) /\ Kept(stored[active], sent)
    BY <1>0, <2>2 DEF MessagesType, StoredInOrder
  <2>4. \A r \in Histories(active) : r \in Seq(Message) /\ Ordered(r, user, sent)
    BY <1>0, <2>2, <2>3, HistoryInOrder DEF Histories
  <2>5. /\ rooms' \in [Blends -> Seq(Message)]
        /\ \A b \in Blends : rooms'[b] = rooms[b] \/ rooms'[b] \in Histories(active)
    BY <1>0, <2>1, <2>2, <2>4 DEF MessagesType
  <2>6. MessagesType'
    BY <1>0, <2>1, <2>5 DEF MessagesType
  <2>7. RoomsInOrder'
    BY <1>0, <2>1, <2>4, <2>5 DEF RoomsInOrder
  <2>. QED  BY <1>0, <2>1, <2>6, <2>7 DEF OwnInv, UpInOrder, StoredInOrder
<1>7. CASE ConnectWebSocket \/ ShowChat \/ LogOut \/ SocketOpens \/ SocketBreaks \/ HideChat
           \/ \E b \in Blends \cup {None} : SwitchBlend(b)
  <2>1. /\ down' = <<>> \/ down' = down
        /\ UNCHANGED <<user, rooms, incoming, up, stored, due, sent>>
    BY <1>7 DEF ConnectWebSocket, ShowChat, LogOut, SocketOpens, SocketBreaks, HideChat, SwitchBlend,
                Reload, ResetSocket
  <2>2. down' \in Seq(Message)
    BY <1>a, <2>1
  <2>3. MessagesType'
    BY <1>0, <2>1, <2>2 DEF MessagesType
  <2>. QED  BY <1>0, <2>1, <2>3 DEF OwnInv, UpInOrder, StoredInOrder, RoomsInOrder
<1>8. CASE DoSend
  BY <1>8, DoSendStep
<1>9. CASE OnPollTimer
  <2>. DEFINE f == Foreign(incoming)
  <2>1. f \in Seq(Message) /\ \A k \in DOMAIN f : f[k].from # user
    BY <1>0, ForeignIsOthers DEF MessagesType
  <2>2. /\ incoming' = <<>>
        /\ down' = <<>> \/ down' = down
        /\ UNCHANGED <<user, active, up, stored, due, sent>>
    BY <1>9 DEF OnPollTimer, Reload, ResetSocket
  <2>. HIDE DEF f
  <2>3. \/ rooms' = rooms
        \/ active # None /\ rooms' = [rooms EXCEPT ![active] = rooms[active] \o f]
    BY <1>9 DEF OnPollTimer, f
  <2>4. \A b \in Blends : rooms[b] \in Seq(Message) /\ rooms[b] \o f \in Seq(Message)
    BY <1>0, <2>1 DEF MessagesType
  <2>5. /\ rooms' \in [Blends -> Seq(Message)]
        /\ \A b \in Blends : rooms'[b] \in {rooms[b], rooms[b] \o f}
    BY <1>0, <2>3, <2>4 DEF MessagesType
  <2>6. MessagesType'
    <3>1. down' \in Seq(Message) /\ incoming' \in Seq(Message)
      BY <1>a, <2>2, Zenon
    <3>. QED  BY <1>0, <2>2, <2>5, <3>1 DEF MessagesType
  <2>7. ASSUME user # None, NEW b \in Blends PROVE Ordered(rooms'[b], user, sent')
    <3>1. Ordered(rooms[b], user, sent)
      BY <1>0, <2>7 DEF RoomsInOrder
    <3>2. Ordered(rooms[b] \o f, user, sent)
      BY <2>1, <2>4, <3>1, OrderedWithOthers
    <3>. QED  BY <2>2, <2>5, <3>1, <3>2
  <2>8. RoomsInOrder'
    BY <2>2, <2>7 DEF RoomsInOrder
  <2>. QED  BY <1>0, <2>2, <2>6, <2>8 DEF OwnInv, UpInOrder, StoredInOrder
<1>10. CASE DeleteAccount \/ \E b \in Blends \cup {None} : \E u \in Users : Login(u, b)
  <2>1. /\ rooms' = Empty \/ (rooms' = rooms /\ user' = user)
        /\ UNCHANGED <<incoming, up, down, stored, due, sent>>
    BY <1>10 DEF DeleteAccount, Login
  <2>2. Empty \in [Blends -> Seq(Message)] /\ \A b \in Blends : DOMAIN Empty[b] = {}
    BY DEF Empty
  <2>3. MessagesType'
    BY <1>0, <2>1, <2>2 DEF MessagesType
  <2>4. RoomsInOrder'
    BY <1>0, <2>1, <2>2 DEF RoomsInOrder, Ordered
  <2>. QED  BY <1>0, <2>1, <2>3, <2>4 DEF OwnInv, UpInOrder, StoredInOrder
<1>11. CASE UNCHANGED vars
  <2>1. UNCHANGED <<user, rooms, incoming, up, down, stored, due, sent>>
    BY <1>11 DEF vars
  <2>. QED  BY <1>0, <2>1 DEF OwnInv, MessagesType, UpInOrder, StoredInOrder, RoomsInOrder
<1>. QED
  BY <1>1, <1>2, <1>3, <1>5, <1>6, <1>7, <1>8, <1>9, <1>10, <1>11 DEF Next

LEMMA BothInit == Init => IInv /\ OwnInv
  BY InitIInv, OwnInit

LEMMA BothStep == (IInv /\ OwnInv) /\ [Next]_vars => (IInv /\ OwnInv)'
  BY NextIInv, OwnStep

\* The panel, its socket and all that is queued or stored keep their types, and
\* m_wsBlendID names a blend just while the ChatWebSocket exists.
THEOREM PanelTypes == Spec => []TypeOK
<1>1. IInv /\ OwnInv => TypeOK
  <2>. SUFFICES ASSUME IInv, OwnInv PROVE TypeOK
    OBVIOUS
  <2>1. wsBlend \in Blends \cup {None} /\ (wsBlend = None <=> socket = None)
    BY NoneType, NoSocket DEF IInv, SocketIsNamed, Sockets
  <2>. QED  BY <2>1 DEF IInv, OwnInv, SessionType, SocketIsNamed, MessagesType, TypeOK
<1>. QED  BY <1>1, BothInit, BothStep, PTL DEF Spec

\* However often the connection breaks, the history is loaded again or another
\* account is used in between, a room shows no message of the user twice: DoSend
\* adds it, OnPollTimer skips its echo.  They come in the order of writing, unless
\* the history sorted both by equal seconds, or the server took them from two
\* connections, which it reads side by side.
THEOREM OwnMessagesInOrder == Spec => []OwnOnceInOrder
<1>1. OwnInv => OwnOnceInOrder
  BY DEF OwnInv, RoomsInOrder, Ordered, OwnOnceInOrder
<1>. QED  BY <1>1, BothInit, BothStep, PTL DEF Spec
=============================================================================

-------------------------- MODULE BlendStoreProofs --------------------------
(***************************************************************************)
(* Proofs about the store: the transactions of any number of requests, cut *)
(* short anywhere, leave the tables whole.                                 *)
(***************************************************************************)
EXTENDS BlendStore, TLAPS

USE ListsType, AbsentType, NobodyType, NoRequestType
-----------------------------------------------------------------------------

Writes(r) == r.kind \in {"delete", "watch", "blend", "leave"}

(* The statements keep to the stages of their transaction.                 *)

LEMMA DeleteStages ==
  ASSUME NEW r \in Request, r.kind = "delete", NEW n \in 0 .. 3,
         NEW d \in Tables, NEW w \in Tables, Deleted(r, n, d, w)
  PROVE  LET e == DeleteUser(r, n + 1, w)
         IN  e \in Tables /\ Deleted(r, n + 1, d, e)
<1> r.user \in Users
  BY DEF Request
<1>1. CASE n = 0
  <2> DEFINE e == [w EXCEPT !.participants = {x \in @ : x[2] # r.user}]
  <2>1. DeleteUser(r, n + 1, w) = e
    BY <1>1 DEF DeleteUser
  <2>2. e \in Tables
    BY DEF Tables
  <2>3. Deleted(r, n + 1, d, e)
    BY <1>1 DEF Tables, Deleted
  <2> QED
    BY <2>1, <2>2, <2>3
<1>2. CASE n = 1
  <2> DEFINE e == [w EXCEPT !.members = {x \in @ : x[2] # r.user}]
  <2>1. DeleteUser(r, n + 1, w) = e
    BY <1>2 DEF DeleteUser
  <2>2. e \in Tables
    BY DEF Tables
  <2>3. Deleted(r, n + 1, d, e)
    BY <1>2 DEF Tables, Deleted
  <2> QED
    BY <2>1, <2>2, <2>3
<1>3. CASE n = 2
  <2> DEFINE e == [w EXCEPT !.watch[r.user] = {}]
  <2>1. DeleteUser(r, n + 1, w) = e
    BY <1>3 DEF DeleteUser
  <2>2. e \in Tables
    BY DEF Tables
  <2>3. Deleted(r, n + 1, d, e)
    BY <1>3 DEF Tables, Deleted
  <2> QED
    BY <2>1, <2>2, <2>3
<1>4. CASE n = 3
  <2> DEFINE e == [w EXCEPT !.users[r.user] = Absent]
  <2>1. DeleteUser(r, n + 1, w) = e
    BY <1>4 DEF DeleteUser
  <2>2. e \in Tables
    BY DEF Tables
  <2>3. Deleted(r, n + 1, d, e)
    BY <1>4 DEF Tables, Deleted
  <2> QED
    BY <2>1, <2>2, <2>3
<1> QED
  BY <1>1, <1>2, <1>3, <1>4

LEMMA LeaveStages ==
  ASSUME NEW r \in Request, r.kind = "leave", NEW n \in 0 .. 1,
         NEW d \in Tables, NEW w \in Tables, Parted(r, n, d, w)
  PROVE  LET e == RemoveParticipantFromBlend(r, n + 1, w)
         IN  e \in Tables /\ Parted(r, n + 1, d, e)
<1> r.blend \in Blends /\ r.user \in Users
  BY DEF Request
<1>1. CASE n = 0
  <2> DEFINE e == [w EXCEPT !.participants = @ \ {<<r.blend, r.user>>}]
  <2>1. RemoveParticipantFromBlend(r, n + 1, w) = e
    BY <1>1 DEF RemoveParticipantFromBlend
  <2>2. e \in Tables
    BY DEF Tables
  <2>3. Parted(r, n + 1, d, e)
    BY <1>1 DEF Tables, Parted
  <2> QED
    BY <2>1, <2>2, <2>3
<1>2. CASE n = 1
  <2> DEFINE e == [w EXCEPT !.members = @ \ {<<r.blend, r.user>>}]
  <2>1. RemoveParticipantFromBlend(r, n + 1, w) = e
    BY <1>2 DEF RemoveParticipantFromBlend
  <2>2. e \in Tables
    BY DEF Tables
  <2>3. Parted(r, n + 1, d, e)
    BY <1>2 DEF Tables, Parted
  <2> QED
    BY <2>1, <2>2, <2>3
<1> QED
  BY <1>1, <1>2
LEMMA BlendStages ==
  ASSUME NEW r \in Request, r.kind = "blend", NEW n \in 0 .. 5,
         NEW d \in Tables, NEW w \in Tables, Composed(r, n, d, w)
  PROVE  LET e == SaveBlend(r, n + 1, w)
         IN  e \in Tables /\ Composed(r, n + 1, d, e)
<1> r.blend \in Blends /\ r.user \in Users /\ r.people \subseteq Users
  BY DEF Request
<1>1. CASE n = 0
  <2> DEFINE e == [w EXCEPT !.blends[r.blend] = r.user]
  <2>1. SaveBlend(r, n + 1, w) = e
    BY <1>1 DEF SaveBlend
  <2>2. e \in Tables
    BY DEF Tables
  <2>3. Composed(r, n + 1, d, e)
    BY <1>1 DEF Tables, Composed
  <2> QED
    BY <2>1, <2>2, <2>3
<1>2. CASE n = 1
  <2> DEFINE e == [w EXCEPT !.participants = {x \in @ : x[1] # r.blend}]
  <2>1. SaveBlend(r, n + 1, w) = e
    BY <1>2 DEF SaveBlend
  <2>2. e \in Tables
    BY DEF Tables
  <2>3. Composed(r, n + 1, d, e)
    BY <1>2 DEF Tables, Composed
  <2> QED
    BY <2>1, <2>2, <2>3
<1>3. CASE n = 2
  <2> DEFINE e == [w EXCEPT !.participants = @ \cup ({r.blend} \X r.people)]
  <2>1. SaveBlend(r, n + 1, w) = e
    BY <1>3 DEF SaveBlend
  <2>2. e \in Tables
    BY DEF Tables
  <2>3. Composed(r, n + 1, d, e)
    BY <1>3 DEF Tables, Composed
  <2> QED
    BY <2>1, <2>2, <2>3
<1>4. CASE n = 3
  <2> DEFINE e == [w EXCEPT !.rooms = @ \cup {r.blend}]
  <2>1. SaveBlend(r, n + 1, w) = e
    BY <1>4 DEF SaveBlend
  <2>2. e \in Tables
    BY DEF Tables
  <2>3. Composed(r, n + 1, d, e)
    BY <1>4 DEF Tables, Composed
  <2> QED
    BY <2>1, <2>2, <2>3
<1>5. CASE n = 4
  <2> DEFINE e == [w EXCEPT !.members = {x \in @ : x[1] # r.blend}]
  <2>1. SaveBlend(r, n + 1, w) = e
    BY <1>5 DEF SaveBlend
  <2>2. e \in Tables
    BY DEF Tables
  <2>3. Composed(r, n + 1, d, e)
    BY <1>5 DEF Tables, Composed
  <2> QED
    BY <2>1, <2>2, <2>3
<1>6. CASE n = 5
  <2> DEFINE e == [w EXCEPT !.members = @ \cup ({r.blend} \X r.people)]
  <2>1. SaveBlend(r, n + 1, w) = e
    BY <1>6 DEF SaveBlend
  <2>2. e \in Tables
    BY DEF Tables
  <2>3. Composed(r, n + 1, d, e)
    BY <1>6 DEF Tables, Composed
  <2> QED
    BY <2>1, <2>2, <2>3
<1> QED
  BY <1>1, <1>2, <1>3, <1>4, <1>5, <1>6

\* INSERT OR REPLACE of one more video keeps the rows those of a prefix.
LEMMA RowsGrow ==
  ASSUME NEW l \in Seq(Videos), NEW n \in Nat, n < Len(l), NEW v, v = l[n + 1]
  PROVE  RowsUpTo(l, n + 1) = {x \in RowsUpTo(l, n) : x[1] # v} \cup {<<v, n + 1>>}
<1> DEFINE new == {x \in RowsUpTo(l, n) : x[1] # v} \cup {<<v, n + 1>>}
<1>1. ASSUME NEW x \in RowsUpTo(l, n + 1)
      PROVE  x \in new
  <2>1. PICK i \in 1 .. n + 1 : /\ \A j \in 1 .. n + 1 : j > i => l[j] # l[i]
                                /\ x = <<l[i], i>>
    BY <1>1 DEF RowsUpTo
  <2>2. CASE i = n + 1
    BY <2>1, <2>2
  <2>3. CASE i # n + 1
    <3>1. i \in 1 .. n /\ l[n + 1] # l[i]
      BY <2>1, <2>3
    <3>2. \A j \in 1 .. n : j > i => l[j] # l[i]
      BY <2>1
    <3> QED
      BY <2>1, <3>1, <3>2 DEF RowsUpTo
  <2> QED
    BY <2>2, <2>3
<1>2. ASSUME NEW x \in new
      PROVE  x \in RowsUpTo(l, n + 1)
  <2>1. CASE x = <<v, n + 1>>
    BY <2>1 DEF RowsUpTo
  <2>2. CASE x \in RowsUpTo(l, n) /\ x[1] # v
    <3>1. PICK i \in 1 .. n : /\ \A j \in 1 .. n : j > i => l[j] # l[i]
                              /\ x = <<l[i], i>>
      BY <2>2 DEF RowsUpTo
    <3>2. l[n + 1] # l[i]
      BY <2>2, <3>1
    <3>3. i \in 1 .. n + 1 /\ \A j \in 1 .. n + 1 : j > i => l[j] # l[i]
      BY <3>1, <3>2
    <3> QED
      BY <3>1, <3>3 DEF RowsUpTo
  <2> QED
    BY <1>2, <2>1, <2>2
<1> QED
  BY <1>1, <1>2

LEMMA RowsType ==
  ASSUME NEW l \in Seq(Videos), NEW n \in 0 .. Len(l)
  PROVE  RowsUpTo(l, n) \in SUBSET (Videos \X Nat)
BY DEF RowsUpTo

LEMMA WatchStages ==
  ASSUME NEW r \in Request, r.kind = "watch", NEW n \in Nat, n < Statements(r),
         NEW d \in Tables, NEW w \in Tables, Uploaded(r, n, d, w)
  PROVE  LET e == SaveWatchLater(r, n + 1, w)
         IN  e \in Tables /\ Uploaded(r, n + 1, d, e)
<1> r.user \in Users /\ r.list \in Lists /\ r.list \in Seq(Videos)
  BY DEF Request
<1>0. Statements(r) = 1 + Len(r.list) /\ Len(r.list) \in Nat
  BY DEF Statements
<1>1. CASE n = 0
  <2> DEFINE e == [w EXCEPT !.watch[r.user] = {}]
  <2>1. SaveWatchLater(r, n + 1, w) = e
    BY <1>1 DEF SaveWatchLater
  <2>2. e \in Tables
    BY DEF Tables
  <2>3. RowsUpTo(r.list, (n + 1) - 1) = {}
    BY <1>1 DEF RowsUpTo
  <2>4. e.watch = [d.watch EXCEPT ![r.user] = RowsUpTo(r.list, (n + 1) - 1)]
    BY <1>1, <2>3 DEF Tables, Uploaded
  <2>5. Uploaded(r, n + 1, d, e)
    BY <1>1, <2>4 DEF Tables, Uploaded
  <2> QED
    BY <2>1, <2>2, <2>5
<1>2. CASE n > 0
  <2> DEFINE v == r.list[n]
             e == [w EXCEPT !.watch[r.user] = {x \in @ : x[1] # v} \cup {<<v, n>>}]
  <2>0. n \in 1 .. Len(r.list) /\ v \in Videos
    BY <1>0, <1>2
  <2>1. SaveWatchLater(r, n + 1, w) = e
    <3>1. n + 1 # 1 /\ (n + 1) - 1 = n
      BY <1>2
    <3> QED
      BY <3>1, Zenon DEF SaveWatchLater
  <2>2. e \in Tables
    BY <2>0 DEF Tables
  <2>3. RowsUpTo(r.list, n) = {x \in RowsUpTo(r.list, n - 1) : x[1] # v} \cup {<<v, n>>}
    <3>1. n - 1 \in Nat /\ n - 1 < Len(r.list) /\ v = r.list[(n - 1) + 1] /\ (n - 1) + 1 = n
      BY <2>0
    <3> HIDE DEF v
    <3> QED
      BY <3>1, RowsGrow
  <2>4. w.watch[r.user] = RowsUpTo(r.list, n - 1)
    BY <1>2 DEF Uploaded, Tables
  <2>5. e.watch = [d.watch EXCEPT ![r.user] = RowsUpTo(r.list, n)]
    <3>1. e.watch = [w.watch EXCEPT ![r.user] = RowsUpTo(r.list, n)]
      BY <2>3, <2>4 DEF Tables
    <3>2. w.watch = [d.watch EXCEPT ![r.user] = RowsUpTo(r.list, n - 1)]
      BY <1>2 DEF Uploaded
    <3> QED
      BY <3>1, <3>2 DEF Tables
  <2>6. Uploaded(r, n + 1, d, e)
    BY <1>2, <2>5 DEF Tables, Uploaded
  <2> QED
    BY <2>1, <2>2, <2>6
<1> QED
  BY <1>1, <1>2

LEMMA StatementStages ==
  ASSUME NEW r \in Request, Writes(r), NEW n \in Nat, n < Statements(r),
         NEW d \in Tables, NEW w \in Tables, Staged(r, n, d, w)
  PROVE  /\ Effect(r, n + 1, w) \in Tables
         /\ Staged(r, n + 1, d, Effect(r, n + 1, w))
<1>1. CASE r.kind = "delete"
  <2>1. n \in 0 .. 3 /\ Deleted(r, n, d, w)
    BY <1>1 DEF Statements, Staged
  <2>2. Effect(r, n + 1, w) = DeleteUser(r, n + 1, w)
    BY <1>1 DEF Effect
  <2> QED
    BY <1>1, <2>1, <2>2, DeleteStages DEF Staged
<1>2. CASE r.kind = "watch"
  <2>1. Uploaded(r, n, d, w)
    BY <1>2 DEF Staged
  <2>2. Effect(r, n + 1, w) = SaveWatchLater(r, n + 1, w)
    BY <1>2 DEF Effect
  <2> QED
    BY <1>2, <2>1, <2>2, WatchStages DEF Staged
<1>3. CASE r.kind = "blend"
  <2>1. n \in 0 .. 5 /\ Composed(r, n, d, w)
    BY <1>3 DEF Statements, Staged
  <2>2. Effect(r, n + 1, w) = SaveBlend(r, n + 1, w)
    BY <1>3 DEF Effect
  <2> QED
    BY <1>3, <2>1, <2>2, BlendStages DEF Staged
<1>4. CASE r.kind = "leave"
  <2>1. n \in 0 .. 1 /\ Parted(r, n, d, w)
    BY <1>4 DEF Statements, Staged
  <2>2. Effect(r, n + 1, w) = RemoveParticipantFromBlend(r, n + 1, w)
    BY <1>4 DEF Effect
  <2> QED
    BY <1>4, <2>1, <2>2, LeaveStages DEF Staged
<1> QED
  BY <1>1, <1>2, <1>3, <1>4 DEF Writes

LEMMA StagedAtFirst ==
  ASSUME NEW r \in Request, Writes(r), NEW d \in Tables
  PROVE  Staged(r, 0, d, d) /\ 0 <= Statements(r)
<1>1. CASE r.kind = "delete"
  BY <1>1 DEF Staged, Deleted, Tables, Statements
<1>2. CASE r.kind = "watch"
  <2>1. r.list \in Seq(Videos)
    BY <1>2 DEF Request
  <2> QED
    BY <1>2, <2>1 DEF Staged, Uploaded, Statements
<1>3. CASE r.kind = "blend"
  BY <1>3 DEF Staged, Composed, Statements
<1>4. CASE r.kind = "leave"
  BY <1>4 DEF Staged, Parted, Statements
<1> QED
  BY <1>1, <1>2, <1>3, <1>4 DEF Writes
-----------------------------------------------------------------------------
(* What a commit makes of the tables.                                      *)

LEMMA CommitDelete ==
  ASSUME TypeOK, TypeOK', MembersAreParticipants, WatchListsAreWhole,
         NEW r \in Request, r.kind = "delete", Deleted(r, 4, db, db')
  PROVE  MembersAreParticipants' /\ WatchListsAreWhole'
<1> r.user \in Users
  BY DEF Request
<1>1. MembersAreParticipants'
  BY DEF MembersAreParticipants, Deleted
<1>2. WatchListsAreWhole'
  BY DEF WatchListsAreWhole, Deleted, TypeOK, Tables
<1> QED
  BY <1>1, <1>2

LEMMA CommitUpload ==
  ASSUME TypeOK, TypeOK', MembersAreParticipants, WatchListsAreWhole,
         NEW r \in Request, r.kind = "watch", Uploaded(r, Statements(r), db, db')
  PROVE  MembersAreParticipants' /\ WatchListsAreWhole'
<1> r.user \in Users /\ r.list \in Lists /\ r.list \in Seq(Videos)
  BY DEF Request
<1>1. db'.watch = [db.watch EXCEPT ![r.user] = Rows(r.list)]
  BY DEF Uploaded, Statements, Rows
<1>2. MembersAreParticipants'
  BY DEF MembersAreParticipants, Uploaded
<1>3. WatchListsAreWhole'
  BY <1>1 DEF WatchListsAreWhole, TypeOK, Tables
<1> QED
  BY <1>2, <1>3

LEMMA CommitBlend ==
  ASSUME TypeOK, TypeOK', MembersAreParticipants, WatchListsAreWhole,
         NEW r \in Request, r.kind = "blend", Composed(r, 6, db, db')
  PROVE  MembersAreParticipants' /\ WatchListsAreWhole'
<1> r.blend \in Blends /\ r.user \in Users /\ r.user # Absent
  BY DEF Request
<1>1. db'.blends = [db.blends EXCEPT ![r.blend] = r.user]
      /\ db'.rooms = db.rooms \cup {r.blend}
  BY DEF Composed
<1>2. db'.rooms = {b \in Blends : db'.blends[b] # Absent}
  BY <1>1 DEF MembersAreParticipants, TypeOK, Tables
<1>3. db'.members = db'.participants
  BY DEF MembersAreParticipants, Composed
<1>4. \A x \in db'.participants : x[1] \in db'.rooms
  BY <1>1 DEF MembersAreParticipants, Composed
<1>5. WatchListsAreWhole'
  BY DEF WatchListsAreWhole, Composed
<1> QED
  BY <1>2, <1>3, <1>4, <1>5 DEF MembersAreParticipants

LEMMA CommitLeave ==
  ASSUME TypeOK, TypeOK', MembersAreParticipants, WatchListsAreWhole,
         NEW r \in Request, r.kind = "leave", Parted(r, 2, db, db')
  PROVE  MembersAreParticipants' /\ WatchListsAreWhole'
<1>1. MembersAreParticipants'
  BY DEF MembersAreParticipants, Parted
<1>2. WatchListsAreWhole'
  BY DEF WatchListsAreWhole, Parted
<1> QED
  BY <1>1, <1>2
-----------------------------------------------------------------------------
(* Every step keeps the invariant.                                         *)

LEMMA InitInv == Init => IInv
<1> SUFFICES ASSUME Init PROVE IInv
  OBVIOUS
<1>1. db \in Tables
  BY DEF Init, Tables
<1>2. TypeOK
  BY <1>1 DEF Init, TypeOK
<1>3. MembersAreParticipants /\ WatchListsAreWhole
  BY DEF Init, MembersAreParticipants, WatchListsAreWhole
<1>4. WorkIsStaged
  BY DEF Init, WorkIsStaged
<1> QED
  BY <1>2, <1>3, <1>4 DEF IInv

LEMMA ArriveInv ==
  ASSUME IInv, NEW q \in Requests, Arrive(q)
  PROVE  IInv'
<1> USE DEF IInv
<1>0. PICK r \in Request : req' = [req EXCEPT ![q] = r]
  BY DEF Arrive
<1>1. TypeOK'
  BY <1>0 DEF TypeOK, Arrive
<1>2. MembersAreParticipants' /\ WatchListsAreWhole'
  BY DEF Arrive, MembersAreParticipants, WatchListsAreWhole
<1>3. WorkIsStaged'
  BY <1>0 DEF Arrive, WorkIsStaged, TypeOK
<1> QED
  BY <1>1, <1>2, <1>3

\* A handler that ends without a transaction.
LEMMA WriteOneInv ==
  ASSUME IInv, NEW q \in Requests, phase[q] # "writing",
         NEW d \in Tables, WriteOne(d),
         d.rooms = db.rooms, d.members = db.members, d.blends = db.blends,
         d.participants = db.participants, d.watch = db.watch,
         Answer(q) \/ UNCHANGED <<req, phase>>
  PROVE  IInv'
<1> USE DEF IInv
<1>1. TypeOK'
  <2>1. CASE Answer(q)
    BY <2>1 DEF TypeOK, WriteOne, Answer
  <2>2. CASE UNCHANGED <<req, phase>>
    BY <2>2 DEF TypeOK, WriteOne
  <2> QED
    BY <2>1, <2>2
<1>2. MembersAreParticipants' /\ WatchListsAreWhole'
  BY DEF WriteOne, MembersAreParticipants, WatchListsAreWhole
<1>3. WorkIsStaged'
  <2>1. \A p \in Requests : phase[p] # "writing"
    BY DEF WriteOne, TypeOK
  <2>2. db'.rooms = db.rooms
    BY DEF WriteOne
  <2>3. CASE Answer(q)
    BY <2>1, <2>2, <2>3 DEF Answer, WorkIsStaged, TypeOK
  <2>4. CASE UNCHANGED <<req, phase>>
    BY <2>1, <2>2, <2>4 DEF WorkIsStaged
  <2> QED
    BY <2>3, <2>4
<1> QED
  BY <1>1, <1>2, <1>3

LEMMA CreateUserInv ==
  ASSUME IInv, NEW q \in Requests, CreateUser(q)
  PROVE  IInv'
<1> DEFINE d == [db EXCEPT !.users[req[q].user] = req[q].password]
<1>1. req[q].user \in Users /\ req[q].password \in Passwords
  BY DEF IInv, TypeOK, CreateUser, At, Request
<1>2. d \in Tables
  BY <1>1 DEF IInv, TypeOK, Tables
<1>3. /\ d.rooms = db.rooms /\ d.members = db.members /\ d.blends = db.blends
      /\ d.participants = db.participants /\ d.watch = db.watch
  BY DEF IInv, TypeOK, Tables
<1>4. WriteOne(d) /\ Answer(q) /\ phase[q] # "writing"
  BY DEF CreateUser, At
<1> HIDE DEF d
<1> QED
  BY <1>2, <1>3, <1>4, WriteOneInv

LEMMA SaveChatMessageInv ==
  ASSUME IInv, NEW q \in Requests, SaveChatMessage(q)
  PROVE  IInv'
<1> DEFINE d == [db EXCEPT !.messages = @ \cup {<<req[q].blend, req[q].user>>}]
<1>1. req[q].user \in Users /\ req[q].blend \in Blends
  BY DEF IInv, TypeOK, SaveChatMessage, At, Request
<1>2. d \in Tables
  BY <1>1 DEF IInv, TypeOK, Tables
<1>3. /\ d.rooms = db.rooms /\ d.members = db.members /\ d.blends = db.blends
      /\ d.participants = db.participants /\ d.watch = db.watch
  BY DEF IInv, TypeOK, Tables
<1>4. WriteOne(d) /\ UNCHANGED <<req, phase>> /\ phase[q] # "writing"
  BY DEF SaveChatMessage, At
<1> HIDE DEF d
<1> QED
  BY <1>2, <1>3, <1>4, WriteOneInv

\* A handler that has read the store and goes on.
LEMMA CheckedInv ==
  ASSUME IInv, NEW q \in Requests, ValidatePassword(q) \/ AuthorizeChatRoom(q)
  PROVE  IInv'
<1> USE DEF IInv
<1>0. /\ phase[q] = "arrived" /\ phase' = [phase EXCEPT ![q] = "checked"]
      /\ UNCHANGED <<db, work, writer, done, req>>
      /\ req[q].kind \in {"delete", "chat"}
      /\ req[q].kind = "chat" => req[q].blend \in db.rooms
  BY DEF ValidatePassword, AuthorizeChatRoom, At
<1>1. TypeOK'
  BY <1>0 DEF TypeOK
<1>2. MembersAreParticipants' /\ WatchListsAreWhole'
  BY <1>0 DEF MembersAreParticipants, WatchListsAreWhole
<1>3. WorkIsStaged'
  BY <1>0 DEF WorkIsStaged, TypeOK
<1> QED
  BY <1>1, <1>2, <1>3

LEMMA BeginInv ==
  ASSUME IInv, NEW q \in Requests, Begin(q)
  PROVE  IInv'
<1> USE DEF IInv
<1>0. /\ phase[q] \in {"arrived", "checked"} /\ Writes(req[q])
      /\ phase' = [phase EXCEPT ![q] = "writing"]
      /\ writer = Nobody /\ writer' = q /\ UNCHANGED <<db, work, done, req>>
  BY DEF Begin, At, Writes
<1>1. TypeOK'
  BY <1>0 DEF TypeOK
<1>2. MembersAreParticipants' /\ WatchListsAreWhole'
  BY <1>0 DEF MembersAreParticipants, WatchListsAreWhole
<1>3. WorkIsStaged'
  <2>1. req[q] \in Request /\ work = db /\ done = 0 /\ db \in Tables
    BY <1>0 DEF TypeOK
  <2>2. Staged(req[q], 0, db, db) /\ 0 <= Statements(req[q])
    BY <1>0, <2>1, StagedAtFirst
  <2>3. \A p \in Requests : p # q => phase'[p] = phase[p] /\ phase[p] # "writing"
    BY <1>0 DEF TypeOK
  <2> QED
    BY <1>0, <2>1, <2>2, <2>3 DEF WorkIsStaged, Writes, TypeOK
<1> QED
  BY <1>1, <1>2, <1>3

LEMMA StatementInv ==
  ASSUME IInv, NEW q \in Requests, Statement(q)
  PROVE  IInv'
<1> USE DEF IInv
<1>1. /\ req[q] \in Request /\ Writes(req[q]) /\ done \in Nat /\ writer = q
      /\ done < Statements(req[q]) /\ Staged(req[q], done, db, work)
      /\ db \in Tables /\ work \in Tables
  BY DEF Statement, TypeOK, WorkIsStaged, Writes
<1>2. work' \in Tables /\ Staged(req[q], done + 1, db, work')
  BY <1>1, StatementStages DEF Statement
<1>3. TypeOK'
  BY <1>1, <1>2 DEF TypeOK, Statement
<1>4. MembersAreParticipants' /\ WatchListsAreWhole'
  BY DEF Statement, MembersAreParticipants, WatchListsAreWhole
<1>5. WorkIsStaged'
  <2>1. Statements(req[q]) \in Nat
    <3>1. req[q].kind = "watch" => Len(req[q].list) \in Nat
      BY <1>1 DEF Request
    <3> QED
      BY <1>1, <3>1 DEF Statements, Writes
  <2>2. done' = done + 1 /\ done' <= Statements(req[q])
    BY <1>1, <2>1 DEF Statement
  <2>3. \A p \in Requests : p # q => phase[p] # "writing"
    BY <1>1 DEF TypeOK
  <2>4. UNCHANGED <<db, req, phase>>
    BY DEF Statement
  <2> QED
    BY <1>1, <1>2, <2>2, <2>3, <2>4 DEF WorkIsStaged, Writes
<1> QED
  BY <1>3, <1>4, <1>5

LEMMA CommitInv ==
  ASSUME IInv, NEW q \in Requests, Commit(q)
  PROVE  IInv'
<1> USE DEF IInv
<1> DEFINE r == req[q]
<1>1. /\ r \in Request /\ Writes(r) /\ writer = q /\ db \in Tables /\ work \in Tables
      /\ Staged(r, Statements(r), db, db')
  BY DEF Commit, TypeOK, WorkIsStaged, Writes
<1>2. /\ db' = work /\ work' = work /\ writer' = Nobody /\ done' = 0
      /\ req' = [req EXCEPT ![q] = NoRequest] /\ phase' = [phase EXCEPT ![q] = "idle"]
  BY DEF Commit, Answer
<1>3. TypeOK'
  BY <1>1, <1>2 DEF TypeOK
<1> HIDE DEF r
<1>4. MembersAreParticipants' /\ WatchListsAreWhole'
  <2>1. CASE r.kind = "delete"
    BY <1>1, <1>3, <2>1, CommitDelete DEF Staged, Statements
  <2>2. CASE r.kind = "watch"
    BY <1>1, <1>3, <2>2, CommitUpload DEF Staged
  <2>3. CASE r.kind = "blend"
    BY <1>1, <1>3, <2>3, CommitBlend DEF Staged, Statements
  <2>4. CASE r.kind = "leave"
    BY <1>1, <1>3, <2>4, CommitLeave DEF Staged, Statements
  <2> QED
    BY <1>1, <2>1, <2>2, <2>3, <2>4 DEF Writes
<1>5. WorkIsStaged'
  <2>1. db.rooms \subseteq db'.rooms
    <3>1. CASE r.kind = "delete"
      BY <1>1, <3>1 DEF Staged, Deleted
    <3>2. CASE r.kind = "watch"
      BY <1>1, <3>2 DEF Staged, Uploaded
    <3>3. CASE r.kind = "blend"
      BY <1>1, <3>3 DEF Staged, Statements, Composed
    <3>4. CASE r.kind = "leave"
      BY <1>1, <3>4 DEF Staged, Parted
    <3> QED
      BY <1>1, <3>1, <3>2, <3>3, <3>4 DEF Writes
  <2>2. \A p \in Requests : p # q => /\ phase[p] # "writing"
                                    /\ req'[p] = req[p] /\ phase'[p] = phase[p]
    BY <1>1, <1>2 DEF TypeOK
  <2>3. phase'[q] = "idle"
    BY <1>2 DEF TypeOK
  <2> QED
    BY <2>1, <2>2, <2>3 DEF WorkIsStaged
<1> QED
  BY <1>3, <1>4, <1>5

LEMMA FailInv ==
  ASSUME IInv, NEW q \in Requests, Fail(q)
  PROVE  IInv'
<1> USE DEF IInv
<1>1. TypeOK'
  <2>1. CASE writer = q
    BY <2>1 DEF TypeOK, Fail, Answer
  <2>2. CASE writer # q
    BY <2>2 DEF TypeOK, Fail, Answer
  <2> QED
    BY <2>1, <2>2
<1>2. MembersAreParticipants' /\ WatchListsAreWhole'
  BY DEF Fail, MembersAreParticipants, WatchListsAreWhole
<1>3. WorkIsStaged'
  <2>1. \A p \in Requests : p # q => req'[p] = req[p] /\ phase'[p] = phase[p]
    BY DEF Fail, Answer, TypeOK
  <2>2. phase'[q] = "idle" /\ db' = db
    BY DEF Fail, Answer, TypeOK
  <2>3. \A p \in Requests : p # q /\ phase[p] = "writing" => UNCHANGED <<done, work>>
    BY DEF Fail, TypeOK
  <2> QED
    BY <2>1, <2>2, <2>3 DEF WorkIsStaged
<1> QED
  BY <1>1, <1>2, <1>3

LEMMA CrashInv == ASSUME IInv, Crash PROVE IInv'
<1> USE DEF IInv
<1>1. TypeOK'
  BY DEF TypeOK, Crash
<1>2. MembersAreParticipants' /\ WatchListsAreWhole' /\ WorkIsStaged'
  BY DEF Crash, MembersAreParticipants, WatchListsAreWhole, WorkIsStaged
<1> QED
  BY <1>1, <1>2

LEMMA StutterInv == ASSUME IInv, UNCHANGED vars PROVE IInv'
BY DEF IInv, vars, TypeOK, MembersAreParticipants, WatchListsAreWhole, WorkIsStaged

\* Whatever fails and whoever writes, the tables stay whole and the work of an
\* open transaction is just what its statements so far did.
THEOREM Invariance == Spec => []IInv
<1>1. ASSUME IInv, [Next]_vars
      PROVE  IInv'
  <2>1. CASE Crash
    BY <1>1, <2>1, CrashInv
  <2>2. CASE \E q \in Requests : Handle(q)
    <3>1. PICK q \in Requests : Handle(q)
      BY <2>2
    <3> QED
      BY <1>1, <3>1, ArriveInv, CreateUserInv, CheckedInv, SaveChatMessageInv,
         BeginInv, StatementInv, CommitInv, FailInv DEF Handle
  <2>3. CASE UNCHANGED vars
    BY <1>1, <2>3, StutterInv
  <2> QED
    BY <1>1, <2>1, <2>2, <2>3 DEF Next
<1> QED
  BY <1>1, InitInv, PTL DEF Spec

\* The tables and the transactions are well formed.
THEOREM TypeCorrect == Spec => []TypeOK
BY Invariance, PTL DEF IInv

\* Every blend has its room, and the room's members are its participants.
THEOREM RoomsMirrorBlends == Spec => []MembersAreParticipants
BY Invariance, PTL DEF IInv

\* A stored playlist is one upload, whole.
THEOREM PlaylistsAreWhole == Spec => []WatchListsAreWhole
BY Invariance, PTL DEF IInv
-----------------------------------------------------------------------------
(* The store and the ledger.                                               *)

\* A step that leaves the committed tables alone is none of the ledger's.
LEMMA Unseen == ASSUME UNCHANGED db PROVE UNCHANGED Ledger!vars
BY DEF Ledger!vars

LEMMA SignUpStep ==
  ASSUME IInv, NEW q \in Requests, CreateUser(q)
  PROVE  Ledger!Next
<1> DEFINE u == req[q].user  p == req[q].password
<1>1. u \in Users /\ p \in Passwords /\ db \in Tables
  BY DEF IInv, TypeOK, CreateUser, At, Request
<1>2. db.users[u] = Absent /\ db' = [db EXCEPT !.users[u] = p]
  BY DEF CreateUser, WriteOne
<1>3. /\ db'.users = [db.users EXCEPT ![u] = p]
      /\ db'.watch = db.watch /\ db'.blends = db.blends
      /\ db'.participants = db.participants /\ db'.messages = db.messages
  BY <1>1, <1>2 DEF Tables
<1>4. Ledger!SignUp(u, p)
  BY <1>2, <1>3 DEF Ledger!SignUp
<1> QED
  BY <1>1, <1>4 DEF Ledger!Next

LEMMA SayStep ==
  ASSUME IInv, NEW q \in Requests, SaveChatMessage(q)
  PROVE  Ledger!Next
<1> DEFINE u == req[q].user  b == req[q].blend
<1>1. u \in Users /\ b \in Blends /\ db \in Tables /\ b \in db.rooms
  BY DEF IInv, TypeOK, WorkIsStaged, SaveChatMessage, At, Request
<1>2. db.blends[b] # Absent
  BY <1>1 DEF IInv, MembersAreParticipants
<1>3. db' = [db EXCEPT !.messages = @ \cup {<<b, u>>}]
  BY DEF SaveChatMessage, WriteOne
<1>4. /\ db'.messages = db.messages \cup {<<b, u>>} /\ db'.users = db.users
      /\ db'.watch = db.watch /\ db'.blends = db.blends
      /\ db'.participants = db.participants
  BY <1>1, <1>3 DEF Tables
<1>5. Ledger!Say(b, u)
  BY <1>2, <1>4 DEF Ledger!Say
<1> QED
  BY <1>1, <1>5 DEF Ledger!Next

LEMMA CommitStep ==
  ASSUME IInv, NEW q \in Requests, Commit(q)
  PROVE  Ledger!Next
<1> DEFINE r == req[q]
<1>1. /\ r \in Request /\ Writes(r) /\ db \in Tables
      /\ Staged(r, Statements(r), db, db')
  BY DEF IInv, Commit, TypeOK, WorkIsStaged, Writes
<1> HIDE DEF r
<1>2. CASE r.kind = "delete"
  <2>1. Deleted(r, 4, db, db') /\ r.user \in Users
    BY <1>1, <1>2 DEF Staged, Statements, Request
  <2>2. /\ db'.users = [db.users EXCEPT ![r.user] = Absent]
        /\ db'.watch = [db.watch EXCEPT ![r.user] = {}]
        /\ db'.participants = {x \in db.participants : x[2] # r.user}
        /\ db'.blends = db.blends /\ db'.messages = db.messages
    BY <2>1 DEF Deleted
  <2>3. db'.blends = [b \in Blends |-> IF b \in {} THEN Absent ELSE db.blends[b]]
    BY <1>1, <2>2 DEF Tables
  <2>4. db'.participants = {x \in db.participants : x[2] # r.user /\ x[1] \notin {}}
    BY <2>2
  <2>5. \A x \in db.messages : x[1] \notin {} /\ x[2] \in Users
    BY <1>1 DEF Tables
  <2>6. db'.messages = {x \in db.messages : x[1] \notin {} /\ x[2] \in Users}
    BY <2>2, <2>5
  <2>7. \E heard \in {Users, Users \ {r.user}} :
          db'.messages = {x \in db.messages : x[1] \notin {} /\ x[2] \in heard}
    BY <2>6
  <2>8. {} \in SUBSET {b \in Blends : db.blends[b] = r.user
                                    \/ \A x \in db.participants : x[1] = b => x[2] = r.user}
    OBVIOUS
  <2>9. Ledger!Forget(r.user)
    BY <2>2, <2>3, <2>4, <2>7, <2>8, Zenon DEF Ledger!Forget
  <2> QED
    BY <2>1, <2>9 DEF Ledger!Next
<1>3. CASE r.kind = "watch"
  <2>1. r.user \in Users /\ r.list \in Lists /\ r.list \in Seq(Videos)
    BY <1>1, <1>3 DEF Request
  <2>2. Uploaded(r, 1 + Len(r.list), db, db') /\ Len(r.list) \in Nat
    BY <1>1, <1>3, <2>1 DEF Staged, Statements
  <2>3. db'.watch = [db.watch EXCEPT ![r.user] = Rows(r.list)]
    BY <2>2 DEF Uploaded, Rows
  <2>4. Ledger!Replace(r.user, Rows(r.list))
    BY <2>2, <2>3 DEF Ledger!Replace, Uploaded
  <2> QED
    BY <2>1, <2>4 DEF Ledger!Next
<1>4. CASE r.kind = "blend"
  <2>1. r.blend \in Blends /\ r.user \in Users /\ r.people \in SUBSET Users
    BY <1>1, <1>4 DEF Request
  <2>2. Composed(r, 6, db, db')
    BY <1>1, <1>4 DEF Staged, Statements
  <2>3. Ledger!Compose(r.blend, r.user, r.people)
    BY <2>2 DEF Ledger!Compose, Composed
  <2> QED
    BY <2>1, <2>3 DEF Ledger!Next
<1>5. CASE r.kind = "leave"
  <2>1. r.blend \in Blends /\ r.user \in Users /\ Parted(r, 2, db, db')
    BY <1>1, <1>5 DEF Staged, Statements, Request
  <2>2. Ledger!Part(r.blend, r.user)
    BY <2>1 DEF Ledger!Part, Parted
  <2> QED
    BY <2>1, <2>2 DEF Ledger!Next
<1> QED
  BY <1>1, <1>2, <1>3, <1>4, <1>5 DEF Writes

\* Every step of the server is one step of the ledger, or none: a request
\* changes the tables as a whole or not at all.
THEOREM ImplementsTheLedger == Spec => ImplementsLedger
<1>1. Init => Ledger!Init
  BY DEF Init, Ledger!Init
<1>2. ASSUME IInv, [Next]_vars
      PROVE  [Ledger!Next]_(Ledger!vars)
  <2>1. CASE \E q \in Requests : Handle(q)
    <3>1. PICK q \in Requests : Handle(q)
      BY <2>1
    <3>2. CASE Arrive(q) \/ ValidatePassword(q) \/ AuthorizeChatRoom(q)
               \/ Begin(q) \/ Statement(q) \/ Fail(q)
      BY <3>2, Unseen DEF Arrive, ValidatePassword, AuthorizeChatRoom, Begin, Statement, Fail
    <3> QED
      BY <1>2, <3>1, <3>2, SignUpStep, SayStep, CommitStep DEF Handle
  <2>2. CASE Crash \/ UNCHANGED vars
    BY <2>2, Unseen DEF Crash, vars
  <2> QED
    BY <1>2, <2>1, <2>2 DEF Next
<1> QED
  BY <1>1, <1>2, Invariance, PTL DEF Spec, ImplementsLedger, Ledger!Spec

\* An account keeps its password until it is deleted.
THEOREM PasswordsKeep == Spec => PasswordsStand
<1>1. ASSUME IInv, IInv', Ledger!Next
      PROVE  \A u \in Users : db.users[u] # Absent => db'.users[u] \in {db.users[u], Absent}
  <2> SUFFICES ASSUME NEW u \in Users, db.users[u] # Absent
               PROVE  db'.users[u] \in {db.users[u], Absent}
    OBVIOUS
  <2>1. db.users \in [Users -> Passwords \cup {Absent}]
    BY <1>1 DEF IInv, TypeOK, Tables
  <2>2. CASE \E v \in Users, p \in Passwords : Ledger!SignUp(v, p)
    BY <2>1, <2>2 DEF Ledger!SignUp
  <2>3. CASE \E v \in Users : Ledger!Forget(v)
    BY <2>1, <2>3 DEF Ledger!Forget
  <2>4. CASE db'.users = db.users
    BY <2>4
  <2> QED
    BY <1>1, <2>2, <2>3, <2>4 DEF Ledger!Next, Ledger!Replace, Ledger!Part, Ledger!Say, Ledger!Compose
<1>2. ASSUME IInv, IInv', [Ledger!Next]_(Ledger!vars)
      PROVE  \A u \in Users : db.users[u] # Absent => db'.users[u] \in {db.users[u], Absent}
  BY <1>1, <1>2 DEF Ledger!vars
<1> QED
  BY <1>2, Invariance, ImplementsTheLedger, PTL DEF ImplementsLedger, Ledger!Spec, PasswordsStand

\* With an account go its playlist and its memberships.
THEOREM AccountsGoAtOnce == Spec => AccountsGoWhole
<1> DEFINE Whole == \A u \in Users :
             db.users[u] # Absent /\ db'.users[u] = Absent =>
               /\ db'.watch[u] = {}
               /\ \A b \in Blends : <<b, u>> \notin db'.participants \cup db'.members
<1>1. ASSUME IInv, IInv', Ledger!Next
      PROVE  Whole
  <2> SUFFICES ASSUME NEW u \in Users, db.users[u] # Absent, db'.users[u] = Absent
               PROVE  /\ db'.watch[u] = {}
                      /\ \A b \in Blends : <<b, u>> \notin db'.participants
    BY <1>1 DEF IInv, MembersAreParticipants
  <2>1. db.users \in [Users -> Passwords \cup {Absent}] /\ db.watch \in [Users -> SUBSET (Videos \X Nat)]
    BY <1>1 DEF IInv, TypeOK, Tables
  <2>2. CASE \E v \in Users, p \in Passwords : Ledger!SignUp(v, p)
    BY <2>1, <2>2 DEF Ledger!SignUp
  <2>3. CASE \E v \in Users : Ledger!Forget(v)
    BY <2>1, <2>3 DEF Ledger!Forget
  <2>4. CASE db'.users = db.users
    BY <2>4
  <2> QED
    BY <1>1, <2>2, <2>3, <2>4 DEF Ledger!Next, Ledger!Replace, Ledger!Part, Ledger!Say, Ledger!Compose
<1>2. ASSUME IInv, IInv', [Ledger!Next]_(Ledger!vars)
      PROVE  Whole
  <2>1. CASE Ledger!Next
    BY <1>1, <1>2, <2>1
  <2>2. CASE UNCHANGED Ledger!vars
    BY <2>2 DEF Ledger!vars
  <2> QED
    BY <1>2, <2>1, <2>2
<1> QED
  BY <1>2, Invariance, ImplementsTheLedger, PTL DEF ImplementsLedger, Ledger!Spec, AccountsGoWhole
=============================================================================

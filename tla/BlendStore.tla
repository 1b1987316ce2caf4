----------------------------- MODULE BlendStore -----------------------------
(***************************************************************************)
(* The accounts, playlists, blends and chat memberships of the Go backend: *)
(* the HTTP handlers of route_layer/auth.go and route_layer/blends.go that *)
(* change something, and the SQLite store they share                       *)
(* (database_layer/SqliteDatabaseManager.go).                              *)
(*                                                                         *)
(* Every request runs in a goroutine of its own.  A transaction works      *)
(* statement by statement on a copy nobody else reads; SQLite lets one     *)
(* writer in at a time, and refuses the others (there is no busy timeout). *)
(* Any call may fail, and the server may be killed, between two statements.*)
(* Requests that only read the store are left out: they are one query and  *)
(* change nothing.                                                         *)
(***************************************************************************)
EXTENDS Naturals, Sequences

CONSTANTS
  Users, Passwords, Blends,
  Videos,
  Lists,       \* the playlists that are uploaded, sequences of videos
  Requests,    \* the requests in flight, at most: the slots they occupy
  Kinds,       \* bound: the kinds of requests that arrive
  Absent,      \* no password, no creator
  Nobody, NoRequest

ASSUME ListsType == Lists \subseteq Seq(Videos)
ASSUME AbsentType == Absent \notin Users /\ Absent \notin Passwords
ASSUME NobodyType == Nobody \notin Requests

\* The payloads of the requests: who asks for what.
Request ==
  [kind : {"register", "delete"}, user : Users, password : Passwords]
  \cup [kind : {"watch"}, user : Users, list : Lists]
  \cup [kind : {"blend"}, blend : Blends, user : Users, people : SUBSET Users]
  \cup [kind : {"leave", "chat"}, blend : Blends, user : Users]

ASSUME NoRequestType == NoRequest \notin Request

\* The rows of the tables, by their keys and the columns that matter.
Tables ==
  [users : [Users -> Passwords \cup {Absent}],
   watch : [Users -> SUBSET (Videos \X Nat)],
   blends : [Blends -> Users \cup {Absent}],
   participants : SUBSET (Blends \X Users),
   rooms : SUBSET Blends,
   members : SUBSET (Blends \X Users),
   messages : SUBSET (Blends \X Users)]

VARIABLES
  db,       \* what is committed
  work,     \* what the writer sees; equal to db while there is no writer
  writer,   \* the request whose transaction is open
  done,     \* how many of its statements have run
  req,      \* per slot, the request it serves
  phase     \* per slot, how far the handler got

vars == <<db, work, writer, done, req, phase>>

Init ==
  /\ db = [users |-> [u \in Users |-> Absent],
           watch |-> [u \in Users |-> {}],
           blends |-> [b \in Blends |-> Absent],
           participants |-> {}, rooms |-> {}, members |-> {}, messages |-> {}]
  /\ work = db
  /\ writer = Nobody
  /\ done = 0
  /\ req = [q \in Requests |-> NoRequest]
  /\ phase = [q \in Requests |-> "idle"]

Arrive(q) ==
  /\ phase[q] = "idle"
  /\ \E r \in Request : r.kind \in Kinds /\ req' = [req EXCEPT ![q] = r]
  /\ phase' = [phase EXCEPT ![q] = "arrived"]
  /\ UNCHANGED <<db, work, writer, done>>

\* The handler has answered, and its slot is free.
Answer(q) ==
  /\ req' = [req EXCEPT ![q] = NoRequest]
  /\ phase' = [phase EXCEPT ![q] = "idle"]

At(q, kind, p) == phase[q] = p /\ req[q].kind = kind

\* One statement outside a transaction commits at once.
WriteOne(d) ==
  /\ writer = Nobody
  /\ db' = d
  /\ work' = d
  /\ UNCHANGED <<writer, done>>
-----------------------------------------------------------------------------
(* Accounts                                                                *)

\* The INSERT succeeds only for a new user_id.
CreateUser(q) ==
  /\ At(q, "register", "arrived")
  /\ db.users[req[q].user] = Absent
  /\ WriteOne([db EXCEPT !.users[req[q].user] = req[q].password])
  /\ Answer(q)

\* DeleteUser looks the password up before its transaction begins.
ValidatePassword(q) ==
  /\ At(q, "delete", "arrived")
  /\ db.users[req[q].user] = req[q].password
  /\ phase' = [phase EXCEPT ![q] = "checked"]
  /\ UNCHANGED <<db, work, writer, done, req>>
-----------------------------------------------------------------------------
(* The statements of the transactions: the k-th one of request r turns the *)
(* tables d into ...                                                       *)

\* Mutant: the playlist is forgotten.
DeleteMembershipsOnly(r, k, d) ==
  CASE k = 1 -> [d EXCEPT !.participants = {x \in @ : x[2] # r.user}]
    [] k = 2 -> [d EXCEPT !.members = {x \in @ : x[2] # r.user}]
    [] k = 4 -> [d EXCEPT !.users[r.user] = Absent]
    [] OTHER -> d

DeleteUser(r, k, d) ==
  CASE k = 1 -> [d EXCEPT !.participants = {x \in @ : x[2] # r.user}]
    [] k = 2 -> [d EXCEPT !.members = {x \in @ : x[2] # r.user}]
    [] k = 3 -> [d EXCEPT !.watch[r.user] = {}]
    [] k = 4 -> [d EXCEPT !.users[r.user] = Absent]

\* Mutant: the rows of the last upload are not cleared.
MergeWatchLater(r, k, d) ==
  IF k = 1 THEN d
  ELSE LET v == r.list[k - 1]
       IN  [d EXCEPT !.watch[r.user] = {x \in @ : x[1] # v} \cup {<<v, k - 1>>}]

\* The old rows go, then INSERT OR REPLACE puts in one video after the other,
\* with its position: a video that comes again takes its last position.
SaveWatchLater(r, k, d) ==
  IF k = 1 THEN [d EXCEPT !.watch[r.user] = {}]
  ELSE LET v == r.list[k - 1]
       IN  [d EXCEPT !.watch[r.user] = {x \in @ : x[1] # v} \cup {<<v, k - 1>>}]

\* Each of the two loops of inserts is one statement here.
SaveBlend(r, k, d) ==
  CASE k = 1 -> [d EXCEPT !.blends[r.blend] = r.user]
    [] k = 2 -> [d EXCEPT !.participants = {x \in @ : x[1] # r.blend}]
    [] k = 3 -> [d EXCEPT !.participants = @ \cup ({r.blend} \X r.people)]
    [] k = 4 -> [d EXCEPT !.rooms = @ \cup {r.blend}]
    [] k = 5 -> [d EXCEPT !.members = {x \in @ : x[1] # r.blend}]
    [] k = 6 -> [d EXCEPT !.members = @ \cup ({r.blend} \X r.people)]

RemoveParticipantFromBlend(r, k, d) ==
  CASE k = 1 -> [d EXCEPT !.participants = @ \ {<<r.blend, r.user>>}]
    [] k = 2 -> [d EXCEPT !.members = @ \ {<<r.blend, r.user>>}]

Effect(r, k, d) ==
  CASE r.kind = "delete" -> DeleteUser(r, k, d)
    [] r.kind = "watch" -> SaveWatchLater(r, k, d)
    [] r.kind = "blend" -> SaveBlend(r, k, d)
    [] r.kind = "leave" -> RemoveParticipantFromBlend(r, k, d)

Statements(r) ==
  CASE r.kind = "delete" -> 4
    [] r.kind = "watch" -> 1 + Len(r.list)
    [] r.kind = "blend" -> 6
    [] r.kind = "leave" -> 2
-----------------------------------------------------------------------------
(* Transactions                                                            *)

\* The first statement takes the writer's place.
Begin(q) ==
  /\ \/ At(q, "delete", "checked")
     \/ \E kind \in {"watch", "blend", "leave"} : At(q, kind, "arrived")
  /\ writer = Nobody
  /\ writer' = q
  /\ phase' = [phase EXCEPT ![q] = "writing"]
  /\ UNCHANGED <<db, work, done, req>>

Statement(q) ==
  /\ phase[q] = "writing"
  /\ done < Statements(req[q])
  /\ work' = Effect(req[q], done + 1, work)
  /\ done' = done + 1
  /\ UNCHANGED <<db, writer, req, phase>>

Commit(q) ==
  /\ phase[q] = "writing"
  /\ done = Statements(req[q])
  /\ db' = work
  /\ writer' = Nobody
  /\ done' = 0
  /\ Answer(q)
  /\ UNCHANGED work

\* Mutant: what was done before the error stays.
FailHalfDone(q) ==
  /\ phase[q] # "idle"
  /\ IF writer = q THEN writer' = Nobody /\ done' = 0 /\ db' = work
                   ELSE UNCHANGED <<db, writer, done>>
  /\ Answer(q)
  /\ UNCHANGED work

\* Mutant: the transaction of the failed request is not ended.
FailUnfinished(q) ==
  /\ phase[q] # "idle"
  /\ Answer(q)
  /\ UNCHANGED <<db, work, writer, done>>

\* The request is refused (a duplicate user_id, a wrong password, not a
\* member), or the store fails or is busy; the deferred Rollback drops what
\* the transaction did.  A chat connection ends this way too.
Fail(q) ==
  /\ phase[q] # "idle"
  /\ IF writer = q THEN writer' = Nobody /\ done' = 0 /\ work' = db
                   ELSE UNCHANGED <<work, writer, done>>
  /\ Answer(q)
  /\ UNCHANGED db

\* The server is killed and starts again: SQLite rolls the open transaction
\* back, and the requests are gone.
Crash ==
  /\ work' = db
  /\ writer' = Nobody
  /\ done' = 0
  /\ req' = [q \in Requests |-> NoRequest]
  /\ phase' = [q \in Requests |-> "idle"]
  /\ UNCHANGED db
-----------------------------------------------------------------------------
(* Chat                                                                    *)

\* authorizeChatRoom: the blend has a room and the user is a member.
AuthorizeChatRoom(q) ==
  /\ At(q, "chat", "arrived")
  /\ req[q].blend \in db.rooms
  /\ <<req[q].blend, req[q].user>> \in db.members
  /\ phase' = [phase EXCEPT ![q] = "checked"]
  /\ UNCHANGED <<db, work, writer, done, req>>

\* Any number of times while the connection lasts.
SaveChatMessage(q) ==
  /\ At(q, "chat", "checked")
  /\ WriteOne([db EXCEPT !.messages = @ \cup {<<req[q].blend, req[q].user>>}])
  /\ UNCHANGED <<req, phase>>
-----------------------------------------------------------------------------
Handle(q) ==
  \/ Arrive(q)
  \/ CreateUser(q)
  \/ ValidatePassword(q)
  \/ AuthorizeChatRoom(q)
  \/ SaveChatMessage(q)
  \/ Begin(q)
  \/ Statement(q)
  \/ Commit(q)
  \/ Fail(q)

Next == Crash \/ \E q \in Requests : Handle(q)

Spec == Init /\ [][Next]_vars

\* A statement or a commit that was issued returns, with or without an error.
Fairness ==
  \A q \in Requests : WF_vars(Statement(q) \/ Commit(q) \/ (phase[q] = "writing" /\ Fail(q)))

FairSpec == Spec /\ Fairness
-----------------------------------------------------------------------------
\* The type of every variable; the writer is a request in its transaction,
\* and there is no work but the writer's.
TypeOK ==
  /\ db \in Tables
  /\ work \in Tables
  /\ writer \in Requests \cup {Nobody}
  /\ done \in Nat
  /\ req \in [Requests -> Request \cup {NoRequest}]
  /\ phase \in [Requests -> {"idle", "arrived", "checked", "writing"}]
  /\ \A q \in Requests :
       /\ phase[q] = "idle" <=> req[q] = NoRequest
       /\ phase[q] = "writing" <=> writer = q
  /\ writer = Nobody => work = db /\ done = 0

\* Every blend has its chat room, and the members of the room are just the
\* participants of the blend: a user who left, or whose account is deleted, is
\* out of both, whatever failed and whoever wrote at the same time.
MembersAreParticipants ==
  /\ db.rooms = {b \in Blends : db.blends[b] # Absent}
  /\ db.members = db.participants
  /\ \A x \in db.participants : x[1] \in db.rooms

\* The rows a playlist leaves when it is saved: every video once, at its last
\* position.
RowsUpTo(l, n) ==
  {<<l[i], i>> : i \in {i \in 1 .. n : \A j \in 1 .. n : j > i => l[j] # l[i]}}

Rows(l) == RowsUpTo(l, Len(l))

\* The rows of a user are one upload, whole: never a mixture of two uploads,
\* nor the beginning of one.
WatchListsAreWhole ==
  \A u \in Users : db.watch[u] = {} \/ \E l \in Lists : db.watch[u] = Rows(l)

\* An account keeps its password until it is deleted: of two registrations of
\* one user_id the later one changes nothing.
PasswordsStand ==
  [][\A u \in Users : db.users[u] # Absent => db'.users[u] \in {db.users[u], Absent}]_vars

\* With the account go the playlist and all memberships, in the same step.
AccountsGoWhole ==
  [][\A u \in Users :
       db.users[u] # Absent /\ db'.users[u] = Absent =>
         /\ db'.watch[u] = {}
         /\ \A b \in Blends : <<b, u>> \notin db'.participants \cup db'.members]_vars

\* No request keeps the writer's place, failed or not.
WriterLeaves == writer # Nobody ~> writer = Nobody

(***************************************************************************)
(* What an open transaction has done so far, read off the tables it began  *)
(* with: an inductive invariant, and with it each commit is one change.    *)
(***************************************************************************)
\* Tables w are tables d after n statements of DeleteUser, and so on.
Deleted(r, n, d, w) ==
  /\ w.users = IF n < 4 THEN d.users ELSE [d.users EXCEPT ![r.user] = Absent]
  /\ w.watch = IF n < 3 THEN d.watch ELSE [d.watch EXCEPT ![r.user] = {}]
  /\ w.participants = {x \in d.participants : n < 1 \/ x[2] # r.user}
  /\ w.members = {x \in d.members : n < 2 \/ x[2] # r.user}
  /\ w.blends = d.blends /\ w.rooms = d.rooms /\ w.messages = d.messages

Uploaded(r, n, d, w) ==
  /\ w.watch = IF n < 1 THEN d.watch
               ELSE [d.watch EXCEPT ![r.user] = RowsUpTo(r.list, n - 1)]
  /\ w.participants = d.participants /\ w.members = d.members /\ w.users = d.users
  /\ w.blends = d.blends /\ w.rooms = d.rooms /\ w.messages = d.messages

Composed(r, n, d, w) ==
  LET others(x) == {y \in x : y[1] # r.blend}
      all(x) == others(x) \cup ({r.blend} \X r.people)
  IN
  /\ w.blends = IF n < 1 THEN d.blends ELSE [d.blends EXCEPT ![r.blend] = r.user]
  /\ w.participants = IF n < 2 THEN d.participants
                      ELSE IF n < 3 THEN others(d.participants) ELSE all(d.participants)
  /\ w.rooms = IF n < 4 THEN d.rooms ELSE d.rooms \cup {r.blend}
  /\ w.members = IF n < 5 THEN d.members
                 ELSE IF n < 6 THEN others(d.members) ELSE all(d.members)
  /\ w.users = d.users /\ w.watch = d.watch /\ w.messages = d.messages

Parted(r, n, d, w) ==
  /\ w.participants = IF n < 1 THEN d.participants ELSE d.participants \ {<<r.blend, r.user>>}
  /\ w.members = IF n < 2 THEN d.members ELSE d.members \ {<<r.blend, r.user>>}
  /\ w.users = d.users /\ w.watch = d.watch
  /\ w.blends = d.blends /\ w.rooms = d.rooms /\ w.messages = d.messages

Staged(r, n, d, w) ==
  CASE r.kind = "delete" -> Deleted(r, n, d, w)
    [] r.kind = "watch" -> Uploaded(r, n, d, w)
    [] r.kind = "blend" -> Composed(r, n, d, w)
    [] r.kind = "leave" -> Parted(r, n, d, w)

WorkIsStaged ==
  \A q \in Requests :
    /\ phase[q] = "checked" => req[q].kind \in {"delete", "chat"}
    /\ phase[q] = "checked" /\ req[q].kind = "chat" => req[q].blend \in db.rooms
    /\ phase[q] = "writing" =>
         /\ req[q].kind \in {"delete", "watch", "blend", "leave"}
         /\ done <= Statements(req[q])
         /\ Staged(req[q], done, db, work)

IInv ==
  /\ TypeOK
  /\ MembersAreParticipants
  /\ WatchListsAreWhole
  /\ WorkIsStaged

\* The store as a ledger.
Ledger == INSTANCE BlendLedger WITH
  Playlists <- {{}} \cup {Rows(l) : l \in Lists},
  account <- db.users,
  playlist <- db.watch,
  creator <- db.blends,
  people <- db.participants,
  said <- db.messages

\* Every request changes the ledger in one step, or not at all.
ImplementsLedger == Ledger!Spec
=============================================================================

--------------------------- MODULE ClientSession ---------------------------
(***************************************************************************)
(* The session of the desktop client: AppController's event handlers, the  *)
(* AppState they share, the event router, and the pages that dispatch the  *)
(* events and read the state afterwards.                                   *)
(*                                                                         *)
(* Everything runs on one thread, yet operations overlap.  A handler       *)
(* reports its progress to a dialog, which is not modal and yields to the  *)
(* event loop at each report; whatever the user clicks there runs to its   *)
(* end inside the handler that yielded.  The operations under way form a   *)
(* stack; only its top takes steps, and a click may push another one when  *)
(* the top is at a yield.                                                  *)
(*                                                                         *)
(* A blend is one object, owned by the controller (currentBlend) and       *)
(* pointed to from AppState (activeBlend).  Replacing the first leaves the *)
(* second pointing to freed memory until it is set again; reading it then  *)
(* shows the old content or ends the program.                              *)
(*                                                                         *)
(* The server is what its replies show: accounts, who has a playlist, who  *)
(* is in which blend.  A call may be refused, or throw, where the code has *)
(* no handler with the program; a call that throws may have been carried   *)
(* out, when only its answer is lost.  Titles, videos, chat and pages that *)
(* nothing navigates to (User, Settings) are left out.                     *)
(***************************************************************************)
EXTENDS Naturals, FiniteSets, Sequences

CONSTANTS
  Users, BlendIds,
  None,        \* nullptr, an empty optional
  MaxClicks,   \* bound: operations started
  MaxDepth     \* bound: operations under way at once

ASSUME NoneType == None \notin Users /\ None \notin BlendIds
ASSUME BoundsType == MaxClicks \in Nat /\ MaxDepth \in Nat \ {0}

Pages == {"LOGIN", "DATA_INSTRUCTIONS", "BLEND_CREATION", "HOME",
          "BLEND_CHAT", "ACTIVE_BLENDS"}

\* A blend: its id, the participants it was generated from, and the user it
\* was generated for.
Blend == [id : BlendIds, people : SUBSET Users, whose : Users \cup {None}]

\* The operations that yield, and where each of them does.
Steps == [login   |-> {"open", "auth", "load", "blend", "build", "close"},
          create  |-> {"open", "load", "build", "save", "enrich", "again", "close"},
          select  |-> {"open", "fetch", "load", "build", "set", "close"},
          refresh |-> {"open", "read", "pool", "build", "set", "close"}]

\* An operation under way: where it is, the user, blend and people it works
\* with, whether a dialog of its own shows its progress, and, for a refresh, the
\* state of the pointer to the blend it started from.
Operation ==
  [op : DOMAIN Steps, at : UNION {Steps[o] : o \in DOMAIN Steps},
   who : Users \cup {None}, id : BlendIds \cup {None}, people : SUBSET Users,
   dialog : BOOLEAN, from : {"none", "live", "freed"}]

\* None is no record.
ASSUME NullType ==
  /\ None \notin [id : Users, data : BOOLEAN] \cup [id : Users, created : BOOLEAN]
  /\ None \notin Blend
  /\ None \notin [id : BlendIds, people : SUBSET Users, whose : Users \cup {None}, freed : BOOLEAN]

VARIABLES
  running,     \* the process exists
  connected,   \* isConnected
  listeners,   \* EventRouter's table, of the events two objects register
  user,        \* AppState.currentUser, and whether it holds a playlist
  pending,     \* pendingRegistration_ and pendingAccountCreated_
  owned,       \* AppController.currentBlend
  active,      \* AppState.activeBlend, and whether its memory is freed
  rooms,       \* AppState.chatRooms: the participants of each
  lacking,     \* usersWithoutData is not empty
  page,
  added,       \* BlendCreationPanel.m_addedUsers
  refreshing,  \* MainFrame.refreshInProgress
  stack,
  reporter,    \* progressReporter: the operation whose dialog it refers to, or 0
  accounts, uploaded, members,    \* the server
  clicks,
  \* what is recorded for the properties:
  made,        \* the ids ever given to a blend
  overlapped,  \* an operation was once started inside another
  abandoned,   \* the last blend generated was given up by a failed creation
  misread      \* freed memory was read

app == <<user, pending, owned, active, rooms, lacking>>
ui == <<page, added, refreshing, stack, reporter>>
server == <<accounts, uploaded, members>>
history == <<made, overlapped, abandoned, misread>>
process == <<running, connected, listeners>>
vars == <<process, app, ui, server, clicks, history>>
-----------------------------------------------------------------------------
(* The process: start, exit and abrupt end.                                *)

\* registerEvents fills the table; BlendChatPanel registers "logout" after it.
RegisterEvents == [e \in {"logout", "selectBlend"} |-> "controller"]
RegisterListener(table, e, who) == [table EXCEPT ![e] = who]
ChatPanelListens(table) == RegisterListener(table, "logout", "chatPanel")

Memory ==
  /\ listeners = ChatPanelListens(RegisterEvents)
  /\ user = None /\ pending = None /\ owned = None /\ active = None
  /\ rooms = [b \in {} |-> {}] /\ lacking = FALSE
  /\ page = "LOGIN" /\ added = {} /\ refreshing = FALSE
  /\ stack = <<>> /\ reporter = 0

\* A server with accounts, some with playlists, and perhaps a blend.
Init ==
  /\ running = FALSE /\ connected = FALSE
  /\ Memory
  /\ accounts \in SUBSET Users
  /\ uploaded \in SUBSET accounts
  /\ \E b \in BlendIds, m \in SUBSET accounts :
        members = [i \in BlendIds |-> IF i = b THEN m ELSE {}]
  /\ made = {b \in BlendIds : members[b] # {}}
  /\ clicks = 0
  /\ overlapped = FALSE /\ abandoned = FALSE /\ misread = FALSE

\* The constructor pings the server: a throw there ends the start; an answer
\* that is no pong leaves the client offline.
Start ==
  /\ ~running
  /\ running' = TRUE
  /\ connected' \in BOOLEAN
  /\ UNCHANGED <<listeners, app, ui, server, clicks, history>>

Forget ==
  /\ running' = FALSE /\ connected' = FALSE
  /\ user' = None /\ pending' = None /\ owned' = None /\ active' = None
  /\ rooms' = [b \in {} |-> {}] /\ lacking' = FALSE
  /\ page' = "LOGIN" /\ added' = {} /\ refreshing' = FALSE
  /\ stack' = <<>> /\ reporter' = 0
  /\ abandoned' = FALSE /\ misread' = FALSE
  /\ UNCHANGED <<listeners, made, overlapped>>

\* DELETE of accounts, as far as the server agrees.
ServerForgets(gone) ==
  /\ accounts' = accounts \ gone
  /\ uploaded' = uploaded \ gone
  /\ members' = [b \in BlendIds |-> members[b] \ gone]

\* The account this client made and uploaded nothing for.
PendingAccount ==
  IF pending # None /\ pending.created /\ connected THEN {pending.id} ELSE {}

\* The destructor cleans up when the window is closed.
Exit ==
  /\ running /\ stack = <<>>
  /\ \E gone \in SUBSET PendingAccount : ServerForgets(gone)
  /\ Forget
  /\ UNCHANGED clicks

\* A call throws where nothing catches it, or a null or freed blend is used.
Die == Forget /\ UNCHANGED <<server, clicks>>
-----------------------------------------------------------------------------
(* AppState.                                                               *)

IdOf(x) == IF x = None THEN None ELSE x.id

\* Mutant: the blend of the previous user stays.
SetCurrentUserOnly(u) == user' = u /\ UNCHANGED <<active, rooms>>

\* Another user makes the active blend invalid.
SetCurrentUser(u) ==
  /\ user' = u
  /\ IF user # None /\ u # None /\ user.id # u.id
     THEN active' = None /\ rooms' = [b \in {} |-> {}]
     ELSE UNCHANGED <<active, rooms>>

Live(b) == IF b = None THEN None
           ELSE [id |-> b.id, people |-> b.people, whose |-> b.whose, freed |-> FALSE]
Freed(a) == IF a = None THEN None ELSE [a EXCEPT !.freed = TRUE]

ReadsActive == misread' = (misread \/ (active # None /\ active.freed))

\* createChatRoom: emplace keeps a room that exists.
WithRoom(b) == [i \in DOMAIN rooms \cup {b.id} |->
                  IF i \in DOMAIN rooms THEN rooms[i] ELSE b.people]

SetUsersWithoutData(users) == lacking' = (users # {})

ClearSession ==
  /\ user' = None /\ active' = None
  /\ rooms' = [b \in {} |-> {}] /\ lacking' = FALSE
-----------------------------------------------------------------------------
(* What the server answers.  An answer that cannot be read counts as one   *)
(* that names nobody, or no blend.                                         *)

\* The account of a name, if there is one and its password was right.
ParseUser(u) == {u} \cap accounts

\* Of a user's blends the newest: without the time of day, any of them.
ParseBlendID(u, table) == {b \in BlendIds : u \in table[b]}

ParseParticipantIDs(b) == members[b]

LookupUser(u) == u \in accounts

\* All blends of the user, or from an old server the newest.
FetchUserBlends(table) ==
  {b \in BlendIds : user # None /\ connected /\ b \in ParseBlendID(user.id, table)}
-----------------------------------------------------------------------------
(* Operations and yields.                                                  *)

Top == stack[Len(stack)]
At(o, s) == running /\ stack # <<>> /\ Top.op = o /\ Top.at = s
Put(f) == stack' = [stack EXCEPT ![Len(stack)] = f]
Goto(s) == Put([Top EXCEPT !.at = s])

\* The event loop runs: nothing is under way, or the top is at a yield.
Yielding ==
  stack # <<>> => (Top.dialog /\ Top.at \in {"open", "close"}) \/ reporter # 0

Click ==
  /\ running /\ Yielding
  /\ clicks < MaxClicks /\ clicks' = clicks + 1
  /\ overlapped' = (overlapped \/ stack # <<>>)
  /\ UNCHANGED <<made, process>>

Push(o, s, u, b, people, dialog) ==
  /\ Len(stack) < MaxDepth
  /\ stack' = Append(stack, [op |-> o, at |-> s, who |-> u, id |-> b,
                             people |-> people, dialog |-> dialog, from |-> "none"])

\* The dialog is up: install the reporter and dispatch the event.
Dispatch(o, s) ==
  /\ At(o, "open")
  /\ reporter' = Len(stack)
  /\ Goto(s)
  /\ UNCHANGED <<process, app, page, added, refreshing, server, clicks, history>>

\* make_unique<Blend> frees the old blend under the operations that point to it.
Stale(s) == [i \in DOMAIN s |-> IF s[i].from = "live"
                                THEN [s[i] EXCEPT !.from = "freed"] ELSE s[i]]

\* The handler returns: the page that has a dialog removes the reporter.  The
\* switch that follows a departure has no page of its own.
Without(s) == SubSeq(s, 1, Len(s) - 1)
Returned == IF Top.op = "select" /\ ~Top.dialog
            THEN Without(stack)
            ELSE [stack EXCEPT ![Len(stack)].at = "close"]
\* Mutant: clearProgressReporter is forgotten.
ReporterKept == reporter

ReporterLeft ==
  IF Top.dialog /\ Top.op # "refresh" THEN 0 ELSE reporter

Return == stack' = Returned /\ reporter' = ReporterLeft

\* BlendCreationPanel starts again with the user alone.
Reload(u) == {IdOf(u)} \ {None}

\* NavigateTo refreshes the page it shows; u is the user by then.
NavigateTo(p, u) ==
  /\ page' = p
  /\ added' = IF p = "BLEND_CREATION" THEN Reload(u) ELSE added
  /\ IF p \in {"HOME", "BLEND_CHAT"} THEN ReadsActive ELSE UNCHANGED misread
-----------------------------------------------------------------------------
(* Signing in and registering.                                             *)

SignIn(u) ==
  /\ Click /\ page = "LOGIN"
  /\ Push("login", "open", u, None, {}, TRUE)
  /\ UNCHANGED <<app, page, added, refreshing, reporter, server, abandoned, misread>>

LoginAuth ==
  /\ At("login", "auth")
  /\ \/ ParseUser(Top.who) # {} /\ Goto("load") /\ UNCHANGED reporter
     \/ Return
  /\ UNCHANGED <<process, app, page, added, refreshing, server, clicks, history>>

\* The playlist request may throw, which ends the login, or be refused.
LoginLoad ==
  /\ At("login", "load")
  /\ \/ /\ \E data \in BOOLEAN :
              /\ data => Top.who \in uploaded
              /\ SetCurrentUser([id |-> Top.who, data |-> data])
        /\ Goto("blend") /\ UNCHANGED reporter
     \/ Return /\ UNCHANGED <<user, active, rooms>>
  /\ UNCHANGED <<process, pending, owned, lacking, page, added, refreshing,
                 server, clicks, history>>

\* The newest blend, its participants, and those whose playlists were loaded.
LoginBlend ==
  /\ At("login", "blend")
  /\ \/ /\ \E b \in ParseBlendID(Top.who, members) :
           \E people \in SUBSET (ParseParticipantIDs(b) \cap uploaded) \ {{}} :
             Put([Top EXCEPT !.at = "build", !.id = b, !.people = people])
        /\ UNCHANGED reporter
     \/ Return
  /\ UNCHANGED <<process, app, page, added, refreshing, server, clicks, history>>

\* Mutant: setActiveBlend is forgotten.
ShowUnset(b) ==
  /\ owned' = b
  /\ active' = Freed(active)
  /\ rooms' = WithRoom(b)
  /\ abandoned' = FALSE

\* The restored blend becomes the active one within one step.
Show(b) ==
  /\ owned' = b
  /\ active' = Live(b)
  /\ rooms' = WithRoom(b)
  /\ abandoned' = FALSE

LoginBuild ==
  /\ At("login", "build")
  /\ Show([id |-> Top.id, people |-> Top.people, whose |-> Top.who])
  /\ stack' = Stale(Returned) /\ reporter' = ReporterLeft
  /\ UNCHANGED <<process, user, pending, lacking, page, added, refreshing,
                 server, clicks, made, overlapped, misread>>

\* ProceedAfterLogin, for user u with the active blend a.
ProceedAfterLogin(u, a) ==
  IF u = None THEN UNCHANGED <<page, added, misread>>
  ELSE NavigateTo(IF a # None THEN "HOME"
                  ELSE IF u.data THEN "BLEND_CREATION" ELSE "DATA_INSTRUCTIONS", u)

LoginClose ==
  /\ At("login", "close")
  /\ stack' = Without(stack)
  /\ ProceedAfterLogin(user, active)
  /\ UNCHANGED <<process, user, pending, owned, active, rooms, lacking, refreshing,
                 reporter, server, clicks, made, overlapped, abandoned>>

\* A new account, or an offline one, becomes the pending registration.
RegisterNew(u) ==
  /\ Click /\ page = "LOGIN"
  /\ connected => u \notin accounts
  /\ accounts' = IF connected THEN accounts \cup {u} ELSE accounts
  /\ pending' = [id |-> u, created |-> connected]
  /\ SetCurrentUser([id |-> u, data |-> FALSE])
  /\ ProceedAfterLogin(user', active')
  /\ UNCHANGED <<owned, lacking, refreshing, stack, reporter, uploaded, members,
                 abandoned>>

\* 409: the account exists, and handleRegister goes on with handleLogin.
RegisterKnown(u) ==
  /\ Click /\ page = "LOGIN"
  /\ connected /\ u \in accounts
  /\ Push("login", "auth", u, None, {}, FALSE)
  /\ UNCHANGED <<app, page, added, refreshing, reporter, server, abandoned, misread>>

\* The POST is refused or throws; the account may have been made all the same.
RegisterRefused ==
  /\ Click /\ page = "LOGIN" /\ connected
  /\ \/ UNCHANGED accounts
     \/ \E u \in Users \ accounts : accounts' = accounts \cup {u}
  /\ ProceedAfterLogin(user, active)
  /\ UNCHANGED <<user, pending, owned, active, rooms, lacking, refreshing, stack,
                 reporter, uploaded, members, abandoned>>
-----------------------------------------------------------------------------
(* Logging out and deleting the account.                                   *)

HandleLogout(gone) ==
  /\ \E more \in SUBSET PendingAccount : ServerForgets(gone \cup more)
  /\ pending' = IF PendingAccount = {} THEN pending ELSE None
  /\ ClearSession

LogOut ==
  /\ Click /\ page = "HOME"
  /\ IF listeners["logout"] = "controller" THEN HandleLogout({})
     ELSE UNCHANGED <<user, pending, active, rooms, lacking, server>>
  /\ NavigateTo("LOGIN", user)
  /\ UNCHANGED <<owned, refreshing, stack, reporter, abandoned>>

\* The server checks the password, and may refuse: then nothing changes.
HandleDeleteAccount ==
  /\ connected /\ user.id \in accounts
  /\ HandleLogout({user.id})

DeleteAccount ==
  /\ Click /\ page = "HOME" /\ user # None
  /\ HandleDeleteAccount
  /\ NavigateTo("LOGIN", None)
  /\ UNCHANGED <<owned, refreshing, stack, reporter, abandoned>>

\* The account is deleted, but the answer is lost: the session goes on.
DeleteUnanswered ==
  /\ Click /\ page = "HOME" /\ user # None
  /\ connected /\ user.id \in accounts
  /\ ServerForgets({user.id})
  /\ UNCHANGED <<app, ui, abandoned, misread>>
-----------------------------------------------------------------------------
(* Uploading a playlist.                                                   *)

\* A registration made offline cannot be completed offline.
UploadMayStart ==
  /\ running /\ Yielding /\ user # None
  /\ page \in {"DATA_INSTRUCTIONS", "HOME"}
  /\ ~(pending # None /\ pending.id = user.id /\ ~pending.created /\ ~connected)

\* Mutant: it is not over at all.
PendingKept == UNCHANGED pending

\* The pending registration is over before anything is parsed or sent.  One that
\* has no account yet was made offline, and isConnected is set by the start alone:
\* its upload never starts, and the branch that registers it first and keeps it
\* when the POST throws (AppController.cpp:736-765) is not reached.
PendingAfterUpload ==
  pending' = IF pending # None /\ pending.id = user.id THEN None ELSE pending

\* Saved, perhaps empty, when no video of the file is available.
Save(u, data) ==
  uploaded' = IF data THEN uploaded \cup {u} ELSE uploaded \ {u}

\* Nothing is found in the file, or the POST is refused or throws.
UploadFails ==
  /\ Click /\ UploadMayStart
  /\ PendingAfterUpload
  /\ \/ UNCHANGED uploaded
     \/ user.id \in accounts /\ \E data \in BOOLEAN : Save(user.id, data)
  /\ UNCHANGED <<user, owned, active, rooms, lacking, ui, accounts, members, abandoned,
                 misread>>

\* DataInstructionsPanel goes on when the user has videos by now.
OnBrowse(data) ==
  IF page = "DATA_INSTRUCTIONS" /\ data
  THEN page' = "BLEND_CREATION" /\ added' = Reload(user)
  ELSE UNCHANGED <<page, added>>

\* The user's newest blend is generated again with the new data.
Upload(data) ==
  /\ Click /\ UploadMayStart
  /\ user.id \in accounts
  /\ Save(user.id, data)
  /\ PendingAfterUpload
  /\ user' = [user EXCEPT !.data = data]
  /\ \/ \E b \in ParseBlendID(user.id, members) :
        \E people \in SUBSET (ParseParticipantIDs(b) \cap uploaded') \ {{}} :
           /\ Show([id |-> b, people |-> people, whose |-> user.id])
           /\ stack' = Stale(stack)
     \/ UNCHANGED <<owned, active, rooms, stack, abandoned>>
  /\ OnBrowse(data)
  /\ ReadsActive
  /\ UNCHANGED <<lacking, refreshing, reporter, accounts, members>>

\* The data is saved; asking for the newest blend throws.
UploadThenThrow ==
  /\ UploadMayStart /\ user.id \in accounts
  /\ clicks < MaxClicks /\ clicks' = clicks + 1
  /\ \E data \in BOOLEAN : Save(user.id, data)
  /\ Forget
  /\ UNCHANGED <<accounts, members>>
-----------------------------------------------------------------------------
(* Creating a blend.                                                       *)

AddUser(u) ==
  /\ running /\ Yielding /\ page = "BLEND_CREATION"
  /\ u \notin added /\ LookupUser(u) /\ Cardinality(added) < 8
  /\ added' = added \cup {u}
  /\ UNCHANGED <<process, app, page, refreshing, stack, reporter, server, clicks, history>>

\* The list has a row, with a button to remove him, for each user added.
Row(u) == page = "BLEND_CREATION" /\ u \in added

RemoveUser(u) ==
  /\ running /\ Yielding /\ Row(u)
  /\ added' = added \ {u}
  /\ UNCHANGED <<process, app, page, refreshing, stack, reporter, server, clicks, history>>

\* Mutant: ids are not unique.
AnyId(b) == TRUE

\* An id no blend has: the participants' names and a random number.
NewId(b) == b \notin made

\* Bound: an id is left for every creation under way.
IdsLeft == Cardinality({b \in BlendIds : NewId(b)})
             > Cardinality({i \in DOMAIN stack : stack[i].op = "create"})

Create ==
  /\ Click /\ page = "BLEND_CREATION" /\ Cardinality(added) >= 2
  /\ IdsLeft
  /\ Push("create", "open", IdOf(user), None, added, TRUE)
  /\ UNCHANGED <<app, page, added, refreshing, reporter, server, abandoned, misread>>

\* A playlist that cannot be loaded counts as missing, and one missing
\* playlist ends the creation.
CreateLoad ==
  /\ At("create", "load")
  /\ \E have \in SUBSET (Top.people \cap uploaded) :
        /\ SetUsersWithoutData(Top.people \ have)
        /\ IF have = Top.people THEN Goto("build") /\ UNCHANGED reporter ELSE Return
  /\ UNCHANGED <<process, user, pending, owned, active, rooms, page, added,
                 refreshing, server, clicks, history>>

\* The new blend takes the place of the old one, which AppState still points to,
\* and the people are looked up.
CreateBuild ==
  /\ At("create", "build")
  /\ \E b \in BlendIds, valid \in SUBSET {u \in Top.people : ParseUser(u) # {}} :
        /\ NewId(b)
        /\ owned' = [id |-> b, people |-> Top.people, whose |-> IdOf(user)]
        /\ active' = Freed(active)
        /\ made' = made \cup {b}
        /\ IF valid = {}
           THEN /\ stack' = Stale(Returned) /\ reporter' = ReporterLeft
                /\ abandoned' = TRUE
           ELSE /\ stack' = Stale([stack EXCEPT ![Len(stack)].at = "save",
                                                ![Len(stack)].people = valid])
                /\ UNCHANGED <<reporter, abandoned>>
  /\ UNCHANGED <<process, user, pending, rooms, lacking, page, added, refreshing,
                 server, clicks, overlapped, misread>>

\* POST of the blend the controller owns by now, with the people looked up.
CreateSave ==
  /\ At("create", "save") /\ owned # None
  /\ \/ /\ members' = [members EXCEPT ![owned.id] = Top.people]
        /\ active' = Live(owned)
        /\ Goto("enrich")
        /\ abandoned' = FALSE
        /\ UNCHANGED reporter
     \/ /\ Return
        /\ abandoned' = TRUE
        /\ UNCHANGED <<members, active>>
  /\ UNCHANGED <<process, user, pending, owned, rooms, lacking, page, added,
                 refreshing, accounts, uploaded, clicks, made, overlapped, misread>>

\* The blend is saved, but the answer is lost, and nothing catches that.
CreateUnanswered ==
  /\ At("create", "save") /\ owned # None
  /\ members' = [members EXCEPT ![owned.id] = Top.people]
  /\ Forget
  /\ UNCHANGED <<accounts, uploaded, clicks>>

CreateEnrich ==
  /\ At("create", "enrich") /\ owned # None
  /\ rooms' = WithRoom(owned)
  /\ Goto("again")
  /\ UNCHANGED <<process, user, pending, owned, active, lacking, page, added,
                 refreshing, reporter, server, clicks, history>>

\* Its failure is ignored.
RegisterBlendOnServer(b) ==
  \/ connected /\ members' = [members EXCEPT ![b.id] = b.people]
  \/ UNCHANGED members

\* The blend is sent a second time.
CreateAgain ==
  /\ At("create", "again") /\ owned # None
  /\ RegisterBlendOnServer(owned)
  /\ Return
  /\ UNCHANGED <<process, app, page, added, refreshing, accounts, uploaded, clicks, history>>

CreateClose ==
  /\ At("create", "close")
  /\ stack' = Without(stack)
  /\ IF lacking /\ active = None THEN UNCHANGED <<page, added, misread>>
     ELSE NavigateTo("HOME", user)
  /\ UNCHANGED <<process, app, refreshing, reporter, server, clicks, made, overlapped,
                 abandoned>>
-----------------------------------------------------------------------------
(* Opening another blend and leaving one.                                  *)

\* ActiveBlendsPanel has a row for each blend, with buttons to open and leave it.
RebuildList == IF page = "ACTIVE_BLENDS" THEN FetchUserBlends(members) ELSE {}

Select(b) ==
  /\ Click /\ b \in RebuildList
  /\ Push("select", "open", user.id, b, {}, TRUE)
  /\ UNCHANGED <<app, page, added, refreshing, reporter, server, abandoned, misread>>

SelectFetch ==
  /\ At("select", "fetch")
  /\ \/ /\ Put([Top EXCEPT !.at = "load", !.people = ParseParticipantIDs(Top.id)])
        /\ UNCHANGED reporter
     \/ Return
  /\ UNCHANGED <<process, app, page, added, refreshing, server, clicks, history>>

SelectLoad ==
  /\ At("select", "load")
  /\ \E have \in SUBSET (Top.people \cap uploaded) :
        IF have = {} THEN Return
        ELSE Put([Top EXCEPT !.at = "build", !.people = have]) /\ UNCHANGED reporter
  /\ UNCHANGED <<process, app, page, added, refreshing, server, clicks, history>>

\* handleSelectBlend and handleRefresh generate, yield once more, and only then
\* set the active blend.
Rebuild(o) ==
  /\ At(o, "build")
  /\ owned' = [id |-> Top.id, people |-> Top.people, whose |-> IdOf(user)]
  /\ active' = Freed(active)
  /\ stack' = Stale([stack EXCEPT ![Len(stack)].at = "set"])
  /\ UNCHANGED <<process, user, pending, rooms, lacking, page, added, refreshing,
                 reporter, server, clicks, history>>

SelectSet ==
  /\ At("select", "set") /\ owned # None
  /\ active' = Live(owned)
  /\ rooms' = WithRoom(owned)
  /\ abandoned' = FALSE
  /\ Return
  /\ UNCHANGED <<process, user, pending, owned, lacking, page, added, refreshing,
                 server, clicks, made, overlapped, misread>>

SelectClose ==
  /\ At("select", "close")
  /\ stack' = Without(stack)
  /\ NavigateTo("HOME", user)
  /\ UNCHANGED <<process, app, refreshing, reporter, server, clicks, made, overlapped,
                 abandoned>>

\* The server is told; what it answers is not looked at.  Leaving the active
\* blend drops it and goes on with another one, if there is any.
HandleLeaveBlend(b) ==
  /\ Len(stack) < MaxDepth
  /\ \/ members' = [members EXCEPT ![b] = @ \ {user.id}]
     \/ UNCHANGED members
  /\ IF IdOf(active) = b
     THEN /\ owned' = None /\ active' = None /\ abandoned' = FALSE
          /\ \/ stack' = Stale(stack)
             \/ \E c \in FetchUserBlends(members') :
                   stack' = Append(Stale(stack),
                     [op |-> "select", at |-> "fetch", who |-> user.id, id |-> c,
                      people |-> {}, dialog |-> FALSE, from |-> "none"])
     ELSE UNCHANGED <<owned, active, abandoned, stack>>
  /\ ReadsActive

Leave(b) ==
  /\ Click /\ b \in RebuildList
  /\ HandleLeaveBlend(b)
  /\ UNCHANGED <<user, pending, rooms, lacking, page, added, refreshing,
                 reporter, accounts, uploaded>>
-----------------------------------------------------------------------------
(* Refreshing the feed.                                                    *)

Refresh ==
  /\ Click /\ page = "HOME" /\ ~refreshing
  /\ refreshing' = TRUE
  /\ Push("refresh", "open", IdOf(user), None, {}, TRUE)
  /\ UNCHANGED <<app, page, added, reporter, server, abandoned, misread>>

\* handleRefresh keeps a pointer to the blend it starts from.
Existing ==
  [Top EXCEPT !.at = "pool", !.id = active.id, !.people = active.people,
              !.from = IF active.freed THEN "freed" ELSE "live"]

\* Without a blend, or with a page left in it, the feed needs no new blend.
RefreshRead ==
  /\ At("refresh", "read")
  /\ ReadsActive
  /\ \/ Return
     \/ /\ active # None
        /\ Put(Existing)
        /\ UNCHANGED reporter
  /\ UNCHANGED <<process, app, page, added, refreshing, server, clicks, made, overlapped,
                 abandoned>>

\* The title and the id are read from the old blend after the playlists came.
RefreshPool ==
  /\ At("refresh", "pool")
  /\ \E have \in SUBSET (Top.people \cap uploaded) :
        IF have = {} THEN Return /\ UNCHANGED misread
        ELSE /\ Put([Top EXCEPT !.at = "build", !.people = have])
             /\ misread' = (misread \/ Top.from = "freed")
             /\ UNCHANGED reporter
  /\ UNCHANGED <<process, app, page, added, refreshing, server, clicks, made, overlapped,
                 abandoned>>

RefreshSet ==
  /\ At("refresh", "set")
  /\ active' = Live(owned)
  /\ abandoned' = FALSE
  /\ Return
  /\ UNCHANGED <<process, user, pending, owned, rooms, lacking, page, added,
                 refreshing, server, clicks, made, overlapped, misread>>

RefreshClose ==
  /\ At("refresh", "close")
  /\ stack' = Without(stack)
  /\ reporter' = 0 /\ refreshing' = FALSE
  /\ ReadsActive
  /\ UNCHANGED <<process, app, page, added, server, clicks, made, overlapped, abandoned>>
-----------------------------------------------------------------------------
(* Moving between pages, the chat's timer, and the ends nobody handles.    *)

\* Where the buttons of a page lead.
Exits(p) ==
  CASE p = "DATA_INSTRUCTIONS" -> {"LOGIN"}
    [] p = "BLEND_CREATION" -> {IF active # None THEN "HOME" ELSE "LOGIN"}
    [] p = "HOME" -> {"ACTIVE_BLENDS",
                      IF active # None THEN "BLEND_CHAT" ELSE "BLEND_CREATION"}
    [] p = "BLEND_CHAT" -> {"HOME"}
    [] p = "ACTIVE_BLENDS" -> {"HOME", "BLEND_CREATION"}
    [] OTHER -> {}

Navigate ==
  /\ running /\ Yielding
  /\ \E p \in Exits(page) : NavigateTo(p, user)
  /\ UNCHANGED <<process, app, refreshing, stack, reporter, server, clicks, made,
                 overlapped, abandoned>>

\* The chat's timer finds messages and looks for the room of the active blend.
PollTimer ==
  /\ running /\ Yielding /\ active # None
  /\ ReadsActive
  /\ UNCHANGED <<process, app, ui, server, clicks, made, overlapped, abandoned>>

\* A request that throws where neither the handler nor the page catches it.
Throws ==
  /\ \/ At("login", "auth") \/ At("login", "blend") \/ At("create", "save")
     \/ At("select", "fetch") \/ At("refresh", "pool")
  /\ Die

\* The blend was dropped while the operation yielded.
NullBlend ==
  /\ owned = None
  /\ \/ At("create", "save") \/ At("create", "enrich") \/ At("create", "again")
     \/ At("select", "set")
  /\ Die

Fault == running /\ misread /\ Die
-----------------------------------------------------------------------------
Next ==
  \/ Start \/ Exit
  \/ \E u \in Users : \/ SignIn(u) \/ RegisterNew(u) \/ RegisterKnown(u)
                      \/ AddUser(u) \/ RemoveUser(u)
  \/ RegisterRefused
  \/ Dispatch("login", "auth") \/ LoginAuth \/ LoginLoad \/ LoginBlend \/ LoginBuild
  \/ LoginClose
  \/ LogOut \/ DeleteAccount \/ DeleteUnanswered
  \/ UploadFails \/ (\E data \in BOOLEAN : Upload(data)) \/ UploadThenThrow
  \/ Create \/ Dispatch("create", "load") \/ CreateLoad \/ CreateBuild \/ CreateSave
  \/ CreateUnanswered \/ CreateEnrich \/ CreateAgain \/ CreateClose
  \/ \E b \in BlendIds : Select(b) \/ Leave(b)
  \/ Dispatch("select", "fetch") \/ SelectFetch \/ SelectLoad \/ Rebuild("select")
  \/ SelectSet \/ SelectClose
  \/ Refresh \/ Dispatch("refresh", "read") \/ RefreshRead \/ RefreshPool
  \/ Rebuild("refresh") \/ RefreshSet \/ RefreshClose
  \/ Navigate \/ PollTimer \/ Throws \/ NullBlend \/ Fault

Spec == Init /\ [][Next]_vars
-----------------------------------------------------------------------------
Account == [id : Users, created : BOOLEAN]

TypeOK ==
  /\ running \in BOOLEAN /\ connected \in BOOLEAN
  /\ listeners \in [{"logout", "selectBlend"} -> {"controller", "chatPanel"}]
  /\ user \in {None} \cup [id : Users, data : BOOLEAN]
  /\ pending \in {None} \cup Account
  /\ owned \in {None} \cup Blend
  /\ active = None \/ \E b \in Blend : active \in {Live(b), Freed(Live(b))}
  /\ DOMAIN rooms \subseteq BlendIds /\ \A b \in DOMAIN rooms : rooms[b] \subseteq Users
  /\ lacking \in BOOLEAN
  /\ page \in Pages /\ added \subseteq Users /\ refreshing \in BOOLEAN
  /\ stack \in Seq(Operation) /\ reporter \in Nat
  /\ accounts \subseteq Users /\ uploaded \subseteq Users
  /\ members \in [BlendIds -> SUBSET Users]
  /\ clicks \in Nat /\ made \subseteq BlendIds
  /\ overlapped \in BOOLEAN /\ abandoned \in BOOLEAN /\ misread \in BOOLEAN

\* What the clean-up of a pending registration would delete (handleLogout, the
\* destructor) is never an account this client has saved a playlist for.
PendingHasNoData ==
  pending # None /\ pending.created => pending.id \notin uploaded

\* The reporter refers to a dialog on the stack of a page's handler: it never
\* outlives the handler, however operations overlap.
ReporterHasItsDialog ==
  reporter # 0 => reporter <= Len(stack) /\ stack[reporter].dialog

\* Between operations the active blend is the one the controller owns, or null;
\* only a creation that was given up leaves it pointing to freed memory.
IdleActiveIsOwned ==
  stack = <<>> /\ active # None =>
    IF active.freed THEN abandoned ELSE owned # None /\ active = Live(owned)

\* As long as operations do not overlap, the blend on show was generated for the
\* user who is logged in, and it has a chat room.
ActiveIsTheUsers ==
  ~overlapped /\ active # None /\ ~active.freed =>
    /\ user # None /\ active.whose = user.id
    /\ stack = <<>> => active.id \in DOMAIN rooms

\* As long as operations do not overlap, nobody loses his place in a blend but
\* by leaving it or with his account: a creation saves the blend it generated,
\* not one that exists.
NobodyIsPutOut ==
  [][\A b \in BlendIds : \A u \in members[b] \ members'[b] :
        \/ overlapped' \/ u \notin accounts'
        \/ page = "ACTIVE_BLENDS" /\ u = user.id]_vars

\* AppController.hpp: handleLogout "clears AppState, and navigates to
\* LoginPanel".  On the login page nobody is logged in.
LogoutEndsSession ==
  [][page = "HOME" /\ page' = "LOGIN" => user' = None]_vars
=============================================================================

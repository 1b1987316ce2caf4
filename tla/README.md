# A verification model of YTBLND

YTBLND lets people blend their YouTube watch-later lists into one feed and chat
about it.  A wxWidgets client in C++ (`src/YTBLND_src/AppLayer`, `UILayer`,
`ServiceLayer`, `ModelLayer`, `AppInfrastructure`, `AlgorithmLayer`) talks over
HTTP and a websocket to a Go backend (`src/YTBLND_src/ytblnd-backend`) that keeps
accounts, playlists, blends and chat in SQLite.

This directory holds TLA+ models of that system, TLC configurations that check
them on small instances, and proofs of their main safety properties that hold
for every instance.  Paths below are relative to `src/YTBLND_src/ytblnd-backend/`
unless they start with a client directory.

## Inventory

| Part | State | Operations | What makes it correct |
|---|---|---|---|
| Chat service, `route_layer/chat.go` | hub table of rooms and clients, one send channel of 256 messages per client, two pumps per socket | handshake, register, read, store, broadcast, evict, unregister, write, ping | one order per room, no gap for a connected client, no panic, nothing fed that is not stored, dead clients leave |
| Store, `database_layer/SqliteDatabaseManager.go` behind `route_layer/auth.go`, `blends.go` | seven SQLite tables | register, log in, delete account, upload playlist, save blend, leave blend, store message, the reads | each request all or nothing, chat members are participants, passwords stand, deletions are whole |
| Chat history, `LoadChatMessages` | rows of one room with a time in seconds | stamp, store, query | the newest messages, none skipped |
| Start-up and files, `main.go`, `db_migration.go`, `backup_manager.go` | data directory, snapshot directories, log files, clock | start, migrate, check, restore, open, snapshot, shut down | nothing committed is lost, losses are restored from the newest snapshot, the server comes back |
| Client session, `AppLayer/AppController.cpp`, `AppState.cpp`, `EventRouter.cpp` | user, the owned blend and the pointer to it, chat rooms, pending registration, progress reporter | log in and out, register, upload, create, refresh, select and leave a blend, delete the account | the pointer is to the blend that is owned, and it is the user's; an account with data is not cleaned up; nobody else loses a place |
| Pages, `UILayer/MainFrame.cpp`, `LoginPanel.cpp`, `BlendCreationPanel.cpp`, `ActiveBlendsPanel.cpp`, `OperationProgressDialog.cpp` | current page, added participants, open dialogs | navigate, click, report progress | no page without the session state it shows |
| Client chat panel, `UILayer/BlendChatPanel.cpp`, `ServiceLayer/ChatWebSocket.cpp` | shown room, queue of incoming messages, timer, socket thread | reload, connect, send, poll | an own message is shown once and in order; the socket is that of the room on the screen |
| Client requests, `ServiceLayer/HttpClient.cpp` | none | requests, without a timeout | refused, failed and lost answers leave the session sound |
| Loading and enrichment, `AppController.cpp`, `ServiceLayer/YouTubeMetadataFetcher.cpp` | worker threads, a shared count, a shared list | load participants, fetch metadata | every list and video is taken once, all workers end |
| Blend algorithm and feed, `AlgorithmLayer/`, `UILayer/BlendFeedPanel.cpp`, `VideoCard.cpp` | feed, page, cards, fetches under way | generate, page, refresh, fetch images | a page that was filled shows the feed; a card shows what it last asked for |
| Import, `AppInfrastructure/` | none | parse CSV and HTML exports, on one thread and three | every entry once, in order |
| Local cache, `ServiceLayer/SqliteDataManager.cpp` | an SQLite file | save, load | used by a test only |

How they interact: every HTTP handler of the server runs in a goroutine of its
own and calls the store, whose SQLite connection lets one writer at a time in.
The chat handshake reads the store once; from then on a read pump stores each
message itself and hands it to the single hub goroutine, which hands it to the
write pumps through their channels.  The backup goroutine copies the store's
files while it is in use.  The client's controller is called by the panels
through the event router and calls the server synchronously; only the socket's
thread, the loaders, the image threads and the enrichment workers run beside it,
and a progress dialog that yields to the event loop in the middle of an operation,
so that one handler may run inside another.

Hard to test, and therefore what the properties are about: the order of
evictions, disconnections and broadcasts in the hub; a full buffer; a request
that fails or dies between two statements; two requests on one account; messages
stamped and stored in different orders; a crash at any point of a start, a
restore or a snapshot; a click during an operation; an answer that is lost
although the server has acted; an image, a message or a thread's result that
comes when the state it was asked for is gone; a file cut into sections inside a
link.  `PROJECT.json` lists each at its line.

## Modules

| Module | Models |
|---|---|
| `RoomFeed` | abstract: every room one feed, every connection handed what follows the point where it joined |
| `ChatHub` | `chat.go`: hub, pumps, channels, sockets, storing |
| `BlendLedger` | abstract: accounts, playlists, blends, people and messages, one step per request |
| `BlendStore` | `SqliteDatabaseManager.go` and the handlers that write: transactions statement by statement |
| `HistoryQuery` | the query behind a chat history, `LoadChatMessages` |
| `ChatHistory` | the stamps and the rows of one room, and what the query makes of them |
| `ServerBoot` | `main.go`, `backup_manager.go`, `db_migration.go`: starts, snapshots, restores, crashes |
| `ClientSession` | `AppController`, `AppState`, `EventRouter` and the pages that use them: handlers that run inside one another |
| `ChatPanel` | `BlendChatPanel`, `ChatWebSocket` and the rooms of `AppState` |
| `HomeFeed` | `RandomBlendAlgorithm`, `handleRefresh`, `BlendFeedPanel`, `VideoCard` |
| `Positions` | what the loops over lists keep: the first occurrence of each, the ones of a kind |
| `TakeoutParser` | `WatchHistoryParser`, `WatchLaterParser`, as operators |
| `ClientData` | uploads and log-ins with their threads: `AppController`, `YouTubeMetadataFetcher`; uses `TakeoutParser` |

Beside each of the state machines stands `MC...`, with its small instances, and
`...Proofs`, with its theorems.  `ChatPanel`, `HomeFeed` and `TakeoutParser` (and
`ClientData` through it) extend `Positions`: `At` and `Unique` name what a loop keeps
by its positions and count them instead of recurring over the list, so that the
provers can reason about them.  `ChatHistory` and `ChatPanel` extend `HistoryQuery`: the
server's query is one definition for the side that answers it and the side that shows it.

### ChatHub

The hub goroutine is `event` and `todo`: `event` is the broadcast its select took
and has not finished, `todo` the clients of the loop still to be served.
`closed` and `sent`/`taken` are the send channel, `reader`/`draft` and `writer` the
pumps' program counters, `conn` the socket.  `rooms` and `active` are the hub's map
of rooms, `table` the stored messages.  `feed` and `since` are history:
what was broadcast and how much of it when a client joined.  The unbuffered
channels `register`, `unregister` and `broadcast` are rendezvous: `Register`,
`Unregister` and `Broadcast` are one step of the hub and of the goroutine that
offers the value.  Read and write deadlines, pings
and peers that vanish are reads and writes that may fail at any time.

`Capacity` stands for the 256 messages of a send buffer; `MaxTyped` bounds what is
typed on one connection and `MaxInAll` what is typed on all of them.  With
`Capacity` 1 a buffer is full after one message that is not taken, and a broadcast
may meet two clients in different states.  Two clients of one room, a third in
another room and three messages in all, two of them perhaps of one sender, reach
evictions before, during and after a departure, and frames that claim the other
room.  The liveness run has the two clients of one room and a message from each.

Fairness: the Go scheduler runs every goroutine that can go on, a database call
and a write with a deadline return, and reading or writing a closed socket fails:
weak fairness of those steps.  Goroutines blocked on an unbuffered channel are
served in turn and select chooses among the ready channels at random: strong
fairness of the rendezvous.  Nothing is assumed of clients, of slow peers or of
frames that may never come.

### BlendStore

`db` is what is committed, `work` what the open transaction sees, `writer` who
has it open and `done` how many statements have run.  A request arrives in a slot
of `Requests`; handlers of one statement run in one action, the others through
`Begin`, `Statement` and `Commit`.  `Fail` may strike anywhere (a busy or full
database, a lost client), `Crash` takes all slots.  SQLite is taken to isolate
the writer and to roll back what did not commit.  Playlists are sets of (video,
position) rows; names, titles and times are left out.

`BlendLedger` is what the store promises.  Of a deletion it promises that the
account, its playlist and its participations are gone at once; what becomes of the
blends the user created or leaves empty, and of what he said, `Forget` leaves
open, because the store keeps them and
`Front_End_Requirements_for_Server_Communication.md:126-132` says that they go.
`ImplementsLedger` therefore neither shows nor excludes that divergence, which is
listed below.

Two users, one blend, two slots: any two requests overlap in every way, and each
may fail.  Two passwords tell a second registration from the first; one of the two
playlists names a video twice.  All kinds of requests run together.  The liveness
run has one user.  Fairness of `FairSpec`: a statement or a commit that was issued
returns, with or without an error; nothing is assumed of requests that have not
begun to write.

### ChatHistory

One room, pumps that take the time and store later, rows whose position is the
`message_id`; the sender of `NoHoles` is the pump.  `LoadChatMessages` (in `HistoryQuery`) is the set of all answers the query may give:
its outer `ORDER BY` says nothing about rows of one second.  The clock is taken
not to run backwards; a wall clock set back breaks `NoHoles`.  Two pumps, three
seconds, four rows and a limit of two (100 in the code) make the limit cut
between rows stamped and stored in different orders.

### ServerBoot

`dir` is the data directory: the database file (missing, empty, torn or whole with
its rows), the worse of the two logs, and whether `dev.db` is there.  `snaps` are
the snapshot directories; the code never removes one and reads only the newest, so
the model remembers `MaxSnaps` of them.  `pc` walks through `main`: the loggers,
the migration, the check, the restore, the opening.  `RemoveAll` unlinks one
entry at a time, a snapshot is copied one file at a time, and the process may die
between any two steps or in the middle of a file.  `down` is a failure, after
which systemd starts the server again, `stopped` a clean exit.  `age` and `timer`
count the units of time since the newest snapshot and since the last tick, with
`Interval` 3 for the 48 hours.  `call` says who waits for
`createSnapshotIfNeeded`: the start-up call, before the ticker is made, or a tick.  A
call takes up to `CopyTime` units, and the age is that of the directory's mtime, which
each file made in it sets anew: a snapshot is dated after the tick that began it, and
the next tick finds it too young and skips it.  That is why `RestorePointAge` speaks of
two intervals.  Time has units, so an age of `Interval` may stand for a little less or a
little more, and both `SnapshotSkip` and `SnapshotBegin` are possible there.  A start takes
no time.  `book` and `trust` are history.

Left out: the logs' contents, SQLite's journal (a transaction cut by a crash is
rolled back), losses of files while the server runs, losses of snapshots, the
columns a merge does not copy.  An error that ends in `log.Fatalf` leaves the
files as a crash at the same point does, so `Crash` stands for it.

Whether there is a `dev.db` at first is chosen by `Init` and kept in `hadLegacy`.
`RestoresNewest` and `ComesBack` speak of servers that never had one,
`NothingLost` of all.

Bounds: two crashes or shutdowns (one can interrupt a snapshot and the other the
restore it was meant for, or the restart), one file lost from outside, one failed
snapshot, two snapshots remembered, two rows so that a snapshot can differ from
the database and from the one before, one of them in `dev.db`; a copy takes no
time or one unit of the three, so that the tick after it comes before the copy is an
interval old.
Fairness: `WF(Boot)`, since a start runs to its end and systemd restarts what
failed (`Restart=on-failure`, every 55 s, which no start limit stops); nothing is
assumed of shutdowns, crashes, clients or the disk.

### ClientSession

One thread runs all of this, yet operations overlap: a handler reports its
progress to a dialog that is not modal and yields to the event loop, and what the
user clicks there runs to its end inside the handler.  `stack` is what is under
way, each operation with the place of its next yield (`at`) and the local
variables it will still read; only the top moves, and `Yielding` says when a click is
let in.  `owned` is `AppController.currentBlend`, `active` the
pointer in `AppState`: `make_unique<Blend>` in one frees what the other points to,
which `freed` records.  A read of a freed blend is undefined; the model lets it show
the old content or end the program.  `reporter` is the dialog that
`progressReporter` refers to.  `listeners` is the router's table, in which the chat
panel's "logout" replaces the controller's.  The server is three sets: `accounts`,
`uploaded` and the `members` of each blend.  Every call may be refused, may
throw, and may throw after the server has acted (`RegisterRefused`,
`DeleteUnanswered`, `UploadFails`, `CreateUnanswered`); where the code catches
nothing, the program ends (`Die`, `Fault`).

`made`, `overlapped`, `abandoned` and `misread` are history.  Two properties are
stated for operations that do not overlap, because the code does not have them
otherwise (see the divergences).

Bounds: two users, two blends, three operations started and at most two under way
at once: enough for one account after another, for every pair of handlers nested
in every yield, and for a third click after what they left behind.  Nothing is
assumed to be fair.

### ChatPanel

The main thread is `busy` between the two halves of `Reload` (`OpenChat`, which
loads the history, and `ConnectWebSocket`, which may end in its `catch`, with no
socket); the socket's thread is `OnMessage`, the timer `OnPollTimer`.  A socket has a
connection (`via`) or is waiting for one; a connection breaks with what was on its
way down, and the library makes another.  The server has a read pump for each
connection, which may still read what was sent before the break: what is on its way
up (`up`) is in order per connection only.  It stamps a message in whole seconds and
stores it (`ServerStores`), or loses it (`FrameLost`), and broadcasts it later.  The
history is any answer of `HistoryQuery` over the rows: the last `Limit`, those of one
second in any order.  `rooms` are the messages each room shows, `incoming` is
`m_incoming`.  `drawn` is history: the room whose messages the widgets show.

Session changes (`Login`, `SwitchBlend`, `LogOut`, `DeleteAccount`) are what the panel
sees of them.  A login, a selection or a creation reports its progress and yields, so
the user may have gone to the chat by the time it ends: the active blend may change
under the chat.  What is typed then enters the room of the new blend on the screen and
goes, through the socket, to the room on the server whose messages were shown when it
was typed.  `ChatServesItsRoom` is about the latter.  It says nothing of the user: an
account deleted, or signed in over another, leaves the socket of the last one open (see
the divergences).  Nor does it say that what is typed arrives: without a connection, or
after a failed one, it is sent to nobody.

`OwnOnceInOrder` allows two own messages to be swapped where the code allows it:
both came with a history, and they are of one second, or went up on two connections.

Bounds: one account on this client, another client's user, two blends, two messages in
all, two seconds, a history of two: enough for an own message and another's in either
order, or two of one author on two connections or in one second, on either side of every
switch.  A second account on this client makes 6.7 million states, too many for the
liveness property; the proofs have any number.  Fairness: the timer ticks
while the program runs (`BlendChatPanel` starts it in its constructor), the socket's
thread runs, and requests of the main thread are answered, by an error at least.
Nothing is assumed of the server's broadcasts or of connections.

### HomeFeed

`fetches` are the image threads and the events they queue with `CallAfter`; a card
numbers its fetches (`m_thumbGen`, `m_logoGen`) and compares the number when
an image comes.  `asked` is history: the video that last fetch was for.  `Generated` is
the set of all blends the algorithm may return, `Fresh` what `handleRefresh` hands it.
`LoadFromBlend` fills the cards of a page; `offset` is the page's.  `OtherBlend` is every
other operation that replaces the active blend: it tells no card, and one of them, the
upload of a list again, runs on the home page (`MainFrame.cpp:668`,
`AppController.cpp:943`).  `drawn` is history: the cards were filled since.
`PageShowsFeed` holds while it is true; after an upload on the home page the cards show
the blend that was replaced until the next page, refresh or visit.

`ImagesAreTheVideos` says what the numbers are enough for: a card shows no image but
that of its last fetch.  That fetch was for the card's video, and its logo, if it has
one.  A card that was cleared has no video, and one whose video has no logo began no
fetch of one; both may be painted with the image of the video before, when it comes late
(see the divergences).

Bounds: pages of two cards (six in the code, and any number in the proofs), two users
with two slots each, lists that are longer and shorter than the slots or empty, so that
feeds have one video to four and pages are full, half full or empty; and two fillings of
the cards, so that an image of the first may come after the second.  Fairness: each
fetch ends, by its 15-second limit if nothing else, and its event is handled.

### TakeoutParser and ClientData

`TakeoutParser` gives an HTML export as a sequence of cells (the start of an
href, a quote, other text) and a CSV as one of lines.  `ParseRange` widens a section
to whole hrefs as the code does, `Merged` joins the three sections without
repetition, `Whole` is one thread's result.  An href that starts inside
another one's value is excluded (`WellFormed`).  A watch-later CSV without a
header is read by the three threads and not by `parse`, so `Whole` gives it one.

In `ClientData` the main thread has one `job`: parse, upload, reload, own, load
or feed.  `found` is what each parser thread found; `next`, `answer`, `loaded`,
`missing` and `completed` belong to the loader's threads; `todo` and `enriched` to
the enrichment workers.  The one caller of the parallel loader, `handleLogin`, asks for
no list of the missing; `LoadedAsOne` speaks of that list too, for the next one.  Metadata is missing, partial or complete.  A batch of
requests may fail as a whole or in part, and a channel may lack its logo.

Bounds: all HTML files of up to five cells of three videos and all CSV files of
up to three rows, four videos of which three exist, three participants on two
threads (so that one thread has two lists), limits of 2, 2 and 3 (50, 500 and 50 in the code), so that lists
are on both sides of each limit, and batches of one (50).
Fairness: threads run and requests end; `YouTubeMetadataFetcher` gives each ten
seconds.  `HttpClient` has no limit of its own, and a server that never answers
is not in the model: then the client waits for ever.

## Runs

| Run | What it shows | States |
|---|---|---|
| `chat_hub` | no panic, gapless delivery, stored before broadcast, sender order, isolated rooms; `ChatHub` implements `RoomFeed` | 2,341,823 |
| `chat_hub_live` | stored messages are broadcast, dead clients leave, evicted ones are hung up on, empty rooms are forgotten | 13,850 |
| `blend_store` | chat members are participants; playlists are whole; `BlendStore` implements `BlendLedger` | 2,440,533 |
| `blend_store_progress` | transactions end | 11,079 |
| `chat_history_holes` | a history skips no message of a sender | 2,568 |
| `server_boot` | nothing committed is lost; a restore point is younger than two intervals; the newest snapshot is restored; the server comes back | 967,587 |
| `client_session` | no account with data is cleaned up; the reporter has its dialog; the active blend is the owned one and the user's; nobody is put out of a blend | 1,906,703 |
| `chat_panel` | own messages are shown once and in order, but for swaps the history makes; the socket serves the room on the screen; what arrives comes to be shown | 1,017,504 |
| `home_feed` | cards show what they last asked for, and a page once filled its feed; a refresh repeats nothing it need not; loading ends | 529,738 |
| `client_data` | three parsers find what one would; threads load and complete what one would; uploads keep the file's order; jobs end | 85,420 |
| `client_logout` | violated: after "Log Out" nobody is logged in | |
| `client_upload` | violated: what is beyond the enrichment limit is stored | |

The chat, store and session runs use the symmetry of clients, users, passwords,
blends and slots where they check no liveness property.

Deadlock is checked in the store's, the server's, the session's and the chat
panel's runs.  It is not in the hub's runs, where clients may have said all they
had to say and hung up, nor in the others, which end at their bounds: a history of
so many rows, so many loads of cards, one upload or login.

Every property of a passing run has a mutant in `PROJECT.json`: an operator
marked `Mutant:` in the module, which takes the place of a definition that
models code and makes TLC find the property violated.

## Known divergences

Two are shown by runs:

* `client_logout`: `BlendChatPanel` registers a listener for "logout" after the
  controller did, and the router keeps the last one.  "Log Out" closes the chat's
  socket and shows the login page; the user, his blend, his rooms and a pending
  registration stay (`AppLayer/EventRouter.cpp:13`, against
  `AppLayer/AppController.hpp:80`).
* `client_upload`: videos beyond the enrichment limit have no title yet when the
  upload drops all videos without one (`AppLayer/AppController.cpp:864`, against
  the comment at `:41`).

The others are part of the models as the code has them, and no property claims
the contrary.

Server:

* Deleting an account leaves the blends it created or leaves empty, their rooms and
  its messages (`SqliteDatabaseManager.go:359-371`);
  `src/Docs/Front_End_Requirements_for_Server_Communication.md:126-132` says they go.
* `DeleteUser` checks the password outside its transaction: an account that was
  deleted and registered again meanwhile goes with the first one's password.
* Messages of one second are not ordered (`SqliteDatabaseManager.go:692` says
  oldest to newest); two of one author, too, may come back swapped.
* Snapshots come at every second tick: the copy dates the directory after the tick
  (`backup_manager.go:145`, `:234-244`), so the next tick finds it younger than an
  interval (`:130`).  With 48 hours between ticks a restore point may be almost 96
  hours old.
* Membership is checked when a socket opens, and not again: who leaves a blend
  goes on reading its room.
* Rows of `dev.db` that were deleted come back at every start
  (`db_migration.go:127`); where there is a `dev.db`, a lost database is rebuilt
  from it before the health check looks for a snapshot.
* A snapshot cut short counts as the newest and is restored
  (`backup_manager.go:145`, `:219`); `RestoresNewest` says which one is restored,
  not that it is whole.
* A log file that is empty, on a new machine or after a rotation, is taken for a
  loss: a new machine needs its log files prepared, or no start succeeds
  (`main.go:74`), and a rotation makes the next start replace the database.

Client:

* The constructor's ping throws when there is no server, so that the offline mode
  is reached only by an answer that is no pong.
* A handler run from another one's progress dialog may replace the blend under it:
  a creation overlapped by an upload, a selection or another creation saves its participants
  to the other blend.  Hence `~overlapped` in `ActiveIsTheUsers` and
  `NobodyIsPutOut`.  A creation that is given up leaves the pointer in `AppState`
  to freed memory (`abandoned` in `IdleActiveIsOwned`).
* `createChatRoom` keeps a room that exists, with its old participants, where
  `AppState.hpp:92` and `AppState.cpp:74` speak of replacing it.  A participant
  whose playlist did not load is not in the room, and does not see his own
  messages there (`AppController.cpp:1504`).
* Deleting the account or signing in again without logging out leaves the
  socket of the last user open; it is used for the next one if the room is the same.
* `m_incoming` survives a change of room, and its messages are lost when no blend
  is active; a message sent before the socket opens, or while it reconnects, is
  shown to its author and sent to nobody.
* The history and the socket are two requests: what is broadcast between them is
  missed, or shown twice (`chat.go:185`).  `ArrivingIsShown` and `OwnOnceInOrder`
  are about what arrives on the socket and about own messages.
* `VideoCard.hpp:92` and `:97` say that every change of a card's video makes
  earlier fetches stale; `Clear`, and `SetVideo` without a logo, do not
  (`VideoCard.cpp:157-201`).  A late thumbnail is painted on a card that was cleared
  (`:294`), and the late logo of the previous video beside a video that has none
  (`:345`).
* An upload from the home page replaces the active blend (`AppController.cpp:943-951`)
  and refreshes no card (`UILayer/MainFrame.cpp:668-678`): the page goes on showing the
  old blend, where `UILayer/BlendFeedPanel.hpp:17` speaks of the active one, and its
  offset then counts in the new one.
* When the active blend changes while the chat is on the screen, at the end of an
  operation whose dialog yielded, a message typed there enters the new blend's room in
  the client and the old one's on the server.
* The last page's remainder of fewer than six videos is never shown, and counts as
  shown.  A user with fewer videos than slots has the first ones repeated, where
  `RandomBlendAlgorithm.hpp:22` says that all of them are included.
* An upload from the home page says "Your data has been re-uploaded" whatever
  came of it (`UILayer/MainFrame.cpp:678`).

## Proofs

All theorems are of the form `Spec => []P`, or of an action property or a
refinement, for every value of the constants, from the named assumptions on
them only.

`ChatHubProofs`: the invariant `IInv` of `ChatHub` adds to the properties what
relates the program counters to the channels: a client in a room's map is
registered there and its channel open (`ClientsAreLive`), the broadcast being
delivered is the last of its feed and those still in `todo` are in the room
(`EventIsLast`), a connection that has not registered has neither pumps nor
messages (`NotYetServed`), a draft is its sender's last message (`DraftIsLast`),
and what a feed holds is older than the drafts (`FeedIsPast`).  Without them no
property is inductive: whether an eviction may close a channel depends on who is
in the table, and a delivery is gapless only because the loop serves everyone it
promised to.  From it follow `TypeOK`, `NeverPanics`, `Stretch`,
`BroadcastIsStored`, `SenderOrder`, `RoomIsolation`, and `ImplementsRoomFeed`.

`BlendStoreProofs`: `WorkIsStaged` says what a transaction has staged after each
of its statements, as a function of what is committed; a commit then publishes a
whole request.  From it follow `TypeOK`, `MembersAreParticipants`,
`WatchListsAreWhole`, the action properties `PasswordsStand` and
`AccountsGoWhole` (which no run checks), and `ImplementsLedger`.

`ServerBootProofs`: `SnapsInUse` ties a running snapshot to its call and its age to the
time that call has taken, `Paced` the age of the newest snapshot to the timer, an
interval apart at most, `StaysWhole` says that without losses no
start finds one, `LossIsSeen` that a loss stays visible to the check until the
newest snapshot has taken its place, across every crash in between, and
`NoLegacy` that a `dev.db` comes from nowhere.  From them follow `TypeOK`,
`RestoresNewest` (where there never was a `dev.db`), `NothingLost` and
`RestorePointAge`.

`ChatHistoryProofs`: `NoHoles` needs that a pump stores in the order in which it
stamps and that no stamp is younger than the clock (`StampsGrow`).  A row between
two of one sender that are within the limit is then later than the first, and has
no more rows after it: a comparison of the sizes of two sets.

`ClientSessionProofs`: the types say of every operation under way which of its
variables are set (`Named`); the steps of the top are classified once (`Kinds`)
into those that begin, go on, dispatch and end, and each property takes its
argument from the class.  `ReporterInv`: the reporter's operation is between its
dialog's opening and its end.  `Accounting`: only accounts have playlists.
`OwnedInv`: the pointer and the owned blend agree unless an operation is about to
set the pointer (`Replacing`).  `AloneInv` adds what a lone operation relies on
(`TopFits`), `PlacesInv` that the blend about to be saved has nobody in it and
the saved one nobody but its own people.  From them follow `TypeOK`,
`ReporterHasItsDialog`, `PendingHasNoData`, `IdleActiveIsOwned`, `ActiveIsTheUsers`
and `NobodyIsPutOut`.

`ChatPanelProofs`: a socket exists just while `m_wsBlendID` names it, and whenever the
main thread rests it is the socket of what was drawn last, since each way through
`Reload` draws the room it connected, kept, or failed to connect (`ChatServesItsRoom`, by
induction over those ways).  For `OwnOnceInOrder` each message of the user is followed
along its way: what a connection carried is stored in its order, and stamped in it, as
its pump reads one frame after the other (`UpInOrder`, `StoredInOrder`); two rows of one author that a
history lists the other way round are therefore of one second or of two connections
(`HistoryInOrder`); and what `DoSend` adds is later than all a room holds, while
`OnPollTimer` adds nothing of the user's own (`RoomsInOrder`).  All parts together give
`TypeOK`.

`HomeFeedProofs`: no fetch has a later number than its card's last one, and one with
that number is that last one (`Current`); filling a card either begins a fetch for its
new video or leaves number and fetch as they are (`Follows`).  From it follows
`ImagesAreTheVideos`, although two ways of changing a card leave its number alone, and
what it says of those is only what holds.  `PageShowsFeed` follows from what
`LoadFromBlend` does to each card (`FillShows`), both for any page size and any feed.
`RefreshIsFresh` follows from what the operators return: `Generated` holds only
videos it was given (`GeneratedFrom`), `Fresh` gives it a video that was on show only
when its owner's whole list was, and `Unique` repeats nothing (`UniqueKeeps`).

`ClientDataProofs` has one inductive invariant, `DataInv`, of five parts.

* `LoadInv`: thread `w` asks for `w`, `w + K`, `w + 2 K` and so on, so that an index
  is asked for by one thread and once (`AsksOnce`); what was asked for is loaded
  at its place or counted among the missing, and when the threads have ended
  everything was asked for.  From it follows `LoadedAsOne`.
* `CountInv`: `completed` is the number of requests that ended, which the main
  thread waits for.
* `FileInv`: what a parser thread found is its section of the file.  That the
  sections together are the whole is a fact about `TakeoutParser`
  (`SectionsAsOne`): a section finds its file's entries between two positions,
  the widened borders only make neighbours overlap (`RangeFinds`, `RowsAre`), and
  three overlapping stretches joined without repetition have each entry first
  where the file has it first (`ThreeParts`).  There is only one list without
  repetition of which that is true (`OneFirstSeen`), so it is the one a single
  thread makes: `ParsedAsOne`.
* `ListInv`: lists are lists of videos, and one being uploaded names each once.
  An upload stores a part of it in its order (`UploadedIs`), which is
  `PostedAsParsed`.
* `EnrichInv`: what the threads that ended were to fetch is fetched, if no request
  failed.  The chunks of the threads begin where the one before ends and cover
  what is pending (`Bounds`, `ChunksCover`), from which follows `EnrichImproves`.

`TypeOK` follows from all of them.  The lemmas about `Positions` (`Ranks`,
`InOrderLists`, `AtKeeps`, `UniqueKeeps`) stand in each of the modules that cite
them.

Assumed of the constants are their types; that a name or mark such as `None` is
no user, blend or video; that numbers are positive where the code divides by
them or counts up to them; in `HomeFeed`, that users and videos are finitely many;
in `ClientData`, that a file is HTML whose hrefs do not lie in one another
(`WellFormed`) or CSV with a header, if any, in its first line (`FilesType`), and
that the server's lists are lists of videos (`ListsType`).  TLC evaluates them in
every run.

Only model-checked:

* Liveness (`StoredIsBroadcast`, `DeadClientsLeave`, `EvictedAreHungUp`,
  `EmptyRoomsAreForgotten`, `WriterLeaves`, `ComesBack`, `ArrivingIsShown`, `LoadingEnds`,
  `JobsEnd`): it rests on fairness and so on `ENABLED`, which the provers do not
  reason about.
* The two divergences, which are counterexamples.

Every other property of the passing runs is a theorem: each invariant, each
action property and both refinements.

## Not modelled

* `SqliteDataManager` (the client's cache): nothing but a test constructs it.
* The User and Settings pages: no button leads there.
* Layout, colours, dialogs' wording, button states.
* `HtmlParser`, `DataExtractor` and `enrichIfMissingMetadata`: not called.
* The JSON of requests, titles, times, links, and the quoting inside CSV fields.
* Closing the window during an operation, and `playVideo`, which starts a browser.
* The contents of the logs.
* `handleOpenChat` registering a blend again that the server does not know.
* The composition of client and server in one model: each side has the other as
  what it may answer (`ClientSession`, `ChatPanel`) or ask (`BlendStore`,
  `ChatHub`); the product of two of them is out of TLC's reach.

Left to do: an abstract blend that the client's two posts and the server's upsert
implement together.

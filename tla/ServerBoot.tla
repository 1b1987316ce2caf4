----------------------------- MODULE ServerBoot -----------------------------
(***************************************************************************)
(* How the backend comes up, goes down and keeps its files: main.go with   *)
(* backup_manager.go and db_migration.go.                                  *)
(*                                                                         *)
(* A start opens the log files, migrates a legacy dev.db, checks the       *)
(* database and the logs, restores the newest snapshot when one of them is *)
(* missing or empty, and opens the database.  A running server copies its  *)
(* data directory file by file, at start-up and then at the ticks of a     *)
(* ticker that find the newest copy an interval old.                       *)
(* The process may die between any two steps; systemd restarts it unless   *)
(* it left by itself.                                                      *)
(*                                                                         *)
(* The two logs are one file here, in the state of the worse of the two: a *)
(* server that passed the check has both non-empty, and one that restored  *)
(* logs to files that are unlinked, so requests never change it.  A copy   *)
(* for a restore is complete before anything is removed and is made anew   *)
(* by every start, so it is not a variable.                                *)
(***************************************************************************)
EXTENDS Naturals, Sequences

CONSTANTS
  Rows,       \* what the database can hold
  LegacyRows, \* what dev.db holds
  Interval,   \* the snapshot interval, in units of time
  CopyTime,   \* bound on the time a call of createSnapshotIfNeeded takes
  MaxSnaps,   \* how many snapshot directories are remembered
  MaxHalts,   \* bound on crashes and shutdowns
  MaxFails,   \* bound on failed snapshots
  MaxDamage   \* bound on the files lost from outside

ASSUME LegacyAssumption == LegacyRows \subseteq Rows
ASSUME BoundAssumption ==
  /\ Interval \in Nat \ {0} /\ MaxSnaps \in Nat \ {0}
  /\ CopyTime \in 0..(Interval - 1)
  /\ MaxHalts \in Nat /\ MaxFails \in Nat /\ MaxDamage \in Nat

VARIABLES
  pc,      \* where the process is; "down" after a failure, "stopped" after SIGTERM
  dir,     \* the data directory
  snaps,   \* the snapshot directories, the newest last
  copy,    \* what the running snapshot does next; "idle" when none runs
  call,    \* who waits for createSnapshotIfNeeded: "start", "tick" or "no" one
  age,     \* the time since the newest snapshot directory last got an entry,
           \* which is its mtime; at most 2 * Interval
  timer,   \* the time since the backup ticker last ticked, or was made; in the
           \* call of the start-up, since that began
  book,    \* history: the rows the server last held
  hadLegacy,  \* history: whether there was a dev.db at first
  trust,   \* history: "intact", "hurt" from outside, or "restored" since
  halts,   \* crashes and shutdowns so far
  fails,   \* failed snapshots so far
  damage   \* files lost from outside so far

files == <<dir, snaps>>
clock == <<age, timer>>
history == <<hadLegacy, book, trust>>
bounds == <<halts, fails, damage>>
vars == <<pc, dir, snaps, copy, call, clock, history, bounds>>

-----------------------------------------------------------------------------
(* Files and directories.                                                  *)

Missing == [is |-> "missing", rows |-> {}]
Empty == [is |-> "empty", rows |-> {}]
Torn == [is |-> "torn", rows |-> {}]   \* half a file, or one read while it changed
Whole(rows) == [is |-> "whole", rows |-> rows]

File == {Missing, Empty, Torn} \cup {Whole(rows) : rows \in SUBSET Rows}
Directory == [db : File, log : {"missing", "empty", "full"}, legacy : BOOLEAN]
Bare == [db |-> Missing, log |-> "missing", legacy |-> FALSE]

Newest == snaps[Len(snaps)]

\* A snapshot whose copying came to its end on a quiet database.
Complete(d) == d.db.is = "whole" /\ d.log = "full"

\* isDataLossDetected: only absence and size are looked at.
Lost == dir.db.is \in {"missing", "empty"} \/ dir.log # "full"

\* A server that has run before, with its database and its logs in place.
Init ==
  /\ pc = "down"
  /\ hadLegacy \in BOOLEAN
  /\ dir \in {[db |-> Whole(rows), log |-> "full", legacy |-> hadLegacy] :
                rows \in SUBSET Rows}
  /\ snaps = << >>
  /\ copy = "idle"
  /\ call = "no"
  /\ age = 0
  /\ timer = 0
  /\ book = dir.db.rows
  /\ trust = "intact"
  /\ halts = 0
  /\ fails = 0
  /\ damage = 0

-----------------------------------------------------------------------------
(* Coming up.                                                              *)

\* NewServerLoggers: O_CREATE|O_APPEND on both log files.
OpenLogs ==
  /\ pc' = "migrate"
  /\ dir' = [dir EXCEPT !.log = IF @ = "missing" THEN "empty" ELSE @]
  /\ UNCHANGED <<snaps, copy, call, clock, history, bounds>>

\* systemd after a failure, and an operator after a clean stop.
Restart == pc = "down" /\ OpenLogs
StartAgain == pc = "stopped" /\ OpenLogs

MigrateNothing ==
  /\ pc = "migrate"
  /\ ~dir.legacy
  /\ pc' = "check"
  /\ UNCHANGED <<files, copy, call, clock, history, bounds>>

\* The target is absent: dev.db is copied in its place, not atomically.
Bootstrap ==
  /\ pc = "migrate"
  /\ dir.legacy
  /\ dir.db = Missing
  /\ pc' = "bootstrap"
  /\ dir' = [dir EXCEPT !.db = Empty]
  /\ UNCHANGED <<snaps, copy, call, clock, history, bounds>>

BootstrapEnds ==
  /\ pc = "bootstrap"
  /\ pc' = "check"
  /\ dir' = [dir EXCEPT !.db = Whole(LegacyRows)]
  /\ UNCHANGED <<snaps, copy, call, clock, history, bounds>>

\* An empty database gets its tables before the transaction of the merge.
EnsureMigrationSchema ==
  /\ pc = "migrate"
  /\ dir.legacy
  /\ dir.db = Empty
  /\ dir' = [dir EXCEPT !.db = Whole({})]
  /\ UNCHANGED <<pc, snaps, copy, call, clock, history, bounds>>

\* Mutant: INSERT OR REPLACE after a DELETE: dev.db taken for the source of truth.
MergeOverwriting ==
  /\ pc = "migrate"
  /\ dir.legacy
  /\ dir.db.is = "whole"
  /\ pc' = "check"
  /\ dir' = [dir EXCEPT !.db = Whole(LegacyRows)]
  /\ UNCHANGED <<snaps, copy, call, clock, history, bounds>>

\* INSERT OR IGNORE, table by table, in one transaction.
Merge ==
  /\ pc = "migrate"
  /\ dir.legacy
  /\ dir.db.is = "whole"
  /\ pc' = "check"
  /\ dir' = [dir EXCEPT !.db = Whole(@.rows \cup LegacyRows)]
  /\ UNCHANGED <<snaps, copy, call, clock, history, bounds>>

\* SQLite may or may not stumble over a torn file.
MergeTorn ==
  /\ pc = "migrate"
  /\ dir.legacy
  /\ dir.db = Torn
  /\ pc' \in {"check", "down"}
  /\ UNCHANGED <<files, copy, call, clock, history, bounds>>

CheckHealthy ==
  /\ pc = "check"
  /\ ~Lost
  /\ pc' = "open"
  /\ UNCHANGED <<files, copy, call, clock, history, bounds>>

\* "data loss detected but no backup available": log.Fatalf.
CheckHopeless ==
  /\ pc = "check"
  /\ Lost
  /\ snaps = << >>
  /\ pc' = "down"
  /\ UNCHANGED <<files, copy, call, clock, history, bounds>>

\* The newest directory is copied aside; whether it is complete is not asked.
CheckLost ==
  /\ pc = "check"
  /\ Lost
  /\ snaps # << >>
  /\ pc' = "swap"
  /\ UNCHANGED <<files, copy, call, clock, history, bounds>>

\* RemoveAll(dataDir) unlinks one entry after the other, in no fixed order.
RemoveOne ==
  /\ pc = "swap"
  /\ \/ dir.db # Missing /\ dir' = [dir EXCEPT !.db = Missing]
     \/ dir.log # "missing" /\ dir' = [dir EXCEPT !.log = "missing"]
     \/ dir.legacy /\ dir' = [dir EXCEPT !.legacy = FALSE]
  /\ UNCHANGED <<pc, snaps, copy, call, clock, history, bounds>>

\* Mutant: the candidates sorted the wrong way round.
RenameOldest ==
  /\ pc = "swap"
  /\ dir = Bare
  /\ pc' = "open"
  /\ dir' = snaps[1]
  /\ UNCHANGED <<snaps, copy, call, clock, history, bounds>>

\* Mutant: a rename onto the directory that is still there, which fails.
RenameFirst ==
  /\ pc = "swap"
  /\ pc' = "down"
  /\ UNCHANGED <<files, copy, call, clock, history, bounds>>

Rename ==
  /\ pc = "swap"
  /\ dir = Bare
  /\ pc' = "open"
  /\ dir' = Newest
  /\ UNCHANGED <<snaps, copy, call, clock, history, bounds>>

\* SQLite makes a database of a missing or an empty file; the backup goroutine
\* starts with a call of createSnapshotIfNeeded, and makes its ticker after it.
Open ==
  LET db == IF dir.db.is \in {"missing", "empty"} THEN Whole({}) ELSE dir.db IN
  /\ pc = "open"
  /\ pc' = "up"
  /\ dir' = [dir EXCEPT !.db = db]
  /\ call' = "start"
  /\ timer' = 0
  /\ book' = IF trust = "intact" THEN book ELSE db.rows
  /\ trust' = IF trust = "intact" THEN "intact" ELSE "restored"
  /\ UNCHANGED <<snaps, copy, age, hadLegacy, bounds>>

OpenTorn ==
  /\ pc = "open"
  /\ dir.db = Torn
  /\ pc' = "down"
  /\ UNCHANGED <<files, copy, call, clock, history, bounds>>

Boot ==
  \/ Restart
  \/ MigrateNothing \/ Bootstrap \/ BootstrapEnds \/ EnsureMigrationSchema \/ Merge \/ MergeTorn
  \/ CheckHealthy \/ CheckHopeless \/ CheckLost
  \/ RemoveOne \/ Rename
  \/ Open \/ OpenTorn

-----------------------------------------------------------------------------
(* Running.                                                                *)

\* A committed change of the database; a torn database refuses it.
Commit(rows) ==
  /\ pc = "up"
  /\ dir.db.is = "whole"
  /\ dir' = [dir EXCEPT !.db = Whole(rows)]
  /\ book' = rows
  /\ copy' = IF copy = "db" THEN "moved" ELSE copy
  /\ UNCHANGED <<pc, snaps, call, clock, hadLegacy, trust, bounds>>

Insert(r) == r \notin dir.db.rows /\ Commit(dir.db.rows \cup {r})
Delete(r) == r \in dir.db.rows /\ Commit(dir.db.rows \ {r})

\* createSnapshotIfNeeded returns; the ticker is made after the first return.
Return ==
  /\ call' = "no"
  /\ timer' = IF call = "start" THEN 0 ELSE timer

\* Mutant: a snapshot a little older than the interval taken for a fresh one.
SkipWithSlack ==
  /\ pc = "up" /\ call # "no" /\ copy = "idle"
  /\ snaps # << >> /\ age <= Interval + 1
  /\ Return
  /\ UNCHANGED <<pc, files, copy, age, history, bounds>>

\* Skip redundant copies until the interval has elapsed.  Time has units here and
\* an age of Interval may stand for a little less, or a little more.
SnapshotSkip ==
  /\ pc = "up" /\ call # "no" /\ copy = "idle"
  /\ snaps # << >> /\ age <= Interval
  /\ Return
  /\ UNCHANGED <<pc, files, copy, age, history, bounds>>

\* The directory is there, and the newest, before anything is copied.  None is
\* ever removed; only the newest is read, so the model forgets the oldest.
SnapshotBegin ==
  /\ pc = "up" /\ call # "no" /\ copy = "idle"
  /\ snaps = << >> \/ age >= Interval
  /\ snaps' = Append(IF Len(snaps) < MaxSnaps THEN snaps ELSE Tail(snaps), Bare)
  /\ copy' = "legacy"
  /\ age' = 0
  /\ UNCHANGED <<pc, dir, call, timer, history, bounds>>

\* WalkDir goes in lexical order: dev.db, the logs, ytblnd.db.  A file that is
\* made in the directory changes its mtime, one that is written does not.
CopyLegacy ==
  /\ pc = "up" /\ copy = "legacy"
  /\ snaps' = [snaps EXCEPT ![Len(snaps)].legacy = dir.legacy]
  /\ copy' = "log"
  /\ age' = IF dir.legacy THEN 0 ELSE age
  /\ UNCHANGED <<pc, dir, call, timer, history, bounds>>

CopyLog ==
  /\ pc = "up" /\ copy = "log"
  /\ snaps' = [snaps EXCEPT ![Len(snaps)] = [@ EXCEPT !.log = dir.log, !.db = Empty]]
  /\ copy' = "db"
  /\ age' = 0
  /\ UNCHANGED <<pc, dir, call, timer, history, bounds>>

\* io.Copy reads the file page by page while the server writes it.
CopyDb ==
  /\ pc = "up" /\ copy \in {"db", "moved"}
  /\ \E db \in {dir.db} \cup (IF copy = "moved" THEN {Torn} ELSE {}) :
       snaps' = [snaps EXCEPT ![Len(snaps)].db = db]
  /\ copy' = "idle"
  /\ Return
  /\ UNCHANGED <<pc, dir, age, history, bounds>>

\* Where a copy is cut short: the file it was writing is empty or half there.
CutShort ==
  snaps' \in IF copy \in {"db", "moved"}
             THEN {snaps, [snaps EXCEPT ![Len(snaps)].db = Torn]}
             ELSE {snaps}

\* An error, in the middle of a copy or before it made its directory, is logged;
\* the directory stays, and the next try is a tick away.
SnapshotFails ==
  /\ pc = "up" /\ call # "no"
  /\ fails < MaxFails
  /\ fails' = fails + 1
  /\ CutShort
  /\ copy' = "idle"
  /\ Return
  /\ UNCHANGED <<pc, dir, age, history, halts, damage>>

Older == IF age < 2 * Interval THEN age + 1 ELSE age

\* The ticker ticks: createSnapshotIfNeeded is called.
Tick ==
  /\ pc = "up" /\ call = "no"
  /\ timer + 1 = Interval
  /\ call' = "tick"
  /\ timer' = 0
  /\ age' = Older
  /\ UNCHANGED <<pc, files, copy, history, bounds>>

\* Mutant: a tick that comes one unit late.
PassOver ==
  /\ pc \in {"up", "down", "stopped"}
  /\ pc = "up" => timer < IF call = "no" THEN Interval ELSE CopyTime
  /\ timer' = IF pc = "up" THEN timer + 1 ELSE 0
  /\ age' = Older
  /\ UNCHANGED <<pc, files, copy, call, history, bounds>>

\* A unit of time passes without a tick, between two calls or in the middle of
\* one, a copy takes its time, or while the server is down.
Pass ==
  /\ pc \in {"up", "down", "stopped"}
  /\ pc = "up" => timer < IF call = "no" THEN Interval - 1 ELSE CopyTime
  /\ timer' = IF pc = "up" THEN timer + 1 ELSE 0
  /\ age' = Older
  /\ UNCHANGED <<pc, files, copy, call, history, bounds>>

-----------------------------------------------------------------------------
(* Going down.                                                             *)

Halt(to) ==
  /\ halts < MaxHalts
  /\ halts' = halts + 1
  /\ pc' = to
  /\ CutShort
  /\ copy' = "idle"
  /\ call' = "no"
  /\ timer' = 0

\* The process dies, or log.Fatalf ends it; a file being written is half there.
Crash ==
  /\ pc \notin {"down", "stopped"}
  /\ Halt("down")
  /\ dir' \in {dir} \cup
              (IF pc = "bootstrap" THEN {[dir EXCEPT !.db = Torn]} ELSE {})
  /\ UNCHANGED <<age, history, fails, damage>>

\* SIGTERM drains the requests and waits for no snapshot.
Shutdown ==
  /\ pc = "up"
  /\ Halt("stopped")
  /\ UNCHANGED <<dir, age, history, fails, damage>>

\* What happens to the files from outside: one is lost or emptied.
LoseFile ==
  /\ pc \in {"down", "stopped"}
  /\ damage < MaxDamage
  /\ damage' = damage + 1
  /\ trust' = "hurt"
  /\ \/ dir' \in {[dir EXCEPT !.db = db] : db \in {Missing, Empty} \ {dir.db}}
     \/ dir' \in {[dir EXCEPT !.log = log] : log \in {"missing", "empty"} \ {dir.log}}
  /\ UNCHANGED <<pc, snaps, copy, call, clock, hadLegacy, book, halts, fails>>

Run ==
  \/ \E r \in Rows : Insert(r) \/ Delete(r)
  \/ SnapshotSkip \/ SnapshotBegin
  \/ CopyLegacy \/ CopyLog \/ CopyDb
  \/ SnapshotFails \/ Tick \/ Pass

Next == Boot \/ StartAgain \/ Run \/ Crash \/ Shutdown \/ LoseFile

Spec == Init /\ [][Next]_vars

\* A start runs to its end, and systemd restarts what failed.
FairSpec == Spec /\ WF_vars(Boot)

-----------------------------------------------------------------------------
(* Properties.                                                             *)

TypeOK ==
  /\ pc \in {"down", "stopped", "migrate", "bootstrap", "check", "swap", "open", "up"}
  /\ dir \in Directory
  /\ snaps \in Seq(Directory) /\ Len(snaps) <= MaxSnaps
  /\ copy \in {"idle", "legacy", "log", "db", "moved"}
  /\ call \in {"no", "start", "tick"}
  /\ age \in 0..(2 * Interval)
  /\ timer \in 0..(IF call = "no" THEN Interval - 1 ELSE CopyTime)
  /\ hadLegacy \in BOOLEAN
  /\ book \in SUBSET Rows
  /\ trust \in {"intact", "hurt", "restored"}
  /\ halts \in 0..MaxHalts
  /\ fails \in 0..MaxFails
  /\ damage \in 0..MaxDamage

\* The parts of the inductive invariant the proofs need besides TypeOK.

\* A snapshot runs inside a call, in the directory that is newest and was made
\* in that call; a restore has one to read.
SnapsInUse ==
  /\ copy # "idle" => pc = "up" /\ call # "no" /\ snaps # << >> /\ age <= timer
  /\ pc = "swap" => snaps # << >>

\* Between two calls the newest snapshot is older than the running timer by an
\* interval at most.
Paced == pc = "up" /\ call = "no" /\ fails = 0 => snaps # << >> /\ age <= timer + Interval

\* Without losses from outside no start finds one.
StaysWhole ==
  trust = "intact" =>
    /\ pc \notin {"bootstrap", "swap"}
    /\ dir.db.is = "whole"
    /\ dir.log = "full"
    /\ dir.legacy = hadLegacy
    /\ book \subseteq dir.db.rows
    /\ dir.db.rows \subseteq book \cup (IF hadLegacy THEN LegacyRows ELSE {})

\* Where no dev.db ever was, none appears.
NoLegacy ==
  ~hadLegacy => ~dir.legacy /\ \A i \in DOMAIN snaps : ~snaps[i].legacy

\* A loss stays to be seen until the newest snapshot has taken its place.
LossIsSeen ==
  trust = "hurt" /\ ~hadLegacy =>
    /\ pc \in {"down", "stopped", "migrate", "check"} =>
         Lost \/ (snaps # << >> /\ dir = Newest)
    /\ pc = "swap" => Lost /\ snaps # << >>
    /\ pc = "open" => snaps # << >> /\ dir = Newest
    /\ pc \notin {"up", "bootstrap"}

IInv == TypeOK /\ SnapsInUse /\ Paced /\ StaysWhole /\ NoLegacy /\ LossIsSeen

\* As long as no file is lost from outside, a running server has every row that
\* was committed, whatever crashes, restarts, half-made snapshots and merges lie
\* behind it, and what it has besides is rows of dev.db, if ever there was one.
\* (main.go:65-84, backup_manager.go:75, db_migration.go:51, 127)
NothingLost ==
  pc = "up" /\ trust = "intact" =>
    /\ dir.db.is = "whole"
    /\ book \subseteq dir.db.rows
    /\ dir.db.rows \subseteq book \cup (IF hadLegacy THEN LegacyRows ELSE {})

\* Without a dev.db, a server that comes up after a loss holds the database of
\* the newest snapshot, even when the restore itself was cut short by a
\* crash, between RemoveAll and Rename for one, and done over by the next start.
\* (backup_manager.go:84)
RestoresNewest ==
  [][ pc = "open" /\ pc' = "up" /\ trust = "hurt" /\ ~hadLegacy
        /\ snaps # << >> /\ Complete(Newest)
        => dir'.db = Newest.db ]_vars

\* While the server runs and no snapshot failed, the newest restore point is
\* younger than two intervals whenever no call is at work: the start-up call and
\* the ticker never leave a longer gap, however crashes, starts and slow copies
\* fall.  One interval it is not: the copy sets the mtime after the tick, so that
\* the next tick finds it too young and leaves it to the one after.
\* (backup_manager.go:54-73, 130)
RestorePointAge ==
  pc = "up" /\ call = "no" /\ fails = 0 => snaps # << >> /\ age < 2 * Interval

\* Without a dev.db, and with a complete newest snapshot, every failed or lost
\* start ends in a running server sooner or later, unless an operator stopped it.
\* (backup_manager.go:75-96, Restart=on-failure)
ComesBack ==
  <>[](~hadLegacy /\ snaps # << >> /\ Complete(Newest)) => []<>(pc \in {"up", "stopped"})
=============================================================================

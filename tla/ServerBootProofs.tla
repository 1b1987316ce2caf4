-------------------------- MODULE ServerBootProofs --------------------------
(***************************************************************************)
(* The safety properties of ServerBoot, for any rows, interval and bounds. *)
(* The inductive invariant is IInv of that module; each of its parts is a  *)
(* lemma about one step, which names the parts it rests on.                *)
(***************************************************************************)
EXTENDS ServerBoot, SequenceTheorems, TLAPS

\* The files a step may put in place of another are files.
LEMMA FilesAreFiles ==
  /\ Missing \in File /\ Empty \in File /\ Torn \in File
  /\ \A rows \in SUBSET Rows : Whole(rows) \in File
  /\ Bare \in Directory
BY DEF File, Missing, Empty, Torn, Whole, Bare, Directory

\* A file that is not whole holds no row, and one that is is Whole of its rows.
LEMMA FileShape ==
  ASSUME NEW f \in File
  PROVE  /\ f.is \in {"missing", "empty", "torn", "whole"}
         /\ f.rows \in SUBSET Rows
         /\ f.is = "missing" => f = Missing
         /\ f.is = "empty" => f = Empty
         /\ f.is = "torn" => f = Torn
         /\ f.is = "whole" => f = Whole(f.rows)
BY DEF File, Missing, Empty, Torn, Whole

\* Writing into the newest snapshot directory leaves a list of directories of
\* the same length, the older ones untouched.
LEMMA NewestWritten ==
  ASSUME NEW s \in Seq(Directory), s # << >>, NEW d \in Directory
  PROVE  LET t == [s EXCEPT ![Len(s)] = d] IN
         /\ t \in Seq(Directory) /\ Len(t) = Len(s) /\ DOMAIN t = DOMAIN s
         /\ \A i \in DOMAIN s : t[i] = IF i = Len(s) THEN d ELSE s[i]
         /\ s[Len(s)] \in Directory
<1>1. Len(s) \in 1..Len(s)
  BY EmptySeq, LenProperties
<1>2. [s EXCEPT ![Len(s)] = d] \in Seq(Directory)
  BY <1>1, ExceptSeq
<1> QED
  BY <1>1, <1>2, ExceptSeq, LenProperties, ElementOfSeq

\* The invariant holds at the start.
LEMMA InitIsInvariant == ASSUME Init PROVE IInv
<1> USE LegacyAssumption, BoundAssumption
<1>1. PICK rows \in SUBSET Rows :
        dir = [db |-> Whole(rows), log |-> "full", legacy |-> hadLegacy]
  BY DEF Init
<1>2. dir \in Directory /\ dir.db = Whole(rows) /\ book = rows
  BY <1>1, FilesAreFiles DEF Directory, Init, Whole
<1>3. << >> \in Seq(Directory) /\ Len(<< >>) = 0
  BY EmptySeq, LenProperties
<1>8. /\ 0 \in 0..(2 * Interval) /\ 0 \in 0..(Interval - 1) /\ 0 <= MaxSnaps
      /\ 0 \in 0..MaxHalts /\ 0 \in 0..MaxFails /\ 0 \in 0..MaxDamage
  OBVIOUS
<1>4. TypeOK
  <2> HIDE BoundAssumption
  <2> QED
    BY <1>2, <1>3, <1>8 DEF TypeOK, Init
<1>5. SnapsInUse /\ Paced /\ LossIsSeen
  BY DEF Init, SnapsInUse, Paced, LossIsSeen
<1>6. StaysWhole
  BY <1>1, <1>2 DEF Init, StaysWhole, Whole
<1>7. NoLegacy
  BY <1>1 DEF Init, NoLegacy
<1> QED
  BY <1>4, <1>5, <1>6, <1>7 DEF IInv

\* Where a copy is cut short, the snapshots stay directories as many as before.
LEMMA CutShortKeeps ==
  ASSUME TypeOK, SnapsInUse, CutShort
  PROVE  /\ snaps' \in Seq(Directory) /\ Len(snaps') = Len(snaps)
         /\ snaps = << >> <=> snaps' = << >>
         /\ NoLegacy /\ ~hadLegacy => \A i \in DOMAIN snaps' : ~snaps'[i].legacy
         /\ copy = "idle" => snaps' = snaps
<1>1. CASE snaps' = snaps
  BY <1>1 DEF TypeOK, NoLegacy
<1>2. CASE copy \in {"db", "moved"} /\ snaps' = [snaps EXCEPT ![Len(snaps)].db = Torn]
  <2>1. snaps # << >> /\ snaps \in Seq(Directory)
    BY <1>2 DEF SnapsInUse, TypeOK
  <2> DEFINE d == [snaps[Len(snaps)] EXCEPT !.db = Torn]
  <2>2. snaps[Len(snaps)] \in Directory /\ d \in Directory /\ Bare \in Directory
    BY <2>1, FilesAreFiles, NewestWritten DEF Directory
  <2>3. snaps' = [snaps EXCEPT ![Len(snaps)] = d]
    BY <1>2
  <2>4. d.legacy = snaps[Len(snaps)].legacy
    BY <2>2 DEF Directory
  <2> HIDE DEF d
  <2>5. /\ snaps' \in Seq(Directory) /\ Len(snaps') = Len(snaps) /\ DOMAIN snaps' = DOMAIN snaps
        /\ \A i \in DOMAIN snaps : snaps'[i] = IF i = Len(snaps) THEN d ELSE snaps[i]
    BY <2>1, <2>2, <2>3, NewestWritten
  <2>6. snaps' # << >>
    BY <2>1, <2>5, EmptySeq, LenProperties
  <2> QED
    BY <1>2, <2>1, <2>4, <2>5, <2>6 DEF NoLegacy
<1> QED
  BY <1>1, <1>2 DEF CutShort

\* Nor does a step of the copy change the list but in its last place.
LEMMA CopyKeeps ==
  ASSUME TypeOK, SnapsInUse, CopyLegacy \/ CopyLog \/ CopyDb
  PROVE  /\ snaps' \in Seq(Directory) /\ Len(snaps') = Len(snaps) /\ snaps' # << >>
         /\ NoLegacy /\ ~hadLegacy => \A i \in DOMAIN snaps' : ~snaps'[i].legacy
<1>1. snaps # << >> /\ snaps \in Seq(Directory) /\ dir \in Directory
  BY DEF SnapsInUse, TypeOK, CopyLegacy, CopyLog, CopyDb
<1> DEFINE last == snaps[Len(snaps)]
<1>2. last \in Directory
  BY <1>1, FilesAreFiles, NewestWritten
<1>3. SUFFICES ASSUME NEW d \in Directory,
                      d.legacy \in {dir.legacy, last.legacy},
                      snaps' = [snaps EXCEPT ![Len(snaps)] = d]
               PROVE  /\ snaps' \in Seq(Directory) /\ Len(snaps') = Len(snaps)
                      /\ snaps' # << >>
                      /\ NoLegacy /\ ~hadLegacy =>
                           \A i \in DOMAIN snaps' : ~snaps'[i].legacy
  <2>1. CASE CopyLegacy
    <3> DEFINE d == [last EXCEPT !.legacy = dir.legacy]
    <3>1. d \in Directory /\ d.legacy = dir.legacy
      BY <1>1, <1>2 DEF Directory
    <3>2. snaps' = [snaps EXCEPT ![Len(snaps)] = d]
      BY <2>1 DEF CopyLegacy
    <3> QED
      BY <1>3, <3>1, <3>2
  <2>2. CASE CopyLog
    <3> DEFINE d == [last EXCEPT !.log = dir.log, !.db = Empty]
    <3>1. d \in Directory /\ d.legacy = last.legacy
      BY <1>1, <1>2, FilesAreFiles DEF Directory
    <3>2. snaps' = [snaps EXCEPT ![Len(snaps)] = d]
      BY <2>2 DEF CopyLog
    <3> QED
      BY <1>3, <3>1, <3>2
  <2>3. CASE CopyDb
    <3>1. PICK db \in {dir.db} \cup (IF copy = "moved" THEN {Torn} ELSE {}) :
            snaps' = [snaps EXCEPT ![Len(snaps)].db = db]
      BY <2>3 DEF CopyDb
    <3> DEFINE d == [last EXCEPT !.db = db]
    <3>2. d \in Directory /\ d.legacy = last.legacy
      BY <1>1, <1>2, <3>1, FilesAreFiles DEF Directory
    <3>3. snaps' = [snaps EXCEPT ![Len(snaps)] = d]
      BY <3>1
    <3> QED
      BY <1>3, <3>2, <3>3
  <2> QED
    BY <2>1, <2>2, <2>3
<1>4. /\ snaps' \in Seq(Directory) /\ Len(snaps') = Len(snaps) /\ DOMAIN snaps' = DOMAIN snaps
      /\ \A i \in DOMAIN snaps : snaps'[i] = IF i = Len(snaps) THEN d ELSE snaps[i]
  BY <1>1, <1>3, NewestWritten
<1>5. snaps' # << >> /\ Len(snaps) \in DOMAIN snaps
  BY <1>1, <1>4, EmptySeq, LenProperties
<1> QED
  BY <1>3, <1>4, <1>5 DEF NoLegacy

\* A new snapshot is an empty directory at the end of the list.
LEMMA BeginAppends ==
  ASSUME TypeOK, SnapshotBegin
  PROVE  /\ snaps' \in Seq(Directory) /\ Len(snaps') <= MaxSnaps /\ snaps' # << >>
         /\ NoLegacy /\ ~hadLegacy => \A i \in DOMAIN snaps' : ~snaps'[i].legacy
<1> DEFINE s == IF Len(snaps) < MaxSnaps THEN snaps ELSE Tail(snaps)
<1>1. snaps \in Seq(Directory) /\ Len(snaps) \in Nat /\ Len(snaps) <= MaxSnaps /\ MaxSnaps \in Nat \ {0}
  BY BoundAssumption, LenProperties DEF TypeOK
<1>2. /\ s \in Seq(Directory) /\ Len(s) < MaxSnaps /\ Len(s) \in Nat
      /\ NoLegacy /\ ~hadLegacy => \A i \in 1..Len(s) : ~s[i].legacy
  <2>1. CASE Len(snaps) < MaxSnaps
    BY <1>1, <2>1, LenProperties DEF NoLegacy
  <2>2. CASE ~(Len(snaps) < MaxSnaps)
    <3>1. snaps # << >> /\ DOMAIN snaps = 1..Len(snaps)
      BY <1>1, <2>2, EmptySeq, LenProperties
    <3>2. /\ Tail(snaps) \in Seq(Directory) /\ Len(Tail(snaps)) = Len(snaps) - 1
          /\ \A i \in 1..Len(Tail(snaps)) : Tail(snaps)[i] = snaps[i + 1]
      BY <1>1, <3>1, HeadTailProperties
    <3> QED
      BY <1>1, <2>2, <3>1, <3>2 DEF NoLegacy
  <2> QED
    BY <2>1, <2>2
<1>3. snaps' = Append(s, Bare) /\ Bare \in Directory /\ ~Bare.legacy
  BY FilesAreFiles DEF SnapshotBegin, Bare
<1> HIDE DEF s
<1>4. /\ snaps' \in Seq(Directory) /\ Len(snaps') = Len(s) + 1
      /\ \A i \in 1..Len(s) : snaps'[i] = s[i]
      /\ snaps'[Len(s) + 1] = Bare
  BY <1>2, <1>3, AppendProperties
<1>5. snaps' # << >> /\ DOMAIN snaps' = 1..(Len(s) + 1)
  BY <1>2, <1>4, EmptySeq, LenProperties
<1> QED
  BY <1>1, <1>2, <1>3, <1>4, <1>5

\* Coming up leaves the snapshots, the running copy and the bounds alone, and
\* all but its last step the clock and the history too.
LEMMA BootKeeps ==
  ASSUME Boot \/ StartAgain
  PROVE  /\ UNCHANGED <<snaps, copy, age, bounds>>
         /\ UNCHANGED <<call, timer, history>> \/ Open
         /\ pc \notin {"up"}
         /\ pc' = "up" => Open
BY DEF Boot, Restart, StartAgain, OpenLogs, MigrateNothing, Bootstrap, BootstrapEnds,
       EnsureMigrationSchema, Merge, MergeTorn, CheckHealthy, CheckHopeless, CheckLost, RemoveOne, Rename,
       Open, OpenTorn, files, clock, history, bounds

\* Whether there was a dev.db at first is settled.
LEMMA LegacyIsSettled == ASSUME [Next]_vars PROVE hadLegacy' = hadLegacy
BY DEF vars, history, Next, Boot, Restart, StartAgain, OpenLogs, MigrateNothing, Bootstrap,
       BootstrapEnds, EnsureMigrationSchema, Merge, MergeTorn, CheckHealthy, CheckHopeless, CheckLost, RemoveOne, Rename,
       Open, OpenTorn, Run, Insert, Delete, Commit, SnapshotSkip, SnapshotBegin, CopyLegacy,
       CopyLog, CopyDb, SnapshotFails, Tick, Pass, Crash, Shutdown, LoseFile

\* The timer of a call that returns is one between two calls.
LEMMA ReturnKeeps ==
  ASSUME TypeOK, call # "no", Return
  PROVE  timer' \in 0..(Interval - 1)
BY BoundAssumption DEF TypeOK, Return

\* Types are kept.
LEMMA TypeStep ==
  ASSUME TypeOK, SnapsInUse, [Next]_vars
  PROVE  TypeOK'
<1> USE FilesAreFiles, LegacyAssumption, BoundAssumption DEF TypeOK
<1>1. CASE Boot \/ StartAgain
  <2>1. UNCHANGED <<snaps, copy, age, bounds>>
    BY <1>1, BootKeeps
  <2>2. pc' \in {"down", "stopped", "migrate", "bootstrap", "check", "swap", "open", "up"}
    BY <1>1 DEF Boot, Restart, StartAgain, OpenLogs, MigrateNothing, Bootstrap, BootstrapEnds,
                EnsureMigrationSchema, Merge, MergeTorn, CheckHealthy, CheckHopeless, CheckLost, RemoveOne, Rename,
                Open, OpenTorn
  <2>3. dir.db.rows \in SUBSET Rows
    BY FileShape DEF Directory
  <2>4. dir' \in Directory
    <3>1. CASE Restart \/ StartAgain
      BY <3>1 DEF Restart, StartAgain, OpenLogs, Directory
    <3>2. CASE Bootstrap \/ BootstrapEnds \/ EnsureMigrationSchema \/ Merge
      BY <3>2, <2>3 DEF Bootstrap, BootstrapEnds, EnsureMigrationSchema, Merge, Directory
    <3>3. CASE RemoveOne
      BY <3>3 DEF RemoveOne, Directory
    <3>4. CASE Rename
      <4>1. snaps # << >> /\ dir' = Newest
        BY <3>4 DEF Rename, SnapsInUse
      <4> QED
        BY <4>1, NewestWritten DEF Newest
    <3>5. CASE Open
      BY <3>5, <2>3 DEF Open, Directory
    <3>6. CASE MigrateNothing \/ MergeTorn \/ CheckHealthy \/ CheckHopeless \/ CheckLost \/ OpenTorn
      BY <3>6 DEF MigrateNothing, MergeTorn, CheckHealthy, CheckHopeless, CheckLost, OpenTorn, files
    <3> QED
      BY <1>1, <3>1, <3>2, <3>3, <3>4, <3>5, <3>6 DEF Boot
  <2>5. CASE UNCHANGED <<call, timer, history>>
    BY <2>1, <2>2, <2>4, <2>5 DEF history, bounds
  <2>6. CASE Open
    BY <2>1, <2>2, <2>3, <2>4, <2>6 DEF Open, Whole, bounds
  <2> QED
    BY <1>1, <2>5, <2>6, BootKeeps
<1>2. CASE \E r \in Rows : Insert(r) \/ Delete(r)
  <2>1. PICK rows \in SUBSET Rows : Commit(rows)
    <3>1. dir.db.rows \in SUBSET Rows
      BY FileShape DEF Directory
    <3> QED
      BY <1>2, <3>1 DEF Insert, Delete
  <2> QED
    BY <2>1 DEF Commit, Directory, clock, bounds
<1>3. CASE SnapshotSkip
  <2>1. timer' \in 0..(Interval - 1)
    BY <1>3, ReturnKeeps DEF SnapshotSkip
  <2> QED
    BY <1>3, <2>1 DEF SnapshotSkip, Return, files, history, bounds
<1>4. CASE SnapshotBegin
  <2>1. snaps' \in Seq(Directory) /\ Len(snaps') <= MaxSnaps
    BY <1>4, BeginAppends
  <2> QED
    BY <1>4, <2>1 DEF SnapshotBegin, history, bounds
<1>5. CASE CopyLegacy \/ CopyLog \/ CopyDb
  <2>1. snaps' \in Seq(Directory) /\ Len(snaps') = Len(snaps)
    BY <1>5, CopyKeeps
  <2>2. CASE CopyLegacy \/ CopyLog
    <3>1. age' \in 0..(2 * Interval)
      BY <2>2 DEF CopyLegacy, CopyLog
    <3> HIDE BoundAssumption
    <3> QED
      BY <2>1, <2>2, <3>1 DEF CopyLegacy, CopyLog, history, bounds
  <2>3. CASE CopyDb
    <3>1. call # "no" /\ Return
      BY <2>3 DEF CopyDb, SnapsInUse
    <3>2. timer' \in 0..(Interval - 1)
      BY <3>1, ReturnKeeps
    <3> HIDE BoundAssumption
    <3> QED
      BY <2>1, <2>3, <3>2 DEF CopyDb, Return, history, bounds
  <2> QED
    BY <1>5, <2>2, <2>3
<1>6. CASE SnapshotFails
  <2>1. snaps' \in Seq(Directory) /\ Len(snaps') = Len(snaps)
    BY <1>6, CutShortKeeps DEF SnapshotFails
  <2>2. fails' \in 0..MaxFails
    BY <1>6 DEF SnapshotFails
  <2>3. timer' \in 0..(Interval - 1)
    BY <1>6, ReturnKeeps DEF SnapshotFails
  <2> HIDE BoundAssumption
  <2> QED
    BY <1>6, <2>1, <2>2, <2>3 DEF SnapshotFails, Return, history
<1>7. CASE Tick \/ Pass
  <2>1. age' \in 0..(2 * Interval)
    BY <1>7 DEF Tick, Pass, Older
  <2>2. timer' \in 0..(IF call' = "no" THEN Interval - 1 ELSE CopyTime)
    BY <1>7 DEF Tick, Pass
  <2> HIDE BoundAssumption
  <2> QED
    BY <1>7, <2>1, <2>2 DEF Tick, Pass, files, history, bounds
<1>8. CASE Crash \/ Shutdown
  <2>1. snaps' \in Seq(Directory) /\ Len(snaps') = Len(snaps)
    BY <1>8, CutShortKeeps DEF Crash, Shutdown, Halt
  <2>2. dir' \in Directory
    BY <1>8 DEF Crash, Shutdown, Directory
  <2>3. halts' \in 0..MaxHalts /\ timer' \in 0..(Interval - 1)
    BY <1>8 DEF Crash, Shutdown, Halt
  <2> HIDE BoundAssumption
  <2> QED
    BY <1>8, <2>1, <2>2, <2>3 DEF Crash, Shutdown, Halt, history
<1>9. CASE LoseFile
  <2>1. dir' \in Directory
    BY <1>9 DEF LoseFile, Directory
  <2> QED
    BY <1>9, <2>1 DEF LoseFile, clock
<1>10. CASE UNCHANGED vars
  BY <1>10 DEF vars, clock, history, bounds
<1> QED
  BY <1>1, <1>2, <1>3, <1>4, <1>5, <1>6, <1>7, <1>8, <1>9, <1>10 DEF Next, Run

\* A snapshot keeps to its call, and a restore to a list with something in it.
LEMMA SnapsInUseStep ==
  ASSUME TypeOK, SnapsInUse, [Next]_vars
  PROVE  SnapsInUse'
<1>1. CASE Boot \/ StartAgain
  <2>1. snaps' = snaps /\ copy' = copy /\ copy = "idle"
    BY <1>1, BootKeeps DEF SnapsInUse
  <2>2. pc' = "swap" => snaps # << >>
    BY <1>1 DEF Boot, Restart, StartAgain, OpenLogs, MigrateNothing, Bootstrap, BootstrapEnds,
                EnsureMigrationSchema, Merge, MergeTorn, CheckHealthy, CheckHopeless, CheckLost, RemoveOne, Rename,
                Open, OpenTorn, SnapsInUse
  <2> QED
    BY <2>1, <2>2 DEF SnapsInUse
<1>2. CASE \E r \in Rows : Insert(r) \/ Delete(r)
  BY <1>2 DEF Insert, Delete, Commit, SnapsInUse, clock
<1>3. CASE SnapshotSkip \/ Tick
  BY <1>3 DEF SnapshotSkip, Tick, SnapsInUse, files
<1>9. CASE Pass
  <2>1. copy # "idle" => timer' = timer + 1 /\ age' \in {age, age + 1}
    BY <1>9 DEF Pass, Older, SnapsInUse
  <2>2. age \in Nat /\ timer \in Nat
    BY BoundAssumption DEF TypeOK
  <2>3. UNCHANGED <<pc, snaps, copy, call>>
    BY <1>9 DEF Pass, files
  <2> QED
    BY <2>1, <2>2, <2>3 DEF SnapsInUse
<1>4. CASE SnapshotBegin
  <2>1. 0 <= timer
    BY BoundAssumption DEF TypeOK
  <2> QED
    BY <1>4, <2>1, BeginAppends DEF SnapshotBegin, SnapsInUse
<1>5. CASE CopyLegacy \/ CopyLog \/ CopyDb
  <2>1. 0 <= timer
    BY BoundAssumption DEF TypeOK
  <2> QED
    BY <1>5, <2>1, CopyKeeps DEF CopyLegacy, CopyLog, CopyDb, SnapsInUse
<1>6. CASE SnapshotFails \/ Crash \/ Shutdown
  BY <1>6 DEF SnapshotFails, Crash, Shutdown, Halt, SnapsInUse
<1>7. CASE LoseFile
  BY <1>7 DEF LoseFile, SnapsInUse, clock
<1>8. CASE UNCHANGED vars
  BY <1>8 DEF vars, SnapsInUse, clock
<1> QED
  BY <1>1, <1>2, <1>3, <1>4, <1>5, <1>6, <1>7, <1>8, <1>9 DEF Next, Run

\* The newest snapshot and the timer age together, and every call that does not
\* fail leaves a snapshot that is no older than an interval.
LEMMA PacedStep ==
  ASSUME TypeOK, SnapsInUse, Paced, [Next]_vars
  PROVE  Paced'
<1> USE BoundAssumption
<1>1. CASE Boot \/ StartAgain
  <2>1. pc' # "up" \/ call' = "start"
    BY <1>1, BootKeeps DEF Open
  <2> QED
    BY <2>1 DEF Paced
<1>2. CASE \E r \in Rows : Insert(r) \/ Delete(r)
  BY <1>2 DEF Insert, Delete, Commit, Paced, clock, bounds
<1>3. CASE SnapshotSkip
  <2>1. snaps' = snaps /\ snaps # << >> /\ age' = age /\ age <= Interval
    BY <1>3 DEF SnapshotSkip, files
  <2>2. timer' \in Nat
    BY <1>3, ReturnKeeps DEF SnapshotSkip
  <2>3. age \in Nat /\ Interval \in Nat
    BY DEF TypeOK
  <2>4. age' <= timer' + Interval
    <3>1. \A a, t, i \in Nat : a <= i => a <= t + i
      OBVIOUS
    <3> QED
      BY <2>1, <2>2, <2>3, <3>1
  <2> QED
    BY <2>1, <2>4 DEF Paced
<1>4. CASE SnapshotBegin \/ CopyLegacy \/ CopyLog
  BY <1>4 DEF SnapshotBegin, CopyLegacy, CopyLog, SnapsInUse, Paced
<1>5. CASE CopyDb
  <2>1. snaps' # << >>
    BY <1>5, CopyKeeps
  <2>2. age' = age /\ age <= timer /\ timer <= CopyTime /\ timer' \in {0, timer}
    BY <1>5 DEF CopyDb, Return, SnapsInUse, TypeOK
  <2>3. /\ age \in Nat /\ timer \in Nat
        /\ Interval \in Nat /\ CopyTime \in Nat /\ CopyTime < Interval
    BY DEF TypeOK
  <2>4. age' <= timer' + Interval
    <3>1. \A a, t, s, c, i \in Nat :
            a <= t /\ t <= c /\ c < i /\ s \in {0, t} => a <= s + i /\ s \in Nat
      OBVIOUS
    <3> QED
      BY <2>2, <2>3, <3>1
  <2> QED
    BY <2>1, <2>4 DEF Paced
<1>6. CASE SnapshotFails
  BY <1>6 DEF SnapshotFails, Paced, TypeOK
<1>7. CASE Tick
  BY <1>7 DEF Tick, Paced
<1>11. CASE Pass
  <2>1. SUFFICES ASSUME pc = "up", call = "no", fails = 0
                 PROVE  snaps' # << >> /\ age' <= timer' + Interval
    BY <1>11 DEF Pass, Paced, bounds
  <2>2. snaps' # << >> /\ age <= timer + Interval /\ timer' = timer + 1 /\ age' \in {age, age + 1}
    BY <1>11, <2>1 DEF Pass, Paced, Older, files
  <2>3. age \in Nat /\ timer \in Nat /\ Interval \in Nat
    BY DEF TypeOK
  <2> HIDE BoundAssumption
  <2> QED
    BY <2>2, <2>3
<1>8. CASE Crash \/ Shutdown
  BY <1>8 DEF Crash, Shutdown, Halt, Paced
<1>9. CASE LoseFile
  BY <1>9 DEF LoseFile, Paced
<1>10. CASE UNCHANGED vars
  BY <1>10 DEF vars, Paced, clock, bounds
<1> QED
  BY <1>1, <1>2, <1>3, <1>4, <1>5, <1>6, <1>7, <1>8, <1>9, <1>10, <1>11 DEF Next, Run

\* Without losses from outside the files are found whole, and the merge of a
\* start is all that can add a row.
LEMMA StaysWholeStep ==
  ASSUME TypeOK, SnapsInUse, StaysWhole, [Next]_vars
  PROVE  StaysWhole'
<1> USE LegacyAssumption DEF StaysWhole
<1>7. hadLegacy' = hadLegacy
  BY LegacyIsSettled
<1>0. dir \in Directory /\ dir.db \in File
  BY DEF TypeOK, Directory
<1>1. CASE Boot \/ StartAgain
  <2> SUFFICES ASSUME trust' = "intact" PROVE StaysWhole'
    OBVIOUS
  <2>1. trust = "intact" /\ book' = book /\ hadLegacy' = hadLegacy
    BY <1>1, <1>7, BootKeeps DEF Open, history
  <2>2. dir.db.is = "whole" /\ ~Lost /\ dir.db \notin {Missing, Empty, Torn}
    BY <2>1 DEF Lost, Missing, Empty, Torn
  <2>3. CASE Restart \/ StartAgain
    BY <2>1, <2>3, <1>0 DEF Restart, StartAgain, OpenLogs, Directory
  <2>4. CASE Merge
    <3>1. dir' = [dir EXCEPT !.db = Whole(dir.db.rows \cup LegacyRows)] /\ hadLegacy
      BY <2>1, <2>4 DEF Merge
    <3>2. /\ dir'.db = Whole(dir.db.rows \cup LegacyRows)
          /\ dir'.log = "full" /\ dir'.legacy = hadLegacy
      BY <2>1, <3>1, <1>0 DEF Directory
    <3>3. dir'.db.is = "whole" /\ dir'.db.rows = dir.db.rows \cup LegacyRows
      BY <3>2 DEF Whole
    <3>4. book \subseteq dir.db.rows /\ dir.db.rows \subseteq book \cup LegacyRows
      BY <2>1, <3>1
    <3>5. book' \subseteq dir'.db.rows /\ dir'.db.rows \subseteq book' \cup LegacyRows
      BY <2>1, <3>3, <3>4
    <3> QED
      BY <2>1, <2>4, <3>1, <3>2, <3>3, <3>5 DEF Merge
  <2>5. CASE MigrateNothing \/ CheckHealthy
    BY <2>1, <2>5 DEF MigrateNothing, CheckHealthy, files
  <2>6. CASE Open
    <3>1. dir' = dir
      BY <2>2, <2>6, <1>0 DEF Open, Directory
    <3> QED
      BY <2>1, <2>6, <3>1 DEF Open
  <2>7. CASE \/ Bootstrap \/ BootstrapEnds \/ EnsureMigrationSchema \/ MergeTorn
             \/ CheckHopeless \/ CheckLost \/ RemoveOne \/ Rename \/ OpenTorn
    BY <2>1, <2>2, <2>7 DEF Bootstrap, BootstrapEnds, EnsureMigrationSchema, MergeTorn, CheckHopeless, CheckLost,
                            RemoveOne, Rename, OpenTorn
  <2> QED
    BY <1>1, <2>3, <2>4, <2>5, <2>6, <2>7 DEF Boot
<1>2. ASSUME NEW rows, Commit(rows) PROVE StaysWhole'
  <2>1. dir'.db = Whole(rows) /\ dir'.log = dir.log /\ dir'.legacy = dir.legacy
    BY <1>0, <1>2 DEF Commit, Directory
  <2> QED
    BY <1>2, <2>1 DEF Commit, Whole
<1>3. CASE SnapshotSkip \/ SnapshotBegin \/ CopyLegacy \/ CopyLog \/ CopyDb \/ SnapshotFails \/ Tick \/ Pass
  BY <1>3 DEF SnapshotSkip, SnapshotBegin, CopyLegacy, CopyLog, CopyDb, SnapshotFails, Tick, Pass,
              files, history
<1>4. CASE Crash \/ Shutdown
  BY <1>4 DEF Crash, Shutdown, Halt, history
<1>5. CASE LoseFile
  BY <1>5 DEF LoseFile
<1>6. CASE UNCHANGED vars
  BY <1>6 DEF vars, files, history
<1> QED
  BY <1>1, <1>2, <1>3, <1>4, <1>5, <1>6 DEF Next, Run, Insert, Delete

\* A dev.db comes from nowhere but the directory that had one.
LEMMA NoLegacyStep ==
  ASSUME TypeOK, SnapsInUse, NoLegacy, [Next]_vars
  PROVE  NoLegacy'
<1> SUFFICES ASSUME ~hadLegacy
             PROVE  ~dir'.legacy /\ \A i \in DOMAIN snaps' : ~snaps'[i].legacy
  BY LegacyIsSettled DEF NoLegacy
<1>0. /\ dir \in Directory /\ ~dir.legacy
      /\ snaps \in Seq(Directory) /\ \A i \in DOMAIN snaps : ~snaps[i].legacy
  BY DEF TypeOK, NoLegacy
<1>1. CASE Boot \/ StartAgain
  <2>1. snaps' = snaps
    BY <1>1, BootKeeps
  <2>2. CASE Rename
    <3>1. snaps # << >>
      BY <2>2 DEF Rename, SnapsInUse
    <3>2. Len(snaps) \in DOMAIN snaps
      BY <1>0, <3>1, EmptySeq, LenProperties
    <3> QED
      BY <1>0, <2>1, <2>2, <3>2 DEF Rename, Newest
  <2>3. CASE ~Rename
    BY <1>0, <1>1, <2>1, <2>3
    DEF Boot, Restart, StartAgain, OpenLogs, MigrateNothing, Bootstrap, BootstrapEnds,
        EnsureMigrationSchema, Merge, MergeTorn, CheckHealthy, CheckHopeless, CheckLost, RemoveOne, Open,
        OpenTorn, files, Directory
  <2> QED
    BY <2>2, <2>3
<1>2. ASSUME NEW rows, Commit(rows) PROVE ~dir'.legacy /\ snaps' = snaps
  BY <1>0, <1>2 DEF Commit, Directory
<1>3. CASE SnapshotSkip \/ Tick \/ Pass \/ UNCHANGED vars
  BY <1>0, <1>3 DEF SnapshotSkip, Tick, Pass, vars, files
<1>4. CASE SnapshotBegin
  BY <1>0, <1>4, BeginAppends DEF SnapshotBegin
<1>5. CASE CopyLegacy \/ CopyLog \/ CopyDb
  BY <1>0, <1>5, CopyKeeps DEF CopyLegacy, CopyLog, CopyDb
<1>6. CASE SnapshotFails \/ Crash \/ Shutdown
  <2>1. CutShort
    BY <1>6 DEF SnapshotFails, Crash, Shutdown, Halt
  <2>2. ~dir'.legacy
    BY <1>0, <1>6 DEF SnapshotFails, Crash, Shutdown, Directory
  <2> QED
    BY <2>1, <2>2, CutShortKeeps
<1>7. CASE LoseFile
  BY <1>0, <1>7 DEF LoseFile, Directory
<1> QED
  BY <1>0, <1>1, <1>2, <1>3, <1>4, <1>5, <1>6, <1>7 DEF Next, Run, Insert, Delete

\* A loss is still there at the check, or healed already: opening the logs only
\* turns a missing log into an empty one, and a restore begun is begun anew.
LEMMA LossIsSeenStep ==
  ASSUME TypeOK, SnapsInUse, NoLegacy, LossIsSeen, [Next]_vars
  PROVE  LossIsSeen'
<1> SUFFICES ASSUME ~hadLegacy, trust' = "hurt" PROVE LossIsSeen'
  BY LegacyIsSettled DEF LossIsSeen
<1> USE DEF LossIsSeen
<1>0. dir \in Directory /\ dir.db \in File /\ ~dir.legacy
  BY DEF TypeOK, Directory, NoLegacy
<1>1. CASE Restart \/ StartAgain
  <2>1. trust = "hurt" /\ snaps' = snaps /\ pc' = "migrate"
    BY <1>1 DEF Restart, StartAgain, OpenLogs, history
  <2>2. CASE dir' = dir
    BY <1>1, <2>1, <2>2 DEF Lost, Newest, Restart, StartAgain
  <2>3. CASE dir' # dir
    <3>1. dir'.log = "empty"
      BY <1>0, <1>1, <2>3 DEF Restart, StartAgain, OpenLogs, Directory
    <3> QED
      BY <2>1, <3>1 DEF Lost
  <2> QED
    BY <2>2, <2>3
<1>2. CASE MigrateNothing \/ CheckHealthy \/ CheckHopeless \/ CheckLost \/ OpenTorn
  BY <1>2 DEF MigrateNothing, CheckHealthy, CheckHopeless, CheckLost, OpenTorn, Lost, Newest,
              files, history
<1>3. CASE Bootstrap \/ BootstrapEnds \/ EnsureMigrationSchema \/ Merge \/ MergeTorn
  BY <1>0, <1>3 DEF Bootstrap, BootstrapEnds, EnsureMigrationSchema, Merge, MergeTorn, history
<1>4. CASE RemoveOne
  <2>1. dir'.db = Missing \/ dir'.log = "missing" \/ (dir'.db = dir.db /\ dir'.log = dir.log)
    BY <1>0, <1>4 DEF RemoveOne, Directory
  <2> QED
    BY <1>4, <2>1 DEF RemoveOne, Lost, Missing, history
<1>5. CASE Rename
  BY <1>5 DEF Rename, SnapsInUse, Newest, history
<1>6. CASE Open
  BY <1>6 DEF Open
<1>7. CASE Run
  <2>1. pc = "up" \/ Pass
    BY <1>7 DEF Run, Insert, Delete, Commit, SnapshotSkip, SnapshotBegin, CopyLegacy, CopyLog,
                CopyDb, SnapshotFails, Tick
  <2>2. trust' = trust
    BY <1>7 DEF Run, Insert, Delete, Commit, SnapshotSkip, SnapshotBegin, CopyLegacy, CopyLog,
                CopyDb, SnapshotFails, Tick, Pass, history
  <2> QED
    BY <2>1, <2>2 DEF Pass, files, Lost, Newest
<1>8. CASE Crash \/ Shutdown
  <2>1. trust = "hurt" /\ pc # "up" /\ pc # "bootstrap" /\ copy = "idle"
    BY <1>8 DEF Crash, Shutdown, history, SnapsInUse
  <2>2. Crash /\ dir' = dir /\ pc' = "down" /\ snaps' = snaps
    BY <1>8, <2>1, CutShortKeeps DEF Crash, Shutdown, Halt
  <2> QED
    BY <2>1, <2>2 DEF Lost, Newest, TypeOK
<1>9. CASE LoseFile
  <2>1. dir'.db \in {Missing, Empty} \/ dir'.log \in {"missing", "empty"}
    BY <1>0, <1>9 DEF LoseFile, Directory
  <2> QED
    BY <1>9, <2>1 DEF LoseFile, Lost, Missing, Empty
<1>10. CASE UNCHANGED vars
  BY <1>10 DEF vars, files, history, Lost, Newest
<1> QED
  BY <1>1, <1>2, <1>3, <1>4, <1>5, <1>6, <1>7, <1>8, <1>9, <1>10 DEF Next, Boot

-----------------------------------------------------------------------------
(* The theorems.                                                           *)

\* Every part of the invariant holds in every reachable state.
THEOREM Invariance == Spec => []IInv
<1>1. Init => IInv
  BY InitIsInvariant
<1>2. IInv /\ [Next]_vars => IInv'
  BY TypeStep, SnapsInUseStep, PacedStep, StaysWholeStep, NoLegacyStep, LossIsSeenStep DEF IInv
<1> QED
  BY <1>1, <1>2, PTL DEF Spec

\* The files, snapshots and clocks of main.go and backup_manager.go keep their types.
THEOREM TypeCorrect == Spec => []TypeOK
<1>1. IInv => TypeOK
  BY DEF IInv
<1> QED
  BY <1>1, Invariance, PTL

\* Unless files are lost from outside, no crash, restart or half-made snapshot
\* costs a committed row, and only the merge of a dev.db (db_migration.go) adds any.
THEOREM NothingCommittedIsLost == Spec => []NothingLost
<1>1. IInv => NothingLost
  BY DEF IInv, StaysWhole, NothingLost
<1> QED
  BY <1>1, Invariance, PTL

\* While no snapshot fails, a running server's restore point is younger than two
\* intervals between any two calls, although a copy takes time and dates it later
\* than the tick (backup_manager.go, Run and createSnapshotIfNeeded).
THEOREM RestorePointStaysYoung == Spec => []RestorePointAge
<1>1. IInv => RestorePointAge
  <2> SUFFICES ASSUME IInv, pc = "up", call = "no", fails = 0
               PROVE  snaps # << >> /\ age < 2 * Interval
    BY DEF RestorePointAge
  <2>1. snaps # << >> /\ age <= timer + Interval
    BY DEF IInv, Paced
  <2>2. timer \in 0..(Interval - 1) /\ age \in 0..(2 * Interval) /\ Interval \in Nat
    BY BoundAssumption DEF IInv, TypeOK
  <2>3. timer <= Interval - 1 /\ timer \in Nat /\ age \in Nat
    BY <2>2
  <2> QED
    BY <2>1, <2>2, <2>3
<1> QED
  BY <1>1, Invariance, PTL

\* Without a dev.db a server that comes up after a loss holds the database of the
\* newest snapshot, however often the restore was cut short.
THEOREM NewestIsRestored == Spec => RestoresNewest
<1> DEFINE Step == pc = "open" /\ pc' = "up" /\ trust = "hurt" /\ ~hadLegacy
                       /\ snaps # << >> /\ Complete(Newest)
                     => dir'.db = Newest.db
<1>1. IInv /\ [Next]_vars => [Step]_vars
  <2> SUFFICES ASSUME IInv, [Next]_vars, pc = "open", pc' = "up", trust = "hurt",
                      ~hadLegacy, snaps # << >>, Complete(Newest)
               PROVE  dir'.db = Newest.db
    OBVIOUS
  <2>1. dir = Newest /\ dir.db.is = "whole" /\ dir \in Directory
    BY DEF IInv, LossIsSeen, Complete, TypeOK
  <2>2. Open
    BY DEF vars, Next, Boot, Restart, StartAgain, OpenLogs, MigrateNothing, Bootstrap, BootstrapEnds,
           EnsureMigrationSchema, Merge, MergeTorn, CheckHealthy, CheckHopeless, CheckLost, RemoveOne, Rename, OpenTorn,
           Run, Insert, Delete, Commit, SnapshotSkip, SnapshotBegin, CopyLegacy, CopyLog, CopyDb,
           SnapshotFails, Tick, Pass, Crash, Shutdown, Halt, LoseFile
  <2> QED
    BY <2>1, <2>2 DEF Open, Directory
<1> QED
  BY <1>1, Invariance, PTL DEF Spec, RestoresNewest
=============================================================================

----------------------------- MODULE Statistics -----------------------------
(***************************************************************************)
(* The number of files of a day (statMap, stat.json): counted along the    *)
(* way by saveFileMd5Log, counted anew by RepairStatByDate, saved by       *)
(* SaveStat, loaded by FormatStatInfo, returned by GetStat and summed up   *)
(* on the cards of the dashboard (getStat of js/main.js). AutoRepair takes *)
(* equal counts of two nodes for equal sets of files.md5 entries.          *)
(*                                                                         *)
(* Goroutines run side by side; only single calls on statMap, logDB, ldb   *)
(* and the disk are atomic. Sizes are counted like files and left out, so  *)
(* is the second record, under the md5 of the path.                        *)
(***************************************************************************)
EXTENDS Integers, Sequences, FiniteSets

CONSTANTS
    Workers,    \* upload and sync workers, WatchFilesChange, /repair_fileinfo
    Log,        \* ConsumerLog
    Repairers,  \* handlers of /repair_stat
    Files,      \* md5s
    PathOf,     \* the path a file is stored under
    NoDay,
    Empty, Torn,\* stat.json truncated; overwritten by something shorter
    Window,     \* 30 in the code
    MaxDay, MaxOps, MaxCrashes  \* bounds of the model

ASSUME StatisticsAssumption ==
    /\ NoDay \notin Nat
    /\ "none" \notin Files
    /\ IsFiniteSet(Files) /\ DOMAIN PathOf = Files
    /\ Window \in Nat \ {0, 1}
    /\ MaxDay \in Nat \ {0} /\ MaxOps \in Nat /\ MaxCrashes \in Nat

Procs == Workers \cup Repairers \cup {Log}
Days == 1 .. MaxDay

VARIABLES
    today,
    statMap,    \* count of a day, for the days that have one
    statFile,   \* stat.json
    ldb,        \* ldb[f]: the day of the record of f, or NoDay
    filesLog,   \* the files.md5 entries <<day, file>> of logDB
    disk,       \* the paths that exist
    seen,       \* FileInfos <<day, file>> there are, in posts and queues
    removes,    \* FileInfos in queueFileLog for removes.md5; two of a kind count as one
    unlinks,    \* files whose RemoveFile is before os.Remove
    proc,       \* proc[p]: its step and locals
    ops, crashes,
    \* history
    drifted,    \* days whose count may be wrong, for one of the reasons below
    raced       \* the last SaveStat calls overlapped, or stat.json was unreadable

count == <<statMap, statFile>>
store == <<ldb, filesLog, disk>>
queues == <<seen, removes, unlinks>>
history == <<drifted, raced>>
statVars == <<today, count, store, queues, proc, ops, crashes, history>>

Idle == [step |-> "idle", kind |-> "none", day |-> NoDay, file |-> "none", count |-> 0, stat |-> <<>>]
AllIdle == \A p \in Procs : proc[p] = Idle
Active(d) == {p \in Procs : proc[p].day = d}
Entries(d) == {f \in Files : <<d, f>> \in filesLog}
Count(stat, d) == IF d \in DOMAIN stat THEN stat[d] ELSE 0

\* Put and AddCountInt64 of CommonMap.
Put(d, n) == [x \in {d} \cup DOMAIN statMap |-> IF x = d THEN n ELSE statMap[x]]
AddCount(d, n) == Put(d, Count(statMap, d) + n)

\* A node that was started for the first time: FormatStatInfo found no stat.json.
StatInit ==
    /\ today = 1
    /\ statMap = [d \in {1} |-> 0] /\ statFile = statMap
    /\ ldb = [f \in Files |-> NoDay]
    /\ filesLog = {} /\ disk = {} /\ seen = {} /\ removes = {} /\ unlinks = {}
    /\ proc = [p \in Procs |-> Idle]
    /\ ops = 0 /\ crashes = 0
    /\ drifted = {} /\ raced = FALSE

-----------------------------------------------------------------------------
(* A goroutine's pass over a file. A record and its files.md5 entry, which *)
(* SaveFileInfoToLevelDB puts for every record, are two puts.              *)

At(p, step) == proc[p].step = step
Goto(p, step) == proc' = [proc EXCEPT ![p].step = step]
Done(p) == proc' = [proc EXCEPT ![p] = Idle]

\* A reason to drift: two passes over one file, or a pass while its day is counted.
Overlaps(d, f) ==
    {proc[q].day : q \in {r \in Procs : proc[r].file = f}} \cup
    (IF \E q \in Active(d) : proc[q].kind = "repair" \/ proc[q].file = f THEN {d} ELSE {})

Begin(p, kind, step, d, f) ==
    /\ proc[p] = Idle
    /\ proc' = [proc EXCEPT ![p] = [Idle EXCEPT !.step = step, !.kind = kind, !.day = d, !.file = f]]
    /\ seen' = seen \cup {<<d, f>>}

Op == ops < MaxOps /\ ops' = ops + 1

\* The file is put, and saveFileMd5Log(files.md5) called: of an upload, or of a
\* download of any day, whose wait in queueFileLog is left out.
SaveFileMd5Log(p, d, f) ==
    /\ Begin(p, "save", "check", d, f) /\ Op
    /\ disk' = disk \cup {PathOf[f]}
    /\ drifted' = drifted \cup Overlaps(d, f)
    /\ UNCHANGED <<today, count, ldb, filesLog, removes, unlinks, crashes, raced>>

Upload(p, f) == p \in Workers /\ SaveFileMd5Log(p, today, f)
Downloaded(f) == \E d \in 1 .. today : SaveFileMd5Log(Log, d, f)

\* Another: an entry that nobody counts. SaveFileInfoToLevelDB(ldb) on its own.
SaveFileInfo(p, d, f) ==
    /\ p \in Workers /\ Begin(p, "info", "record", d, f) /\ Op
    /\ drifted' = drifted \cup Overlaps(d, f) \cup (IF f \in Entries(d) THEN {} ELSE {d})
    /\ UNCHANGED <<today, count, ldb, filesLog, removes, unlinks, crashes, raced>>

\* postFileToPeer adds a peer to a FileInfo it holds, which may have been deleted.
PostFileToPeer(p, f) ==
    \E d \in 1 .. today : <<d, f>> \in seen /\ SaveFileInfo(p, d, f) /\ UNCHANGED disk

\* The announcement of a file that a peer migrates, and its download.
SyncFileInfo(p, f) == \E d \in 1 .. today : SaveFileInfo(p, d, f) /\ UNCHANGED disk

DownloadMigrated(p, f) ==
    \E d \in 1 .. today : SaveFileInfo(p, d, f) /\ disk' = disk \cup {PathOf[f]}

\* A file somebody put into the store; the day is that of its time of change.
WatchFilesChange(p, f) ==
    \E d \in 1 .. today : SaveFileInfo(p, d, f) /\ disk' = disk \cup {PathOf[f]}

RepairFileInfoFromFile(p, f) ==
    /\ PathOf[f] \in disk
    /\ \E d \in 1 .. today : SaveFileInfo(p, d, f) /\ UNCHANGED disk

\* /delete: the FileInfo goes to queueFileLog, then the file.
RemoveFile(f) ==
    /\ ldb[f] # NoDay /\ PathOf[f] \in disk
    /\ Op
    /\ removes' = removes \cup {<<ldb[f], f>>}
    /\ unlinks' = unlinks \cup {f}
    /\ UNCHANGED <<today, count, store, seen, proc, crashes, history>>

Unlink(f) ==
    /\ f \in unlinks
    /\ unlinks' = unlinks \ {f}
    /\ disk' = disk \ {PathOf[f]}
    /\ UNCHANGED <<today, count, ldb, filesLog, seen, removes, proc, ops, crashes, history>>

\* ConsumerLog: saveFileMd5Log(removes.md5).
ConsumerLog(d, f) ==
    /\ <<d, f>> \in removes /\ removes' = removes \ {<<d, f>>}
    /\ Begin(Log, "remove", "check", d, f)
    /\ drifted' = drifted \cup Overlaps(d, f)
    /\ UNCHANGED <<today, count, store, unlinks, ops, crashes, raced>>

\* Another: record and entry do not go together when the record is looked up.
Astray(d, f) == IF (ldb[f] # NoDay) # (f \in Entries(d)) THEN {d} ELSE {}

\* Mutated: without a look at the record.
CheckNot(p) ==
    /\ At(p, "check")
    /\ Goto(p, "add")
    /\ drifted' = drifted \cup Astray(proc[p].day, proc[p].file)
    /\ UNCHANGED <<today, count, store, queues, ops, crashes, raced>>

Check(p) ==
    /\ At(p, "check")
    /\ LET counts == (ldb[proc[p].file] = NoDay) = (proc[p].kind = "save")
       IN  Goto(p, IF counts THEN "add" ELSE "log")
    /\ drifted' = drifted \cup Astray(proc[p].day, proc[p].file)
    /\ UNCHANGED <<today, count, store, queues, ops, crashes, raced>>

Add(p) ==
    /\ At(p, "add")
    /\ statMap' = AddCount(proc[p].day, IF proc[p].kind = "save" THEN 1 ELSE -1)
    /\ Goto(p, "get")
    /\ UNCHANGED <<today, statFile, store, queues, ops, crashes, history>>

\* files.md5: the entry, the record, the entry again. removes.md5: the record,
\* then the entry.
PutEntry(p) ==
    /\ \/ At(p, "log") /\ proc[p].kind = "save" /\ Goto(p, "record")
       \/ At(p, "again") /\ Done(p)
    /\ filesLog' = filesLog \cup {<<proc[p].day, proc[p].file>>}
    /\ UNCHANGED <<today, count, ldb, disk, queues, ops, crashes, history>>

SaveRecord(p) ==
    /\ At(p, "record") /\ proc[p].kind # "remove"
    /\ ldb' = [ldb EXCEPT ![proc[p].file] = proc[p].day]
    /\ Goto(p, "again")
    /\ UNCHANGED <<today, count, filesLog, disk, queues, ops, crashes, history>>

RemoveRecord(p) ==
    /\ At(p, "log") /\ proc[p].kind = "remove"
    /\ ldb' = [ldb EXCEPT ![proc[p].file] = NoDay]
    /\ Goto(p, "record")
    /\ UNCHANGED <<today, count, filesLog, disk, queues, ops, crashes, history>>

RemoveEntry(p) ==
    /\ At(p, "record") /\ proc[p].kind = "remove"
    /\ filesLog' = filesLog \ {<<proc[p].day, proc[p].file>>}
    /\ Done(p)
    /\ UNCHANGED <<today, count, ldb, disk, queues, ops, crashes, history>>

-----------------------------------------------------------------------------
(* SaveStat: a copy of statMap, os.OpenFile with O_TRUNC, and the write.   *)

Saving == {q \in Procs : proc[q].step \in {"open", "write"}}

GetStatMap(p) ==
    /\ At(p, "get")
    /\ proc' = [proc EXCEPT ![p].step = "open", ![p].stat = statMap]
    /\ raced' = (Saving # {})
    /\ UNCHANGED <<today, count, store, queues, ops, crashes, drifted>>

OpenStat(p) ==
    /\ At(p, "open")
    /\ statFile' = Empty
    /\ Goto(p, "write")
    /\ UNCHANGED <<today, statMap, store, queues, ops, crashes, history>>

\* What another wrote since stays behind the end if it was longer.
WriteStat(p) ==
    /\ At(p, "write")
    /\ \/ statFile' = proc[p].stat
       \/ statFile # Empty /\ statFile' = Torn
    /\ IF proc[p].kind = "repair"
       THEN Done(p)
       ELSE proc' = [proc EXCEPT ![p].step = "log", ![p].stat = <<>>]
    /\ UNCHANGED <<today, statMap, store, queues, ops, crashes, history>>

-----------------------------------------------------------------------------
(* RepairStatByDate.                                                       *)

\* Entries whose file is gone are skipped, a path counts once.
Found(d) == {PathOf[f] : f \in Entries(d)} \cap disk

\* The iterator sees logDB as it is now. The count is right again if nothing is at
\* work on the day and each entry has a file of its own; else it drifts.
Scan(p, d) ==
    /\ p \in Repairers /\ proc[p] = Idle
    /\ Op
    /\ proc' = [proc EXCEPT ![p] = [Idle EXCEPT !.step = "put", !.kind = "repair", !.day = d,
                                                !.count = Cardinality(Found(d))]]
    /\ drifted' = IF Active(d) = {} /\ Cardinality(Found(d)) = Cardinality(Entries(d))
                  THEN drifted \ {d} ELSE drifted \cup {d}
    /\ UNCHANGED <<today, count, store, queues, crashes, raced>>

\* Mutated: the count is not saved.
PutCountUnsaved(p) ==
    /\ At(p, "put")
    /\ statMap' = Put(proc[p].day, proc[p].count)
    /\ Done(p)
    /\ UNCHANGED <<today, statFile, store, queues, ops, crashes, history>>

PutCount(p) ==
    /\ At(p, "put")
    /\ statMap' = Put(proc[p].day, proc[p].count)
    /\ Goto(p, "get")
    /\ UNCHANGED <<today, statFile, store, queues, ops, crashes, history>>

-----------------------------------------------------------------------------
(* The rest of the node.                                                   *)

\* The record of a file that is gone is dropped, its entry and count stay.
CheckFileExist(f) ==
    /\ ldb[f] # NoDay /\ PathOf[f] \notin disk
    /\ ldb' = [ldb EXCEPT ![f] = NoDay]
    /\ Op
    /\ UNCHANGED <<today, count, filesLog, disk, queues, proc, crashes, history>>

NewDay ==
    /\ today < MaxDay
    /\ today' = today + 1
    /\ UNCHANGED <<count, store, queues, proc, ops, crashes, history>>

Readable == statFile \notin {Empty, Torn}

\* A crash and the next start: NewServer puts the day, FormatStatInfo what it can
\* read. Nothing is lost if nothing was at work.
Restart ==
    /\ crashes < MaxCrashes /\ crashes' = crashes + 1
    /\ proc' = [p \in Procs |-> Idle]
    /\ removes' = {} /\ unlinks' = {}
    /\ statMap' = IF Readable THEN [d \in {today} \cup DOMAIN statFile |-> Count(statFile, d)]
                  ELSE [d \in {today} |-> 0]
    /\ drifted' = IF AllIdle /\ Readable /\ ~raced THEN drifted ELSE Days
    /\ raced' = ~Readable
    /\ UNCHANGED <<today, statFile, store, seen, ops>>

Step(p) ==
    \/ Check(p) \/ Add(p) \/ PutEntry(p) \/ SaveRecord(p) \/ RemoveRecord(p) \/ RemoveEntry(p)
    \/ GetStatMap(p) \/ OpenStat(p) \/ WriteStat(p)
    \/ PutCount(p)

StatNext ==
    \/ \E f \in Files :
         \/ \E p \in Workers :
              \/ Upload(p, f) \/ PostFileToPeer(p, f) \/ SyncFileInfo(p, f) \/ DownloadMigrated(p, f)
              \/ WatchFilesChange(p, f) \/ RepairFileInfoFromFile(p, f)
         \/ Downloaded(f) \/ RemoveFile(f) \/ Unlink(f) \/ CheckFileExist(f)
         \/ \E d \in Days : ConsumerLog(d, f)
    \/ \E p \in Repairers, d \in 1 .. today : Scan(p, d)
    \/ \E p \in Procs : Step(p)
    \/ NewDay \/ Restart

StatSpec == StatInit /\ [][StatNext]_statVars

-----------------------------------------------------------------------------
(* What is shown. A row is [all, n]; the row "all" is the last.            *)

\* GetStat's loop over the days: what it has when day d is done.
Loop[d \in 0 .. MaxDay] ==
    IF d = 0 THEN [rows |-> <<>>, total |-> 0]
    ELSE IF d \notin DOMAIN statMap THEN Loop[d - 1]
    ELSE [rows |-> Append(Loop[d - 1].rows, [all |-> FALSE, n |-> statMap[d]]),
          total |-> Loop[d - 1].total + statMap[d]]

GetStat == Append(Loop[MaxDay].rows, [all |-> TRUE, n |-> Loop[MaxDay].total])

\* dayFileCount: the rows with i > j = length - 30, i counted from 0.
DayTotal(rows) ==
    LET sum[i \in 0 .. Len(rows)] ==
          IF i = 0 THEN 0
          ELSE IF ~rows[i].all /\ i + Window > Len(rows) + 1 THEN sum[i - 1] + rows[i].n
          ELSE sum[i - 1]
    IN  sum[Len(rows)]

\* totalFileCount: the text set last.
AllTotal(rows) ==
    LET text[i \in 0 .. Len(rows)] ==
          IF i = 0 THEN 0 ELSE IF rows[i].all THEN rows[i].n ELSE text[i - 1]
    IN  text[Len(rows)]

-----------------------------------------------------------------------------

StatTypeOK ==
    /\ today \in Days
    /\ DOMAIN statMap \subseteq Days /\ \A d \in DOMAIN statMap : statMap[d] \in Int
    /\ Readable => DOMAIN statFile \subseteq Days
    /\ ldb \in [Files -> Days \cup {NoDay}]
    /\ filesLog \subseteq seen /\ seen \subseteq Days \X Files
    /\ removes \subseteq Days \X Files /\ unlinks \subseteq Files
    /\ \A p \in Procs : proc[p] = Idle <=> At(p, "idle")
    /\ drifted \subseteq Days /\ raced \in BOOLEAN

\* When nothing is at work, the count of a day is the number of its files.md5
\* entries, the ones AutoRepair exchanges when counts differ; unless, since it was
\* last counted anew, passes over one file or a pass and a repair overlapped, record
\* and entry had come apart, an entry was put that nobody counts, or a crash cut
\* something short; or that repair missed entries, their files being gone.
CountExact ==
    AllIdle => \A d \in Days \ drifted : Count(statMap, d) = Cardinality(Entries(d))

\* Then stat.json, too, says what statMap does, unless the last SaveStat calls
\* overlapped or it was not readable: a restart loses no count.
SavedExact == AllIdle /\ ~raced => \A d \in Days : Count(statFile, d) = Count(statMap, d)

\* The counts of some days together.
CountOf(days) ==
    LET sum[d \in 0 .. MaxDay] ==
          IF d = 0 THEN 0
          ELSE IF d \in days THEN sum[d - 1] + Count(statMap, d)
          ELSE sum[d - 1]
    IN  sum[MaxDay]

\* The days with a count that fewer than Window - 2 such days follow.
LastDays ==
    {d \in DOMAIN statMap : Cardinality({e \in DOMAIN statMap : e > d}) < Window - 2}

\* What the cards show: that of all files the counts of all days together, that of
\* Window days those of the last Window - 2 days that have one, since i > j leaves out
\* one row, the row "all" takes the place of another, and a day without count has none.
CardsShowSums ==
    /\ AllTotal(GetStat) = CountOf(Days)
    /\ DayTotal(GetStat) = CountOf(LastDays)

\* What the second card's title says (dashbord.html:39): the files of Window days.
\* It does not hold.
CardOfWindow == DayTotal(GetStat) = CountOf({d \in Days : d > today - Window})
=============================================================================

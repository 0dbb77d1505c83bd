---------------------------- MODULE PeerDownload ----------------------------
(***************************************************************************)
(* DownloadFromPeer on one node, for whole files (OffSet -1,               *)
(* EnableDistinctFile), with what runs beside it: other workers, the sweep *)
(* of empty folders (cleanEmptyFolders) and the removal of downloads that  *)
(* seem to be stuck (RemoveDownloading), over crashes.                     *)
(*                                                                         *)
(* Composed with KeyLock: Procs are the workers of queueFromPeers, Keys    *)
(* the target paths. A file is the set of the chunks written to it; one    *)
(* action is one operation on a file, ldb, the queue or the lock. A worker *)
(* that was overtaken after a handoff goes on writing to its descriptor,   *)
(* wherever the file has gone.                                             *)
(***************************************************************************)
EXTENDS KeyLock, Naturals

CONSTANTS
    Folders, Folder,    \* Folder[k]: where path k is
    Plain,              \* paths without "_", which RemoveDownloading can read
    NoFile, NoFolder,
    Size,               \* chunks of a file
    RetryCount,
    MaxPosts, MaxFaults, MaxCrashes     \* bounds of the model

ASSUME PeerDownloadAssumption ==
    /\ Folder \in [Keys -> Folders] /\ NoFolder \notin Folders
    /\ Plain \subseteq Keys
    /\ Size \in Nat \ {0} /\ RetryCount \in Nat
    /\ \A chunks \in SUBSET (1 .. Size) : chunks # NoFile
    /\ MaxPosts \in Nat /\ MaxFaults \in Nat /\ MaxCrashes \in Nat

VARIABLES
    queue,      \* queue[k][r]: entries of queueFromPeers for k with retry r
    job,        \* job[p]: the call of DownloadFromPeer of worker p
    tmp, disk,  \* the files tmp_k and k
    folders,    \* the folders there are
    orphans,    \* downloading_ entries of processes that died <<k, age>>
    reap,       \* paths RemoveDownloading has read and not yet removed
    look,       \* the folder that cleanEmptyFolders found empty
    logged,     \* paths handed to SaveFileMd5Log
    counts,     \* posts, faults and crashes so far
    \* history
    dated,      \* paths with an entry that got older than ten minutes
    swept,      \* paths begun between the look at their folder and its removal
    left        \* paths whose download was cut short by a crash

fileVars == <<tmp, disk, folders>>
cleanVars == <<orphans, reap, look>>
history == <<dated, swept, left>>
fetchVars == <<vars, queue, job, fileVars, cleanVars, logged, counts, history>>

LastRetry == IF RetryCount = 0 THEN 1 ELSE RetryCount
NoEntries == [r \in 0 .. LastRetry |-> 0]

NoJob == [step |-> "idle", file |-> NoKey, retry |-> 0, got |-> 0, writes |-> "none", mark |-> "none"]

Whole == 1 .. Size
\* os.Stat tells the size only: the last chunk is there, whatever is before it.
InSize(content) == content # NoFile /\ Size \in content

FetchInit ==
    /\ Init
    /\ queue = [k \in Keys |-> NoEntries]
    /\ job = [p \in Procs |-> NoJob]
    /\ tmp = [k \in Keys |-> NoFile] /\ disk = tmp
    /\ folders = {}
    /\ orphans = {} /\ reap = {} /\ look = NoFolder
    /\ logged = {}
    /\ counts = [posts |-> 0, faults |-> 0, crashes |-> 0]
    /\ dated = {} /\ swept = {} /\ left = {}

\* The job of every q whose descriptor is of file k at "from" now is at "to".
Moved(jobs, k, from, to) ==
    [q \in Procs |-> IF jobs[q].file = k /\ jobs[q].writes = from
                     THEN [jobs[q] EXCEPT !.writes = to] ELSE jobs[q]]

At(p, step) == job[p].step = step /\ pc[p] = "crit"
Goto(p, step) == job' = [job EXCEPT ![p].step = step]
Counted(what, bound) == counts[what] < bound /\ counts' = [counts EXCEPT ![what] = @ + 1]

-----------------------------------------------------------------------------
(* The queue.                                                              *)

\* SyncFileInfo appends what a peer posts, LoadQueueSendToPeer what it posted before
\* a crash. Room in the queue is a matter of SyncQueue.
Post(k) ==
    /\ Counted("posts", MaxPosts)
    /\ queue' = [queue EXCEPT ![k][0] = @ + 1]
    /\ UNCHANGED <<vars, job, fileVars, cleanVars, logged, history>>

Taken(p, k, r) ==
    /\ job[p] = NoJob
    /\ queue[k][r] > 0
    /\ queue' = [queue EXCEPT ![k][r] = @ - 1]

\* Retries used up, or a file of that size is there.
Needless(p, k, r) ==
    /\ Taken(p, k, r)
    /\ r >= LastRetry \/ InSize(disk[k])
    /\ UNCHANGED <<vars, job, fileVars, cleanVars, logged, counts, history>>

\* Mutated: the retries are not limited.
BeginAgain(p, k, r) ==
    /\ Taken(p, k, r)
    /\ ~InSize(disk[k])
    /\ folders' = folders \cup {Folder[k]}
    /\ job' = [job EXCEPT ![p] = [NoJob EXCEPT !.step = "lock", !.file = k, !.retry = r + 1]]
    /\ UNCHANGED <<vars, tmp, disk, cleanVars, logged, counts, history>>

\* MkdirAll, before the lock.
Begin(p, k, r) ==
    /\ Taken(p, k, r)
    /\ r < LastRetry /\ ~InSize(disk[k])
    /\ folders' = folders \cup {Folder[k]}
    /\ job' = [job EXCEPT ![p] = [NoJob EXCEPT !.step = "lock", !.file = k, !.retry = r + 1]]
    /\ UNCHANGED <<vars, tmp, disk, cleanVars, logged, counts, history>>

-----------------------------------------------------------------------------
(* The download.                                                           *)

\* LockKey(fpath).
Lock(p) ==
    /\ job[p].step = "lock"
    /\ LockNew(p, job[p].file) \/ LockFound(p, job[p].file)
    /\ Goto(p, "mark")
    /\ UNCHANGED <<queue, fileVars, cleanVars, logged, counts, history>>

FetchEnter(p) ==
    /\ Acquire(p)
    /\ UNCHANGED <<queue, job, fileVars, cleanVars, logged, counts, history>>

\* ldb.Put("downloading_<now>_<fpath>").
PutMark(p) ==
    /\ At(p, "mark")
    /\ job' = [job EXCEPT ![p].step = "request", ![p].mark = "new"]
    /\ UNCHANGED <<vars, queue, fileVars, cleanVars, logged, counts, history>>

\* ToFile: the peer answers; pathExistAndMkdir.
Answered(p) ==
    /\ At(p, "request")
    /\ folders' = folders \cup {Folder[key[p]]}
    /\ Goto(p, "create")
    /\ UNCHANGED <<vars, queue, tmp, disk, cleanVars, logged, counts, history>>

\* os.Create(tmp_): a file that is there is truncated.
Create(p) ==
    /\ At(p, "create") /\ Folder[key[p]] \in folders
    /\ tmp' = [tmp EXCEPT ![key[p]] = {}]
    /\ job' = [job EXCEPT ![p].step = "copy", ![p].writes = "tmp"]
    /\ swept' = IF look = Folder[key[p]] THEN swept \cup {key[p]} ELSE swept
    /\ UNCHANGED <<vars, queue, disk, folders, cleanVars, logged, counts, dated, left>>

\* io.Copy, one chunk; the file is closed after the last.
Copy(p) ==
    /\ At(p, "copy")
    /\ LET k == key[p]
           n == job[p].got + 1
           Put(file, at) == IF job[p].writes = at THEN [file EXCEPT ![k] = @ \cup {n}] ELSE file
           done == IF n < Size THEN [job[p] EXCEPT !.got = n]
                   ELSE [job[p] EXCEPT !.got = n, !.step = "check", !.writes = "none"]
       IN  /\ job' = [job EXCEPT ![p] = done]
           /\ tmp' = Put(tmp, "tmp")
           /\ disk' = Put(disk, "disk")
    /\ UNCHANGED <<vars, queue, folders, cleanVars, logged, counts, history>>

\* The peer answers with an error page: ToFile looks at no status.
ErrorPage(p) ==
    /\ At(p, "copy") /\ job[p].got = 0
    /\ Counted("faults", MaxFaults)
    /\ job' = [job EXCEPT ![p].step = "check", ![p].writes = "none"]
    /\ UNCHANGED <<vars, queue, fileVars, cleanVars, logged, history>>

\* AppendToDownloadQueue, still under the lock; the temporary file goes after it.
Retry(p) ==
    /\ queue' = [queue EXCEPT ![key[p]][job[p].retry] = @ + 1]
    /\ job' = [job EXCEPT ![p].step = "drop", ![p].writes = "none"]

\* No answer, or a connection that breaks.
Breaks(p) ==
    /\ At(p, "request") \/ At(p, "copy")
    /\ Counted("faults", MaxFaults)
    /\ Retry(p)
    /\ UNCHANGED <<vars, fileVars, cleanVars, logged, history>>

\* The folder is gone again.
CreateFails(p) ==
    /\ At(p, "create") /\ Folder[key[p]] \notin folders
    /\ Retry(p)
    /\ UNCHANGED <<vars, fileVars, cleanVars, logged, counts, history>>

\* os.Remove(fpathTmp).
Drop(p) ==
    /\ At(p, "drop")
    /\ tmp' = [tmp EXCEPT ![key[p]] = NoFile]
    /\ job' = [Moved(job, key[p], "tmp", "gone") EXCEPT ![p].step = "unmark"]
    /\ UNCHANGED <<vars, queue, disk, folders, cleanVars, logged, counts, history>>

\* Mutated: the size is not compared.
SizeRightUnseen(p) ==
    /\ At(p, "check") /\ tmp[key[p]] # NoFile
    /\ Goto(p, "rename")
    /\ UNCHANGED <<vars, queue, fileVars, cleanVars, logged, counts, history>>

SizeRight(p) ==
    /\ At(p, "check") /\ InSize(tmp[key[p]])
    /\ Goto(p, "rename")
    /\ UNCHANGED <<vars, queue, fileVars, cleanVars, logged, counts, history>>

\* Another size, or no file at all: given up without a retry.
SizeWrong(p) ==
    /\ At(p, "check") /\ ~InSize(tmp[key[p]])
    /\ tmp' = [tmp EXCEPT ![key[p]] = NoFile]
    /\ job' = [Moved(job, key[p], "tmp", "gone") EXCEPT ![p].step = "unmark"]
    /\ UNCHANGED <<vars, queue, disk, folders, cleanVars, logged, counts, history>>

\* os.Rename(fpathTmp, fpath).
Rename(p) ==
    /\ At(p, "rename") /\ tmp[key[p]] # NoFile
    /\ disk' = [disk EXCEPT ![key[p]] = tmp[key[p]]]
    /\ tmp' = [tmp EXCEPT ![key[p]] = NoFile]
    /\ job' = [Moved(Moved(job, key[p], "disk", "gone"), key[p], "tmp", "disk") EXCEPT ![p].step = "log"]
    /\ UNCHANGED <<vars, queue, folders, cleanVars, logged, counts, history>>

RenameFails(p) ==
    /\ At(p, "rename") /\ tmp[key[p]] = NoFile
    /\ Goto(p, "unmark")
    /\ UNCHANGED <<vars, queue, fileVars, cleanVars, logged, counts, history>>

\* SaveFileMd5Log.
Log(p) ==
    /\ At(p, "log")
    /\ logged' = logged \cup {key[p]}
    /\ Goto(p, "unmark")
    /\ UNCHANGED <<vars, queue, fileVars, cleanVars, counts, history>>

\* The deferred calls, the last first: ldb.Delete, UnLockKey.
Unmark(p) ==
    /\ At(p, "unmark")
    /\ job' = [job EXCEPT ![p].step = "unlock", ![p].mark = "none"]
    /\ UNCHANGED <<vars, queue, fileVars, cleanVars, logged, counts, history>>

Unlock(p) ==
    /\ At(p, "unlock")
    /\ UnLockKey(p)
    /\ job' = [job EXCEPT ![p] = NoJob]
    /\ UNCHANGED <<queue, fileVars, cleanVars, logged, counts, history>>

-----------------------------------------------------------------------------
(* Cleaning. Both jobs run in one goroutine each, all day long.            *)

\* A downloading_ entry is ten minutes old.
Age(p) ==
    /\ job[p].mark = "new"
    /\ job' = [job EXCEPT ![p].mark = "old"]
    /\ dated' = dated \cup {key[p]}
    /\ UNCHANGED <<vars, queue, fileVars, cleanVars, logged, counts, swept, left>>

AgeOrphan(k) ==
    /\ <<k, "new">> \in orphans
    /\ orphans' = (orphans \ {<<k, "new">>}) \cup {<<k, "old">>}
    /\ dated' = dated \cup {k}
    /\ UNCHANGED <<vars, queue, job, fileVars, reap, look, logged, counts, swept, left>>

\* Mutated: whatever its age.
ReadMarksAll ==
    /\ reap = {}
    /\ reap' = {k \in Plain : \/ <<k, "old">> \in orphans
                              \/ \E p \in Procs : key[p] = k /\ job[p].mark # "none"}
    /\ reap' # {}
    /\ UNCHANGED <<vars, queue, job, fileVars, orphans, look, logged, counts, history>>

\* RemoveDownloading: the iterator is a snapshot, and no entry is ever deleted.
ReadMarks ==
    /\ reap = {}
    /\ reap' = {k \in Plain : \/ <<k, "old">> \in orphans
                              \/ \E p \in Procs : key[p] = k /\ job[p].mark = "old"}
    /\ reap' # {}
    /\ UNCHANGED <<vars, queue, job, fileVars, orphans, look, logged, counts, history>>

\* os.Remove of the target, not of the temporary file.
RemoveTarget(k) ==
    /\ k \in reap
    /\ reap' = reap \ {k}
    /\ disk' = [disk EXCEPT ![k] = NoFile]
    /\ job' = Moved(job, k, "disk", "gone")
    /\ UNCHANGED <<vars, queue, tmp, folders, orphans, look, logged, counts, history>>

FilesIn(d) == {k \in Keys : Folder[k] = d /\ (tmp[k] # NoFile \/ disk[k] # NoFile)}

\* isEmptyDir.
LookEmpty(d) ==
    /\ look = NoFolder
    /\ d \in folders /\ FilesIn(d) = {}
    /\ look' = d
    /\ UNCHANGED <<vars, queue, job, fileVars, orphans, reap, logged, counts, history>>

\* os.RemoveAll: with what is in it by now, at one stroke.
RemoveAll ==
    /\ look # NoFolder
    /\ folders' = folders \ {look}
    /\ tmp' = [k \in Keys |-> IF Folder[k] = look THEN NoFile ELSE tmp[k]]
    /\ disk' = [k \in Keys |-> IF Folder[k] = look THEN NoFile ELSE disk[k]]
    /\ job' = [p \in Procs |-> IF job[p].writes # "none" /\ Folder[job[p].file] = look
                               THEN [job[p] EXCEPT !.writes = "gone"] ELSE job[p]]
    /\ look' = NoFolder
    /\ UNCHANGED <<vars, queue, orphans, reap, logged, counts, history>>

\* The process dies and starts again: the queue is gone, files and ldb stay.
FetchCrash ==
    /\ Counted("crashes", MaxCrashes)
    /\ slot' = [k \in Keys |-> NoMutex] /\ flag' = [k \in Keys |-> FALSE] /\ locked' = {}
    /\ pc' = [p \in Procs |-> "idle"] /\ key' = [p \in Procs |-> NoKey]
    /\ mtx' = [p \in Procs |-> NoMutex]
    /\ queue' = [k \in Keys |-> NoEntries]
    /\ job' = [p \in Procs |-> NoJob]
    /\ orphans' = orphans \cup {<<key[p], job[p].mark>> : p \in {q \in Procs : job[q].mark # "none"}}
    /\ reap' = {} /\ look' = NoFolder
    /\ left' = left \cup {key[p] : p \in {q \in Procs : pc[q] = "crit"}}
    /\ UNCHANGED <<handoff, fileVars, logged, dated, swept>>

-----------------------------------------------------------------------------

Take(p) == \E k \in Keys, r \in 0 .. LastRetry : Needless(p, k, r) \/ Begin(p, k, r)

Step(p) ==
    \/ Lock(p) \/ PutMark(p) \/ Answered(p) \/ Create(p) \/ CreateFails(p)
    \/ Copy(p) \/ Drop(p)
    \/ SizeRight(p) \/ SizeWrong(p) \/ Rename(p) \/ RenameFails(p)
    \/ Log(p) \/ Unmark(p) \/ Unlock(p)

Clean ==
    \/ \E p \in Procs : Age(p)
    \/ \E k \in Keys : AgeOrphan(k) \/ RemoveTarget(k)
    \/ ReadMarks
    \/ \E d \in Folders : LookEmpty(d)
    \/ RemoveAll

FetchNext ==
    \/ \E k \in Keys : Post(k)
    \/ \E p \in Procs : Take(p) \/ FetchEnter(p) \/ Step(p) \/ ErrorPage(p) \/ Breaks(p)
    \/ Clean
    \/ FetchCrash

FetchSpec == FetchInit /\ [][FetchNext]_fetchVars

-----------------------------------------------------------------------------

FetchTypeOK ==
    /\ TypeOK
    /\ queue \in [Keys -> [0 .. LastRetry -> Nat]]
    /\ \A k \in Keys : \A content \in {tmp[k], disk[k]} \ {NoFile} : content \subseteq Whole
    /\ \A p \in Procs :
         /\ job[p].retry \in 0 .. LastRetry /\ job[p].got \in 0 .. Size
         /\ pc[p] # "idle" => job[p].file = key[p]
         /\ job[p].mark # "none" => pc[p] = "crit"
         /\ job[p].writes # "none" => At(p, "copy")
    /\ \A k \in Keys : tmp[k] # NoFile \/ disk[k] # NoFile => Folder[k] \in folders
    /\ reap \subseteq Plain /\ logged \cup dated \cup swept \cup left \subseteq Keys

\* What stands under the name of a file is all of the file, whatever broke or
\* crashed on the way to it, and nothing else is left unless a crash cut a
\* download short; until an UnLockKey of the path meets a waiting call: then two
\* downloads share one temporary file.
WholeUntilHandoff ==
    \A k \in Keys : ~handoff[k] =>
        /\ disk[k] \in {NoFile, Whole}
        /\ k \notin left /\ (\A p \in Procs : key[p] # k) => tmp[k] = NoFile

\* A download that was reported stays on disk, but for three ways to lose it: a
\* handoff of its lock, an entry of the path that got too old (a slow download, or
\* one that a crash cut short, however long ago) and RemoveDownloading read, or a
\* start in a folder that was about to be removed.
LoggedStays == \A k \in logged : ~handoff[k] /\ k \notin dated \cup swept => InSize(disk[k])
=============================================================================

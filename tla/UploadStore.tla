---------------------------- MODULE UploadStore ----------------------------
(***************************************************************************)
(* One node of go-fastdfs: the files on its disk, its metadata databases   *)
(* (ldb, logDB), and the goroutines that change both:                      *)
(*   - upload workers   (ConsumerUpload -> upload -> SaveUploadFile ->     *)
(*                       saveFileMd5Log)                                   *)
(*   - RemoveFile       (/delete)                                          *)
(*   - CheckFileExist   (/check_file_exist)                                *)
(*   - ConsumerLog      (queueFileLog -> saveFileMd5Log)                   *)
(*   - postFileToPeer   (only what it does to this node's ldb)             *)
(* and the crash and restart of the process.                               *)
(*                                                                         *)
(* A file is its content; the md5 of a content is the content itself.      *)
(* Small-file merging, replication and the statistics are other modules'.  *)
(* One action is one file system call, database call or queue operation,   *)
(* with the computation around it.                                         *)
(***************************************************************************)
EXTENDS Naturals, Sequences

CONSTANTS
    Contents,           \* contents clients upload
    EmptyFile,          \* the content of size 0 (a member of Contents or not)
    Names,              \* file names (within one scene/minute folder)
    ReNames,            \* values of the form field "filename"; NoName: absent
    NoName,
    MaxDup,             \* renamings tried by SaveUploadFile (10000 in the code)
    Workers,            \* UploadWorker goroutines
    Removers,           \* /delete requests being served at once
    Checkers,           \* /check_file_exist requests being served at once
    MaxLog,             \* capacity of queueFileLog (10000 in the code)
    EnableDistinctFile, \* configuration: one copy per content
    NoContent, Partial, \* no file / a file whose content is incomplete
    NoPath

ASSUME ConstantsAssumption ==
    /\ MaxDup \in Nat
    /\ MaxLog \in Nat
    /\ EnableDistinctFile \in BOOLEAN
    /\ ReNames \subseteq Names \cup {NoName}
    /\ NoName \notin Names
    /\ NoContent \notin Contents /\ Partial \notin Contents /\ NoContent # Partial
    /\ NoPath \notin Names \X (0 .. MaxDup)

\* <<n, 0>> is folder/n, <<n, i>> is folder/{i-1}_..._0_n.
Paths == Names \X (0 .. MaxDup)

\* What the client and RemoveFile know of a file: its md5 and its path.
Records == Contents \X Paths

VARIABLES
    disk,       \* disk[p]: Contents, Partial or NoContent
    ldb,        \* ldb[m]: the path in the record stored under md5 m, or NoPath
    ldbPath,    \* ldbPath[p]: the md5 in the record under MD5(p), or NoContent
    logDB,      \* the md5s with a files.md5 entry of the day
    queueFileLog, \* removes.md5 entries waiting for ConsumerLog
    wk,         \* wk[w]: state of an upload worker
    rm,         \* rm[r]: state of a /delete request
    ck,         \* ck[c]: state of a /check_file_exist request
    cl,         \* state of ConsumerLog
    posting,    \* records postFileToPeer goroutines carry to the peers
    \* history
    acked,      \* records whose URL an upload returned with success
    doomed,     \* md5s whose deletion was requested
    orig,       \* orig[p]: content of the first upload that chose path p
    recorded,   \* paths that were ever stored in a record
    clash       \* an upload chose a path chosen before, or recorded a path
                \* other than the one it wrote

vars == <<disk, ldb, ldbPath, logDB, queueFileLog, wk, rm, ck, cl, posting,
          acked, doomed, orig, recorded, clash>>
store == <<disk, ldb, ldbPath, logDB>>
history == <<acked, doomed, orig, recorded, clash>>

-----------------------------------------------------------------------------

IdleWorker == [pc |-> "idle", sent |-> NoContent, md5 |-> NoContent,
               path |-> NoPath, out |-> NoPath, old |-> NoPath]
IdleRequest == [pc |-> "idle", md5 |-> NoContent, path |-> NoPath]

Init ==
    /\ disk = [p \in Paths |-> NoContent]
    /\ ldb = [m \in Contents |-> NoPath]
    /\ ldbPath = [p \in Paths |-> NoContent]
    /\ logDB = {}
    /\ queueFileLog = <<>>
    /\ wk = [w \in Workers |-> IdleWorker]
    /\ rm = [r \in Removers |-> IdleRequest]
    /\ ck = [c \in Checkers |-> IdleRequest]
    /\ cl = IdleRequest
    /\ posting = {}
    /\ acked = {}
    /\ doomed = {}
    /\ orig = [p \in Paths |-> NoContent]
    /\ recorded = {}
    /\ clash = FALSE

-----------------------------------------------------------------------------
(* SaveUploadFile: choose the path, create, copy, sum.                     *)

\* The paths tried for a file named n, with form field filename = r.
Candidate(n, r, i) == IF i = 0 /\ r # NoName THEN <<r, 0>> ELSE <<n, i>>

\* FileExists(outPath) for i = 0, 1, ...: the first that does not exist. With
\* EnableDistinctFile off there is no loop and the first is taken. The bound:
\* fewer than MaxDup files of a name in a folder.
Chosen(n, r, p) ==
    IF EnableDistinctFile
    THEN \E i \in 0 .. MaxDup :
            /\ p = Candidate(n, r, i)
            /\ disk[p] = NoContent
            /\ \A j \in 0 .. i - 1 : disk[Candidate(n, r, j)] # NoContent
    ELSE p = Candidate(n, r, 0)

\* The record keeps ReName, the loop renames Name only.
RecordPath(r, p) == IF r # NoName THEN <<r, 0>> ELSE p

ChoosePath(w) ==
    /\ wk[w].pc = "idle"
    /\ \E m \in Contents, n \in Names, r \in ReNames : \E p \in Paths :
         /\ Chosen(n, r, p)
         /\ wk' = [wk EXCEPT ![w] = [IdleWorker EXCEPT
                     !.pc = "create", !.sent = m, !.out = p,
                     !.path = RecordPath(r, p)]]
         /\ clash' = (clash \/ orig[p] # NoContent \/ RecordPath(r, p) # p)
         /\ orig' = IF orig[p] = NoContent THEN [orig EXCEPT ![p] = m] ELSE orig
    /\ UNCHANGED <<store, queueFileLog, rm, ck, cl, posting, acked, doomed, recorded>>

\* os.Create: a file that exists by now is truncated.
CreateFile(w) ==
    /\ wk[w].pc = "create"
    /\ disk' = [disk EXCEPT ![wk[w].out] = Partial]
    /\ wk' = [wk EXCEPT ![w].pc = "copy"]
    /\ UNCHANGED <<ldb, ldbPath, logDB, queueFileLog, rm, ck, cl, posting, history>>

\* io.Copy to the open file; a file unlinked in between stays unlinked.
CopyFile(w) ==
    LET p == wk[w].out IN
    /\ wk[w].pc = "copy"
    /\ disk' = IF disk[p] = NoContent THEN disk ELSE [disk EXCEPT ![p] = wk[w].sent]
    /\ wk' = [wk EXCEPT ![w].pc = "sum"]
    /\ UNCHANGED <<ldb, ldbPath, logDB, queueFileLog, rm, ck, cl, posting, history>>

\* os.Create or io.Copy fails: the request fails, what was written stays.
WriteFails(w) ==
    /\ wk[w].pc \in {"create", "copy"}
    /\ wk' = [wk EXCEPT ![w] = IdleWorker]
    /\ UNCHANGED <<store, queueFileLog, rm, ck, cl, posting, history>>

\* Size check, then GetFileSum of what the file holds now. (Read by name here,
\* through the open file in the code: they differ only if the path was unlinked
\* and created again meanwhile, after a clash.)
SumFile(w) ==
    LET d == disk[wk[w].out] IN
    /\ wk[w].pc = "sum"
    /\ wk' = [wk EXCEPT ![w] =
                IF d = Partial THEN IdleWorker   \* "(error)file uncomplete"
                ELSE [@ EXCEPT !.pc = "dedup",
                               !.md5 = IF d = NoContent THEN wk[w].sent ELSE d]]
    /\ UNCHANGED <<store, queueFileLog, rm, ck, cl, posting, history>>

-----------------------------------------------------------------------------
(* upload: the rest of the handler.                                        *)

\* GetFileInfoFromLevelDB(fileInfo.Md5): is the content known?
Dedup(w) ==
    LET v == ldb[wk[w].md5] IN
    /\ wk[w].pc = "dedup"
    /\ wk' = [wk EXCEPT ![w] =
                IF EnableDistinctFile /\ v # NoPath
                THEN [@ EXCEPT !.pc = "discard", !.old = v]
                ELSE [@ EXCEPT !.pc = "verify"]]
    /\ UNCHANGED <<store, queueFileLog, rm, ck, cl, posting, history>>

\* Mutated: the older copy is removed instead of the new one.
DiscardOld(w) ==
    /\ wk[w].pc = "discard"
    /\ disk' = IF wk[w].path = wk[w].old THEN disk
               ELSE [disk EXCEPT ![wk[w].old] = NoContent]
    /\ acked' = acked \cup {<<wk[w].md5, wk[w].old>>}
    /\ wk' = [wk EXCEPT ![w] = IdleWorker]
    /\ UNCHANGED <<ldb, ldbPath, logDB, queueFileLog, rm, ck, cl, posting,
                   doomed, orig, recorded, clash>>

\* The content is known: remove this copy, answer with the URL of the record.
Discard(w) ==
    /\ wk[w].pc = "discard"
    /\ disk' = IF wk[w].path = wk[w].old THEN disk
               ELSE [disk EXCEPT ![wk[w].path] = NoContent]
    /\ acked' = acked \cup {<<wk[w].md5, wk[w].old>>}
    /\ wk' = [wk EXCEPT ![w] = IdleWorker]
    /\ UNCHANGED <<ldb, ldbPath, logDB, queueFileLog, rm, ck, cl, posting,
                   doomed, orig, recorded, clash>>

\* The md5 sent with the request is another: it fails, the file stays.
Reject(w) ==
    /\ wk[w].pc = "verify"
    /\ wk' = [wk EXCEPT ![w] = IdleWorker]
    /\ UNCHANGED <<store, queueFileLog, rm, ck, cl, posting, history>>

\* saveFileMd5Log(files.md5), called by the worker itself: the log entry ...
SaveLog(w) ==
    /\ wk[w].pc = "verify"
    /\ logDB' = logDB \cup {wk[w].md5}
    /\ wk' = [wk EXCEPT ![w].pc = "md5"]
    /\ UNCHANGED <<disk, ldb, ldbPath, queueFileLog, rm, ck, cl, posting, history>>

\* ... the record under the md5 (which writes the log entry again) ...
SaveMd5(w) ==
    /\ wk[w].pc = "md5"
    /\ ldb' = [ldb EXCEPT ![wk[w].md5] = wk[w].path]
    /\ logDB' = logDB \cup {wk[w].md5}
    /\ recorded' = recorded \cup {wk[w].path}
    /\ wk' = [wk EXCEPT ![w].pc = "path"]
    /\ UNCHANGED <<disk, ldbPath, queueFileLog, rm, ck, cl, posting,
                   acked, doomed, orig, clash>>

\* ... and under MD5(path); then go postFileToPeer and the answer, which is an
\* error for an empty file although its record was saved.
SavePath(w) ==
    LET rec == <<wk[w].md5, wk[w].path>> IN
    /\ wk[w].pc = "path"
    /\ ldbPath' = [ldbPath EXCEPT ![wk[w].path] = wk[w].md5]
    /\ logDB' = logDB \cup {wk[w].md5}
    /\ posting' = posting \cup {rec}
    /\ acked' = IF wk[w].md5 = EmptyFile THEN acked ELSE acked \cup {rec}
    /\ wk' = [wk EXCEPT ![w] = IdleWorker]
    /\ UNCHANGED <<disk, ldb, queueFileLog, rm, ck, cl, doomed, orig, recorded, clash>>

\* postFileToPeer: a peer has the file now, the record (with one more peer) is
\* stored again; or no peer took it.
PostSaved(m, p) ==
    /\ <<m, p>> \in posting
    /\ ldb' = [ldb EXCEPT ![m] = p]
    /\ logDB' = logDB \cup {m}
    /\ posting' = posting \ {<<m, p>>}
    /\ UNCHANGED <<disk, ldbPath, queueFileLog, wk, rm, ck, cl, history>>

PostFailed(m, p) ==
    /\ <<m, p>> \in posting
    /\ posting' = posting \ {<<m, p>>}
    /\ UNCHANGED <<store, queueFileLog, wk, rm, ck, cl, history>>

-----------------------------------------------------------------------------
(* RemoveFile.                                                             *)

\* GetFileInfoFromLevelDB(md5sum), where md5sum is an md5 or MD5(path).
RemoveLookup(r) ==
    /\ rm[r].pc = "idle"
    /\ \E m \in Contents, p \in Paths :
         /\ ldb[m] = p \/ ldbPath[p] = m
         /\ rm' = [rm EXCEPT ![r] = [pc |-> "queue", md5 |-> m, path |-> p]]
         /\ doomed' = doomed \cup {m}
    /\ UNCHANGED <<store, queueFileLog, wk, ck, cl, posting, acked, orig, recorded, clash>>

\* Mutated: the loop that waits for room in queueFileLog is dropped.
RemoveQueueNoWait(r) ==
    /\ rm[r].pc = "queue"
    /\ disk[rm[r].path] # NoContent
    /\ queueFileLog' = Append(queueFileLog, <<rm[r].md5, rm[r].path>>)
    /\ rm' = [rm EXCEPT ![r].pc = "unlink"]
    /\ UNCHANGED <<store, wk, ck, cl, posting, history>>

\* The file exists: SaveFileMd5Log(removes.md5), which waits for room.
RemoveQueue(r) ==
    /\ rm[r].pc = "queue"
    /\ disk[rm[r].path] # NoContent
    /\ Len(queueFileLog) < MaxLog
    /\ queueFileLog' = Append(queueFileLog, <<rm[r].md5, rm[r].path>>)
    /\ rm' = [rm EXCEPT ![r].pc = "unlink"]
    /\ UNCHANGED <<store, wk, ck, cl, posting, history>>

\* The file does not exist: "fail remove", the record stays.
RemoveMissing(r) ==
    /\ rm[r].pc = "queue"
    /\ disk[rm[r].path] = NoContent
    /\ rm' = [rm EXCEPT ![r] = IdleRequest]
    /\ UNCHANGED <<store, queueFileLog, wk, ck, cl, posting, history>>

\* os.Remove.
RemoveUnlink(r) ==
    /\ rm[r].pc = "unlink"
    /\ disk' = [disk EXCEPT ![rm[r].path] = NoContent]
    /\ rm' = [rm EXCEPT ![r] = IdleRequest]
    /\ UNCHANGED <<ldb, ldbPath, logDB, queueFileLog, wk, ck, cl, posting, history>>

-----------------------------------------------------------------------------
(* CheckFileExist: a record whose file is gone is deleted.                 *)

CheckLookup(c) ==
    /\ ck[c].pc = "idle"
    /\ \E m \in Contents :
         /\ ldb[m] # NoPath
         /\ ck' = [ck EXCEPT ![c] = [pc |-> "stat", md5 |-> m, path |-> ldb[m]]]
    /\ UNCHANGED <<store, queueFileLog, wk, rm, cl, posting, history>>

\* Mutated: the record goes whether its file exists or not.
CheckStatBlind(c) ==
    /\ ck[c].pc = "stat"
    /\ ck' = [ck EXCEPT ![c].pc = "remove"]
    /\ UNCHANGED <<store, queueFileLog, wk, rm, cl, posting, history>>

CheckStat(c) ==
    /\ ck[c].pc = "stat"
    /\ ck' = [ck EXCEPT ![c] = IF disk[ck[c].path] = NoContent
                               THEN [@ EXCEPT !.pc = "remove"]
                               ELSE IdleRequest]
    /\ UNCHANGED <<store, queueFileLog, wk, rm, cl, posting, history>>

CheckRemove(c) ==
    /\ ck[c].pc = "remove"
    /\ ldb' = [ldb EXCEPT ![ck[c].md5] = NoPath]
    /\ ck' = [ck EXCEPT ![c] = IdleRequest]
    /\ UNCHANGED <<disk, ldbPath, logDB, queueFileLog, wk, rm, cl, posting, history>>

-----------------------------------------------------------------------------
(* ConsumerLog: saveFileMd5Log(removes.md5), the entries in queue order.   *)

LogTake ==
    /\ cl.pc = "idle"
    /\ queueFileLog # <<>>
    /\ cl' = [pc |-> "md5", md5 |-> Head(queueFileLog)[1], path |-> Head(queueFileLog)[2]]
    /\ queueFileLog' = Tail(queueFileLog)
    /\ UNCHANGED <<store, wk, rm, ck, posting, history>>

LogRemoveMd5 ==
    /\ cl.pc = "md5"
    /\ ldb' = [ldb EXCEPT ![cl.md5] = NoPath]
    /\ cl' = [cl EXCEPT !.pc = "path"]
    /\ UNCHANGED <<disk, ldbPath, logDB, queueFileLog, wk, rm, ck, posting, history>>

LogRemovePath ==
    /\ cl.pc = "path"
    /\ ldbPath' = [ldbPath EXCEPT ![cl.path] = NoContent]
    /\ cl' = [cl EXCEPT !.pc = "log"]
    /\ UNCHANGED <<disk, ldb, logDB, queueFileLog, wk, rm, ck, posting, history>>

LogRemoveEntry ==
    /\ cl.pc = "log"
    /\ logDB' = logDB \ {cl.md5}
    /\ cl' = IdleRequest
    /\ UNCHANGED <<disk, ldb, ldbPath, queueFileLog, wk, rm, ck, posting, history>>

-----------------------------------------------------------------------------
\* The process dies and is started again: disk and databases stay.
Crash ==
    /\ wk' = [w \in Workers |-> IdleWorker]
    /\ rm' = [r \in Removers |-> IdleRequest]
    /\ ck' = [c \in Checkers |-> IdleRequest]
    /\ cl' = IdleRequest
    /\ queueFileLog' = <<>>
    /\ posting' = {}
    /\ UNCHANGED <<store, history>>

Upload(w) ==
    \/ ChoosePath(w) \/ CreateFile(w) \/ CopyFile(w) \/ WriteFails(w) \/ SumFile(w)
    \/ Dedup(w) \/ Discard(w) \/ Reject(w)
    \/ SaveLog(w) \/ SaveMd5(w) \/ SavePath(w)

RemoveFile(r) ==
    RemoveLookup(r) \/ RemoveQueue(r) \/ RemoveMissing(r) \/ RemoveUnlink(r)

CheckFileExist(c) == CheckLookup(c) \/ CheckStat(c) \/ CheckRemove(c)

ConsumerLog == LogTake \/ LogRemoveMd5 \/ LogRemovePath \/ LogRemoveEntry

Next ==
    \/ \E w \in Workers : Upload(w)
    \/ \E m \in Contents, p \in Paths : PostSaved(m, p) \/ PostFailed(m, p)
    \/ \E r \in Removers : RemoveFile(r)
    \/ \E c \in Checkers : CheckFileExist(c)
    \/ ConsumerLog
    \/ Crash

Spec == Init /\ [][Next]_vars

-----------------------------------------------------------------------------
WorkerState ==
    [pc : {"idle", "create", "copy", "sum", "dedup", "discard", "verify", "md5", "path"},
     sent : Contents \cup {NoContent}, md5 : Contents \cup {NoContent},
     path : Paths \cup {NoPath}, out : Paths \cup {NoPath}, old : Paths \cup {NoPath}]

RequestState(pcs) ==
    [pc : pcs, md5 : Contents \cup {NoContent}, path : Paths \cup {NoPath}]

\* Types; queueFileLog never grows past its capacity (a send on a full channel
\* would block the request that removes a file).
TypeOK ==
    /\ disk \in [Paths -> Contents \cup {NoContent, Partial}]
    /\ ldb \in [Contents -> Paths \cup {NoPath}]
    /\ ldbPath \in [Paths -> Contents \cup {NoContent}]
    /\ logDB \subseteq Contents
    /\ queueFileLog \in Seq(Records) /\ Len(queueFileLog) <= MaxLog
    /\ wk \in [Workers -> WorkerState]
    /\ rm \in [Removers -> RequestState({"idle", "queue", "unlink"})]
    /\ ck \in [Checkers -> RequestState({"idle", "stat", "remove"})]
    /\ cl \in RequestState({"idle", "md5", "path", "log"})
    /\ posting \subseteq Records
    /\ acked \subseteq Records
    /\ doomed \subseteq Contents
    /\ orig \in [Paths -> Contents \cup {NoContent}]
    /\ recorded \subseteq Paths
    /\ clash \in BOOLEAN

\* While uploads choose distinct paths, a file whose URL an upload returned
\* stays readable until somebody asks for its deletion: whatever is uploaded,
\* de-duplicated, deleted, checked and posted besides, and over crashes.
UndeletedReadable ==
    ~clash => \A m \in Contents, p \in Paths :
        <<m, p>> \in acked /\ m \notin doomed => disk[p] = m

\* ... and its content stays known under its md5, by a record whose file is
\* there: the next upload of it, the fast upload by md5 and /delete find it.
UndeletedIndexed ==
    ~clash => \A m \in Contents, p \in Paths :
        <<m, p>> \in acked /\ m \notin doomed =>
            ldb[m] # NoPath /\ disk[ldb[m]] = m

\* ... and no file disappears that a record named, unless its content was to
\* be deleted: upload removes its own copies only.
RemovedWereDoomed ==
    [][~clash => \A p \in recorded :
        disk[p] # NoContent /\ disk'[p] = NoContent => orig[p] \in doomed]_vars
=============================================================================

---------------------------- MODULE Replication ----------------------------
(***************************************************************************)
(* Replication of files between the nodes of a cluster: postFileToPeer,    *)
(* SyncFileInfo, DownloadFromPeer, ConsumerLog, the periodic resend of     *)
(* errors.md5, AutoRepair, and crash and restart of nodes.                 *)
(*                                                                         *)
(* An upload is one action here (UploadStore has its steps). Contents are  *)
(* distinct, files are not deleted and are no small or migrated files; all *)
(* happens within a day. EnableDistinctFile is on.                         *)
(*                                                                         *)
(* The SyncWorker goroutines of a queue take entries in order but run at   *)
(* once (200 of them), so a queue together with the entries its workers    *)
(* hold is a set here; two equal entries are one. The channels carry       *)
(* FileInfo values, so retry and Peers of an entry are its own.            *)
(***************************************************************************)
EXTENDS Naturals, Sequences, FiniteSets

CONSTANTS
    Nodes,              \* hosts of the cluster, Config().Peers plus the node itself
    Files,              \* files, each uploaded at most once
    RetryCount,         \* configuration (3 when 0)
    MaxLog,             \* capacity of queueFileLog (10000 in the code)
    MaxPostFaults,      \* bounds of the model: requests to a running peer that
    MaxDownloadFaults,  \* fail, downloads from a running peer that break, and
    MaxCrashes,         \* crashes of a process,
    MaxRepairs,         \* repairs by hand
    CrashNodes,         \* nodes that may crash
    StartedToday,       \* nodes started on the day
    NoRecord

ASSUME ReplicationAssumption ==
    /\ IsFiniteSet(Nodes)
    /\ RetryCount \in Nat \ {0}
    /\ MaxLog \in Nat
    /\ MaxPostFaults \in Nat /\ MaxDownloadFaults \in Nat /\ MaxCrashes \in Nat
    /\ MaxRepairs \in Nat
    /\ CrashNodes \subseteq Nodes /\ StartedToday \subseteq Nodes
    /\ NoRecord \notin Seq(Nodes)

VARIABLES
    up,         \* the running nodes
    disk,       \* disk[n]: files with a complete copy at their path on n
    ldb,        \* ldb[n][f]: Peers of the record of f on n, or NoRecord
    filesLog,   \* filesLog[n]: files.md5 entries of logDB on n
    queueLog,   \* queueLog[n][f]: Peers of the queue.md5 entry, or NoRecord
    errLog,     \* errLog[n]: errors.md5 entries
    fileLogQ,   \* fileLogQ[n]: queueFileLog, entries [kind, file, peers]
    toPeers,    \* toPeers[n]: FileInfos being posted [file, peers, retry, todo]
    fromPeers,  \* fromPeers[n]: FileInfos being downloaded [file, peers, retry, got]
    counted,    \* nodes whose statMap has a count for the day
    faults,     \* faults, crashes and repairs so far, for the bounds
    \* history
    uploaded,   \* files that were uploaded
    lost,       \* lost[n]: files whose download n gave up or forgot
    unsent      \* unsent[n]: files a crash of n may have kept it from posting

vars == <<up, disk, ldb, filesLog, queueLog, errLog, fileLogQ, toPeers,
          fromPeers, counted, faults, uploaded, lost, unsent>>
history == <<uploaded, lost, unsent>>
logs == <<queueLog, errLog>>

Peers(n) == Nodes \ {n}         \* Config().Peers, itself removed at start
Has(peers, q) == \E i \in 1 .. Len(peers) : peers[i] = q

\* append(fileInfo.Peers, peer), where Peers does not contain it.
With(peers, q) == IF Has(peers, q) THEN peers ELSE Append(peers, q)

\* Mutated: the last one.
LastOther(peers, n) ==
    peers[CHOOSE i \in 1 .. Len(peers) :
             peers[i] # n /\ \A j \in i + 1 .. Len(peers) : peers[j] = n]

\* The first peer in the list other than n: the only one ConsumerDownLoad tries.
FirstOther(peers, n) ==
    peers[CHOOSE i \in 1 .. Len(peers) :
             peers[i] # n /\ \A j \in 1 .. i - 1 : peers[j] = n]

Post(n, f, peers, retry) == [file |-> f, peers |-> peers, retry |-> retry, todo |-> Peers(n)]
Fetch(f, peers) == [file |-> f, peers |-> peers, retry |-> 0, got |-> FALSE]

-----------------------------------------------------------------------------

Init ==
    /\ up = Nodes
    /\ disk = [n \in Nodes |-> {}]
    /\ ldb = [n \in Nodes |-> [f \in Files |-> NoRecord]]
    /\ filesLog = [n \in Nodes |-> {}]
    /\ queueLog = [n \in Nodes |-> [f \in Files |-> NoRecord]]
    /\ errLog = [n \in Nodes |-> {}]
    /\ fileLogQ = [n \in Nodes |-> <<>>]
    /\ toPeers = [n \in Nodes |-> {}]
    /\ fromPeers = [n \in Nodes |-> {}]
    /\ counted = StartedToday
    /\ faults = [post |-> 0, download |-> 0, crash |-> 0, repair |-> 0]
    /\ uploaded = {}
    /\ lost = [n \in Nodes |-> {}]
    /\ unsent = [n \in Nodes |-> {}]

\* SaveFileInfoToLevelDB(md5, fileInfo, ldb), which also writes files.md5.
SaveRecord(n, f, peers) ==
    /\ ldb' = [ldb EXCEPT ![n][f] = peers]
    /\ filesLog' = [filesLog EXCEPT ![n] = @ \cup {f}]

\* A client uploads f at n: file, record, go postFileToPeer.
Upload(n, f) ==
    /\ n \in up /\ f \notin uploaded
    /\ uploaded' = uploaded \cup {f}
    /\ disk' = [disk EXCEPT ![n] = @ \cup {f}]
    /\ SaveRecord(n, f, <<n>>)
    /\ toPeers' = [toPeers EXCEPT ![n] = @ \cup {Post(n, f, <<n>>, 0)}]
    /\ counted' = counted \cup {n}
    /\ UNCHANGED <<up, logs, fileLogQ, fromPeers, faults, lost, unsent>>

-----------------------------------------------------------------------------
(* postFileToPeer: for each peer in turn.                                  *)

NextPost(n, t, s) == toPeers' = [toPeers EXCEPT ![n] = (@ \ {t}) \cup s]

\* The peer is in Peers already, or the file is not here: continue.
PostSkip(n, t, q) ==
    /\ Has(t.peers, q) \/ t.file \notin disk[n]
    /\ NextPost(n, t, {[t EXCEPT !.todo = @ \ {q}]})
    /\ UNCHANGED <<up, disk, ldb, filesLog, logs, fileLogQ, fromPeers, faults, counted, history>>

Postable(n, t, q) == ~Has(t.peers, q) /\ t.file \in disk[n]

\* checkPeerFileExist: the peer has a record and the file. A record without the
\* file, which CheckFileExist deletes, is no case here (RecordHasFile).
Known(q, f) == ldb[q][f] # NoRecord /\ f \in disk[q]

PostKnown(n, t, q) ==
    /\ Postable(n, t, q)
    /\ q \in up /\ Known(q, t.file)
    /\ SaveRecord(n, t.file, Append(t.peers, q))
    /\ NextPost(n, t, {[t EXCEPT !.peers = Append(@, q), !.todo = @ \ {q}]})
    /\ UNCHANGED <<up, disk, logs, fileLogQ, fromPeers, faults, counted, history>>

\* SyncFileInfo at q: a queue.md5 entry for ConsumerLog (waiting for room),
\* then queueFromPeers.
SyncFileInfo(q, t) ==
    /\ Len(fileLogQ[q]) < MaxLog
    /\ fromPeers' = [fromPeers EXCEPT ![q] = @ \cup {Fetch(t.file, t.peers)}]

\* Mutated: written to files.md5.
QueueEntryFiles(t) == [kind |-> "files", file |-> t.file, peers |-> t.peers]

QueueEntry(t) == [kind |-> "queue", file |-> t.file, peers |-> t.peers]
ErrorEntry(t) == [kind |-> "errors", file |-> t.file, peers |-> t.peers]
FilesEntry(d) == [kind |-> "files", file |-> d.file, peers |-> d.peers]

\* Mutated: the record is saved before the peer is added.
PostOkStale(n, t, q) ==
    /\ Postable(n, t, q)
    /\ q \in up
    /\ SyncFileInfo(q, t)
    /\ fileLogQ' = [fileLogQ EXCEPT ![q] = Append(@, QueueEntry(t))]
    /\ SaveRecord(n, t.file, t.peers)
    /\ NextPost(n, t, {[t EXCEPT !.peers = Append(@, q), !.todo = @ \ {q}]})
    /\ UNCHANGED <<up, disk, logs, faults, counted, history>>

\* The peer answers with a URL: it counts as having the file from now on. The
\* check before it failed, or was made before the peer had the file.
PostOk(n, t, q) ==
    /\ Postable(n, t, q)
    /\ q \in up
    /\ SyncFileInfo(q, t)
    /\ fileLogQ' = [fileLogQ EXCEPT ![q] = Append(@, QueueEntry(t))]
    /\ SaveRecord(n, t.file, Append(t.peers, q))
    /\ NextPost(n, t, {[t EXCEPT !.peers = Append(@, q), !.todo = @ \ {q}]})
    /\ UNCHANGED <<up, disk, logs, faults, counted, history>>

\* The request fails. Up to RetryCount + 1 times the FileInfo is queued again
\* as a whole, and each failure makes an errors.md5 entry.
Retried(n, t, q) ==
    IF t.retry <= RetryCount
    THEN {[t EXCEPT !.retry = @ + 1, !.todo = @ \ {q}],
          Post(n, t.file, t.peers, t.retry + 1)}
    ELSE {[t EXCEPT !.todo = @ \ {q}]}

\* Mutated: does not wait for room in queueFileLog.
PostFailsNoWait(n, t, q) ==
    /\ Postable(n, t, q)
    /\ q \notin up \/ faults.post < MaxPostFaults
    /\ faults' = IF q \in up THEN [faults EXCEPT !.post = @ + 1] ELSE faults
    /\ fileLogQ' = [fileLogQ EXCEPT ![n] = Append(@, ErrorEntry(t))]
    /\ NextPost(n, t, Retried(n, t, q))
    /\ UNCHANGED <<up, disk, ldb, filesLog, logs, fromPeers, counted, history>>

\* The request does not reach the peer, or it is down.
PostFails(n, t, q) ==
    /\ Postable(n, t, q)
    /\ q \notin up \/ faults.post < MaxPostFaults
    /\ faults' = IF q \in up THEN [faults EXCEPT !.post = @ + 1] ELSE faults
    /\ Len(fileLogQ[n]) < MaxLog
    /\ fileLogQ' = [fileLogQ EXCEPT ![n] = Append(@, ErrorEntry(t))]
    /\ NextPost(n, t, Retried(n, t, q))
    /\ UNCHANGED <<up, disk, ldb, filesLog, logs, fromPeers, counted, history>>

\* The peer took it but the answer is lost or late.
PostUnanswered(n, t, q) ==
    /\ Postable(n, t, q)
    /\ q \in up /\ faults.post < MaxPostFaults
    /\ faults' = [faults EXCEPT !.post = @ + 1]
    /\ Len(fileLogQ[n]) < MaxLog
    /\ SyncFileInfo(q, t)
    /\ fileLogQ' = [fileLogQ EXCEPT ![n] = Append(@, ErrorEntry(t)),
                                    ![q] = Append(@, QueueEntry(t))]
    /\ NextPost(n, t, Retried(n, t, q))
    /\ UNCHANGED <<up, disk, ldb, filesLog, logs, counted, history>>

PostDone(n, t) ==
    /\ t.todo = {}
    /\ NextPost(n, t, {})
    /\ UNCHANGED <<up, disk, ldb, filesLog, logs, fileLogQ, fromPeers, faults, counted, history>>

PostStep(n) ==
    /\ n \in up
    /\ \E t \in toPeers[n] :
         \/ \E q \in t.todo :
              PostSkip(n, t, q) \/ PostKnown(n, t, q) \/ PostOk(n, t, q)
         \/ PostDone(n, t)

PostFault(n) ==
    /\ n \in up
    /\ \E t \in toPeers[n] : \E q \in t.todo : PostFails(n, t, q) \/ PostUnanswered(n, t, q)

-----------------------------------------------------------------------------
(* ConsumerDownLoad, DownloadFromPeer.                                     *)

Drop(n, d) == fromPeers' = [fromPeers EXCEPT ![n] = @ \ {d}]

\* The retries are used up.
DownloadGivenUp(n, d) ==
    /\ ~d.got /\ d.retry >= RetryCount
    /\ Drop(n, d)
    /\ lost' = [lost EXCEPT ![n] = @ \cup {d.file}]
    /\ UNCHANGED <<up, disk, ldb, filesLog, logs, fileLogQ, toPeers, faults, uploaded, unsent, counted>>

\* Mutated: the file that is here is removed, to be fetched again.
DownloadNeedlessRemoves(n, d) ==
    /\ ~d.got /\ d.retry < RetryCount
    /\ (\A i \in 1 .. Len(d.peers) : d.peers[i] = n) \/ d.file \in disk[n]
    /\ disk' = [disk EXCEPT ![n] = @ \ {d.file}]
    /\ UNCHANGED <<up, ldb, filesLog, logs, fileLogQ, toPeers, fromPeers, faults, counted, history>>

\* No other peer is named, or the file is here (CheckFileExistByInfo).
DownloadNeedless(n, d) ==
    /\ ~d.got /\ d.retry < RetryCount
    /\ (\A i \in 1 .. Len(d.peers) : d.peers[i] = n) \/ d.file \in disk[n]
    /\ Drop(n, d)
    /\ UNCHANGED <<up, disk, ldb, filesLog, logs, fileLogQ, toPeers, faults, counted, history>>

Source(n, d) == FirstOther(d.peers, n)

Wanted(n, d) ==
    /\ ~d.got /\ d.retry < RetryCount
    /\ \E i \in 1 .. Len(d.peers) : d.peers[i] # n
    /\ d.file \notin disk[n]

\* The whole file arrives in tmp_..., has the size of the record (its source has
\* the file: SourceHasFile), and is renamed to its path.
DownloadFile(n, d) ==
    /\ Wanted(n, d)
    /\ Source(n, d) \in up /\ d.file \in disk[Source(n, d)]
    /\ disk' = [disk EXCEPT ![n] = @ \cup {d.file}]
    /\ fromPeers' = [fromPeers EXCEPT ![n] = (@ \ {d}) \cup {[d EXCEPT !.got = TRUE]}]
    /\ UNCHANGED <<up, ldb, filesLog, logs, fileLogQ, toPeers, faults, counted, history>>

\* SaveFileMd5Log(files.md5) after the rename.
DownloadLogged(n, d) ==
    /\ d.got
    /\ Len(fileLogQ[n]) < MaxLog
    /\ fileLogQ' = [fileLogQ EXCEPT ![n] = Append(@, FilesEntry(d))]
    /\ Drop(n, d)
    /\ UNCHANGED <<up, disk, ldb, filesLog, logs, toPeers, faults, counted, history>>

\* The connection fails: the FileInfo is queued again at once.
DownloadFails(n, d) ==
    /\ Wanted(n, d)
    /\ Source(n, d) \notin up \/ faults.download < MaxDownloadFaults
    /\ faults' = IF Source(n, d) \in up THEN [faults EXCEPT !.download = @ + 1] ELSE faults
    /\ fromPeers' = [fromPeers EXCEPT ![n] = (@ \ {d}) \cup {[d EXCEPT !.retry = @ + 1]}]
    /\ UNCHANGED <<up, disk, ldb, filesLog, logs, fileLogQ, toPeers, counted, history>>

DownloadStep(n) ==
    /\ n \in up
    /\ \E d \in fromPeers[n] :
         \/ DownloadGivenUp(n, d) \/ DownloadNeedless(n, d) \/ DownloadFile(n, d)
         \/ DownloadLogged(n, d)

DownloadFault(n) == n \in up /\ \E d \in fromPeers[n] : DownloadFails(n, d)

-----------------------------------------------------------------------------
(* ConsumerLog: saveFileMd5Log of the first entry.                         *)

LogStep(n) ==
    /\ n \in up /\ fileLogQ[n] # <<>>
    /\ LET e == Head(fileLogQ[n]) IN
         \/ /\ e.kind = "files"
            /\ SaveRecord(n, e.file, e.peers)
            /\ counted' = counted \cup {n}
            /\ UNCHANGED logs
         \/ /\ e.kind = "queue"
            /\ queueLog' = [queueLog EXCEPT ![n][e.file] = e.peers]
            /\ UNCHANGED <<ldb, filesLog, errLog, counted>>
         \/ /\ e.kind = "errors"
            /\ errLog' = [errLog EXCEPT ![n] = @ \cup {e.file}]
            /\ UNCHANGED <<ldb, filesLog, queueLog, counted>>
    /\ fileLogQ' = [fileLogQ EXCEPT ![n] = Tail(@)]
    /\ UNCHANGED <<up, disk, toPeers, fromPeers, faults, history>>

-----------------------------------------------------------------------------
(* Repair.                                                                 *)

\* Mutated: no resend when one peer is missing.
ResendLess(n) ==
    {Post(n, f, With(ldb[n][f], n), 0) :
        f \in {g \in errLog[n] : ldb[n][g] # NoRecord
                                 /\ Len(ldb[n][g]) < Cardinality(Peers(n))}}

\* CheckFileAndSendToPeer(today, errors.md5, false), every RefreshInterval and
\* at start; entries of errors.md5 are never removed.
Resend(n) ==
    {Post(n, f, With(ldb[n][f], n), 0) :
        f \in {g \in errLog[n] : ldb[n][g] # NoRecord
                                 /\ Len(ldb[n][g]) <= Cardinality(Peers(n))}}

Refresh(n) ==
    /\ n \in up
    /\ toPeers' = [toPeers EXCEPT ![n] = @ \cup Resend(n)]
    /\ UNCHANGED <<up, disk, ldb, filesLog, logs, fileLogQ, fromPeers, faults, counted, history>>

\* Records of the files in s, as FileInfos to post.
Records(n, s) == {Post(n, f, ldb[n][f], 0) : f \in {g \in s : ldb[n][g] # NoRecord}}

\* AutoRepair(n) compares the day's counts when peer q lists the day and n has
\* it too (today's is put at start): q is asked to post what n lacks
\* (receive_md5s), n posts what q lacks.
Comparable(n, q) == n \in up /\ {n, q} \subseteq counted /\ q \in up

\* Mutated: the count is compared with itself.
CountsDifferOwn(n, q) == Cardinality(filesLog[n]) # Cardinality(filesLog[n])

CountsDiffer(n, q) == Cardinality(filesLog[n]) # Cardinality(filesLog[q])

Exchange(n, q) ==
    /\ toPeers' = [toPeers EXCEPT ![n] = @ \cup Records(n, filesLog[n] \ filesLog[q]),
                                  ![q] = @ \cup Records(q, filesLog[q] \ filesLog[n])]
    /\ UNCHANGED <<up, disk, ldb, filesLog, logs, fileLogQ, fromPeers, counted, history>>

\* /sync?force=1 at a node, which passes it on: every running node posts every
\* file it has of the day again, to all peers.
SyncForced ==
    /\ toPeers' = [m \in Nodes |->
         IF m \in up
         THEN toPeers[m] \cup
              {Post(m, f, <<m>>, 0) : f \in {g \in filesLog[m] : ldb[m][g] # NoRecord}}
         ELSE toPeers[m]]
    /\ UNCHANGED <<up, disk, ldb, filesLog, logs, fileLogQ, fromPeers, counted, history>>

\* A round of Start's loop. n without the day in its statMap asks q for a forced
\* sync (Update).
AutoRepair(n, q) ==
    /\ UNCHANGED faults
    /\ \/ Comparable(n, q) /\ CountsDiffer(n, q) /\ Exchange(n, q)
       \/ n \in up /\ q \in up /\ n \notin counted /\ q \in counted /\ SyncForced

\* By hand: /repair?force=1 compares at any rate, /sync?force=1.
ByHand(n) ==
    /\ n \in up /\ faults.repair < MaxRepairs
    /\ faults' = [faults EXCEPT !.repair = @ + 1]
    /\ SyncForced \/ \E q \in Peers(n) : Comparable(n, q) /\ Exchange(n, q)

-----------------------------------------------------------------------------
(* The process dies: queues and what the workers hold are gone.            *)

Entries(n, kind) ==
    {fileLogQ[n][i] : i \in {j \in 1 .. Len(fileLogQ[n]) : fileLogQ[n][j].kind = kind}}

\* Downloads in hand without an entry in queue.md5.
Forgotten(n) == {f \in {d.file : d \in fromPeers[n]} : queueLog[n][f] = NoRecord}

Crash(n) ==
    /\ n \in up \cap CrashNodes
    /\ faults.crash < MaxCrashes
    /\ faults' = [faults EXCEPT !.crash = @ + 1]
    /\ up' = up \ {n}
    /\ fileLogQ' = [fileLogQ EXCEPT ![n] = <<>>]
    /\ toPeers' = [toPeers EXCEPT ![n] = {}]
    /\ fromPeers' = [fromPeers EXCEPT ![n] = {}]
    /\ lost' = [lost EXCEPT ![n] = @ \cup Forgotten(n)]
    /\ unsent' = [unsent EXCEPT ![n] = @ \cup {t.file : t \in toPeers[n]}
                                       \cup {e.file : e \in Entries(n, "errors")}]
    /\ UNCHANGED <<disk, ldb, filesLog, logs, counted, uploaded>>

\* Mutated: queue.md5 is not loaded.
RestartNoQueue(n) ==
    /\ n \notin up
    /\ up' = up \cup {n}
    /\ fromPeers' = [fromPeers EXCEPT ![n] = {}]
    /\ toPeers' = [toPeers EXCEPT ![n] = Resend(n)]
    /\ counted' = counted \cup {n}
    /\ UNCHANGED <<disk, ldb, filesLog, logs, fileLogQ, faults, history>>

\* Start: LoadQueueSendToPeer downloads what queue.md5 names, Refresh's loop
\* begins with a round.
Restart(n) ==
    /\ n \notin up
    /\ up' = up \cup {n}
    /\ fromPeers' = [fromPeers EXCEPT ![n] =
         {Fetch(f, queueLog[n][f]) : f \in {g \in Files : queueLog[n][g] # NoRecord}}]
    /\ toPeers' = [toPeers EXCEPT ![n] = Resend(n)]
    /\ counted' = counted \cup {n}
    /\ UNCHANGED <<disk, ldb, filesLog, logs, fileLogQ, faults, history>>

Repair(n) == Refresh(n) \/ ByHand(n) \/ \E q \in Peers(n) : AutoRepair(n, q)

Next ==
    \E n \in Nodes :
        \/ \E f \in Files : Upload(n, f)
        \/ PostStep(n) \/ PostFault(n)
        \/ DownloadStep(n) \/ DownloadFault(n)
        \/ LogStep(n)
        \/ Repair(n)
        \/ Crash(n) \/ Restart(n)

Spec == Init /\ [][Next]_vars

\* The workers of a queue take every entry, ConsumerLog never stops, Start's
\* loop sends errors.md5 every RefreshInterval.
Send(n, f, q) ==
    /\ n \in up
    /\ \E t \in toPeers[n] : t.file = f /\ q \in t.todo /\ (PostKnown(n, t, q) \/ PostOk(n, t, q))

Receive(n, f) ==
    /\ n \in up
    /\ \E d \in fromPeers[n] :
         d.file = f /\ (DownloadFile(n, d) \/ DownloadLogged(n, d) \/ DownloadGivenUp(n, d))

FairSpec ==
    /\ Spec
    /\ \A n \in Nodes : WF_vars(LogStep(n)) /\ WF_vars(Refresh(n)) /\ WF_vars(Restart(n))
    /\ \A n \in Nodes, f \in Files :
         /\ WF_vars(Receive(n, f))
         /\ \A q \in Peers(n) : WF_vars(Send(n, f, q))

\* AutoRepair runs every hour.
HourlyRepair == \A n \in Nodes : \A q \in Peers(n) : WF_vars(AutoRepair(n, q))

-----------------------------------------------------------------------------

Entry == [kind : {"files", "queue", "errors"}, file : Files, peers : Seq(Nodes)]
Posting == [file : Files, peers : Seq(Nodes), retry : Nat, todo : SUBSET Nodes]
Fetching == [file : Files, peers : Seq(Nodes), retry : Nat, got : BOOLEAN]

TypeOK ==
    /\ up \subseteq Nodes
    /\ disk \in [Nodes -> SUBSET Files]
    /\ ldb \in [Nodes -> [Files -> Seq(Nodes) \cup {NoRecord}]]
    /\ filesLog \in [Nodes -> SUBSET Files]
    /\ queueLog \in [Nodes -> [Files -> Seq(Nodes) \cup {NoRecord}]]
    /\ errLog \in [Nodes -> SUBSET Files]
    /\ fileLogQ \in [Nodes -> Seq(Entry)]
    /\ toPeers \in [Nodes -> SUBSET Posting]
    /\ fromPeers \in [Nodes -> SUBSET Fetching]
    /\ faults \in [post : Nat, download : Nat, crash : Nat, repair : Nat]
    /\ counted \subseteq Nodes
    /\ uploaded \subseteq Files
    /\ lost \in [Nodes -> SUBSET Files]
    /\ unsent \in [Nodes -> SUBSET Files]
    /\ \A n \in Nodes : Len(fileLogQ[n]) <= MaxLog

\* A node that lists a file for its peers, in its record or in files.md5, has
\* the file: through crashes between the download, its log entry and ConsumerLog.
RecordHasFile ==
    \A n \in Nodes, f \in Files :
        ldb[n][f] # NoRecord \/ f \in filesLog[n] => f \in disk[n]

\* Whatever Peers list reaches a node (posts, repairs, queue.md5 at a restart),
\* the first other peer in it, the only one ConsumerDownLoad asks, has the file.
SourceHasFile ==
    \A n \in Nodes : \A d \in fromPeers[n] :
        d.file \notin disk[n] =>
            /\ \E i \in 1 .. Len(d.peers) : d.peers[i] # n
            /\ d.file \in disk[Source(n, d)]

\* q has a download of f in hand, or takes it up when it starts again.
Downloading(q, f) ==
    \/ \E d \in fromPeers[q] : d.file = f
    \/ q \notin up /\ queueLog[q][f] # NoRecord

\* A peer that a record names has the file or is about to have it, unless its
\* retries ran out or it died before queue.md5 named the download. (Such a
\* record stops every later post of the file to that peer.)
PeersTruthful ==
    \A n \in Nodes, f \in Files :
        ldb[n][f] # NoRecord =>
            \A q \in Peers(n) : Has(ldb[n][f], q) =>
                f \in disk[q] \/ Downloading(q, f) \/ f \in lost[q]

\* The node that the first entry of the record names, the uploader's record
\* above all, loses no peer between retries and lost updates of Peers: the peer
\* is recorded, is still to be posted to, or errors.md5 has or gets the file.
NoPeerForgotten ==
    \A n \in up, f \in Files :
        ldb[n][f] # NoRecord /\ ldb[n][f][1] = n /\ f \notin unsent[n] =>
            \A q \in Peers(n) :
                \/ Has(ldb[n][f], q)
                \/ \E t \in toPeers[n] : t.file = f /\ q \in t.todo /\ ~Has(t.peers, q)
                \/ f \in errLog[n]
                \/ \E e \in Entries(n, "errors") : e.file = f

copies == [f \in Files |-> {n \in Nodes : f \in disk[n]}]
Copies == INSTANCE FileCopies WITH Nodes <- Nodes, Files <- Files, copies <- copies

\* The queues, logs, retries and crashes do no more than make whole copies of
\* copies.
ImplementsCopies == Copies!CopiesSpec

\* Without AutoRepair, by retries and errors.md5 alone: a file that was uploaded
\* reaches every node, however long a peer is down or posts fail or go unanswered,
\* unless a node gave its download up or died with a post in hand.
ReachesAll ==
    \A f \in Files :
        f \in uploaded ~> \A n \in Nodes :
                             f \in disk[n] \/ f \in lost[n] \/ \E m \in Nodes : f \in unsent[m]

\* With AutoRepair's rounds: a file that one node has reaches every other node,
\* unless that node gave its download up or died before queue.md5 named it,
\* whatever posts were lost in crashes.
EventuallyRepaired ==
    HourlyRepair =>
    \A n, q \in Nodes, f \in Files : f \in disk[n] ~> f \in disk[q] \/ f \in lost[q]
=============================================================================

# go-fastdfs in TLA+

This directory holds a formal model of [go-fastdfs](../src/README-en.md): TLA+
modules translated from the Go source and from the scripts of its web console,
TLC runs over small instances, and proofs, checked by TLAPS, of what holds for every number of nodes, files,
workers and requests. Line references are to files under `src/`; where no
directory is given the file is in `src/server/`.

1. [The system](#1-the-system)
2. [Modules](#2-modules)
3. [Runs](#3-runs)
4. [Fairness](#4-fairness)
5. [Proofs](#5-proofs)
6. [Where code and documentation disagree](#6-where-code-and-documentation-disagree)
7. [What is not modelled](#7-what-is-not-modelled)
8. [Plan](#8-plan)

## 1. The system

A cluster is a set of equal nodes. Each is one process with files on disk, two
LevelDBs (`ldb`: records by md5 and by md5 of the path; `logDB`: the entries
`<day>_files.md5_<md5>`, `queue.md5`, `errors.md5`, `removes.md5`), a map
`statMap` of counts per day, bounded channels, and goroutines that drain them.
A file uploaded at one node is announced to the others, which download it.

| component | state | operations | interacts with |
|---|---|---|---|
| Key locks (`goutil` CommonMap) | map of mutexes and "_lock_" flags | `LockKey`, `UnLockKey`, `IsLock` | small files, repairs, downloads, the cleaning jobs: all take a lock by key |
| Upload and local metadata | files, `ldb`, `logDB`, `queueFileLog` | `upload`, `SaveUploadFile`, `saveFileMd5Log`, `RemoveFile`, `CheckFileExist`, `ConsumerLog` | starts `postFileToPeer`, which writes `ldb` too |
| Small-file merging | haystack files | `SaveSmallFile`, `GetSmallFileByURI`, the small branch of `DownloadFromPeer` | key locks, downloads of peers |
| Replication and repair | `queueToPeers`, `queueFromPeers`, `Peers` in records, the md5 logs | `postFileToPeer`, `SyncFileInfo`, `ConsumerDownLoad`, `DownloadFromPeer`, `CheckFileAndSendToPeer`, `AutoRepair`, `Sync`, `ReceiveMd5s`, `LoadQueueSendToPeer` | HTTP between nodes |
| Upload queue | `queueUpload`, a `done` channel per request | `Upload`, `ConsumerUpload` | hands requests to upload workers |
| Queue limits | the five channels | `AppendToQueue`, `AppendToDownloadQueue`, `SaveFileMd5Log` | wait while a channel is nearly full |
| Download routing | none of its own | `Download`, `DownloadNotFound` | asks peers, queues downloads |
| Cleaning | files, `downloading_` entries, logs of past days | `RemoveDownloading`, `CleanEmptyFolders`, `CleanAndBackUp`, `CleanLogLevelDBByDate` | removes what uploads and downloads may be writing |
| Statistics | `statMap`, `stat.json` | `SaveStat`, `RepairStatByDate`, `FormatStatInfo`, `GetStat` | `saveFileMd5Log` counts, `AutoRepair` compares, the dashboard shows |
| Migration, file watching | `qchan` | `RepairFileInfoFromFile`, `WatchFilesChange` | queues files for replication |
| Configuration | the `Config()` pointer | `ParseConfig`, `initComponent`, `Reload` | read by everybody |
| Resumable uploads | tusd's store | `initTus` | upload's bookkeeping |
| Status, mail, HTTP surface, command line | none the store depends on | | |
| Web console: upload page | the queue, the file input, the rows of the table | choose, drop, preview, start, retry, delete, the handlers of the answers | `/file/upload/moreFileUpload` |
| Web console: file page | folder and rows shown, loaders, a dialog | `getParentFile`, `openDir`, delete | `/file/...`, answered from the cluster of the session |
| Web console: dashboard | `switchPeersId`, dialogs and loaders, a timer | switch the cluster, `repair_stat`, `remove_empty_dir`, `backup`, `repair`, `getStat` | `/main/...`, `/status` |

The web console is `src/static`: jQuery handlers on layui's upload component and
layer's dialogs. The server it posts to (`/file/...`, `/main/...`), which keeps the session's cluster
and forwards to go-fastdfs, is another repository; here it is the external part of the models.

What is hard here, and what the properties are about:

* **Interleaving.** `LockKey` waits outside the map's lock while `UnLockKey`
  deletes keys; `FileExists` and `os.Create`, lookup and delete, lookup and
  answer are separate steps; several goroutines overwrite one record.
* **Crashes.** Queues live in memory; the logs are written by `ConsumerLog`,
  later than the event they log. After a crash the disk, the databases and the
  queues disagree in every combination.
* **Messages.** A post can be refused, or taken with the answer lost; it is
  then repeated as a whole and in part; several passes hold lists of peers of
  their own and save them over each other.
* **Giving up.** Posts and downloads have retry limits; what is left are resends
  and repairs, which look at counts and at the lists of peers.
* **Limits.** Channels of fixed size whose writers wait for room.
* **Callbacks.** In the browser one thread runs one handler at a time, but clicks, file
  readers, timers and answers come in any order: an answer may meet a row that is not there
  yet or no more, a list that was replaced, a session switched to another cluster; a request
  that fails has, on two of the pages, no handler.

The correctness properties, by component:

* key locks: no fatal `Unlock`, mutual exclusion, every call returns;
* uploads: an answered upload stays readable and indexed until its deletion is
  asked for; no file that a record names disappears otherwise;
* small files: a URL's offset and length cover the content and nothing else,
  here and on the peer;
* replication: records tell the truth about their own node and about peers,
  the peer that is asked has the file, nobody is forgotten, every file reaches
  every node in the end;
* statistics: the count of a day is the number of its entries, but for the ways of drifting that the code has, and
  a restart keeps it;
* upload page: no chosen file is forgotten, the page says of a file what the server did;
* file page and dashboard: what is shown is what was asked for last, in the cluster of the
  session; a loader covers what runs and goes when it ended; only what was confirmed is
  deleted.

`PROJECT.json` lists the hazards with the line each of them bites at and the
properties that watch it.

## 2. Modules

    KeyLock ---------- KeyLockProofs
       \
        SmallFile ---- LockUsersProofs, MCSmallFile
        PeerDownload - LockUsersProofs, MCPeerDownload
    UploadStore ------ UploadStoreProofs, MCUploadStore
    FileCopies <------ Replication ------ ReplicationProofs, MCReplication
    SyncQueue -------- SyncQueueProofs
    Statistics ------- DashboardProofs, MCStatistics
    WebUpload -------- WebUploadProofs
    WebFiles --------- WebFilesProofs, MCWebFiles
    WebMain ---------- DashboardProofs

The `map` of `PROJECT.json` names the source lines of every definition. The
definitions commented "Mutated" are forms of an action with a plausible bug;
nothing refers to them but the sensitivity tests of the properties (each
property of each passing run is violated by one of them).

### KeyLock

`src/vendor/github.com/sjqzhang/goutil/goutil.go:72-117`. `slot[k]` is the
`*sync.Mutex` stored under a key, `flag[k]` the `_lock_` entry, `locked` the
locked mutexes, `pc/key/mtx` where a call is and which mutex it was given. The
map's own lock is held for all of `LockKey` but the wait and for all of
`UnLockKey`, so the actions are `LockNew`, `LockFound`, `Acquire` (the wait) and
`UnLockKey`. `UnLockKey` unlocks what the map holds *now* and deletes the key: this
is the component's whole difficulty. `handoff[k]` is history: an `UnLockKey(k)`
ran while another call waited for k. Mutexes are addresses; an address without
references can be allocated again (`Live`).

* `NoFatalUnlock`: the mutex in the map is locked and under one key only, so
  `Unlock()` never meets an unlocked mutex (a fatal error, not a panic).
* `ExclusiveUntilHandoff`: mutual exclusion, and `IsLock` exact, until the first
  handoff. After it neither holds.
* `StrandedForever`: a call whose mutex is locked and out of the map never gets it.
* `EveryCallReturns`: every `LockKey` returns unless it is stranded; nobody is passed
  over for ever.

### UploadStore

One node. A worker takes an upload through `ChoosePath` (the loop over existing
files, `http_upload.go:440`), `CreateFile`, `CopyFile`, `SumFile`, `Dedup`, then either
`Discard` (content known: own copy removed, answer with the recorded URL) or
`SaveLog`, `SaveMd5`, `SavePath` (the three writes of `saveFileMd5Log`). Beside it run
`RemoveFile`, `CheckFileExist`, `ConsumerLog` for `removes.md5` entries, the second
save by `postFileToPeer`, failures of create and copy, and crashes anywhere. One
action is one file, database or queue operation. `disk[p]` is a content, `Partial`
or `NoContent`; the md5 of a content is the content. `<<n, i>>` is the path of the
i-th renaming of name n.

History: `acked` (records whose URL was returned), `doomed` (md5s whose deletion was
requested), `orig` and `recorded` (first content chosen for, and paths ever stored
in, a record), `clash`: two uploads chose one path, or a record names another path
than was written. The safety properties hold while `~clash`; what happens with it
are findings of their own.

* `UndeletedReadable`, `UndeletedIndexed`: see section 1. `RemovedWereDoomed` (only files
  whose deletion was asked for disappear once recorded) is stated as a theorem.

### SmallFile

`KeyLock` extended by what happens inside the lock: `SaveSmallFile` opens a haystack,
seeks to the end, writes the flag byte, seeks again, copies the content chunk by
chunk; the URL carries offset and length. `Fail` and `Crash` leave fragments.
`Replicate` is the small branch of `DownloadFromPeer`: records arrive on another
node in any order (`WriteFileByOffSet`), leaving holes. A haystack is a sequence of
cells, a cell is a byte or chunk that knows whose it is.

* `ReadsBackUntilHandoff`, `DisjointUntilHandoff`: every finished upload reads back,
  no two share a cell, whatever fragments are between them.
* `CopyNeverWrong`: the copy serves the right content or "not found", never a hole.

### PeerDownload

`KeyLock` extended by the download of an ordinary file: what `Replication` takes as one step
(`DownloadFile`), operation by operation. A worker takes an entry of `queueFromPeers` (`Needless`: retries
used up, or a file of that size is there), makes the folder (`Begin`), takes the lock of the
target path (`Lock`, `Enter`), writes its `downloading_` entry (`PutMark`) and then runs `ToFile` on
`tmp_<name>`: `Answered`, `Create`, `Copy` chunk by chunk. A failure appends the entry to the
queue again before the temporary file is removed (`Breaks`, `CreateFails`, `Drop`). The size is
compared (`SizeRight`, `SizeWrong`), the file renamed (`Rename`) and reported (`Log`); the deferred calls are `Unmark` and
`Unlock`. `ErrorPage` is an answer that is not the file, whose status `ToFile` does not look at.

Beside it run `RemoveDownloading` (`ReadMarks`, `RemoveTarget`: it removes the *target* of every entry
older than ten minutes, `Age`) and the sweep of empty folders (`LookEmpty`, then `RemoveAll`). `Crash` leaves
files and `downloading_` entries (`orphans`). A file is the set of its chunks; a worker that writes to
a descriptor keeps it when the file is renamed, removed or replaced (`writes`). `Plain` are the paths without "_",
the only ones `RemoveDownloading` can split.

History: `dated` (paths with an entry that got old), `swept` (paths whose file was created between the look at
its folder and the removal), `left` (cut short by a crash).

* `WholeUntilHandoff`: only whole files stand under their name, through failures, sweeps and crashes,
  and no temporary file is left but by a crash, until two downloads share it.
* `LoggedStays`: a reported download stays, but for a handoff, an old entry of its path, or a start under the
  sweep. Each of the three is needed: without it TLC shows the loss.

### FileCopies

The abstract promise of replication: `copies[f]`, the nodes with a complete copy; a
copy appears by an upload or is taken from a node that has one, and stays.

### Replication

The nodes of a cluster with their disks, records, logs and queues.

| variable | code |
|---|---|
| `disk`, `ldb` | complete files; `FileInfo.Peers` of the record under the md5 |
| `filesLog`, `queueLog`, `errLog` | entries `files.md5`, `queue.md5`, `errors.md5` in `logDB` |
| `fileLogQ` | `queueFileLog`, bounded by `MaxLog` |
| `toPeers`, `fromPeers` | `queueToPeers`, `queueFromPeers` with what their workers hold, and direct `postFileToPeer` goroutines |
| `counted` | nodes with the day in `statMap` |

`postFileToPeer` is `PostSkip`, `PostKnown` (the peer answers the check with its
record), `PostOk` (the peer queues the download: `SyncFileInfo`), `PostFails`,
`PostUnanswered` (taken, answer lost) for each peer in turn; a failure queues the
FileInfo again with one more retry and logs an error. `DownloadFromPeer` is
`DownloadNeedless`, `DownloadFile` (temporary file renamed), `DownloadLogged`,
`DownloadFails`, `DownloadGivenUp`. `LogStep` is `ConsumerLog`. `Refresh` is the
resend of `errors.md5`; `AutoRepair` compares counts and exchanges md5 sets, or asks
for a forced sync when the node lacks the day; `ByHand` is `/repair?force=1` and
`/sync?force=1`. `Crash` loses queues and what goroutines hold; `Restart` loads
`queue.md5`.

A channel carries `FileInfo` by value, so retries and lists of peers are per entry;
200 workers take entries at once, so a queue with its workers is a set.

History: `uploaded`; `lost[n]`: downloads n gave up, or had in hand at a crash
without a `queue.md5` entry; `unsent[n]`: posts a crash of n may have lost.

* `RecordHasFile`: a record or `files.md5` entry implies the file.
* `PeersTruthful`: a peer named in a record has the file, is about to, or lost it.
  The record stops every later post to that peer, so this is what the safety of
  skipping rests on, and its last disjunct is exactly the loss that is never made
  up for.
* `SourceHasFile`: `ConsumerDownLoad` asks the first other peer only
  (`http_download.go:30`); that one has the file.
* `NoPeerForgotten`: passes overwrite each other's lists, yet a peer is recorded, is
  still being posted to, or `errors.md5` brings it back.
* `ImplementsCopies`: refinement of `FileCopies`.
* `ReachesAll`, `EventuallyRepaired`: liveness (section 4).

### SyncQueue

The channel between those who find files to replicate and the `SyncWorker`
goroutines, and the channel of `WatchFilesChange` in front of it. `Offer`, `Look`
(the polling loop of `AppendToQueue` ends) and `Put` (the send) are what everybody
does; `Take`, `PostDone`, `PostFails`, `Return` are a worker's pass, in which a failed
post calls `AppendToQueue` from the worker itself; `Event`, `TakeWatched`, `PutBack`
are the watcher, whose consumer puts files younger than `SyncDelay` back into the channel
that it alone drains. Entries are their retry counts: `Replication` has what they
carry, and leaves out these limits. `queueFromPeers` has the same loop in
`DownloadFromPeer`, at most once in a pass.

* `SendFindsRoom`: the tenth of the channel that the loop keeps free is enough for
  everybody between loop and send, if they are no more than that tenth.
* `JamForever`: `Jam` (every worker polls, more than nine tenths full) and `WatchJam` are
  final. With one failing peer and a repair that keeps the channel above nine tenths,
  a `Jam` is reached; nothing but a restart ends it.
* `AllDrained`: nothing else stops the queues (`QueueDrained` for the workers',
  `WatchDrained` for the watcher's).

### Statistics

`saveFileMd5Log` again, this time with the count: `Check` (is there a record?), `Add`,
`GetStatMap`, `OpenStat`, `WriteStat` (`SaveStat`: a copy of `statMap`, then `ioutil.WriteFile`,
which truncates and writes), `PutEntry`, `SaveRecord`, `PutEntry` again; and, for a deletion, `RemoveRecord`
and `RemoveEntry`. The entry is put twice because `SaveFileInfoToLevelDB` puts it for every record it saves in
`ldb` (`fileserver.go:626`). So there are two kinds of pass that save: `Upload` and `Downloaded` count; `PostFileToPeer`,
`SyncFileInfo` and `DownloadMigrated` (`OffSet` -2), `WatchFilesChange` and `RepairFileInfoFromFile` are a `SaveFileInfo` alone, record and
entry that nobody counts, on the day of their `TimeStamp`.

They are steps of upload workers and of `ConsumerLog`. `/delete` is `RemoveFile` (the FileInfo goes to `queueFileLog`), `Unlink`
(`os.Remove`) and `ConsumerLog` (the pass over `removes.md5`), in any order after the first. `Scan` and `PutCount` are `RepairStatByDate`, which counts what it
finds (`Found`): entries whose file is there, a path once (`PathOf` may be shared). `CheckFileExist` drops records
without file; `Restart` is a crash anywhere with `FormatStatInfo`. `stat.json` may be `Empty` (crashed
between truncation and write) or `Torn` (a longer text shows behind a shorter one).

The count does drift in this code, and the model says when. `drifted` collects the days on which two passes over one file
overlapped, a pass overlapped a repair of its day, record and entry had come apart when the record was looked up, an entry was put that
nobody counts, a repair missed entries (their file gone, as between `os.Remove` and `ConsumerLog`, or their path shared),
or a crash cut something short. A repair takes a day out again only if nothing is at work on it and it finds a file
of its own for each entry.

* `CountExact`: with nothing at work, the count of every other day is exactly the number of its `files.md5` entries.
* `SavedExact`: `stat.json` then says of every day what `statMap` says, unless the last saves overlapped or it was unreadable.
* `CardOfWindow`: the card of `Window` days is the sum of the last `Window` days, as its title says. It is not
  (section 6); what it is instead, and that the card of all files is the sum of all days, is the theorem about `CardsShowSums`.

### WebUpload

The upload page (`js/upload.js` on `plugins/layui/lay/modules/upload.js`). `files` is `o.files` and
`this.files`, one object: the queue; `chooseFiles` the last choice, `picked` the file input, `reading` the
`FileReader`s at work, `row[i]` the third and fifth cell of `tr#upload-i`. `Choose`, `Drop` (with `PushFile`),
`Start`, `Retry`, `Delete` are the user's handlers, `Preview` the reader's callback, `Done`, `Refused`,
`Error` the answers'. `Store`, `Refuse`, `Fail`, `StoreUnanswered` are the server and the network.

* `NothingForgotten`: a chosen file is queued until removed or acknowledged.
* `StoredAsTold`: what the page calls uploaded is stored, and stored twice only if sent again
  while on its way (start sends the whole queue each time) or if an answer was lost.
* `SendsOnlyOpen`: nothing is sent for a removed row or one that shows the link.
* `UploadMarked`: a row that waits while its file is on its way is marked in the end.

### WebFiles

The file page. `listings` and `deletes` are requests on their way, `list` what is shown, `loaders` and
`confirm` what covers it. A listing is covered by a loader, a deletion by nothing, so
deletions overlap listings and each other; `RowGoes` is the closure's row, which is detached
(`attached`) once the list was replaced. `Switch` is a switch on the dashboard meanwhile.

* `LastAskedShown`: answers cannot overtake each other, though nothing in `file.js` orders them:
  the loader does.
* `ShownIsCurrent`: what is shown is what the folder holds, but after a switch, a failed
  request or a list asked for while a deletion ran.
* `DeletedAsConfirmed`: what was deleted from a cluster was confirmed on a row of that
  cluster, or on one listed before a switch.
* `LoaderEnds`: a loader goes unless a request failed or `setPathSide` came before `element`.

### WebMain

The dashboard. `layers` is layer's stack of dialogs and loaders, `posts` the requests, `reload` the
timer of one second. `Select`, `ConfirmSwitch`, `Switched` switch the cluster, `ClickOp`, `ConfirmOp`, `OpAnswered` are the four
long operations. A reload (`Fresh`) drops the page's state, not what it has sent.

* `LoaderTellsRunning`: a running operation has its loader, there is one at a time, and a loader
  without operation is what a failed post left.
* `ShowsCluster`: the page shows the session's cluster or is about to be reloaded, unless the
  answer of a switch was lost or the page was reloaded before it.

## 3. Runs

Every passing run finishes in less than three minutes with two workers. `statistics_card` is expected to fail.

| run | instance | shows |
|---|---|---|
| `key_lock` | 3 goroutines, 2 keys, 5 addresses | the safety properties, and that only a stranded call never returns |
| `upload_store` | 2 workers, 1 deletion, 1 check, 2 contents, 1 name with 1 renaming, queue of 1 | what was answered survives everything else |
| `small_file` | 2 workers, 1 haystack of 9 cells, contents of 1 and 2 cells | offsets right past fragments; the copy never wrong |
| `replication` | 2 nodes, 1 file, a failed post, a broken download, a crash of either node | records truthful, refinement, the file arrives without AutoRepair but for named losses, AutoRepair makes up for what a crash kept from being posted |
| `replication_three` | 3 nodes, 1 failed post with resends and AutoRepair, or a repair by hand | no peer forgotten, the asked peer has the file |
| `sync_queue` | 2 workers, 1 feeder, channel of 5 with a reserve of 4, 2 peers, 1 retry, `qchan` of 2 | the reserve suffices; jams are final and the only way to stop |
| `peer_download` | 2 workers, 1 path, 2 chunks, 2 posts, 2 tries, 2 faults, a crash; reaper and sweep at any time | only whole files, nothing left over, reported files stay |
| `statistics` | 1 worker, `ConsumerLog`, 1 repair, 2 files, 2 days, 4 operations of which one may be a restart | counts exact but for the named drifts, `stat.json` but for overlapping saves |
| `statistics_card` | 1 file, 2 days, 2 operations, a window of 3 | violation: the card of 3 days leaves out a file of yesterday |
| `web_upload` | 2 indexes, 2 names, 2 uploads of each, a fault | all properties of `WebUpload` |
| `web_files` | 2 clusters, 2 folders, 2 files, 2 deletions at a time, a switch, a failure | all properties of `WebFiles` |
| `web_main` | 2 clusters, 2 operations (one that reloads), 2 switches, a failure | all properties of `WebMain` |

Why these bounds are enough, as far as they go:

* three goroutines are the least that lets one hold, one wait and one arrive after
  the handoff; five addresses let a freed one be reused;
* two workers make every pair of upload steps interleave, two contents tell a known
  from a new one, one renaming lets the loop go round; a queue of 1 is full at once;
  where there may be no clash, one name with two paths admits one acknowledged and one
  discarded copy at a time, and the proof removes the bound;
* nine cells hold three uploads, so a fragment lies between two complete ones;
* `RetryCount` 1 has the first try, the retry and the give-up; more only repeats
  the middle. Three nodes are needed where lists of peers differ (order, lost
  updates), two where only "the other node" matters;
* `FewPosts` (constants `MaxPosts`, `MaxWaiting`) bounds the posts in hand and the
  waiting log entries, `OneTrouble` allows a failed post or a repair by hand, not both, and with the repair one post of a
  node at a time; they are state constraints of `replication_three` only, where they can
  hide a state but not make a false alarm. `replication`, the run with liveness, has no constraint;
  its fault bounds make it finite;
* one file per run of `Replication`: files interact only through the counts AutoRepair
  compares (section 6), and the proofs have any number of files;
* `replication_three` has one repair by hand at one node (forced syncs of each of three nodes are
  beyond TLC); `SourcesHaveFiles` and `PeersRemembered` have any number;
* `peer_download`: two workers for one path, whose posts and retries are up to four entries, make the handoff and
  what comes after it happen; two chunks tell a partial file from a whole one and a hole from both. Paths meet only in
  their folder, where one file more would only keep it from being empty. Workers and mutexes are
  alike (symmetry), two mutexes always leave a free one;
* in `sync_queue` the reserve is as large as the number of goroutines, so one place less
  would break `SendFindsRoom`, and channels are small enough to jam;
* `statistics`: a worker, `ConsumerLog` and a repair are one of each kind of goroutine that counts;
  four operations hold a save, a removal, a save again and a repair, or an entry nobody counts with the repair after it; a restart takes the place of one
  (`FewTroubles`). The files are alike (symmetry) and have paths of their own: shared paths are in the proof only. `statistics_card`: two days
  give three rows, which a window of 3 does not fit;
* `web_upload`: two indexes of one name or of two make every pair of files, twice the same file
  included; two uploads of each are the least for a second one on the way or after a lost answer. The proof
  has no bounds;
* `web_files`: two deletions at a time and two files, so that one refers to a row that is
  gone; one switch and one failure, after which the conditions of the properties have been
  met and only repeat. `web_main`: the second switch may meet the answer or the reload of the first.

Bounds of the models: `MaxFeed`, `MaxEvents`, `MaxDup`, `MaxLog`, `MaxCells`, `MaxPostFaults`,
`MaxDownloadFaults`, `MaxCrashes`, `MaxRepairs`, `CrashNodes`, `MaxDay`, `MaxOps`, `MaxTries`, `MaxFaults`,
`MaxSwitches`, `MaxPosts`, `MaxWaiting`, `MaxDeletes`, `MaxBroken`, `MaxAsking`, and the constraints `FewPosts`, `OneTrouble` and `FewTroubles`. `CHECK_DEADLOCK FALSE` is everywhere: a node without
requests, or a page without a user, stands still.

## 4. Fairness

* `KeyLock!FairSpec`: a mutex that stays free is handed to its waiter (`sync.Mutex`
  has a starvation mode) and every holder unlocks, as `UnLockKey` is deferred at all
  call sites of `src/server`.
* `Replication!FairSpec`: the workers of a queue take every entry (weak fairness per
  file and peer on `Send`, per file on `Receive`: loops over channels with as many
  workers as entries in the instance), `ConsumerLog` never stops, `Start`'s loop
  resends `errors.md5` every `RefreshInterval`, and a dead node is started again (the service
  manager's job). Nothing is assumed of faults; their number is bounded by the constants, which is the assumption that the network
  recovers. `EventuallyRepaired` has one premise more, `HourlyRepair`: `AutoRepair` runs every hour. `ReachesAll` does without it.
* `SyncQueue!FairSpec`: goroutines run and posts end (they have timeouts); time passes
  for a watched file also while it goes round (strong fairness of `Ripen`). No fairness
  between pollers: feeders and events are bounded, so they cannot keep others out for ever.
* `WebUpload!FairSpec`: a request ends, by an answer or an error, and the browser calls its handler.
  Nothing is assumed of the user or of file readers.
* `WebFiles!FairSpec`: a listing is answered, or fails, and its handler is called. `WebMain` and
  `Statistics` state no fairness: what they promise is safety.

## 5. Proofs

| theorem | module | statement |
|---|---|---|
| `TypeCorrect`, `SmallTypeCorrect`, `FetchTypeCorrect`, `StatTypeCorrect` | all | types, and that channels and haystacks hold no more than their size |
| `UnlockIsSafe`, `ExclusionUntilHandoff`, `StrandedIsForever`, `WaitsAreForSomeone` | KeyLockProofs | the safety properties of the key lock, what a waiting call waits for |
| `AckedFilesSurvive`, `AckedFilesIndexed`, `OnlyDoomedFilesRemoved` | UploadStoreProofs | the safety properties of the upload path |
| `ReadsBack`, `Disjoint`, `CopyServesRight` | LockUsersProofs | the safety properties of small files, under the lock as it is |
| `WholeOnDisk`, `LoggedIsKept` | LockUsersProofs | only whole files get their name; how a reported download can be lost |
| `RecordsHaveFiles`, `PeersAreTruthful`, `SourcesHaveFiles`, `PeersRemembered`, `CopiesOfCopies` | ReplicationProofs | records, lists of peers, the asked peer, the peers still to be told; refinement of `FileCopies` |
| `FullRecords`, `FilesOwned`, `QuietMeansReplicated`, `QuietMeansEverywhere` | ReplicationProofs | replication does not stop half-way |
| `SendsFindRoom`, `JamsAreForever`, `JamsAreTheOnlyStops` | SyncQueueProofs | the reserve of `AppendToQueue`, jams |
| `NoFileForgotten`, `PageTellsTheTruth`, `OnlyOpenFilesSent`, `LastAnswerMarks` | WebUploadProofs | the queue, what rows say, what is sent |
| `LastAskedIsShown`, `ShownIsWhatIs`, `DeletionsConfirmed`, `LoadersAreOwed` | WebFilesProofs | what the file page shows and deletes, its loader |
| `ShownIsTheSession`, `LoadersTell` | DashboardProofs | the cluster the dashboard shows, its loaders and operations |
| `CountsAreExact`, `SavedIsExact` | DashboardProofs | when the count of a day is the number of its entries; when `stat.json` says so too |
| `CardsAreSums` | DashboardProofs | what the cards show of the counts, for any number of days |

They hold for all values of the constants under the named assumptions in the
modules (`NoMutexAssumption`, `NoKeyAssumption`, `ConstantsAssumption`,
`ReplicationAssumption`, `ProcsAssumption`, `SizesAssumption`,
`SizeAssumption`, `PeerDownloadAssumption`, `StatisticsAssumption`, `WebUploadAssumption`, `WebFilesAssumption`, `WebMainAssumption`: capacities and bounds are naturals, the special values
are no members of the sets they stand beside, the goroutines of a queue and the nodes of a cluster are finitely many).
`JamsAreTheOnlyStops` alone has hypotheses of its own: there is a worker (`SyncWorker` is 200 by default), and no more goroutines
than the reserve has places, without which a full channel of senders is a third way to stand still (`SendFindsRoom` fails first).

**KeyLock.** `IInv` adds to the types: flag and mutex of a key come and go together
(`FlagIsSlot`); a call has a key and a mutex while it lasts (`CallState`);
`NoFatalUnlock` itself; and, before a handoff, every call of a key is on the mutex in
the map and one of them holds it (`OneMutexUntilHandoff`). The last is what
exclusion follows from and what the first handoff destroys: `Acquire` can only
succeed after it.
`WaitsAreForSomeone` adds that a mutex in the map always belongs to a call in progress. Such a call is never held up, so there
are no chains of waiting calls: what a waiter waits for is free, is unlocked by somebody's `UnLockKey`, or is
lost, and lost only after a handoff.

**UploadStore.** `IInv` is types, `BusyState` (what a worker or request has computed
by each point) and, while there is no clash, `Good`: an upload owns the path it chose
until its record is stored (`OwnPath`, `OwnersDiffer`, `OwnContent`); every record
anybody holds, in the databases, in hand or in a post, was stored once and
matches its path (`KnownRecords`); deletions in progress are of doomed contents
(`OnlyDoomed`: a check deletes only records whose file is gone, hence doomed); recorded
files of other contents are there (`RecordedKept`).

**SmallFile.** `SInv` is the lock's own `IInv`, which every action keeps by the lemmas of
`KeyLockProofs`, and, for a haystack without handoff: its one writer is at the end, behind all
records, with the flag and the cells copied so far in place (`WriterOK`); every record covers the flag
and its content (`RecordInv`); no two records share a cell. So a write is an append (`WriteKeeps`) and disturbs
nothing. For the copy, `CopyInv`: a cell that is no hole lies in a record, and a flag at the start of a record has
the record's content behind it; hence the place of a new record is still a hole there, and a copied record,
disjoint from the others, breaks none.
The bound on cells needs no lock: `RoomInv` keeps, for each haystack, its cells plus what its callers may still write (`ToCome`, a
set with one element for each cell, so that its size is a sum) within `MaxCells`. `Start` looks whether everybody's largest
upload would fit, a write takes one element out, and whoever leaves takes the rest of his along.

**PeerDownload.** `FInv` is again the lock's `IInv` and, for a path without handoff, what its temporary file is to the
worker that holds the path (`HolderOK`): while it copies, the chunks it copied, unless its descriptor's file is gone; afterwards whole or
absent, and absent without a holder unless a crash left it (`WholeInv`). Hence what `Rename` moves is whole. `FilesOK`: a descriptor's file
is there, and in a folder that is there. The two jobs that remove files are tied to the history: what
`RemoveDownloading` is about to remove had an entry that got old (`ReapInv`), and what the sweep takes with a folder was created after the look at
it (`LookInv`); with these `LoggedInv` is inductive. No step of the lock itself is proved again.

**Replication.** First `TInv`: types, and that nobody posts to itself, without which a
step could put two entries into one queue past its limit. Then `IInv`: *every list of
peers anywhere* - records, `queue.md5`, `queueFileLog`, posts, downloads - is not empty,
begins with a node that has the file, and names only nodes that are `Served` (have it,
are getting it, or lost it). A step's argument has two halves: `Stays` (no step takes
a file, or the prospect of one, from a node) keeps old lists right, `NewNamed` shows
the lists it adds are right. `PeersTruthful` is the part about records;
`SourceHasFile` follows from the first entry: if it is the node itself, the file is
there, otherwise it is the source. `CopiesOfCopies` needs `OnDiskUploaded` for the
upload and the guard of `DownloadFile` for the rest (`DiskStep`).
`PeersRemembered` needs more, as posts overwrite each other's records: `NInv` adds that every post *in hand* is `Covered`:
each peer is in its list, still to be posted to, or kept by `errors.md5`. So the list a post saves lacks only peers that it is
going to post to itself or that the resend brings back, whichever of two posts saves last; and a node never
takes the list of a file it fetched for one of its own (`FetchedFromOther`), and is not overtaken by posts of its former life (`DownPostsNothing`).

What remains of `ReachesAll` and `EventuallyRepaired` without fairness is that the system does not come to rest too early, and that is proved.
A node *owns* a file (`Owns`) when its record of it begins with itself and nothing in hand begins otherwise: the uploader does (`UploadOwns`), and
for ever (`OwnsStays`: what it posts begins as the post or record before it, `PostsBegin`; it downloads no file it has). So `RecordsKeep` holds of
a record of every uploaded file. When nothing of the file is under way (`Quiet`), what that record lacks can only be in `errors.md5`,
and the resend skips it only when the record is longer than the list of peers. Since lists name nobody twice (`Once`), such a record names
all nodes (`FullRecords`, by counting: an injection between sets of one size is onto), and who is named is `Served`. `NothingLost` counts: before the
first crash no entry is tried again more often than downloads broke in all, so fewer breaks than `RetryCount` give nothing up.

**SyncQueue.** `RoomLeft`: entries plus goroutines in the send are at most nine tenths of
the size plus the number of goroutines. `Look` establishes it afresh (everybody might be
sending), `Put` moves one from the second term to the first, `Take` lowers the sum.
`SendsFindRoom` follows by counting the sender itself. `JamsAreTheOnlyStops` is a statement about the guards (`CanAppend`, `CanWork`, `CanWatch`,
which spell out when the actions are enabled): below nine tenths every append goes on; above, a worker that does not append
works, takes an entry, or sends into room that `SendsFindRoom` leaves it.

**WebUpload.** `IInv` is the types and, for each index, `PageInv` and `NetInv`. `PageInv` relates queue,
readers and rows: nothing refers to an index not handed out; a chosen one is queued, removed or acknowledged; one
that is removed, acknowledged or shows the link is not queued; a reader at work has no row yet.
`NetInv`: an answer "ok" on its way, and every success the page shows, stands for a stored copy; and
`OnceInv`, for an index that was never sent beside itself and lost no answer: at most one request
or answer is on its way, and what is stored was, or is about to be, acknowledged. That last part is what makes
"stored twice only if" inductive. `SendsOnlyOpen` follows from `PageInv`: `Start` sends the queue, `Retry` needs its button.
`LastAnswerMarks` takes each step: only a handler takes an answer away, and it marks the row that is there.

**WebFiles.** `OneListing`: the loader keeps one listing on its way and no dialog beside it, which is what
rules out answers in the wrong order. `EpochInv` dates lists and confirmations: what was seen in the present epoch is of the
session's present cluster. `CurrentInv`: a list asked for with no deletion on its way is still alone when it arrives,
so all deletions beside the page's list are of its own rows, and the rows less those the server has deleted already (`Gone`)
are what the folder holds. The request number of a deletion is free by counting.

**WebMain.** `ShowsCluster` is nearly inductive: a switch the server makes is either told (an answer on its way) or `missed`,
a told one ends in a reload or as `missed`, and a page that starts anew shows the session's cluster. Added is only that
posts are complete records. `LoadersTell` rests on `DInv`: numbers of dialogs are unique (a new number is free by counting); only the first
layer can be a question or a loader, since a dialog in front of it hides the buttons (`Stacked`: what opens later is the
list of clusters, asked for before); the answer of a switch closes a dialog of that kind only; and running operations and
loaders belong to each other one by one, or a post failed (`Covered`).

**Statistics.** Between two idle moments the count is *not* the number of entries, so `SInv` says what it counts: the files
with an entry, with those whose pass is past the count and before the entry, without those whose removal is
(`Counted`). That is inductive on a day that has not drifted, on which passes are over different files and a repair is alone
(`Apart`): so a file to be counted has no entry, one to be discounted has, a pass about to save its record finds the entry there, so
that what `SaveFileInfoToLevelDB` puts again changes nothing, and a repair has in hand the number of the entries (`Placed`). That number
is what it *found*: `Scan` starts a day afresh only if it found a file for each entry. A pass that nobody counts starts
on a day that has not drifted only where its entry is already. With nothing at work `Counted` is the set of entries. For `stat.json`, `SaveInv`: unless calls of
`SaveStat` overlapped there is one at most; what it carries, or else the file, says what `statMap` does, but for a change whose own save is
still to come.

`CardsAreSums` is about loops: `GetStat`'s over the days, the dashboard's over the rows. Each is a recursive function, and
TLA+ says of one only that it is chosen among those with its equation, if there are any. `Recursion` shows that there are,
`RunsIfSteps` that the chosen one takes its values step by step. Induction itself is in
the form of a smallest number outside a set (`NatSet`, from the library's `WFMin`, which needs no operator as parameter). Then, day
by day: the rows are one for each day with a count (`LoopRows`), their total is the sum so far (`AllTotalIsCount`), and the row of a day is
among the last `Window - 1` exactly when fewer than `Window - 2` days with a count follow (`DayTotalIsCount`).

The type invariants of `KeyLock`, `WebUpload`, `WebFiles` and `Statistics` are proved and not run again (that of `KeyLock`
is part of `SmallTypeOK` and `FetchTypeOK`), and `CardsShowSums` is only proved.

Only model-checked: liveness (`EveryCallReturns`, `ReachesAll`, `EventuallyRepaired`, `AllDrained`,
`UploadMarked`, `LoaderEnds`), because the prover has no rules for fairness and `ENABLED`. Every other property of every passing run is a theorem.
Beside each of these stands a theorem: as long as the thing waited for has not come, something is still under way that brings it, or it was lost in one of the
ways the property names (`WaitsAreForSomeone`, `QuietMeansEverywhere`, `QuietMeansReplicated`, `JamsAreTheOnlyStops`, `LastAnswerMarks`,
`LoadersAreOwed`). What TLC adds is that fair steps do come to an end; and, for
`EventuallyRepaired`, that `AutoRepair` brings what a node died too early to post (`unsent` in `Replicated`).

## 6. Where code and documentation disagree

They follow from the models and are stated here. The card of 30 days is a run of its own (`statistics_card`); the others are
conditions of properties that hold.

* *A record that outlives its file.* `postFileToPeer` saves a record again after `/delete` removed it
  (`fileserver.go:448`; `http_info.go:57` has "when file delete,delete from leveldb"). The next upload of that content
  finds the record (`http_upload.go:289`), loses its own copy and is answered with a file that does not exist: hence `doomed` in the
  properties of `UploadStore`.
* *Uploads of one name.* Two uploads in one minute can choose one path
  (`http_upload.go:440` and 450), one truncates the other's file; `UploadStore` has it as `clash`. When a file named
  like the form field `filename` exists, the loop renames `Name` but not `ReName`, so record and
  answer name the file that was there before (`http_upload.go:442`).
* *A stranded upload.* After an `UnLockKey` with a waiting call, a third upload into the haystack makes
  a mutex of its own, and one worker waits for ever (`StrandedForever`), though
  `fileserver.go:1012` says that the waiting client is told in any case. After the same handoff two
  uploads can append to one haystack at once, and one reads back wrong, which is why the
  properties of `SmallFile` end at the handoff.
* *A download given up.* A peer counts as having a file once it queued the download; after it
  gave up no repair reaches it, since every later post skips it (`fileserver.go:391`; `README-en.md:351` has the
  cluster repair itself every hour). `PeersTruthful`, `ReachesAll` and
  `EventuallyRepaired` have the case as `lost`.
* *Old marks.* `RemoveDownloading` removes the finished target instead of the temporary file and never deletes the
  entry it acts on (`http_remove.go:25`). So the entry of a download that a crash cut short takes the file away every three
  minutes, also when a later download completed and reported it, and a download of more than ten minutes can be taken
  away the moment it is renamed. Only paths without "_", and without `DOCKER_DIR`, are met.
* *Empty folders.* The sweep removes a folder in two steps (`http_upload.go:157`), with what was created in it
  meanwhile. A download whose folder goes before its `os.Create` is tried again; one whose folder goes after it finds
  no temporary file at `os.Stat` and is given up without a retry (`http_download.go:180`), or, already renamed and
  reported, is lost.
* *Jams.* `AppendToQueue` called by the workers can stop them for ever (`JamForever`).
* *Equal counts.* `EventuallyRepaired` is about one file: two nodes that miss one file each
  have equal counts, which AutoRepair takes for no difference (`http_repair.go:212`).
* *Counts that drift.* A comment in AutoRepair takes counts that differ for entries that differ (`http_repair.go:213`). But every record that
  `SaveFileInfoToLevelDB` saves puts an entry (`fileserver.go:626`) that only `saveFileMd5Log` counts; and
  `/repair_stat` between the `os.Remove` of a deletion and its `ConsumerLog` leaves the file out
  (`http_repair.go:142`), after which `ConsumerLog` discounts it once more. `Statistics!drifted` has these and the other ways.
* *The card of 30 days.* `dashbord.html:39` calls it "文件总数(30天)"; `i > j` with `j = length - 30` (`js/main.js:127-135`)
  leaves out one row and the row "all" takes the place of another: 28 days. Days without a count have no row. `statistics_card` shows it
  with 3 days for 30: a file of yesterday is left out today.
* *A row that waits for ever.* When the answer comes before the `FileReader` is done (`js/upload.js:47`), the row is
  appended afterwards as "waiting", its file no longer in the queue: hence the condition of `UploadMarked`.
* *The cluster selected before.* `switchPeersId` outlives a cancelled dialog: the next dialog shows
  nothing selected and its button switches to the old choice (`js/main.js:41`).

## 7. What is not modelled

* **In the modelled components.** Fast upload by md5 (it only reads), `CheckFilesExist`,
  migrated files (`OffSet` -2), `EnableDistinctFile` off in `Replication` (it is a constant
  of `UploadStore`), read-only nodes, a change of day, the sharing of the array behind
  `Peers` between copies of a `FileInfo` (lists are values here), `ParseSmallFile`'s
  parsing. In `Replication` the count of a day is the number of `files.md5` entries; how it drifts is in
  `Statistics`. `PostSaved` and `PostFailed` of `UploadStore` are one save, where `postFileToPeer` may save once for each
  peer; `PostFails` of `Replication` does not tell a failed request from an answer that is no URL (`fileserver.go:441`), which the code logs in
  `errors.md5` too but does not try again at once.
* **In `Statistics`.** Sizes, which follow the counts; uploads through tusd; the time an entry waits in `queueFileLog` before
  `ConsumerLog` takes it up for `files.md5`; the record under the md5 of the path. Files merged into a haystack: see the plain slips.
* **In `PeerDownload`.** Migrated files and `EnableDistinctFile` off; two entries of one path and one second, which share
  their key in `ldb` after a handoff; an error page that has the right size; a removal of a folder that is itself interleaved; uploads into the folder that is swept.
* **Deletion in the cluster** (`RemoveFile` passes it on): files stay in `Replication`, so
  "the source does not have it" is no case there; proved as `SourcesHaveFiles`.
* **Components without a module yet**: section 8. Without a module for good: cluster
  status and mail, routing, CORS, authorisation, image resizing, the
  backup of metadata and the command line, which change no state the store's
  properties depend on.
* **The web console.** Progress bars, the form for browsers without `FileReader`, the chart and disk figures of the
  dashboard, details and downloads of the file page, and the table of icons in `js/kit.js` keep no
  state. Another tab of the session that switches its cluster, and uploads by others into the folder the file page shows, are left
  out: `ShowsCluster` and `ShownIsCurrent` are about a user with one tab and a folder only he changes. `layer.msg` also closes an open confirm dialog,
  which is a cancel to the models. jQuery, layer, echarts and the rest of `plugins` are third-party code. The server behind `/file` and
  `/main` is external.
* **Plain slips**, which one request shows and no interleaving is needed for: `CleanLogLevelDBByDate` collects values
  instead of keys and removes nothing (`fileserver.go:1040`), `CheckFilesExist` removes the key of
  the whole request (`http_info.go:130`), the folder of a resumable upload's record (`init.go:201`), `RepairStatByDate` looks for a
  merged small file under its `ReName`, which carries offset and length (`fileserver.go:190`), and never finds it.

## 8. Plan

Done: the core, the steps of a download with the jobs that clean up after it, the statistics, the web console. Next, in this order:

1. `Removal`: deletion passed on to peers over `Replication`'s state, which makes the
   missing source a case; tombstones do not exist, so what a late post brings back.
2. The sweep of empty folders over `UploadStore` too, and `DayChange` (`CleanAndBackUp`, `CleanLogLevelDBByDate`).
3. `DownloadRoute` (`DownloadNotFound` among peers), `ConfigReload`.
4. Pure operators: `ParseSmallFile` and its bounds, `CheckFilesExist`,
   `GetFilePathByInfo`, against reference definitions.
5. `ResumableUpload` and the queue in front of the upload workers.

Theorems to come: type and safety theorems of the modules above.
